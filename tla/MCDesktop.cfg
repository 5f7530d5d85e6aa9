SPECIFICATION Spec
CHECK_DEADLOCK FALSE
CONSTANTS
    p1 = p1 p2 = p2 f1 = f1 f2 = f2 v1 = v1 v2 = v2 t1 = t1 t2 = t2
    a1 = a1 a2 = a2 e1 = e1 e2 = e2
    Syncers = {p1, p2} Tags = {v1, v2} Skills = {f1, f2}
    Texts = {t1, t2} NoText = NoText UserText = UserText NoTag = NoTag
    Tree <- MCTree
    MaxSyncs = 2 MaxUserEdits = 1 MaxStops = 1
    Pins = {v1, v2} NoPin = NoPin MaxPinMoves = 1 MaxSyncFaults = 1 MaxPeriodicOps = 2
    Keys = {a1} MaxAttempts = 2 RetryMax = 2 MaxEvents = 2 MaxCancels = 2
    Artifacts = {a1, a2} Damaged = Damaged ChunkCount = 2 MaxParts = 2
    Exports = {e1, e2} Files = {a1, a2} NoOne = NoOne MaxWrites = 1
    s1 = s1 n1 = n1 m1 = m1 k1 = k1 k2 = k2 k3 = k3
    Sess = {s1} MaxTries = 2 MaxRows = 2 MaxSessionStops = 1 MaxUserOps = 2
    PRs = {n1} NoPR = NoPR GhStatuses = {"building", "ready"}
    MaxEnvRows = 2 MaxPushes = 1 MaxDeploySteps = 2 MaxGhFaults = 1
    Repos = {m1} MaxSites = 2 MaxSiteOps = 4 MaxSiteFaults = 1
    Servers = {n1} MaxSpawns = 3 MaxServerOps = 4 MaxRequests = 1
    MaxLogins = 2
    Fields = {k1, k2} OtherKeys = {k3} Verifiable = {k1} ReadyKeys = {k1} MaxSaves = 2 MaxStarts = 2
    Blanks = {{"before", "after"}}
    Branches = {s1} Paths = {k1, k2} DirOf <- MCDirOf TopicOf <- MCTopicOf Other = Other
    DirThreshold = 2 TopicThreshold = 2 ElapsedThreshold = 1 MaxTicks = 2
INVARIANTS
    ServicesTypeOK
    InstalledAsOneVersion
    LockIsHeld
    RefreshesBounded
    AcceptedIsSent
    ExportIsScanned
    WorkspacesTypeOK
    OneBranchPerSession
    PrsAreLinked
    StatusIsTrue
    ServersAreTracked
    SavedIsUsed
PROPERTIES
    EditsAreSaved
    PinsPropagateAlone
    EventsGoOut
    WorkIsTracked
    StatusShown
    CallsEnd
    LoginsEnd
