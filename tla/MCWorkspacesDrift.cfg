\* A drift signal that is surfaced, against the event names of host and pages.
SPECIFICATION WorkspacesSpec
CHECK_DEADLOCK FALSE
CONSTANTS
    s1 = s1 n1 = n1 m1 = m1 k1 = k1 k2 = k2 k3 = k3
    Sess = {s1} MaxTries = 2 MaxRows = 2 MaxSessionStops = 1 MaxUserOps = 2
    PRs = {n1} NoPR = NoPR GhStatuses = {"building", "ready"}
    MaxEnvRows = 2 MaxPushes = 1 MaxDeploySteps = 2 MaxGhFaults = 1
    Repos = {m1} MaxSites = 2 MaxSiteOps = 4 MaxSiteFaults = 1
    Servers = {n1} MaxSpawns = 3 MaxServerOps = 4 MaxRequests = 1
    MaxLogins = 2
    Fields = {k1, k2} OtherKeys = {k3} Verifiable = {k1} ReadyKeys = {k1} MaxSaves = 2 MaxStarts = 2
    Branches = {s1} Paths = {k1, k2} DirOf <- MCDirOf TopicOf <- MCTopicOf Other = Other
    Blanks = {{"before", "after"}}
    DirThreshold = 2 TopicThreshold = 2 ElapsedThreshold = 1 MaxTicks = 2
PROPERTY
    DriftIsShown
