\* A sync that fails after its checkout.
SPECIFICATION ServicesSpec
CHECK_DEADLOCK FALSE
CONSTANTS
    p1 = p1 p2 = p2 f1 = f1 f2 = f2 v1 = v1 v2 = v2 t1 = t1 t2 = t2
    a1 = a1 a2 = a2 e1 = e1 e2 = e2
    Syncers = {p1} Tags = {v1, v2} Skills = {f1, f2}
    Texts = {t1, t2} NoText = NoText UserText = UserText NoTag = NoTag
    Tree <- MCTree
    MaxSyncs = 3 MaxUserEdits = 0 MaxStops = 1
    Pins = {v1, v2} NoPin = NoPin MaxPinMoves = 1 MaxSyncFaults = 1 MaxPeriodicOps = 2
    Keys = {a1} MaxAttempts = 2 RetryMax = 2 MaxEvents = 2 MaxCancels = 2
    Artifacts = {a1, a2} Damaged = Damaged ChunkCount = 2 MaxParts = 2
    Exports = {e1, e2} Files = {a1, a2} NoOne = NoOne MaxWrites = 1
INVARIANT
    CopiesWhatWasAsked
