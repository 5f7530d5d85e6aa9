\* A pin that moves while the sync at startup and one of the ticks overlap.
SPECIFICATION ServicesSpec
CHECK_DEADLOCK FALSE
CONSTANTS
    p1 = p1 p2 = p2 f1 = f1 f2 = f2 v1 = v1 v2 = v2 t1 = t1 t2 = t2
    a1 = a1 a2 = a2 e1 = e1 e2 = e2
    Syncers = {p1} Tags = {v1, v2} Skills = {f1, f2}
    Texts = {t1, t2} NoText = NoText UserText = UserText NoTag = NoTag
    Tree <- MCTree
    MaxSyncs = 1 MaxUserEdits = 0 MaxStops = 0
    Pins = {v1, v2} NoPin = NoPin MaxPinMoves = 1 MaxSyncFaults = 0 MaxPeriodicOps = 2
    Keys = {a1} MaxAttempts = 1 RetryMax = 1 MaxEvents = 1 MaxCancels = 1
    Artifacts = {a1} Damaged = Damaged ChunkCount = 1 MaxParts = 1
    Exports = {e1} Files = {a1} NoOne = NoOne MaxWrites = 1
PROPERTY
    PinsPropagate
