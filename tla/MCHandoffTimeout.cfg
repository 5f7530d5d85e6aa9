\* The stated timeout behaviour, against uploads that were aborted.
SPECIFICATION FairSpec
CONSTANTS
    c1 = c1
    s1 = s1
    a1 = a1
    a2 = a2
    NoSession = NoSession
    Calls = {c1}
    Sessions = {s1}
    Artifacts = {a1, a2}
    Timeout = 1
    TokenBuffer = 1
    TokenLives <- MCTokenLives
    MaxTime = 2
PROPERTIES
    TimeoutEndsCall
CHECK_DEADLOCK FALSE
