\* Two calls for one session; uploads may stall, requests are answered.
SPECIFICATION FairSpec
CONSTANTS
    c1 = c1
    c2 = c2
    s1 = s1
    a1 = a1
    a2 = a2
    NoSession = NoSession
    Calls = {c1, c2}
    Sessions = {s1}
    Artifacts = {a1, a2}
    Timeout = 1
    TokenBuffer = 1
    TokenLives <- MCTokenLives
    MaxTime = 2
PROPERTIES
    SettlesUnlessStranded
CHECK_DEADLOCK FALSE
