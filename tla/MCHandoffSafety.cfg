\* Two concurrent calls, for one session or for two, each with two artifacts.
SPECIFICATION Spec
CONSTANTS
    c1 = c1
    c2 = c2
    s1 = s1
    s2 = s2
    a1 = a1
    a2 = a2
    NoSession = NoSession
    Calls = {c1, c2}
    Sessions = {s1, s2}
    Artifacts = {a1, a2}
    Timeout = 2
    TokenBuffer = 2
    TokenLives <- MCTokenLives
    MaxTime = 3
SYMMETRY Symmetry
INVARIANTS
    TokenOutlivesCall
    TypeOK
    OneHandoffPerSession
    NothingLeavesUnlessAllowed
    CloudSessionIsWhole
    AbortStopsTransfers
    RetryIsSafe
PROPERTIES
    AbortedSendsNothing
    ImplementsContract
CHECK_DEADLOCK FALSE
