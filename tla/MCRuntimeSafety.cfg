\* Two calls race for two tokens across restarts.
SPECIFICATION Spec
CONSTANTS
    c1 = c1
    c2 = c2
    c3 = c3
    j1 = j1
    j2 = j2
    t1 = t1
    t2 = t2
    a1 = a1
    a2 = a2
    NoInput = NoInput
    NoDecision = NoDecision
    Calls = {c1, c2}
    Jtis = {j1, j2}
    Tokens = {t1, t2}
    Artifacts = {a1, a2}
    TokenExpiry <- MCTokenExpiry
    Inputs <- MCInputs
    MaxTime = 2
    Grace = 1
SYMMETRY Symmetry
INVARIANTS
    TypeOK
    DecisionAuthorizesOnce
    ActsOnlyAuthorized
    ExternalIsReported
    EnforcedProvenance
    LedgerIsTrue
CHECK_DEADLOCK FALSE
