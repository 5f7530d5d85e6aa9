\* A verifier that fails after the policy service has denied.
SPECIFICATION Spec
CONSTANTS
    c1 = c1
    c2 = c2
    c3 = c3
    j1 = j1
    j2 = j2
    t1 = t1
    t2 = t2
    a1 = a1
    a2 = a2
    NoInput = NoInput
    NoDecision = NoDecision
    Calls = {c1, c2}
    Jtis = {j1, j2}
    Tokens = {t1, t2}
    Artifacts = {a1}
    TokenExpiry <- MCTokenExpiry
    Inputs <- MCTokenInputs
    MaxTime = 2
    Grace = 1
INVARIANTS
    DenialBlocks
CHECK_DEADLOCK FALSE
