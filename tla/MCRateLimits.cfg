CONSTANTS
    u1 = u1
    u2 = u2
    i1 = i1
    f1 = f1
    Requests = {r1, r2, r3, r4}
    UserKeys <- MCUserKeys
    IPKeys <- MCIPKeys
    FPKeys <- MCFPKeys
    Count <- MCCount
    Window = 2
    MaxTime = 6
    NoKey = NoKey
SPECIFICATION Spec
CHECK_DEADLOCK FALSE
SYMMETRY Symmetry
INVARIANTS
    TypeOK
    WindowBound
    RefusedOnlyWhenFull
    RetryAfterExact
