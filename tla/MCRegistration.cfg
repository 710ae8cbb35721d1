CONSTANTS
    Codes = {c1, c2}
    Names = {n1, n2}
    Handlers = {h1, h2}
    Staff = {a1, a2}
    Expiries = {1}
    MaxTime = 2
    None = None
SPECIFICATION Spec
SYMMETRY Symmetry
INVARIANTS
    TypeOK
    OneUserPerCode
    LostOnlyToOverlap
    CommitIsValid
PROPERTY
    ImplementsLedger
