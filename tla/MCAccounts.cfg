CONSTANTS
    Users = {u1}
    Sessions = {s1, s2}
    Requests = {r1, r2}
    GracePeriod = 1
    RefreshTTL = 1
    AccessTTL = 1
    MaxTime = 1
    None = None
SPECIFICATION Spec
SYMMETRY Symmetry
INVARIANTS
    TypeOK
    RotatedTokenIsDead
    DeletionAnsweredAfterSweep
    PurgedOnlyAfterGrace
    GraceNotProlonged
