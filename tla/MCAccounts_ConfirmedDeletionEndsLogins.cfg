CONSTANTS
    Users = {u1}
    Sessions = {s1, s2, s3}
    Requests = {r1, r2}
    GracePeriod = 1
    RefreshTTL = 4
    AccessTTL = 4
    MaxTime = 0
    None = None
SPECIFICATION Spec
SYMMETRY Symmetry
INVARIANT
    ConfirmedDeletionEndsLogins
