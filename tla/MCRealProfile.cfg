CONSTANTS
    Users = {alice, bob}
    Addresses = {home, work}
    Requests = {r1, r2, r3, r4}
    MaxCodes = 2
    MaxExports = 2
    MaxNow = 2
    MaxAttempts = 2
    CodeLife = 1
    Cooldown = 2
    GracePeriod = 1
    None = None
SPECIFICATION Spec
SYMMETRY Symmetry
CHECK_DEADLOCK FALSE
INVARIANTS
    TypeOK
    CodesHold
    ExportsKeepTheirTime
