CONSTANTS
    Rows <- ThreeRows
    MaxTime = 2
    Personas = {alice, bob}
    Viewer = alice
    Asked = {0, 1, 9}
    DefaultLimit = 2
    MaxLimit = 2
    None = None
SPECIFICATION Spec
CHECK_DEADLOCK FALSE
INVARIANTS
    TypeOK
    ListedOnce
PROPERTIES
    BlockedUnseen
    EveryPassEnds
