CONSTANTS
    Personas = {1, 2, 3, 4}
    Requests = {h1, h2}
    MaxActive = 2
    None = None
SPECIFICATION Spec
SYMMETRY Symmetry
INVARIANTS
    TypeOK
    OneDefault
    ArchivedNeverDefault
    ActiveDefaultIsFlagged
    OvershootBounded
PROPERTY
    DefaultChosenActive
