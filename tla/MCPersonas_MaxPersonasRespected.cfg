CONSTANTS
    Personas = {1, 2, 3}
    Requests = {h1, h2}
    MaxActive = 2
    None = None
SPECIFICATION Spec
SYMMETRY Symmetry
INVARIANT
    MaxPersonasRespected
