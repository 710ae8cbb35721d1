CONSTANTS
    Codes = {c1, c2}
    Names = {n1, n2}
    Handlers = {h1, h2}
    Staff = {a1}
    Expiries = {}
    MaxTime = 0
    None = None
SPECIFICATION FairSpec
PROPERTY
    RegistrationAnswered
