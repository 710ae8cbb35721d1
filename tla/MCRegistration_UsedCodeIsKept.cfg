CONSTANTS
    Codes = {c1}
    Names = {n1}
    Handlers = {h1}
    Staff = {a1}
    Expiries = {1}
    MaxTime = 0
    None = None
SPECIFICATION Spec
INVARIANT
    UsedCodeIsKept
