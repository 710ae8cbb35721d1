CONSTANTS
    Reports = {report1, report2}
    CaseIds = {case1, case2}
    Notes = {note}
    PersonaTargets = {persona}
    Outcomes = {"remove", "banAccount"}
    Requests = {r1, r2, r3}
    None = None
SPECIFICATION Spec
SYMMETRY Symmetry
CHECK_DEADLOCK FALSE
INVARIANTS
    TypeOK
    ResolvedWasApplied
    EffectAndRecordAgree
PROPERTIES
    ReopenedOnlyByStale
    ImplementsDocket
