CONSTANTS
    Topics = {topic1, topic2}
    Posts = {post1, post2, post3}
    Comments = {comment1}
    Personas = {alice, bob}
    Keys = {key1}
    Requests = {r1, r2, r3}
    None = None
    Present = {post1}
    MaxLost = 1
SPECIFICATION Spec
SYMMETRY Symmetry
CHECK_DEADLOCK FALSE
INVARIANTS
    TypeOK
    DriftBounded
    TallyExact
    ShownOnlyIfApproved
    AnsweredKeyMakesNoPost
    MarksAnswered
PROPERTY
    ComesBackAsRead
