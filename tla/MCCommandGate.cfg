CONSTANTS
    p1 = p1
    p2 = p2
    w1 = w1
    w2 = w2
    i1 = i1
    i2 = i2
    Pages = {p1, p2}
    Conns = {c1, c2}
    WorkIds = {w1, w2}
    InputIds = {i1, i2}
    InterruptIds = {n1}
    CacheLimit = 2
    MaxPrompts = 2
    MaxDrops = 1
    NoId = NoId
    NoPage = NoPage
SPECIFICATION MCSpec
INVARIANTS TypeOK GateHolds NoSecondDispatch OneReplyPerPrompt AnswersComeBack
PROPERTIES IsAtMostOnceExecutor DispatchedIsAcknowledged
CHECK_DEADLOCK FALSE
