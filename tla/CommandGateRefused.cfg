CONSTANTS
    Pages = {p1}
    Conns = {c1, c2}
    WorkIds = {w1, w2}
    InputIds = {}
    InterruptIds = {}
    CacheLimit = 4
    MaxPrompts = 0
    MaxDrops = 1
    NoId = NoId
    NoPage = NoPage
SPECIFICATION Spec
INVARIANTS RefusedNeverRuns
CHECK_DEADLOCK FALSE
