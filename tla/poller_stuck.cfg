SPECIFICATION Spec
CONSTANTS
    i1 = i1
    t1 = t1
    Issues = {i1}
    Ticks = {t1}
    CommentKinds = {}
    MAX_RUNS = 2
    MAX_COMMENTS = 0
    MAX_LABELINGS = 2
    MAX_CONCURRENT = 1
    MAX_FAILURES = 0
PROPERTIES ReadyIsPickedUp
CHECK_DEADLOCK FALSE
