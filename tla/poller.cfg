SPECIFICATION Spec
CONSTANTS
    i1 = i1
    t1 = t1
    Issues = {i1}
    Ticks = {t1}
    CommentKinds = {"Approve", "Revise", "Reject"}
    MAX_RUNS = 2
    MAX_COMMENTS = 1
    MAX_LABELINGS = 2
    MAX_CONCURRENT = 1
    MAX_FAILURES = 1
INVARIANTS PollerTypeOK OneLiveRun LiveRunIsPolled AnnouncedOnce
PROPERTIES AcknowledgedRestart ReadyHasEffect
CHECK_DEADLOCK FALSE
