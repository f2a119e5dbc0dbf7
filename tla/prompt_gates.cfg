SPECIFICATION Spec
CONSTANTS
    w1 = w1
    w2 = w2
    p1 = p1
    c1 = c1
    c2 = c2
    WPs <- OneWP
    FirstWP = w1
    Predicates = {p1}
    FIXER_MAX_ATTEMPTS = 1
    FINDINGS = 1
    PLANNING_MAX_ATTEMPTS = 2
    MERGE_MAX_ATTEMPTS = 2
    VerifyReports <- GateReports
    TesterReports <- OneTestReport
    FixerReports <- GateFixerReports
    Clients = {c1}
    Kinds = {"operator", "auto", "eval", "legacy"}
    MAX_COMMANDS = 5
INVARIANTS SystemTypeOK LandedWasVerified
PROPERTIES OnlyToTheWaitingGate InformedBuild InformedMerge DeliverySpec
CHECK_DEADLOCK FALSE
