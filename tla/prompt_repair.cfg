SPECIFICATION Spec
CONSTANTS
    w1 = w1
    w2 = w2
    p1 = p1
    c1 = c1
    c2 = c2
    WPs <- TwoWPs
    FirstWP = w1
    Predicates = {p1}
    FIXER_MAX_ATTEMPTS = 2
    FINDINGS = 2
    PLANNING_MAX_ATTEMPTS = 1
    MERGE_MAX_ATTEMPTS = 1
    VerifyReports <- RepairReports
    TesterReports <- RepairTesterReports
    FixerReports <- RepairFixerReports
    Clients = {c1, c2}
    Kinds = {"auto", "eval", "operator"}
    MAX_COMMANDS = 1
INVARIANTS AutoFixBudget FreshEvidence
PROPERTIES UnattendedRunCloses
CHECK_DEADLOCK FALSE
