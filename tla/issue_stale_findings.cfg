SPECIFICATION SafetySpec
CONSTANTS
    w1 = w1
    p1 = p1
    WPs = {w1}
    FirstWP = w1
    Predicates = {p1}
    FIXER_MAX_ATTEMPTS = 1
    FINDINGS = 1
    PLANNING_MAX_ATTEMPTS = 2
    MAX_CLARIFICATION_ROUNDS = 1
    VerifyReports <- IssueReports
    TesterReports <- IssueTesterReports
    FixerReports <- IssueFixerReports
    SignalKinds = {"Approve", "Revise", "Reject", "Cancel", "Fix", "Rebuild"}
    MAX_SIGNALS = 3
    MAX_COMMENTS = 1
CHECK_DEADLOCK FALSE
INVARIANT FreshEvidence
