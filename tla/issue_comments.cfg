SPECIFICATION Spec
CONSTANTS
    Remarks = {r1}
    Notices = {n1, n2}
    MAX_CLARIFICATION_ROUNDS = 1
    PLANNING_MAX_ATTEMPTS = 1
    REVISIONS = 2
    FAILURES = 1
SYMMETRY MCSymmetry
INVARIANTS
    CommentsTypeOK
    OneCommentPerPhase
    SafeRemarksStay
    PhaseIsShown
    QuestionsAsked
CHECK_DEADLOCK FALSE
