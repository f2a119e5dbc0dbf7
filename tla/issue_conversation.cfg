SPECIFICATION Spec
CONSTANTS
    Replies = {r1}
    Commands = {"approve", "revise", "cancel"}
    MAX_CLARIFICATION_ROUNDS = 1
    COMMENTS = 2
    FAILURES = 1
INVARIANTS
    ConversationTypeOK
    SkippedOnlyByCommand
    CommandFate
    CommandsAreNew
PROPERTY RepliesAreHeard
CHECK_DEADLOCK FALSE
