SPECIFICATION Spec
CONSTANTS
    w1 = w1
    w2 = w2
    p1 = p1
    main = main
    empty = empty
    WPs <- MCWPs
    FirstWP = w1
    Predicates = {p1}
    FIXER_MAX_ATTEMPTS = 1
    FINDINGS = 2
    Paths <- MCPaths
    Hunkless <- MCHunkless
    SETUP_FAILURES = 1
    spec <- MCSpec
    BuilderTurns <- MCBuilderTurns
    TesterTurns <- MCTesterTurns
    RaisedTurns <- MCRaisedTurns
    TURNS = 5
    Coverages <- MCCoverages
    Artifacts = {main}
    FixerTurns <- MCFixerTurns
    Scenarios <- MCScenarios
    STAGE_ATTEMPTS = 2
INVARIANTS
    WorkerTypeOK
    BuildInOrder
    PatchesAccountForTree
    OneRetryPerVerdict
PROPERTIES
    VerdictIsEvidence
    StageResults
    RunEnds
CHECK_DEADLOCK FALSE
