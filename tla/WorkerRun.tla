------------------------------ MODULE WorkerRun ------------------------------
(***************************************************************************)
(* One prompt run seen from its worker: setup, hydrate_stage, build_stage, *)
(* the verify/Fixer loop and teardown, with what happens inside the        *)
(* activities (BuildStage, VerifyStage), the checkout they share           *)
(* (WorkerCheckout), attempts that fail and are repeated, and a container  *)
(* that dies.  The gates and the pull request are DarkFactoryWorkflow's: a *)
(* run that passes goes to teardown here.                                  *)
(*                                                                         *)
(* StageResults shows that what RepairState takes for one result of a      *)
(* stage is what its subgraph returns.                                     *)
(***************************************************************************)
EXTENDS BuildStage, VerifyStage

CONSTANTS
    Artifacts,       \* paths a verification step may write to
    FixerTurns,      \* what a Fixer may do and say
    Scenarios,       \* dependencies and predicates of the brief, and plans
    STAGE_ATTEMPTS   \* maximum_attempts of the stage activities

ASSUME WorkerRunAssumption ==
    /\ Artifacts \subseteq Paths
    /\ FixerTurns \subseteq
           [edits : SUBSET Paths, committed : BOOLEAN, claimed : SUBSET Paths,
            decision : {"fixed", "needs_brief_change", "cannot_fix", "none"}]
    /\ Scenarios \subseteq
           [depends_on : [WPs -> SUBSET WPs], expected : SUBSET Items,
            plans : SUBSET SUBSET Steps]
    /\ STAGE_ATTEMPTS \in Nat \ {0}

VARIABLES
    pc,              \* the await the run is suspended at
    attempt,         \* attempt of the activity awaited
    status,
    tester_findings, reconciliation_findings, current_slice, verify_summary,
    fixer_attempts_by_wp, fixer_attempts_by_predicate,
    code, verified,  \* history, as in RepairState
    build_blocking   \* history: the last build left a blocking kind

findingVars == <<tester_findings, reconciliation_findings, current_slice>>
attemptVars == <<fixer_attempts_by_wp, fixer_attempts_by_predicate>>
stateVars == <<findingVars, verify_summary, attemptVars, code, verified>>
runVars == <<pc, attempt, status>>
vars == <<runVars, stateVars, build_blocking, checkoutVars, buildVars, verifyVars>>

Init ==
    /\ pc = "setup" /\ attempt = 1 /\ status = "running"
    /\ CheckoutInit /\ VerifyInit /\ NoRecords
    /\ changed = {} /\ lost = {}
    /\ \E s \in Scenarios :
        depends_on = s.depends_on /\ expected = s.expected /\ plans = s.plans
    /\ coverage_entries = FALSE
    /\ tester_findings = <<>> /\ reconciliation_findings = <<>>
    /\ current_slice = FirstWP
    /\ verify_summary = [passed |-> FALSE, reported |-> {}]
    /\ fixer_attempts_by_wp = [w \in WPs |-> 0]
    /\ fixer_attempts_by_predicate = [p \in Predicates |-> 0]
    /\ code = 0 /\ verified = {} /\ build_blocking = FALSE

-----------------------------------------------------------------------------
Stage == {"build", "verify", "fixer"}

GoesOn(next) == pc' = next /\ attempt' = 1 /\ UNCHANGED status

\* Mutant of Leave: a return without the finally block.
LeaveRunning(result) == pc' = "closed" /\ attempt' = 1 /\ status' = result

Leave(result) == pc' = "teardown" /\ attempt' = 1 /\ status' = result

\* An attempt reuses the container of an earlier one, or starts it.
SetupWorker ==
    /\ pc = "setup"
    /\ ReuseContainer \/ StartContainer
    /\ GoesOn("hydrate")
    /\ UNCHANGED <<stateVars, build_blocking, buildVars, verifyVars>>

SetupAttemptFails ==
    /\ pc = "setup"
    /\ SetupFails
    /\ UNCHANGED <<runVars, stateVars, build_blocking, buildVars, verifyVars>>

Hydrate ==
    /\ pc = "hydrate" /\ Alive
    /\ WithRepoState
    /\ GoesOn("build")
    /\ UNCHANGED <<container, repo, setupFailures, dirty, stateVars,
                   build_blocking, buildVars, verifyVars>>

-----------------------------------------------------------------------------
(* build_stage.                                                            *)

Works(stage) == pc = stage /\ Alive

BuildStep ==
    /\ Works("build")
    /\ \/ \E turn \in BuilderTurns : BuilderTurn(turn)
       \/ \E turn \in TesterTurns : TesterTurn(turn, code + 1)
       \/ \E turn \in RaisedTurns : RaisedTurn(turn)
    /\ UNCHANGED <<runVars, stateVars, build_blocking, verifyVars>>

\* The result has neither reconciliation_findings nor builder_outputs; the
\* Testers' findings come back with the channel they were added to.
BuildReturns ==
    /\ Works("build") /\ NextWorker = "end"
    /\ tester_findings' = BuildMerge(tester_findings, new_findings)
    /\ current_slice' = Last(build_order)
    /\ coverage_entries' = (coverage_entries \/ new_coverage)
    /\ code' = code + 1
    /\ build_blocking' = (discrepancies \cap BlockingKinds # {})
    /\ StageAccounted
    /\ GoesOn("verify")
    /\ UNCHANGED <<reconciliation_findings, verify_summary, attemptVars, verified,
                   checkoutVars, plans, expected, verification_plan, verify_retries,
                   failed_verdicts, files, attemptResult>>

-----------------------------------------------------------------------------
(* verify_stage, and where the workflow goes on its verdict.               *)

AnyBlocking == tester_findings # <<>> \/ Blocking(reconciliation_findings) # {}

VerifyStep ==
    /\ Works("verify")
    /\ \/ RunPlan /\ dirty' \in {dirty, dirty \cup Artifacts}
       \/ /\ \/ EnsurePlan
             \/ Aggregate(AnyBlocking)
             \/ NothingToCover
             \/ \E coverage \in Coverages : SemanticCoverage(coverage, AnyBlocking)
          /\ UNCHANGED dirty
    /\ UNCHANGED <<runVars, stateVars, build_blocking, containerVars, buildVars>>

VerifyReturns ==
    /\ Works("verify")
    /\ VerifyStageReturns
    /\ verify_summary' = [passed |-> found.passed, reported |-> found.reported]
    /\ verified' = IF found.passed THEN verified \cup {code} ELSE verified
    /\ UNCHANGED <<findingVars, code, build_blocking, checkoutVars, buildVars>>

Targets ==
    TargetWPs(found.reported, tester_findings, reconciliation_findings, current_slice)

BudgetSpent ==
    \/ Exhausted(fixer_attempts_by_wp, Targets)
    \/ Exhausted(fixer_attempts_by_predicate, TargetPredicates(found.reported))

VerifyPassed ==
    /\ VerifyReturns /\ found.passed
    /\ Leave("passed")
    /\ UNCHANGED attemptVars

VerifyEscalated ==
    /\ VerifyReturns /\ ~found.passed
    /\ InfeasiblePredicate(tester_findings) \/ BudgetSpent
    /\ Leave("needs_human")
    /\ UNCHANGED attemptVars

VerifyFailed ==
    /\ VerifyReturns /\ ~found.passed
    /\ ~InfeasiblePredicate(tester_findings) /\ ~BudgetSpent
    /\ fixer_attempts_by_wp' = Bump(fixer_attempts_by_wp, Targets)
    /\ fixer_attempts_by_predicate' =
           Bump(fixer_attempts_by_predicate, TargetPredicates(found.reported))
    /\ GoesOn("fixer")

-----------------------------------------------------------------------------
(* fixer_stage.                                                            *)

\* The discrepancies that block, in their order.
blocking_findings ==
    Among(reconciliation_findings, [wp : WPs, blocking : {TRUE}, gen : Nat])

\* The first failing work package, which an answer that cannot be parsed
\* leaves as the target: of a predicate listed, else of a Tester finding,
\* else of a blocking discrepancy, else the current slice.
FirstTargets ==
    LET listed == {item.wp : item \in verify_summary.reported}
    IN CASE listed # {} -> listed
         [] listed = {} /\ tester_findings # <<>> -> {Head(tester_findings).wp}
         [] listed = {} /\ tester_findings = <<>> /\ blocking_findings # <<>> ->
                {Head(blocking_findings).wp}
         [] OTHER -> {current_slice}

\* _run_fixer_stage: at most one of the two blocking kinds, since an answer
\* that cannot be parsed declares no edits; then the undeclared edits.
\* Without a HEAD there is nothing to reconcile with.
FixerDiscrepancies(turn, target) ==
    LET actual == GroundTruth(turn.edits)
        claims == IF turn.decision = "none" THEN {} ELSE turn.claimed
        entry(blocking) == <<[wp |-> target, blocking |-> blocking, gen |-> code + 1]>>
    IN IF ~repo THEN <<>>
       ELSE (IF turn.decision = "none" \/ claims \ actual # {}
             THEN entry(TRUE) ELSE <<>>)
            \o (IF actual \ claims # {} THEN entry(FALSE) ELSE <<>>)

\* fixer_stage, its result merged and the findings of before dropped.
FixerStage(turn, target) ==
    /\ Works("fixer")
    /\ turn.decision = "none" => target \in FirstTargets
    /\ dirty' = TurnLeaves(turn.edits, turn.committed)
    /\ WithRepoState
    /\ current_slice' = target
    /\ tester_findings' = DropStale(tester_findings, Len(tester_findings))
    /\ reconciliation_findings' =
           DropStale(reconciliation_findings \o FixerDiscrepancies(turn, target),
                     Len(reconciliation_findings))
    /\ code' = code + 1
    /\ build_blocking' = FALSE
    /\ StageAccounted
    /\ IF turn.decision = "fixed" THEN GoesOn("verify") ELSE Leave("needs_human")
    /\ UNCHANGED <<verify_summary, attemptVars, verified, container, repo,
                   setupFailures, verifyVars>>

-----------------------------------------------------------------------------
(* Attempts that fail, and the worker's death.                             *)

\* The attempt is lost; the next begins with the state the workflow holds.
AttemptLost ==
    /\ IF attempt < STAGE_ATTEMPTS
       THEN attempt' = attempt + 1 /\ UNCHANGED <<pc, status>>
       ELSE Leave("failed")
    /\ AttemptDiscarded /\ VerifyAttemptDiscarded
    /\ UNCHANGED <<stateVars, build_blocking>>

\* An exception, or a timeout.  What a Fixer did by then stays done.
StageAttemptFails ==
    /\ pc \in Stage /\ Alive
    /\ AttemptLost
    /\ \/ UNCHANGED dirty
       \/ /\ pc = "fixer"
          /\ \E turn \in FixerTurns : dirty' = TurnLeaves(turn.edits, turn.committed)
    /\ UNCHANGED containerVars

\* The container dies with an attempt running in it, or before the worker
\* took the activity up: then nobody ever does.
WorkerDies ==
    /\ pc \in Stage \cup {"hydrate"}
    /\ ContainerExits
    /\ \/ pc \in Stage /\ AttemptLost
       \/ /\ turns = 0 /\ node = "ensure_plan"
          /\ UNCHANGED <<runVars, stateVars, build_blocking, buildVars, verifyVars>>
    /\ UNCHANGED <<repo, branch, setupFailures, dirty>>

\* The finally block.
Teardown ==
    /\ pc = "teardown"
    /\ RemoveContainer
    /\ pc' = "closed" /\ UNCHANGED <<attempt, status>>
    /\ UNCHANGED <<stateVars, build_blocking, buildVars, verifyVars>>

-----------------------------------------------------------------------------
ActivitySteps ==
    \/ SetupWorker \/ Hydrate
    \/ BuildStep \/ BuildReturns
    \/ VerifyStep \/ VerifyPassed \/ VerifyEscalated \/ VerifyFailed
    \/ \E turn \in FixerTurns, target \in WPs : FixerStage(turn, target)
    \/ StageAttemptFails
    \/ Teardown

Next == ActivitySteps \/ SetupAttemptFails \/ WorkerDies

SafetySpec == Init /\ [][Next]_vars
Spec == SafetySpec /\ WF_vars(ActivitySteps)

-----------------------------------------------------------------------------
\* The state keeps to the values the code can give it.
WorkerTypeOK ==
    /\ CheckoutTypeOK /\ BuildTypeOK /\ VerifyTypeOK
    /\ pc \in Stage \cup {"setup", "hydrate", "teardown", "closed"}
    /\ attempt \in 1 .. STAGE_ATTEMPTS
    /\ status \in {"running", "passed", "needs_human", "failed"}
    /\ tester_findings \in Seq(TesterFindings)
    /\ reconciliation_findings \in Seq(ReconciliationFindings)
    /\ current_slice \in WPs
    /\ verify_summary \in [passed : BOOLEAN, reported : SUBSET Items]
    /\ fixer_attempts_by_wp \in [WPs -> 0 .. FIXER_MAX_ATTEMPTS]
    /\ fixer_attempts_by_predicate \in [Predicates -> 0 .. FIXER_MAX_ATTEMPTS]
    /\ code \in Nat /\ verified \subseteq 0 .. code
    /\ build_blocking \in BOOLEAN

\* A verification passes exactly when the steps of its own attempt, the
\* predicates and the findings held by the workflow all agree
\* (_aggregate_verify_summary; test of a cached, an empty and a failed plan).
VerdictIsEvidence ==
    [][VerifyReturns =>
        (verify_summary'.passed <=>
            /\ StepsConvince
            /\ tester_findings = <<>>
            /\ \A i \in DOMAIN reconciliation_findings :
                ~reconciliation_findings[i].blocking
            /\ ~found.uncovered)]_vars

\* What the three stages return is what RepairState says they return: their
\* attempts, nodes and turns are hidden, and only the discrepancies that block
\* count (build_stage, verify_stage, fixer_stage against RepairState).
RS == INSTANCE RepairState WITH
    reconciliation_findings <- blocking_findings,
    VerifyReports <- Reports,
    TesterReports <- [wp : WPs, kind : {"test", "infeasible"}],
    FixerReports <-
        [decision : {"fixed", "needs_brief_change", "cannot_fix"}, target : WPs,
         discrepancy : {"none", "blocking"}]

StageResults ==
    [][\/ RS!BuildResult(0, 0)
       \/ \E report \in Reports :
           /\ RS!VerifyResult(report)
           /\ UNCHANGED attemptVars \/ RS!RecordFixerAttempt(report.reported)
       \/ \E result \in RS!FixerResults :
           RS!FixerResult(result, Len(tester_findings), Len(blocking_findings))
      ]_(RS!repairVars)

\* A run ends and its container is removed, whatever fails or is repeated, as
\* long as the container itself lives (the finally block of
\* DarkFactoryWorkflow.run; the activities have no schedule_to_start timeout).
RunEnds == <>(container = "exited" \/ (pc = "closed" /\ container = "absent"))

-----------------------------------------------------------------------------
(* What the comments say and the code does not do.                         *)

\* build.py has the reconciliation findings surface "so the Verifier can
\* attribute them", and verify.py lists builder_blocked and the others as
\* blocking: a build left with one of them does not pass.
BlockedIsNotPassed == status = "passed" => ~build_blocking

=============================================================================
