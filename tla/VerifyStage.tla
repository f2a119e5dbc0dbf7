----------------------------- MODULE VerifyStage -----------------------------
(***************************************************************************)
(* The verify subgraph (stages/verify.py): ensure_plan, run_plan,          *)
(* aggregate and run_semantic_coverage, one action a node.                 *)
(*                                                                         *)
(* A verification plan is a set of steps.  A step may declare a report,    *)
(* which it writes clean, with an error-level entry (bad) or malformed     *)
(* (broken), or does not write: then the file of an earlier cycle, if any, *)
(* is still there (tools/reports.py).  A step that times out or whose      *)
(* command is missing has failed like any other (tools/sandbox.py).  Of    *)
(* the failed tests and the hard findings only whether there are any       *)
(* matters to the verdict.                                                 *)
(***************************************************************************)
EXTENDS RepairLoop

CONSTANTS
    Coverages       \* answers of the semantic verifier

Steps ==
    [kind : {"test", "compile", "lint"}, report : BOOLEAN, required : BOOLEAN]
ReportFiles == {"absent", "clean", "bad", "broken"}
NoPlan == {}

ASSUME CoveragesAssumption ==
    Coverages \subseteq [Items -> {"covered", "weakly_covered", "unlisted"}]

VARIABLES
    plans,               \* what the planner may find in the repository
    expected,            \* predicates of the brief
    coverage_entries,    \* some Tester declared coverage of a predicate
    verification_plan,   \* cached in the workflow's state
    verify_retries,
    files,               \* report file of each step in the checkout
    node,                \* node of the subgraph to run next
    found,               \* what this attempt has so far
    ran,                 \* history: the steps it ran and how they went
    failed_verdicts      \* history: verdicts that failed

Nothing ==
    [plan |-> NoPlan, failed_tests |-> FALSE, hard_findings |-> FALSE,
     passed |-> FALSE, verify_retries |-> 0, reported |-> {},
     uncovered |-> FALSE]

attemptResult == <<node, found, ran>>
resultVars == <<plans, expected, coverage_entries, verification_plan, verify_retries,
                failed_verdicts>>
verifyVars == <<resultVars, files, attemptResult>>

VerifyInit ==
    /\ verification_plan = NoPlan /\ verify_retries = 0 /\ failed_verdicts = 0
    /\ files = [s \in Steps |-> "absent"]
    /\ node = "ensure_plan" /\ found = Nothing /\ ran = {}

-----------------------------------------------------------------------------
(* ensure_plan_node.                                                       *)

\* Mutant of IsCached: what the first cycle had is kept, whatever it was.
IsAnswered(plan) == plan # NoPlan \/ verify_retries > 0

\* _plan_is_empty: a plan without a step to run is asked for again.
IsCached(plan) == plan # NoPlan

EnsurePlan ==
    /\ node = "ensure_plan" /\ node' = "run_plan"
    /\ \/ /\ IsCached(verification_plan)
          /\ found' = [Nothing EXCEPT !.plan = verification_plan,
                                      !.verify_retries = verify_retries]
       \/ /\ ~IsCached(verification_plan)
          /\ \E plan \in plans \cup {NoPlan} :
              found' = [Nothing EXCEPT !.plan = plan,
                            !.hard_findings = (plan = NoPlan),
                            !.verify_retries = verify_retries]
    /\ UNCHANGED <<resultVars, files, ran>>

-----------------------------------------------------------------------------
(* run_plan_node.  An outcome says whether a step's command returned 0 and *)
(* what it left of its report.                                             *)

Outcomes(plan) ==
    {outcome \in [plan -> [ok : BOOLEAN, wrote : ReportFiles]] :
        \A step \in plan : outcome[step].wrote # "absent" => step.report}

\* A file that is not written stays.
Seen(step, outcome) ==
    IF outcome.wrote # "absent" THEN outcome.wrote ELSE files[step]

\* _run_test_step, as the aggregation reads it: a malformed report is an
\* error, no report at all is none as long as the command returned 0.
TestFails(step, ok, file) ==
    ~ok \/ (step.report /\ file \in {"bad", "broken"})

\* _run_finding_step: a report that is there decides, whatever the command
\* returned and whenever it was written, and one that is malformed has no
\* entries; without one, a failed command is an error if the step is required.
StepErrs(step, ok, file) ==
    IF step.report /\ file # "absent" THEN file = "bad" ELSE ~ok /\ step.required

RunPlan ==
    /\ node = "run_plan" /\ node' = "aggregate"
    /\ \E outcome \in Outcomes(found.plan) :
        LET tests == {s \in found.plan : s.kind = "test"}
            file(s) == Seen(s, outcome[s])
        IN /\ files' = [s \in Steps |->
                           IF s \in found.plan THEN file(s) ELSE files[s]]
           /\ ran' = {[step |-> s, ok |-> outcome[s].ok, file |-> file(s)] :
                          s \in found.plan}
           /\ found' = [found EXCEPT
                  !.failed_tests =
                      \E s \in tests : TestFails(s, outcome[s].ok, file(s)),
                  !.hard_findings = @ \/
                      \E s \in found.plan \ tests :
                          StepErrs(s, outcome[s].ok, file(s))]
    /\ UNCHANGED resultVars

-----------------------------------------------------------------------------
(* aggregate, and run_semantic_coverage_node on top of its verdict.        *)

\* Mutant of Verdict: the findings the workflow holds are not looked at.
MechanicalVerdict(blocking) == ~found.failed_tests /\ ~found.hard_findings

Verdict(blocking) ==
    ~found.failed_tests /\ ~found.hard_findings /\ ~blocking

Aggregate(blocking) ==
    /\ node = "aggregate" /\ node' = "run_semantic_coverage"
    /\ found' = [found EXCEPT
           !.passed = Verdict(blocking),
           !.verify_retries = IF Verdict(blocking) THEN @ ELSE @ + 1]
    /\ UNCHANGED <<resultVars, files, ran>>

\* Mutant of RetriesAfter: the semantic node counts what aggregate counted.
RetriesCountedTwice(passed) ==
    IF passed THEN found.verify_retries ELSE found.verify_retries + 1

\* A failure counts once: here only if aggregate passed.
RetriesAfter(passed) ==
    IF ~passed /\ found.passed
    THEN found.verify_retries + 1 ELSE found.verify_retries

\* Nobody named a predicate: the verifier is not asked.
NothingToCover ==
    /\ node = "run_semantic_coverage" /\ node' = "end"
    /\ expected = {} /\ ~coverage_entries
    /\ UNCHANGED <<resultVars, files, found, ran>>

\* The predicates of the brief must be covered; when it has none, those the
\* verifier lists.
SemanticCoverage(coverage, blocking) ==
    LET uncovered == \/ \E item \in expected : coverage[item] # "covered"
                     \/ expected = {} /\ \E item \in Items : coverage[item] = "weakly_covered"
        passed == Verdict(blocking) /\ ~uncovered
    IN /\ node = "run_semantic_coverage" /\ node' = "end"
       /\ expected # {} \/ coverage_entries
       /\ found' = [found EXCEPT
              !.passed = passed,
              !.reported = {item \in Items : coverage[item] = "weakly_covered"},
              !.uncovered = uncovered,
              !.verify_retries = RetriesAfter(passed)]
       /\ UNCHANGED <<resultVars, files, ran>>

-----------------------------------------------------------------------------
(* verify_stage's result, as the workflow merges it, and the attempt that  *)
(* has none.                                                               *)

ForgetAttempt == node' = "ensure_plan" /\ found' = Nothing /\ ran' = {}

VerifyStageReturns ==
    /\ node = "end"
    /\ ForgetAttempt
    /\ verification_plan' = found.plan
    /\ verify_retries' = found.verify_retries
    /\ failed_verdicts' = IF found.passed THEN failed_verdicts ELSE failed_verdicts + 1
    /\ UNCHANGED <<plans, expected, coverage_entries, files>>

VerifyAttemptDiscarded ==
    /\ ForgetAttempt
    /\ UNCHANGED <<resultVars, files>>

VerifyTypeOK ==
    /\ plans \subseteq SUBSET Steps
    /\ expected \subseteq Items /\ coverage_entries \in BOOLEAN
    /\ verification_plan \in SUBSET Steps
    /\ verify_retries \in Nat /\ failed_verdicts \in Nat
    /\ files \in [Steps -> ReportFiles]
    /\ node \in {"ensure_plan", "run_plan", "aggregate",
                 "run_semantic_coverage", "end"}
    /\ found \in [plan : SUBSET Steps, failed_tests : BOOLEAN,
                  hard_findings : BOOLEAN, passed : BOOLEAN, verify_retries : Nat,
                  reported : SUBSET Items, uncovered : BOOLEAN]
    /\ ran \subseteq [step : Steps, ok : BOOLEAN, file : ReportFiles]

-----------------------------------------------------------------------------
\* Every verdict that failed is counted in verify_retries once, although two
\* nodes may fail it and an attempt may be repeated (aggregate,
\* run_semantic_coverage_node).
OneRetryPerVerdict == verify_retries = failed_verdicts

\* The steps that ran show the code to work: some step ran, no test failed or
\* left a report that says so, no step left an error.
StepsConvince ==
    /\ ran # {} /\ {r.step : r \in ran} = found.plan
    /\ \A r \in ran :
        IF r.step.kind = "test"
        THEN r.ok /\ (r.step.report => r.file \in {"absent", "clean"})
        ELSE IF r.step.report /\ r.file # "absent"
             THEN r.file # "bad"
             ELSE r.ok \/ ~r.step.required

=============================================================================
