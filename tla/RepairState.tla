---------------------------- MODULE RepairState ----------------------------
(***************************************************************************)
(* The part of the pipeline state that the build, verify and Fixer         *)
(* activities work on, and their results as merged by the workflow.  Both  *)
(* workflows extend this module and say when each activity runs.           *)
(*                                                                         *)
(* code and verified are history: the number of activities that changed    *)
(* the worker's checkout so far, which is its revision, and the revisions  *)
(* that passed a verify_stage.                                             *)
(***************************************************************************)
EXTENDS RepairLoop

CONSTANTS
    VerifyReports,          \* reports a verify_stage may come back with
    TesterReports,          \* findings a build_stage's Testers may add
    FixerReports            \* what a fixer_stage may come back with

FixerResults ==
    [decision : {"fixed", "needs_brief_change", "cannot_fix"},
     target : WPs,
     discrepancy : {"none", "blocking", "undeclared"}]

ASSUME ReportsAssumption ==
    /\ VerifyReports \subseteq Reports
    /\ TesterReports \subseteq [wp : WPs, kind : {"test", "infeasible"}]
    /\ FixerReports \subseteq FixerResults

VARIABLES
    tester_findings, reconciliation_findings, current_slice, verify_summary,
    fixer_attempts_by_wp, fixer_attempts_by_predicate,
    code, verified

findingVars == <<tester_findings, reconciliation_findings, current_slice>>
attemptVars == <<fixer_attempts_by_wp, fixer_attempts_by_predicate>>
repairVars == <<findingVars, verify_summary, attemptVars, code, verified>>

RepairInit ==
    /\ tester_findings = <<>> /\ reconciliation_findings = <<>>
    /\ current_slice = FirstWP
    /\ verify_summary = [passed |-> FALSE, reported |-> {}]
    /\ fixer_attempts_by_wp = [w \in WPs |-> 0]
    /\ fixer_attempts_by_predicate = [p \in Predicates |-> 0]
    /\ code = 0 /\ verified = {}

-----------------------------------------------------------------------------
\* The Testers' findings of one build: up to FINDINGS of TesterReports.
NewTesterFindings(gen) ==
    LET found == {[wp |-> t.wp, kind |-> t.kind, gen |-> gen] : t \in TesterReports}
    IN UNION {[1 .. n -> found] : n \in 0 .. FINDINGS}

\* A fixer_stage's reconciliation of the edits it declared with git diff.  All
\* it finds names the Fixer's target, and the verdict and the budget ask only
\* whether one of it blocks: one finding stands for them all.
NewDiscrepancies(result, gen) ==
    IF result.discrepancy = "none"
    THEN <<>>
    ELSE <<[wp |-> result.target, blocking |-> result.discrepancy = "blocking",
            gen |-> gen]>>

\* build_stage, its result merged and the first pre_tester and pre_recon
\* findings then dropped.  The result has no reconciliation_findings: what the
\* Builders' reconciliation found is not returned.
BuildResult(pre_tester, pre_recon) ==
    \E new \in NewTesterFindings(code + 1), slice \in WPs :
        /\ code' = code + 1
        /\ tester_findings' =
               DropStale(BuildMerge(tester_findings, new), pre_tester)
        /\ reconciliation_findings' = DropStale(reconciliation_findings, pre_recon)
        /\ current_slice' = slice
        /\ UNCHANGED <<verify_summary, attemptVars, verified>>

\* fixer_stage, its result merged and the first findings then dropped.
FixerResult(result, pre_tester, pre_recon) ==
    /\ code' = code + 1
    /\ current_slice' = result.target
    /\ tester_findings' = DropStale(tester_findings, pre_tester)
    /\ reconciliation_findings' =
           DropStale(reconciliation_findings \o NewDiscrepancies(result, code + 1),
                     pre_recon)
    /\ UNCHANGED <<verify_summary, attemptVars, verified>>

\* verify_stage over the findings the state holds.
VerifyResult(report) ==
    LET passed == Passed(report, tester_findings, reconciliation_findings)
    IN /\ verify_summary' = [passed |-> passed, reported |-> report.reported]
       /\ verified' = IF passed THEN verified \cup {code} ELSE verified
       /\ UNCHANGED <<findingVars, code>>

\* _record_fixer_attempt_delta of a state whose verify_summary reports
\* these predicates.
RecordFixerAttempt(reported) ==
    /\ fixer_attempts_by_wp' =
           Bump(fixer_attempts_by_wp,
                TargetWPs(reported, tester_findings, reconciliation_findings,
                          current_slice))
    /\ fixer_attempts_by_predicate' =
           Bump(fixer_attempts_by_predicate, TargetPredicates(reported))

BudgetExhausted(reported) ==
    \/ Exhausted(fixer_attempts_by_wp,
                 TargetWPs(reported, tester_findings, reconciliation_findings,
                           current_slice))
    \/ Exhausted(fixer_attempts_by_predicate, TargetPredicates(reported))

-----------------------------------------------------------------------------
(* The repair state keeps to the values the activities can return.         *)
RepairTypeOK ==
    /\ tester_findings \in Seq(TesterFindings)
    /\ reconciliation_findings \in Seq(ReconciliationFindings)
    /\ current_slice \in WPs
    /\ verify_summary \in [passed : BOOLEAN, reported : SUBSET Items]
    /\ fixer_attempts_by_wp \in [WPs -> Nat]
    /\ fixer_attempts_by_predicate \in [Predicates -> Nat]
    /\ code \in Nat
    /\ verified \subseteq Nat

Fresh(findings) == \A i \in DOMAIN findings : findings[i].gen = code

\* The findings held are about the code as it is.
FreshFindings == Fresh(tester_findings) /\ Fresh(reconciliation_findings)

\* Nothing was handed to the Fixer more often than the budget allows.
WithinBudget ==
    /\ \A w \in WPs : fixer_attempts_by_wp[w] <= FIXER_MAX_ATTEMPTS
    /\ \A p \in Predicates : fixer_attempts_by_predicate[p] <= FIXER_MAX_ATTEMPTS

=============================================================================
