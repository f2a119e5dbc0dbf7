----------------------------- MODULE RepairLoop -----------------------------
(***************************************************************************)
(* The pure functions of the verify/Fixer loop, shared by the prompt and   *)
(* the issue workflow (runtime/workflow.py lines 158-382, imported by      *)
(* runtime/issue_workflow.py) together with the verdict of                 *)
(* stages/verify.py and the state merge of the build and fixer activities. *)
(*                                                                         *)
(* Data is kept to what the loop tells apart.  A Tester finding has a work *)
(* package, a kind (infeasible_predicate or any other) and, as history,    *)
(* the revision of the code it is about; a reconciliation finding has a    *)
(* work package, whether its kind is one of the five blocking kinds, and   *)
(* the revision.  A verification report says whether the mechanical steps  *)
(* (tests, findings) are clean, which predicates the semantic verifier     *)
(* lists with a status other than covered, and whether some predicate of   *)
(* the brief is uncovered: listed as such, or not listed at all.           *)
(***************************************************************************)
EXTENDS Naturals, Sequences

CONSTANTS
    WPs,                 \* work packages of the implementation brief
    FirstWP,             \* the first of them (_first_brief_wp_id)
    Predicates,          \* texts of the verification predicates
    FIXER_MAX_ATTEMPTS,  \* repair budget per work package and per predicate
    FINDINGS             \* bound: Tester findings of one build

ASSUME WPsAssumption == FirstWP \in WPs
ASSUME BudgetAssumption == FIXER_MAX_ATTEMPTS \in Nat
ASSUME FindingsAssumption == FINDINGS \in Nat

Items == [wp : WPs, predicate : Predicates]
Reports == [clean : BOOLEAN, reported : SUBSET Items, uncovered : BOOLEAN]
TesterFindings == [wp : WPs, kind : {"test", "infeasible"}, gen : Nat]
ReconciliationFindings == [wp : WPs, blocking : BOOLEAN, gen : Nat]

-----------------------------------------------------------------------------
(* The verdict of one verify_stage.  Every Tester finding and every        *)
(* blocking reconciliation finding in the state fails it.                  *)

Blocking(recons) == {i \in DOMAIN recons : recons[i].blocking}

Passed(report, testers, recons) ==
    /\ report.clean
    /\ ~report.uncovered
    /\ testers = <<>>
    /\ Blocking(recons) = {}

-----------------------------------------------------------------------------
(* What a failed verification charges to the Fixer budget.  A failure no   *)
(* work package is named for is charged to the current slice.              *)

NamedWPs(reported, testers, recons) ==
    {item.wp : item \in reported}
        \cup {testers[i].wp : i \in DOMAIN testers}
        \cup {recons[i].wp : i \in Blocking(recons)}

TargetWPs(reported, testers, recons, slice) ==
    IF NamedWPs(reported, testers, recons) = {}
    THEN {slice}
    ELSE NamedWPs(reported, testers, recons)

TargetPredicates(reported) == {item.predicate : item \in reported}

\* Mutant of Exhausted: one attempt too many.
ExhaustedLate(attempts, targets) ==
    \E t \in targets : attempts[t] > FIXER_MAX_ATTEMPTS

\* Some target has already had its FIXER_MAX_ATTEMPTS.
Exhausted(attempts, targets) ==
    \E t \in targets : attempts[t] >= FIXER_MAX_ATTEMPTS

\* Record one more attempt for every target.
Bump(attempts, targets) ==
    [t \in DOMAIN attempts |->
        IF t \in targets THEN attempts[t] + 1 ELSE attempts[t]]

InfeasiblePredicate(testers) ==
    \E i \in DOMAIN testers : testers[i].kind = "infeasible"

-----------------------------------------------------------------------------
(* The findings channels are concatenated by state.merge.                  *)

\* Mutant of DropStale: nothing is sliced off.
DropNothing(findings, pre) == findings

\* _drop_stale_findings: slice off the findings that were there before.
DropStale(findings, pre) == SubSeq(findings, pre + 1, Len(findings))

\* build_stage returns the whole channel its subgraph accumulated, the
\* findings it was called with included; merge appends that to the channel.
BuildMerge(old, new) == old \o (old \o new)

=============================================================================
