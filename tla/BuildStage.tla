----------------------------- MODULE BuildStage -----------------------------
(***************************************************************************)
(* The build subgraph (stages/build.py): the supervisor sends the slices   *)
(* of the spec, in dependency order, first to the Builder and then to the  *)
(* Tester, until each has a record of both.  Each turn is checked against  *)
(* git diff.                                                               *)
(*                                                                         *)
(* The supervisor decides from the records alone, so a turn is one action  *)
(* together with the decision that sent it.  The records live as long as   *)
(* one attempt of build_stage.  changed and lost are history: the paths    *)
(* the stage's turns changed, and those committed by a turn or an attempt  *)
(* whose patches are thrown away.                                          *)
(***************************************************************************)
EXTENDS RepairLoop, WorkerCheckout, SequencesExt

CONSTANTS
    spec,           \* the slices, in the order of the plan
    BuilderTurns,   \* what a Builder may do and say
    TesterTurns,    \* what a Tester may do and say
    RaisedTurns,    \* what either may do before it raises
    TURNS           \* turns langgraph's recursion limit leaves room for

ASSUME SpecAssumption ==
    /\ spec \in Seq(WPs) /\ spec # <<>>
    /\ \A i, j \in DOMAIN spec : spec[i] = spec[j] => i = j
    /\ TURNS \in Nat
ASSUME TurnsAssumption ==
    /\ BuilderTurns \subseteq
           [edits : SUBSET Paths, committed : BOOLEAN, claimed : SUBSET Paths,
            status : {"done", "no_changes_needed", "blocked"}]
    /\ TesterTurns \subseteq
           [edits : SUBSET Paths, committed : BOOLEAN,
            answer : {"covered", "quiet", "test", "infeasible", "none"}]
    /\ RaisedTurns \subseteq [edits : SUBSET Paths, committed : BOOLEAN]

VARIABLES
    depends_on,        \* the slices a slice depends on
    builder_outputs,   \* slices with a Builder record, in order
    tester_outputs,    \* slices with a Tester record, in order
    new_findings,      \* Tester findings of this attempt
    new_coverage,      \* its Testers declared coverage of some predicate
    discrepancies,     \* kinds of its reconciliation findings
    patches,           \* paths with a patch
    turns,             \* turns of this attempt
    changed, lost

recordVars == <<builder_outputs, tester_outputs, new_findings, new_coverage,
                discrepancies, patches, turns>>
buildVars == <<depends_on, recordVars, changed, lost>>

-----------------------------------------------------------------------------
Slices == ToSet(spec)

\* Mutant of TopoSort: the order of the plan.
PlanOrder(depends) == spec

\* The elements of s that are in S, in their order.
Among(s, S) ==
    LET kept[n \in 0 .. Len(s)] ==
            IF n = 0 THEN <<>>
            ELSE IF s[n] \in S THEN Append(kept[n - 1], s[n])
            ELSE kept[n - 1]
    IN kept[Len(s)]

\* Those of S that nothing left depends on.
Ready(depends, S) == {s \in S : depends[s] \cap S = {}}

\* topo_sort: round by round, the slices that are ready; a cycle goes last, as
\* declared.
TopoSort(depends) ==
    LET order[S \in SUBSET Slices] ==
            IF Ready(depends, S) = {} THEN Among(spec, S)
            ELSE Among(spec, Ready(depends, S)) \o order[S \ Ready(depends, S)]
    IN order[Slices]

build_order == TopoSort(depends_on)

HasRun(records, slice) == slice \in ToSet(records)

NeedsWork(slice) ==
    ~HasRun(builder_outputs, slice) \/ ~HasRun(tester_outputs, slice)

AllRun == \A s \in Slices : ~NeedsWork(s)

\* The first slice in order that lacks a record.
Dispatched ==
    build_order[CHOOSE i \in DOMAIN build_order :
        /\ NeedsWork(build_order[i])
        /\ \A j \in 1 .. i - 1 : ~NeedsWork(build_order[j])]

NextWorker ==
    CASE AllRun -> "end"
      [] ~AllRun /\ ~HasRun(builder_outputs, Dispatched) -> "builder"
      [] OTHER -> "tester"

-----------------------------------------------------------------------------
BlockingKinds ==
    {"builder_blocked", "builder_no_action", "claimed_edits_not_applied",
     "tester_parse_failure", "fixer_blocked"}

\* _builder_reconciliation_findings.
Reconciled(status, claimed, actual) ==
    LET worked == claimed # {} \/ actual # {}
        holds == [builder_blocked |-> status = "blocked",
                  builder_no_action |-> status = "done" /\ ~worked,
                  claimed_edits_not_applied |->
                      status = "done" /\ claimed \ actual # {},
                  undeclared_edits |-> status = "done" /\ actual \ claimed # {}]
    IN {kind \in DOMAIN holds : holds[kind]}

\* The marks a turn leaves in the checkout; seen are the paths it has
\* patches of.
TurnMarks(turn, seen) ==
    /\ turns < TURNS /\ turns' = turns + 1
    /\ dirty' = TurnLeaves(turn.edits, turn.committed)
    /\ patches' = patches \cup seen
    /\ changed' = changed \cup turn.edits
    /\ lost' = IF turn.committed THEN lost \cup (changed' \ patches') ELSE lost
    /\ UNCHANGED <<depends_on, containerVars>>

\* The Builder's wp_id is pinned to the slice; an answer that cannot be
\* parsed is the status blocked.
BuilderTurn(turn) ==
    /\ NextWorker = "builder"
    /\ TurnMarks(turn, GroundTruth(turn.edits))
    /\ builder_outputs' = Append(builder_outputs, Dispatched)
    /\ discrepancies' =
           discrepancies
               \cup Reconciled(turn.status, turn.claimed, GroundTruth(turn.edits))
    /\ UNCHANGED <<tester_outputs, new_findings, new_coverage>>

\* One finding stands for those a Tester's answer lists about its slice.
TesterTurn(turn, gen) ==
    /\ NextWorker = "tester"
    /\ turn.answer \in {"test", "infeasible"} => Len(new_findings) < FINDINGS
    /\ TurnMarks(turn, GroundTruth(turn.edits))
    /\ tester_outputs' = Append(tester_outputs, Dispatched)
    /\ new_findings' =
           IF turn.answer \in {"test", "infeasible"}
           THEN Append(new_findings,
                       [wp |-> Dispatched, kind |-> turn.answer, gen |-> gen])
           ELSE new_findings
    /\ new_coverage' = (new_coverage \/ turn.answer = "covered")
    /\ discrepancies' =
           IF turn.answer = "none"
           THEN discrepancies \cup {"tester_parse_failure"}
           ELSE discrepancies
    /\ UNCHANGED builder_outputs

\* A worker that raises leaves a patch that only says so, and no record: the
\* supervisor sends the slice again.
RaisedTurn(turn) ==
    /\ NextWorker # "end"
    /\ TurnMarks(turn, {})
    /\ UNCHANGED <<builder_outputs, tester_outputs, new_findings, new_coverage,
                   discrepancies>>

-----------------------------------------------------------------------------
(* The subgraph is given the state of the workflow, which has no records.  *)

NoRecords ==
    /\ builder_outputs = <<>> /\ tester_outputs = <<>>
    /\ new_findings = <<>> /\ new_coverage = FALSE /\ discrepancies = {}
    /\ patches = {} /\ turns = 0

ForgetRecords ==
    /\ builder_outputs' = <<>> /\ tester_outputs' = <<>>
    /\ new_findings' = <<>> /\ new_coverage' = FALSE /\ discrepancies' = {}
    /\ patches' = {} /\ turns' = 0

\* The attempt is over without a result; what it committed has no patch.
AttemptDiscarded ==
    /\ ForgetRecords
    /\ lost' = lost \cup (changed \ dirty)
    /\ UNCHANGED <<depends_on, changed>>

\* Its next stage accounts for its own changes.
StageAccounted ==
    /\ ForgetRecords
    /\ changed' = {} /\ lost' = {}
    /\ UNCHANGED depends_on

BuildTypeOK ==
    /\ depends_on \in [WPs -> SUBSET WPs]
    /\ builder_outputs \in Seq(WPs) /\ tester_outputs \in Seq(WPs)
    /\ new_findings \in Seq(TesterFindings) /\ new_coverage \in BOOLEAN
    /\ discrepancies \subseteq BlockingKinds \cup {"undeclared_edits"}
    /\ patches \subseteq Paths /\ turns \in 0 .. TURNS
    /\ changed \subseteq Paths /\ lost \subseteq Paths

-----------------------------------------------------------------------------
\* Whether some order of the slices has every dependency first.
Acyclic ==
    \E rank \in [Slices -> 1 .. Len(spec)] :
        \A s \in Slices, d \in Slices :
            d \in depends_on[s] => rank[d] < rank[s]

\* The supervisor builds each slice once, after the slices it depends on, and
\* has each tested before the next is built (stages/build.py, topo_sort).
BuildInOrder ==
    \A i \in DOMAIN builder_outputs :
        /\ \A j \in 1 .. i - 1 :
            builder_outputs[j] # builder_outputs[i] /\ j \in DOMAIN tester_outputs
        /\ Acyclic =>
            \A d \in depends_on[builder_outputs[i]] \cap Slices :
                \E j \in 1 .. i - 1 : d = builder_outputs[j] /\ d = tester_outputs[j]

\* Once every slice has its records, every change of the stage is in a patch,
\* but for a change without a hunk and one whose turn or attempt was lost
\* (compute_wp_diff against the HEAD of before each turn).
PatchesAccountForTree ==
    AllRun /\ repo => changed \subseteq patches \cup lost \cup Hunkless

=============================================================================
