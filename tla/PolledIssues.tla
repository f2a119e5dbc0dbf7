---------------------------- MODULE PolledIssues ----------------------------
(***************************************************************************)
(* What the issue poller reads and acts upon: the issues with their labels *)
(* and comments, the people who write there, and the issue runs with what  *)
(* Temporal's visibility store says of them.                               *)
(*                                                                         *)
(* A run is the workflow of module DarkFactoryIssueWorkflow seen from      *)
(* outside: its stages are the waits and the stretches of work between     *)
(* them, and the lifecycle labels, all of them polled, are one label       *)
(* "active".  A comment's id is its place in the issue; people and the     *)
(* quarantine marker of a run that ended are told apart, other bot         *)
(* comments are left out.  Visibility says of an issue's latest run what   *)
(* was true at some earlier moment.                                        *)
(***************************************************************************)
EXTENDS Naturals, Sequences, FiniteSets

CONSTANTS
    Issues,
    CommentKinds,   \* what people write: a subset of WrittenKinds
    MAX_RUNS,       \* bound: runs of one issue
    MAX_COMMENTS,   \* bound: comments people write on one issue
    MAX_LABELINGS   \* bound: labels people put on one issue

Commands == {"Approve", "Revise", "Reject", "Cancel"}

WrittenKinds == {"text"} \cup Commands

ASSUME IssuesAssumption == IsFiniteSet(Issues)
ASSUME CommentKindsAssumption == CommentKinds \subseteq WrittenKinds
ASSUME PolledBoundsAssumption ==
    /\ MAX_RUNS \in Nat /\ MAX_COMMENTS \in Nat /\ MAX_LABELINGS \in Nat

VARIABLES
    issue_open,     \* of each issue: not closed by the merge of its change
    labels,         \* of each issue
    comments,       \* of each issue, in order
    labelings,      \* how often people labelled it
    runs,           \* of each issue: run-1, run-2, ...
    visible         \* of each issue: what visibility says of its latest run

issueVars == <<issue_open, labels, comments, labelings>>
polledVars == <<issueVars, runs, visible>>

StateLabels == {"ready", "active", "done", "needs-human", "canceled", "failed"}
ActionLabels == {"approved", "cancel"}

\* _poll_labels for the default entry label.  For another one it is that label
\* alone (activities.py 343-346), which is not modelled.
PollLabels == {"ready", "active"} \cup ActionLabels

Comment(kind, run) == [kind |-> kind, run |-> run]
Marker(n) == Comment("marker", n)
Comments == [kind : WrittenKinds \cup {"marker"}, run : Nat]

Stages == {"new", "triage", "planning", "design_gate", "build_check", "building",
           "merge_gate", "quarantine", "teardown", "closed"}
Closures == {"none", "canceled", "rejected", "completed", "failed"}
Signals == {"none"} \cup Commands
Runs == [stage : Stages, closure : Closures, signal : Signals, last_seen : Nat]

NewRun == [stage |-> "new", closure |-> "none", signal |-> "none", last_seen |-> 0]

Open(run) == run.stage # "closed"
OpenRuns(i) == {n \in DOMAIN runs[i] : Open(runs[i][n])}
NothingVisible == [n |-> 0, open |-> FALSE]

\* What a visibility that has caught up says.
Latest(i) ==
    IF runs[i] = <<>>
    THEN NothingVisible
    ELSE [n |-> Len(runs[i]), open |-> Open(runs[i][Len(runs[i])])]

PolledInit ==
    /\ issue_open = [i \in Issues |-> TRUE]
    /\ labels = [i \in Issues |-> {}]
    /\ comments = [i \in Issues |-> <<>>]
    /\ labelings = [i \in Issues |-> 0]
    /\ runs = [i \in Issues |-> <<>>]
    /\ visible = [i \in Issues |-> NothingVisible]

HasMarker(i, n, length) ==
    \E id \in 1..length : id \in DOMAIN comments[i] /\ comments[i][id] = Marker(n)

\* Comments on i that are not a marker, with ids from first to last.
Written(i, first, last) ==
    {id \in DOMAIN comments[i] : first <= id /\ id <= last /\ comments[i][id].kind # "marker"}

-----------------------------------------------------------------------------
(* People.                                                                 *)

WriteComment(i) ==
    /\ Cardinality(Written(i, 1, Len(comments[i]))) < MAX_COMMENTS
    /\ \E kind \in CommentKinds :
          comments' = [comments EXCEPT ![i] = Append(@, Comment(kind, 0))]
    /\ UNCHANGED <<issue_open, labels, labelings, runs, visible>>

PutLabel(i) ==
    /\ labelings[i] < MAX_LABELINGS
    /\ labelings' = [labelings EXCEPT ![i] = @ + 1]
    /\ \E label \in {"ready"} \cup ActionLabels :
          labels' = [labels EXCEPT ![i] = @ \cup {label}]
    /\ UNCHANGED <<issue_open, comments, runs, visible>>

-----------------------------------------------------------------------------
(* The updates of a run.                                                   *)

Receive(run, ids) ==
    [run EXCEPT !.last_seen = CHOOSE m \in {@} \cup ids : \A id \in {@} \cup ids : id <= m]

Signaled(run, kind, id) ==
    [run EXCEPT !.signal = kind, !.last_seen = IF id > @ THEN id ELSE @]

-----------------------------------------------------------------------------
(* The runs.  Every run but the latest is closed.                          *)

\* The open run n of i goes from one stage to another.
Moves(i, n, from, to) ==
    /\ n \in DOMAIN runs[i] /\ runs[i][n].stage = from
    /\ runs' = [runs EXCEPT ![i][n].stage = to]

\* The same, and the signal it holds is discarded.
MovesToGate(i, n, from, gate) ==
    /\ n \in DOMAIN runs[i] /\ runs[i][n].stage = from
    /\ runs' = [runs EXCEPT ![i][n].stage = gate, ![i][n].signal = "none"]

Swap(i, remove, add) == labels' = [labels EXCEPT ![i] = (@ \ remove) \cup add]

TakeUp(i, n) ==
    /\ Moves(i, n, "new", "triage")
    /\ Swap(i, {"ready"}, {"active"})
    /\ UNCHANGED <<issue_open, comments, labelings, visible>>

\* Triage is done, or the check before the build found no cancellation.
Works(i, n) ==
    /\ \/ Moves(i, n, "triage", "planning")
       \/ Moves(i, n, "build_check", "building") /\ runs[i][n].signal # "Cancel"
    /\ UNCHANGED <<issueVars, visible>>

OpensGate(i, n) ==
    /\ \/ MovesToGate(i, n, "planning", "design_gate")
       \/ MovesToGate(i, n, "building", "merge_gate")
    /\ UNCHANGED <<issueVars, visible>>

Signal(i, n) == IF n \in DOMAIN runs[i] THEN runs[i][n].signal ELSE "none"

DesignApproved(i, n) ==
    /\ Signal(i, n) = "Approve" /\ Moves(i, n, "design_gate", "build_check")
    /\ Swap(i, {"approved"}, {})
    /\ UNCHANGED <<issue_open, comments, labelings, visible>>

DesignRevised(i, n) ==
    /\ Signal(i, n) = "Revise" /\ MovesToGate(i, n, "design_gate", "planning")
    /\ UNCHANGED <<issueVars, visible>>

\* Cancel is looked for at triage, at the check before the build and at the
\* gates; Reject at the gates only.
Canceled(i, n) ==
    /\ n \in DOMAIN runs[i]
    /\ \/ Signal(i, n) = "Cancel"
            /\ runs[i][n].stage \in {"triage", "design_gate", "build_check", "merge_gate"}
       \/ Signal(i, n) = "Reject" /\ runs[i][n].stage \in {"design_gate", "merge_gate"}
    /\ LET rejected == Signal(i, n) = "Reject" /\ runs[i][n].stage = "merge_gate"
       IN runs' = [runs EXCEPT ![i][n].stage = "quarantine",
                               ![i][n].closure = IF rejected THEN "rejected" ELSE "canceled"]
    /\ Swap(i, {"active", "cancel"}, {"canceled"})
    /\ UNCHANGED <<issue_open, comments, labelings, visible>>

\* The label that says how a run ended that did not complete.
StatusLabels(closure) ==
    CASE closure = "completed" -> {}
      [] closure = "canceled" -> {"canceled"}
      [] OTHER -> {"failed"}

\* The state labels the quarantine takes off the issue.
Dropped(onIssue, closure) ==
    LET keep == IF closure = "completed" THEN {"done"} ELSE StatusLabels(closure)
    IN (onIssue \cap StateLabels) \ keep

\* The run quarantines its issue itself with the activity the poller uses,
\* here in one step.
Quarantines(i, n) ==
    /\ Moves(i, n, "quarantine", "teardown")
    /\ Swap(i, Dropped(labels[i], runs[i][n].closure), StatusLabels(runs[i][n].closure))
    /\ comments' = IF HasMarker(i, n, Len(comments[i]))
                   THEN comments
                   ELSE [comments EXCEPT ![i] = Append(@, Marker(n))]
    /\ UNCHANGED <<issue_open, labelings, visible>>

\* Triage, planning or repair gives up: no marker is left on the issue.
NeedsHuman(i, n) ==
    /\ \/ Moves(i, n, "triage", "teardown")
       \/ Moves(i, n, "planning", "teardown")
       \/ Moves(i, n, "building", "teardown")
    /\ Swap(i, {"active"}, {"needs-human"})
    /\ UNCHANGED <<issue_open, comments, labelings, visible>>

\* GitHub closes the issue with the merge ("Closes #n").
Merged(i, n) ==
    /\ Signal(i, n) = "Approve" /\ Moves(i, n, "merge_gate", "teardown")
    /\ Swap(i, {"active"}, {"done"})
    /\ issue_open' = [issue_open EXCEPT ![i] = FALSE]
    /\ UNCHANGED <<comments, labelings, visible>>

Close(i, n, closure) ==
    /\ runs' = [runs EXCEPT ![i][n] = [NewRun EXCEPT !.stage = "closed", !.closure = closure]]
    /\ UNCHANGED <<issueVars, visible>>

Closes(i, n) ==
    n \in DOMAIN runs[i] /\ runs[i][n].stage = "teardown" /\ Close(i, n, "completed")

\* An exception leaves the run, or an administrator ends it.
Fails(i, n) ==
    n \in DOMAIN runs[i] /\ Open(runs[i][n]) /\ Close(i, n, "failed")

\* An await ends into which the state of before was loaded, and with it the
\* last_seen of before (IssueConversation has which).
CursorGoesBack(i, n) ==
    /\ n \in DOMAIN runs[i] /\ runs[i][n].stage \in {"new", "planning", "building"}
    /\ \E id \in 0 .. Len(comments[i]) :
          /\ id < runs[i][n].last_seen
          /\ runs' = [runs EXCEPT ![i][n].last_seen = id]
    /\ UNCHANGED <<issueVars, visible>>

VisibilityCatchesUp(i) ==
    /\ visible[i] # Latest(i)
    /\ visible' = [visible EXCEPT ![i] = Latest(i)]
    /\ UNCHANGED <<issueVars, runs>>

RunStep(i, n) ==
    \/ TakeUp(i, n) \/ Works(i, n) \/ OpensGate(i, n)
    \/ DesignApproved(i, n) \/ DesignRevised(i, n) \/ Canceled(i, n)
    \/ Quarantines(i, n) \/ NeedsHuman(i, n) \/ Merged(i, n)
    \/ Closes(i, n) \/ Fails(i, n) \/ CursorGoesBack(i, n)

\* Everything that goes on without the poller.
PolledStep ==
    \E i \in Issues :
        \/ WriteComment(i) \/ PutLabel(i) \/ VisibilityCatchesUp(i)
        \/ \E n \in 1..MAX_RUNS : RunStep(i, n)

-----------------------------------------------------------------------------
(* Issues, runs and visibility keep to the values they can have.           *)
PolledTypeOK ==
    /\ issue_open \in [Issues -> BOOLEAN]
    /\ labels \in [Issues -> SUBSET (StateLabels \cup ActionLabels)]
    /\ comments \in [Issues -> Seq(Comments)]
    /\ labelings \in [Issues -> 0..MAX_LABELINGS]
    /\ runs \in [Issues -> Seq(Runs)]
    /\ visible \in [Issues -> [n : Nat, open : BOOLEAN]]

=============================================================================
