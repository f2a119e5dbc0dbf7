---------------------------- MODULE IssueComments ----------------------------
(***************************************************************************)
(* The comments of an issue while a run triages and designs: the phase     *)
(* comments the run creates and edits (_phase, upsert_phase_comment), its  *)
(* questions (post_issue_comment), the notes the poller appends to a       *)
(* design comment when it refuses a command, and what people add there.    *)
(*                                                                         *)
(* GitHub replaces the body of a comment as a whole, so every edit of the  *)
(* worker and of the poller is a read and, later, a write of what was read *)
(* with changes.  An attempt of an activity may fail at any of its calls,  *)
(* also after the call took effect, and is then repeated from its start.   *)
(* Attempts of one activity do not overlap: its calls block the event loop *)
(* of the one worker.  A listing shows every comment made before it.       *)
(*                                                                         *)
(* A comment is its marker, the text the run last gave it, and the remarks *)
(* after its end marker.  Nobody but the run writes a marker; comments     *)
(* without one are left out, and so is what comes after the design gate:   *)
(* the poller writes to no later phase.                                    *)
(***************************************************************************)
EXTENDS Naturals, Sequences, FiniteSets

CONSTANTS
    Remarks,                    \* what people add to a comment
    Notices,                    \* notes on refused commands, by author
    MAX_CLARIFICATION_ROUNDS, PLANNING_MAX_ATTEMPTS,
    REVISIONS,                  \* bound: revisions of the spec
    FAILURES                    \* bound: attempts that fail

ASSUME CommentsAssumption ==
    /\ Remarks \cap Notices = {}
    /\ MAX_CLARIFICATION_ROUNDS \in Nat /\ PLANNING_MAX_ATTEMPTS \in Nat \ {0}
    /\ REVISIONS \in Nat \ {0} /\ FAILURES \in Nat

VARIABLES
    pc,                    \* what the run does, or awaits
    clarification_round, planning_attempts, latest_spec_rev,
    call,                  \* the write awaited
    comments,              \* on the issue, oldest first
    read,                  \* what the worker and the poller have read
    refused,               \* commands of people without permission
    pending,               \* those the poller has yet to answer
    failures,
    kept,                  \* history: the last text of each phase
    safe                   \* history: remarks made while nobody was writing

counters == <<clarification_round, planning_attempts, latest_spec_rev>>
runVars == <<pc, call, counters>>
issueVars == <<comments, read, refused, pending, failures>>
historyVars == <<kept, safe>>
vars == <<runVars, issueVars, historyVars>>

\* The phases' markers, and those of the questions.
Triage == [of |-> "triage", n |-> 0]
Design(rev) == [of |-> "design", n |-> rev]
Question(round) == [of |-> "clarify", n |-> round]
PhaseMarkers == {Triage} \cup {Design(r) : r \in 1 .. REVISIONS}
Markers == PhaseMarkers \cup {Question(r) : r \in 1 .. MAX_CLARIFICATION_ROUNDS + 1}

Awaits == {"triage", "ask", "hand_over", "clarification", "plan", "discovery",
           "gate", "revise", "over"}
Texts == {"running", "done", "failed", "brief", "decided", "asked"}
Comment == [marker : Markers, text : Texts, tail : SUBSET (Remarks \cup Notices)]

NoCall == [marker |-> Triage, text |-> "none", next |-> "none"]

\* What a writer holds of the comment it is about to write: none was found, or
\* the one at a place in the listing, as it was then.
NoRead == [held |-> FALSE, at |-> 0, text |-> "none", tail |-> {}]
NotFound == [NoRead EXCEPT !.held = TRUE]
Reads ==
    [held : BOOLEAN, at : Nat, text : Texts \cup {"none"},
     tail : SUBSET (Remarks \cup Notices)]
Copy(i) ==
    [held |-> TRUE, at |-> i, text |-> comments[i].text, tail |-> comments[i].tail]

\* The run is about to write its first phase comment (run, 176-181).
Init ==
    /\ pc = "write" /\ call = [marker |-> Triage, text |-> "running", next |-> "triage"]
    /\ clarification_round = 0 /\ planning_attempts = 0 /\ latest_spec_rev = 1
    /\ comments = <<>> /\ read = [worker |-> NoRead, poller |-> NoRead]
    /\ refused = <<>> /\ pending = <<>> /\ failures = 0
    /\ kept = [m \in PhaseMarkers |-> "none"] /\ safe = {}

-----------------------------------------------------------------------------
(* The run: _run_triage, _run_design_gate and _run_planning_loop.          *)

\* Await the write of a comment, then go on with next.
Await(marker, text, next) ==
    /\ pc' = "write"
    /\ call' = [marker |-> marker, text |-> text, next |-> next]

Goes(next) == pc' = next /\ UNCHANGED call

TriageReady ==
    /\ pc = "triage"
    /\ Await(Triage, "done", "plan")
    /\ UNCHANGED counters

\* Mutant of TriageAsks: a question too many.
TriageAsksLate ==
    /\ pc = "triage" /\ clarification_round <= MAX_CLARIFICATION_ROUNDS
    /\ clarification_round' = clarification_round + 1
    /\ Await(Triage, "running", "ask")
    /\ UNCHANGED <<planning_attempts, latest_spec_rev>>

TriageAsks ==
    /\ pc = "triage" /\ clarification_round < MAX_CLARIFICATION_ROUNDS
    /\ clarification_round' = clarification_round + 1
    /\ Await(Triage, "running", "ask")
    /\ UNCHANGED <<planning_attempts, latest_spec_rev>>

TriageAbandons ==
    /\ pc = "triage" /\ clarification_round >= MAX_CLARIFICATION_ROUNDS
    /\ Await(Triage, "done", "hand_over")
    /\ UNCHANGED counters

Ask ==
    /\ pc = "ask"
    /\ Await(Question(clarification_round), "asked", "clarification")
    /\ UNCHANGED counters

\* Mutant of LastQuestion: the round is the one asked last.
LastQuestionAgain == Question(clarification_round)

LastQuestion == Question(clarification_round + 1)

HandOver ==
    /\ pc = "hand_over"
    /\ Await(LastQuestion, "asked", "over")
    /\ UNCHANGED counters

Replied ==
    /\ pc = "clarification"
    /\ Await(Triage, "running", "triage")
    /\ UNCHANGED counters

Canceled ==
    /\ pc \in {"triage", "clarification"}
    /\ Goes("over")
    /\ UNCHANGED counters

PlanningAttempt ==
    /\ pc = "plan" /\ planning_attempts < PLANNING_MAX_ATTEMPTS
    /\ planning_attempts' = planning_attempts + 1
    /\ Await(Design(latest_spec_rev), "running", "discovery")
    /\ UNCHANGED <<clarification_round, latest_spec_rev>>

PlanningFailed ==
    /\ pc = "plan" /\ planning_attempts >= PLANNING_MAX_ATTEMPTS
    /\ Await(Design(latest_spec_rev), "failed", "over")
    /\ UNCHANGED counters

DiscoveryRejected ==
    /\ pc = "discovery"
    /\ Goes("plan")
    /\ UNCHANGED counters

\* The comment gets the brief and how to approve it.
DiscoveryApproved ==
    /\ pc = "discovery"
    /\ Await(Design(latest_spec_rev), "brief", "gate")
    /\ UNCHANGED counters

Decided ==
    /\ pc = "gate"
    /\ Await(Design(latest_spec_rev), "decided", "over")
    /\ UNCHANGED counters

GateRevised ==
    /\ pc = "gate" /\ latest_spec_rev < REVISIONS
    /\ Await(Design(latest_spec_rev), "decided", "revise")
    /\ UNCHANGED counters

\* Fix and Rebuild mean nothing at this gate: the same revision is planned again,
\* and nothing is written of it.
GateReplanned ==
    /\ pc = "gate" /\ planning_attempts' = 0
    /\ Goes("plan")
    /\ UNCHANGED <<clarification_round, latest_spec_rev>>

NextRevision ==
    /\ pc = "revise"
    /\ latest_spec_rev' = latest_spec_rev + 1 /\ planning_attempts' = 0
    /\ Goes("plan")
    /\ UNCHANGED clarification_round

RunSteps ==
    /\ \/ TriageReady \/ TriageAsks \/ TriageAbandons \/ Ask \/ HandOver
       \/ Replied \/ Canceled
       \/ PlanningAttempt \/ PlanningFailed \/ DiscoveryRejected \/ DiscoveryApproved
       \/ Decided \/ GateRevised \/ GateReplanned \/ NextRevision
    /\ UNCHANGED <<issueVars, historyVars>>

-----------------------------------------------------------------------------
(* The activities of the worker.                                           *)

\* Mutant of Lookup: only the newest comment is looked at.
LookupLast(marker) ==
    LET last == Len(comments)
    IN IF last > 0 /\ comments[last].marker = marker THEN Copy(last) ELSE NotFound

\* _find_comment_by_marker: the first that has the marker.
Lookup(marker) ==
    LET found == {i \in DOMAIN comments : comments[i].marker = marker}
    IN IF found = {} THEN NotFound
       ELSE Copy(CHOOSE i \in found : \A j \in found : i <= j)

Writes(markers) == pc = "write" /\ call.marker \in markers

\* The attempt that made the last of its calls returns, or has failed.
AttemptEnds ==
    /\ read' = [read EXCEPT !.worker = NoRead]
    /\ \/ pc' = call.next /\ call' = NoCall /\ UNCHANGED failures
       \/ failures < FAILURES /\ failures' = failures + 1 /\ UNCHANGED <<pc, call>>
    /\ UNCHANGED <<counters, refused, pending, safe>>

ListComments ==
    /\ Writes(PhaseMarkers) /\ ~read.worker.held
    /\ read' = [read EXCEPT !.worker = Lookup(call.marker)]
    /\ UNCHANGED <<runVars, comments, refused, pending, failures, historyVars>>

CreateComment ==
    /\ Writes(PhaseMarkers) /\ read.worker = NotFound
    /\ comments' = Append(comments,
           [marker |-> call.marker, text |-> call.text, tail |-> {}])
    /\ kept' = [kept EXCEPT ![call.marker] = call.text]
    /\ AttemptEnds

\* Mutant of ManualTail: the comment is rendered anew.
NoTail(copy) == {}

\* _preserve_manual_tail.
ManualTail(copy) == copy.tail

\* Mutant of Rendered: a comment that is there keeps its text.
RenderedOnce(copy) == copy.text

Rendered(copy) == call.text

PatchComment ==
    /\ Writes(PhaseMarkers) /\ read.worker.at # 0
    /\ comments' = [comments EXCEPT ![read.worker.at] =
           [@ EXCEPT !.text = Rendered(read.worker), !.tail = ManualTail(read.worker)]]
    /\ kept' = [kept EXCEPT ![call.marker] = call.text]
    /\ AttemptEnds

\* post_issue_comment_activity: no look at what is there.
PostQuestion ==
    /\ Writes(Markers \ PhaseMarkers)
    /\ comments' = Append(comments,
           [marker |-> call.marker, text |-> call.text, tail |-> {}])
    /\ AttemptEnds
    /\ UNCHANGED kept

\* An attempt fails before it wrote anything.
AttemptFails ==
    /\ pc = "write" /\ failures < FAILURES /\ failures' = failures + 1
    /\ read' = [read EXCEPT !.worker = NoRead]
    /\ UNCHANGED <<runVars, comments, refused, pending, historyVars>>

-----------------------------------------------------------------------------
(* The poller: detect_approval_signal, for the revision of the spec that   *)
(* the run had when the tick asked for it.                                 *)

\* A person without permission writes a command.
Command(notice) ==
    /\ pc # "over"
    /\ notice \notin {refused[i] : i \in DOMAIN refused}
    /\ refused' = Append(refused, notice)
    /\ UNCHANGED <<runVars, comments, read, pending, failures, historyVars>>

\* The issue's comments are read once, for all commands since the last seen.
PollerReads ==
    /\ pc # "over" /\ ~read.poller.held
    /\ \E rev \in 1 .. latest_spec_rev :
        /\ Lookup(Design(rev)) # NotFound
        /\ read' = [read EXCEPT !.poller = Lookup(Design(rev))]
    /\ \E from \in DOMAIN refused : pending' = SubSeq(refused, from, Len(refused))
    /\ UNCHANGED <<runVars, comments, refused, failures, historyVars>>

\* _append_unauthorized_note: written to the body that was read.
AppendNotice ==
    LET copy == read.poller
        notice == Head(pending)
    IN /\ copy.held /\ pending' = Tail(pending)
       /\ read' = IF Len(pending) = 1 THEN [read EXCEPT !.poller = NoRead] ELSE read
       /\ IF notice \in copy.tail
          THEN UNCHANGED <<comments, safe>>
          ELSE /\ comments' = [comments EXCEPT ![copy.at] =
                      [@ EXCEPT !.text = copy.text, !.tail = copy.tail \cup {notice}]]
               /\ safe' = IF Len(pending) > 1 \/ read.worker.at = copy.at
                          THEN safe ELSE safe \cup {<<copy.at, notice>>}
       /\ UNCHANGED <<runVars, refused, failures, kept>>

\* A command with permission ends the activity, as does a failure.
PollerEnds ==
    /\ read.poller.held
    /\ read' = [read EXCEPT !.poller = NoRead] /\ pending' = <<>>
    /\ UNCHANGED <<runVars, comments, refused, failures, historyVars>>

-----------------------------------------------------------------------------
\* A person adds a remark at the end of a phase comment.
Remark(remark, i) ==
    /\ pc # "over"
    /\ \A j \in DOMAIN comments : remark \notin comments[j].tail
    /\ comments[i].marker \in PhaseMarkers
    /\ comments' = [comments EXCEPT ![i].tail = @ \cup {remark}]
    /\ safe' = IF i \in {read.worker.at, read.poller.at}
               THEN safe ELSE safe \cup {<<i, remark>>}
    /\ UNCHANGED <<runVars, read, refused, pending, failures, kept>>

Next ==
    \/ RunSteps
    \/ ListComments \/ CreateComment \/ PatchComment \/ PostQuestion \/ AttemptFails
    \/ \E notice \in Notices : Command(notice)
    \/ PollerReads \/ AppendNotice \/ PollerEnds
    \/ \E remark \in Remarks, i \in DOMAIN comments : Remark(remark, i)

Spec == Init /\ [][Next]_vars

-----------------------------------------------------------------------------
\* The state keeps to the values the code can give it.
CommentsTypeOK ==
    /\ pc \in Awaits \cup {"write"}
    /\ IF pc = "write"
       THEN call \in [marker : Markers, text : Texts, next : Awaits] ELSE call = NoCall
    /\ clarification_round \in 0 .. MAX_CLARIFICATION_ROUNDS
    /\ planning_attempts \in 0 .. PLANNING_MAX_ATTEMPTS
    /\ latest_spec_rev \in 1 .. REVISIONS
    /\ comments \in Seq(Comment)
    /\ read \in [worker : Reads, poller : Reads]
    /\ read.worker.at <= Len(comments) /\ read.poller.at <= Len(comments)
    /\ refused \in Seq(Notices) /\ pending \in Seq(Notices)
    /\ failures \in 0 .. FAILURES
    /\ kept \in [PhaseMarkers -> Texts \cup {"none"}]
    /\ safe \subseteq Nat \X (Remarks \cup Notices)

\* A phase, and a revision of the design, has one comment, whichever attempts
\* of the upsert are repeated and whatever they had done (upsert_phase_comment).
OneCommentPerPhase ==
    \A i, j \in DOMAIN comments :
        i # j /\ comments[i].marker \in PhaseMarkers
            => comments[i].marker # comments[j].marker

\* A remark, or a note on a refused command, stays, unless somebody was between
\* reading and writing that comment when it was made (_preserve_manual_tail,
\* _append_unauthorized_note).
SafeRemarksStay == \A s \in safe : s[2] \in comments[s[1]].tail

\* A phase comment shows what the run last gave it, whoever else edits it and
\* whatever is repeated; only the poller may put an older text back, and then
\* its note is at the end (_append_unauthorized_note writes what it read).
PhaseIsShown ==
    \A i \in DOMAIN comments :
        \/ comments[i].marker \notin PhaseMarkers
        \/ comments[i].text = kept[comments[i].marker]
        \/ comments[i].tail \cap Notices # {}

\* The run waits for an answer to a question that is on the issue, and a
\* question is there twice only if an attempt failed (post_issue_comment has no
\* marker check; markers df-clarify:<run>:<round>).
QuestionsAsked ==
    /\ pc = "clarification" =>
        \E i \in DOMAIN comments : comments[i].marker = Question(clarification_round)
    /\ \A round \in 1 .. MAX_CLARIFICATION_ROUNDS + 1 :
        Cardinality({i \in DOMAIN comments : comments[i].marker = Question(round)})
            <= 1 + failures

=============================================================================
