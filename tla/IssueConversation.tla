-------------------------- MODULE IssueConversation --------------------------
(***************************************************************************)
(* What people write on one issue, and what becomes of it: the hydrator    *)
(* reads it, a tick of the poller forwards it to the run (post_new_comments)*)
(* and looks in it for a command (detect_approval_signal, signal_approval), *)
(* and the run's triage and design gate wait for it.                       *)
(*                                                                         *)
(* The poller keeps nothing between ticks: how far it has read is what the *)
(* run's query answers (LastSeen), from last_seen_comment_id, which both   *)
(* updates advance, and from the comments the run has.  The run evaluates  *)
(* merge(self._state, await ...): the state is loaded before the await, and *)
(* what an update records during it is gone (hydrate_stage and             *)
(* discovery_stage are such awaits, triage_stage is not).  A tick lists the *)
(* comments once and reads them again to find a command.  An attempt of an *)
(* activity may fail, also after its update took effect, and is repeated   *)
(* with the arguments it was called with.                                  *)
(*                                                                         *)
(* A comment's id is its place in the thread.  Left out: the bot's own     *)
(* comments, which are filtered wherever comments are read; editing and    *)
(* deletion; labels and gate_admin as ways to send a signal, but for       *)
(* GateReplanned; the commands of people without permission, which count as*)
(* replies; an issue's runs but one (IssuePoller has those).               *)
(***************************************************************************)
EXTENDS Naturals, Sequences, FiniteSets

CONSTANTS
    Replies,                  \* bodies people write that are no command
    Commands,                 \* kinds of commands they write
    MAX_CLARIFICATION_ROUNDS,
    COMMENTS,                 \* bound: comments people write
    FAILURES                  \* bound: attempts that fail

Bodies == Replies \cup Commands

\* What parse_command knows; fix and rebuild come as updates only.
CommandKinds == {"approve", "revise", "reject", "cancel"}

ASSUME ConversationAssumption ==
    /\ Commands \subseteq CommandKinds /\ Replies \cap CommandKinds = {}
    /\ MAX_CLARIFICATION_ROUNDS \in Nat /\ COMMENTS \in Nat /\ FAILURES \in Nat

VARIABLES
    thread,               \* the bodies on the issue, oldest first
    pc,                   \* what the run awaits, or does next
    clarification_round,
    hydrated,             \* how many comments the hydrator read
    issue_comments,       \* ids posted and merged into the run's state
    new_comments,         \* ids posted to the run and not yet merged
    approval_signal,      \* id of the command in the run's slot, or 0
    last_seen,            \* the run's last_seen_comment_id
    loaded,               \* last_seen of the state an await will be merged into
    tick,                 \* where the poller's tick is, and what it knows
    failures,
    sent,                 \* history: signals sent, with what the tick knew
    denied,               \* history: commands whose permission query failed
    started,              \* history: comments listed when the run was started
    repeated,             \* history: start_or_update was repeated after an effect
    rewound               \* history: what the query answers has gone back

given == <<hydrated, issue_comments, new_comments>>
runVars == <<pc, clarification_round, given, loaded>>
signalVars == <<approval_signal, last_seen>>
historyVars == <<sent, denied, started, repeated>>
vars == <<thread, runVars, signalVars, tick, failures, historyVars, rewound>>

NoTick == [at |-> "idle", listed |-> 0, seen |-> 0, found |-> 0]

Init ==
    /\ thread = <<>>
    /\ pc = "none" /\ clarification_round = 0
    /\ hydrated = 0 /\ issue_comments = {} /\ new_comments = {}
    /\ approval_signal = 0 /\ last_seen = 0 /\ loaded = 0
    /\ tick = NoTick /\ failures = 0
    /\ sent = {} /\ denied = {} /\ started = 0
    /\ repeated = FALSE /\ rewound = FALSE

-----------------------------------------------------------------------------
\* After the design gate nobody reads what is posted to the run.
Write(body) ==
    /\ Len(thread) < COMMENTS /\ pc \notin {"building", "closed"}
    /\ thread' = Append(thread, body)
    /\ UNCHANGED <<runVars, signalVars, tick, failures, historyVars, rewound>>

-----------------------------------------------------------------------------
(* The run.                                                                *)

Shown == {thread[i] : i \in 1 .. hydrated \cup issue_comments}

\* merge_issue_comments: a comment is left out when its body is there already.
\* The ids do not tell: gh names a comment by another id than REST.
Merged(ids) ==
    issue_comments \cup
        {i \in ids : /\ thread[i] \notin Shown
                     /\ \A j \in ids : j < i => thread[j] # thread[i]}

Latest(ids) == CHOOSE m \in ids : \A i \in ids : i <= m

\* What current_state_summary answers.
LastSeen == Latest({last_seen} \cup issue_comments \cup new_comments)

Requested(command) == approval_signal # 0 /\ thread[approval_signal] = command

\* _record_last_seen.
Recorded(id) == last_seen' = Latest({last_seen, id})

\* The worker is set up; the state is loaded for hydrate_stage.
HydrateStarts ==
    /\ pc = "setup"
    /\ loaded' = last_seen
    /\ pc' = "hydrating"
    /\ UNCHANGED <<clarification_round, given, signalVars>>

\* The last thing hydrate_stage does is to read the issue with gh.
HydrateEnds ==
    /\ pc = "hydrating"
    /\ hydrated' = Len(thread)
    /\ last_seen' = loaded /\ loaded' = 0
    /\ pc' = "triage"
    /\ UNCHANGED <<clarification_round, issue_comments, new_comments, approval_signal>>

\* Mutant of MergeNew: the comments are taken off the list only.
ForgetNew == new_comments' = {} /\ UNCHANGED issue_comments

MergeNew ==
    /\ issue_comments' = Merged(new_comments)
    /\ new_comments' = {}

\* What was posted so far is merged before the agent is asked.
TriageStarts ==
    /\ pc = "triage" /\ ~Requested("cancel")
    /\ MergeNew
    /\ pc' = "triaging"
    /\ UNCHANGED <<clarification_round, hydrated, loaded, signalVars>>

TriageReady ==
    /\ pc = "triaging"
    /\ pc' = "planning"
    /\ UNCHANGED <<clarification_round, given, loaded, signalVars>>

\* Mutant of TriageAsks: a round too many.
TriageAsksLate ==
    /\ pc = "triaging" /\ clarification_round <= MAX_CLARIFICATION_ROUNDS
    /\ clarification_round' = clarification_round + 1
    /\ pc' = "clarification"
    /\ UNCHANGED <<given, loaded, signalVars>>

TriageAsks ==
    /\ pc = "triaging" /\ clarification_round < MAX_CLARIFICATION_ROUNDS
    /\ clarification_round' = clarification_round + 1
    /\ pc' = "clarification"
    /\ UNCHANGED <<given, loaded, signalVars>>

TriageAbandons ==
    /\ pc = "triaging" /\ clarification_round >= MAX_CLARIFICATION_ROUNDS
    /\ pc' = "closed"
    /\ UNCHANGED <<clarification_round, given, loaded, signalVars>>

Replied ==
    /\ pc = "clarification" /\ new_comments # {} /\ ~Requested("cancel")
    /\ MergeNew
    /\ pc' = "triage"
    /\ UNCHANGED <<clarification_round, hydrated, loaded, signalVars>>

Canceled ==
    /\ pc \in {"triage", "clarification"} /\ Requested("cancel")
    /\ Recorded(approval_signal)
    /\ pc' = "closed"
    /\ UNCHANGED <<clarification_round, given, loaded, approval_signal>>

\* The state is loaded for discovery_stage.
DiscoveryStarts ==
    /\ pc = "planning"
    /\ loaded' = last_seen
    /\ pc' = "discovering"
    /\ UNCHANGED <<clarification_round, given, signalVars>>

\* The critic accepts the brief, rejects it, or rejects it for the last time.
DiscoveryEnds ==
    /\ pc = "discovering"
    /\ last_seen' = loaded /\ loaded' = 0
    /\ pc' \in {"planned", "planning", "closed"}
    /\ UNCHANGED <<clarification_round, given, approval_signal>>

\* Signals of before are discarded.
GateOpens ==
    /\ pc = "planned"
    /\ approval_signal' = 0 /\ pc' = "gate"
    /\ UNCHANGED <<clarification_round, given, loaded, last_seen>>

\* After an approval nobody reads comments: the module leaves the run there.
GateAnswered ==
    /\ pc = "gate" /\ approval_signal # 0
    /\ Recorded(approval_signal)
    /\ pc' = CASE Requested("approve") -> "building"
               [] Requested("revise") -> "planning"
               [] OTHER -> "closed"
    /\ UNCHANGED <<clarification_round, given, loaded, approval_signal>>

\* An operator's trigger_fix or trigger_rebuild at the gate takes the place of
\* the signal that is there, and the gate plans again.
GateReplanned ==
    /\ pc = "gate" /\ pc' = "planning" /\ approval_signal' = 0
    /\ UNCHANGED <<clarification_round, given, loaded, last_seen>>

RunSteps ==
    /\ \/ HydrateStarts \/ HydrateEnds
       \/ TriageStarts \/ TriageReady \/ TriageAsks \/ TriageAbandons
       \/ Replied \/ Canceled
       \/ DiscoveryStarts \/ DiscoveryEnds
       \/ GateOpens \/ GateAnswered \/ GateReplanned
    /\ rewound' = (rewound \/ LastSeen' < LastSeen)
    /\ UNCHANGED <<thread, tick, failures, historyVars>>

Running == pc \notin {"none", "closed"}

\* post_new_comments.
Receive(ids) ==
    /\ new_comments' = new_comments \cup ids
    /\ last_seen' = Latest({last_seen} \cup ids)
    /\ UNCHANGED <<pc, clarification_round, hydrated, issue_comments, loaded, approval_signal>>

-----------------------------------------------------------------------------
(* A tick of the poller.                                                   *)

At(place) == tick.at = place
Goes(place) == tick' = [tick EXCEPT !.at = place]

\* The activity is repeated from its start.
AttemptFails(from) ==
    /\ failures < FAILURES /\ failures' = failures + 1
    /\ tick' = [tick EXCEPT !.at = from]

TickLists ==
    /\ At("idle") /\ pc # "closed"
    /\ tick' = [NoTick EXCEPT !.at = "sync", !.listed = Len(thread)]
    /\ UNCHANGED <<thread, runVars, signalVars, failures, historyVars>>

StartWorkflow ==
    /\ At("sync") /\ pc = "none"
    /\ pc' = "setup" /\ started' = tick.listed
    /\ \/ Goes("history") /\ UNCHANGED <<failures, repeated>>
       \/ AttemptFails("sync") /\ repeated' = TRUE
    /\ UNCHANGED <<thread, clarification_round, given, loaded, signalVars, sent, denied>>

\* _can_detect_approval: not for a run just started.
AfterStart == NoTick

\* _forward_history_to_fresh_run; that the run has closed is no error.
ForwardHistory ==
    /\ At("history")
    /\ IF Running THEN Receive(1 .. tick.listed) ELSE UNCHANGED <<runVars, signalVars>>
    /\ \/ tick' = AfterStart /\ UNCHANGED <<failures, repeated>>
       \/ AttemptFails("sync") /\ repeated' = TRUE
    /\ UNCHANGED <<thread, sent, denied, started>>

\* Mutant of Since: what the tick has listed counts as seen.
SinceListed == tick.listed

\* The query's last_seen_comment_id, of before this tick's post.
Since == LastSeen

\* Mutant of HasNew: one comment is not enough.
HasTwoNew == tick.listed > LastSeen + 1

\* _comments_since_last_seen.
HasNew == tick.listed > LastSeen

\* _sync_existing_issue_workflow: describe and query.
Sync ==
    /\ At("sync") /\ pc # "none"
    /\ tick' = IF ~Running THEN NoTick
               ELSE [tick EXCEPT !.seen = Since,
                        !.at = IF HasNew THEN "post" ELSE "detect"]
    /\ UNCHANGED <<thread, runVars, signalVars, failures, historyVars>>

PostNewComments ==
    /\ At("post")
    /\ \/ /\ Running
          /\ Receive(tick.seen + 1 .. tick.listed)
          /\ \/ Goes("detect") /\ UNCHANGED <<failures, repeated>>
             \/ AttemptFails("sync") /\ repeated' = TRUE
       \/ /\ ~Running
          /\ Goes("sync")
          /\ UNCHANGED <<runVars, signalVars, failures, repeated>>
    /\ UNCHANGED <<thread, sent, denied, started>>

\* An attempt of start_or_update fails before its update.
SyncAttemptFails ==
    /\ At("sync") \/ At("post")
    /\ AttemptFails("sync")
    /\ UNCHANGED <<thread, runVars, signalVars, historyVars>>

FirstOf(ids) == CHOOSE i \in ids : \A j \in ids : i <= j

NewCommands == {i \in DOMAIN thread : i > tick.seen /\ thread[i] \in Commands}

\* The first command is taken.
DetectApprovalSignal ==
    /\ At("detect")
    /\ tick' = IF NewCommands = {} THEN NoTick
               ELSE [tick EXCEPT !.at = "signal", !.found = FirstOf(NewCommands)]
    /\ UNCHANGED <<thread, runVars, signalVars, failures, historyVars>>

\* is_authorized takes a permission query that fails for a no, and the command is
\* passed over for the next one, up to the first whose query answers: the
\* queries that fail are those for the commands up to last.
PermissionQueryFails ==
    /\ At("detect") /\ NewCommands # {}
    /\ failures < FAILURES /\ failures' = failures + 1
    /\ \E last \in NewCommands :
          LET rest == {i \in NewCommands : i > last}
          IN /\ denied' = denied \cup (NewCommands \ rest)
             /\ tick' = IF rest = {} THEN NoTick
                        ELSE [tick EXCEPT !.at = "signal", !.found = FirstOf(rest)]
    /\ UNCHANGED <<thread, runVars, signalVars, sent, started, repeated>>

\* Mutant of SeenWith: signal_approval leaves last_seen alone.
SeenBefore(id) == UNCHANGED last_seen

SeenWith(id) == Recorded(id)

\* The update of a run that has closed fails, and is tried again for ever.
SignalIssueWorkflow ==
    /\ At("signal") /\ Running
    /\ approval_signal' = tick.found
    /\ SeenWith(tick.found)
    /\ sent' = sent \cup {[seen |-> tick.seen, listed |-> tick.listed, id |-> tick.found]}
    /\ \/ tick' = NoTick /\ UNCHANGED failures
       \/ AttemptFails("signal")
    /\ UNCHANGED <<thread, runVars, denied, started, repeated>>

TickSteps ==
    /\ \/ TickLists \/ StartWorkflow \/ ForwardHistory \/ Sync \/ PostNewComments
       \/ SyncAttemptFails \/ DetectApprovalSignal \/ PermissionQueryFails
       \/ SignalIssueWorkflow
    /\ UNCHANGED rewound

-----------------------------------------------------------------------------
Next == (\E body \in Bodies : Write(body)) \/ RunSteps \/ TickSteps

SafetySpec == Init /\ [][Next]_vars
Spec == SafetySpec /\ WF_vars(RunSteps) /\ WF_vars(TickSteps)

-----------------------------------------------------------------------------
\* The state keeps to the values the code can give it.
ConversationTypeOK ==
    /\ thread \in Seq(Bodies)
    /\ pc \in {"none", "setup", "hydrating", "triage", "triaging", "clarification",
               "planning", "discovering", "planned", "gate", "building", "closed"}
    /\ clarification_round \in 0 .. MAX_CLARIFICATION_ROUNDS
    /\ hydrated \in 0 .. Len(thread)
    /\ issue_comments \subseteq DOMAIN thread /\ new_comments \subseteq DOMAIN thread
    /\ approval_signal \in 0 .. Len(thread) /\ last_seen \in 0 .. Len(thread)
    /\ loaded \in 0 .. Len(thread)
    /\ tick \in [at : {"idle", "sync", "history", "post", "detect", "signal"},
                 listed : 0 .. Len(thread), seen : 0 .. Len(thread),
                 found : 0 .. Len(thread)]
    /\ At("signal") => tick.found # 0
    /\ failures \in 0 .. FAILURES
    /\ sent \subseteq
           [seen : 0 .. Len(thread), listed : 0 .. Len(thread), id : DOMAIN thread]
    /\ denied \subseteq DOMAIN thread
    /\ started \in 0 .. Len(thread) /\ repeated \in BOOLEAN /\ rewound \in BOOLEAN

\* The cursor passes over a comment the run was not given only by a command,
\* found in a read newer than the list that was forwarded; every other comment
\* that will not be forwarded again is in the run, in words at least
\* (post_new_comments, _record_last_seen, merge_issue_comments).
SkippedOnlyByCommand ==
    \A i \in 1 .. LastSeen :
        \/ i \in new_comments \/ thread[i] \in Shown
        \/ \E s \in sent : s.listed < i /\ i <= s.id

\* What becomes of a command the cursor has passed: it was sent, it came
\* after the one its tick sent, its permission query failed, the tick is at it
\* still, it is older than the run, or an attempt was repeated after it was
\* forwarded (start_or_update_issue_workflow, detect_approval_signal).
CommandFate ==
    \A i \in 1 .. LastSeen : thread[i] \in Commands =>
        \/ \E s \in sent : s.seen < s.id /\ s.id <= i /\ (i <= s.listed \/ i = s.id)
        \/ i \in denied
        \/ tick.seen < i
             /\ (At("detect") \/ (At("signal") /\ tick.found <= i))
        \/ i <= started
        \/ repeated

\* One command is sent by one tick, and a run does not obey what was written
\* before it, as long as no attempt was repeated after its effect and no await
\* put the cursor back (detect_approval_signal, _forward_history_to_fresh_run).
CommandsAreNew ==
    repeated \/ rewound \/
        /\ \A s, t \in sent : s.id = t.id => s = t
        /\ \A s \in sent : s.id > started

\* A run does not wait for a reply that is there: each moves it on, unless a
\* command passed over it (docs/github-labels.md: "returning a comment swaps
\* back to df:triaging").
RepliesAreHeard ==
    []<>(pc # "clarification" \/ (new_comments = {} /\ LastSeen = Len(thread)))

=============================================================================
