-------------------------- MODULE ConversationProofs --------------------------
(***************************************************************************)
(* What holds of an issue's conversation for any number of comments,       *)
(* rounds and failures: nothing is passed over but by a command, every     *)
(* command has a fate, and a run obeys nothing old or twice unless an      *)
(* attempt was repeated or an await put the cursor back.                   *)
(***************************************************************************)
EXTENDS IssueConversation, TLAPS, WellFoundedInduction

-----------------------------------------------------------------------------
(* The greatest and the least of a set of numbers.                         *)

(* A set of natural numbers that is not empty has a least one.             *)
LEMMA LeastExists ==
    ASSUME NEW S \in SUBSET Nat, S # {}
    PROVE  \E m \in S : \A x \in S : m <= x
<1> DEFINE R == OpToRel(<, Nat)
<1>1. PICK m \in S : \A x \in S : ~(<<x, m>> \in R)
    <2>1. IsWellFoundedOn(R, Nat)
        BY NatLessThanWellFounded DEF R
    <2> HIDE DEF R
    <2> QED BY <2>1, WFMin
<1>2. \A x \in S : ~(x < m)
    BY <1>1 DEF OpToRel
<1> QED BY <1>2

(* The first of some comments is one of them, before the others.           *)
LEMMA FirstIsLeast ==
    ASSUME NEW S \in SUBSET Nat, S # {}
    PROVE  FirstOf(S) \in S /\ \A x \in S : FirstOf(S) <= x
BY LeastExists DEF FirstOf

(* The latest of some comments is one of them, after the others: it is what *)
(* is left of the bound when the least distance to it is taken away.       *)
LEMMA LatestIsGreatest ==
    ASSUME NEW n \in Nat, NEW S \in SUBSET (0 .. n), S # {}
    PROVE  Latest(S) \in S /\ \A x \in S : x <= Latest(S)
<1> DEFINE Below == {k \in Nat : \E x \in S : k = n - x}
<1>1. Below \in SUBSET Nat /\ Below # {}
    <2>1. PICK x \in S : TRUE
        OBVIOUS
    <2>2. n - x \in Below
        BY <2>1
    <2> QED BY <2>2
<1>2. PICK k \in Below : \A l \in Below : k <= l
    <2> HIDE DEF Below
    <2> QED BY <1>1, LeastExists
<1>3. PICK m \in S : k = n - m
    BY <1>2
<1>4. ASSUME NEW x \in S PROVE x <= m
    <2>1. n - x \in Below
        OBVIOUS
    <2>2. n - m <= n - x
        BY <1>2, <1>3, <2>1
    <2> QED BY <2>2
<1> QED BY <1>3, <1>4 DEF Latest

(* The query answers one of the ids it is made of, the greatest.           *)
LEMMA LastSeenIsGreatest ==
    ASSUME ConversationTypeOK
    PROVE  /\ LastSeen \in {last_seen} \cup issue_comments \cup new_comments
           /\ \A i \in {last_seen} \cup issue_comments \cup new_comments : i <= LastSeen
           /\ LastSeen \in 0 .. Len(thread)
<1> DEFINE S == {last_seen} \cup issue_comments \cup new_comments
<1>1. Len(thread) \in Nat /\ S \in SUBSET (0 .. Len(thread)) /\ S # {}
    BY DEF ConversationTypeOK
<1>2. Latest(S) \in S /\ \A i \in S : i <= Latest(S)
    <2> HIDE DEF S
    <2> QED BY <1>1, LatestIsGreatest
<1> QED BY <1>1, <1>2 DEF LastSeen

-----------------------------------------------------------------------------
(* Types.                                                                  *)

(* The updates and what follows a gate record an id of the thread.         *)
LEMMA RecordedType ==
    ASSUME ConversationTypeOK, NEW id \in 0 .. Len(thread), Recorded(id)
    PROVE  /\ last_seen' \in {last_seen, id}
           /\ last_seen <= last_seen' /\ id <= last_seen'
<1>1. Len(thread) \in Nat /\ {last_seen, id} \in SUBSET (0 .. Len(thread))
    BY DEF ConversationTypeOK
<1>2. Latest({last_seen, id}) \in {last_seen, id}
      /\ \A i \in {last_seen, id} : i <= Latest({last_seen, id})
    BY <1>1, LatestIsGreatest
<1> QED BY <1>2 DEF Recorded

LEMMA ReceiveType ==
    ASSUME ConversationTypeOK, NEW ids \in SUBSET DOMAIN thread, Receive(ids)
    PROVE  /\ last_seen' \in {last_seen} \cup ids /\ last_seen <= last_seen'
           /\ new_comments' = new_comments \cup ids
           /\ UNCHANGED <<pc, clarification_round, hydrated, issue_comments, loaded,
                          approval_signal>>
<1> DEFINE S == {last_seen} \cup ids
<1>1. Len(thread) \in Nat /\ S \in SUBSET (0 .. Len(thread)) /\ S # {}
    BY DEF ConversationTypeOK
<1>2. Latest(S) \in S /\ \A i \in S : i <= Latest(S)
    <2> HIDE DEF S
    <2> QED BY <1>1, LatestIsGreatest
<1> QED BY <1>2 DEF Receive

(* What is merged was there or was posted.                                 *)
LEMMA MergedType ==
    ASSUME NEW ids
    PROVE  Merged(ids) \subseteq issue_comments \cup ids /\ issue_comments \subseteq Merged(ids)
BY DEF Merged

(* A step of the run keeps the types.                                      *)
LEMMA RunStepType ==
    ASSUME ConversationTypeOK, RunSteps
    PROVE  ConversationTypeOK'
<1> USE DEF given, signalVars, historyVars, At
<1>1. CASE HydrateStarts
    BY <1>1 DEF RunSteps, HydrateStarts, ConversationTypeOK
<1>2. CASE HydrateEnds
    BY <1>2 DEF RunSteps, HydrateEnds, ConversationTypeOK
<1>3. CASE TriageStarts \/ Replied
    BY <1>3, MergedType
       DEF RunSteps, TriageStarts, Replied, MergeNew, ConversationTypeOK
<1>4. CASE TriageReady \/ TriageAbandons
    BY <1>4 DEF RunSteps, TriageReady, TriageAbandons, ConversationTypeOK
<1>5. CASE TriageAsks
    BY <1>5, ConversationAssumption
       DEF RunSteps, TriageAsks, ConversationTypeOK
<1>6. CASE Canceled \/ GateAnswered
    <2>1. approval_signal \in 0 .. Len(thread) /\ Recorded(approval_signal)
        BY <1>6 DEF Canceled, GateAnswered, ConversationTypeOK
    <2>2. last_seen' \in 0 .. Len(thread)
        BY <2>1, RecordedType DEF ConversationTypeOK
    <2>3. pc' \in {"planning", "building", "closed"}
        BY <1>6, Zenon DEF Canceled, GateAnswered
    <2>4. UNCHANGED <<clarification_round, given, loaded, approval_signal>>
        BY <1>6 DEF Canceled, GateAnswered
    <2>5. UNCHANGED <<thread, tick, failures, historyVars>> /\ rewound' \in BOOLEAN
        BY DEF RunSteps
    <2> QED BY <2>2, <2>3, <2>4, <2>5 DEF ConversationTypeOK
<1>7. CASE DiscoveryStarts \/ GateOpens \/ GateReplanned
    <2>1. Len(thread) \in Nat
        BY DEF ConversationTypeOK
    <2>2. CASE DiscoveryStarts
        BY <2>2 DEF RunSteps, DiscoveryStarts, ConversationTypeOK
    <2>3. CASE GateOpens
        BY <2>1, <2>3 DEF RunSteps, GateOpens, ConversationTypeOK
    <2>4. CASE GateReplanned
        BY <2>1, <2>4 DEF RunSteps, GateReplanned, ConversationTypeOK
    <2> QED BY <1>7, <2>2, <2>3, <2>4
<1>8. CASE DiscoveryEnds
    BY <1>8 DEF RunSteps, DiscoveryEnds, ConversationTypeOK
<1> QED BY <1>1, <1>2, <1>3, <1>4, <1>5, <1>6, <1>7, <1>8 DEF RunSteps

(* What a tick may be.                                                     *)
TickRecords ==
    [at : {"idle", "sync", "history", "post", "detect", "signal"},
     listed : 0 .. Len(thread), seen : 0 .. Len(thread), found : 0 .. Len(thread)]

(* What a step of the tick has to keep to.                                 *)
LEMMA TickFrame ==
    ASSUME ConversationTypeOK, UNCHANGED <<thread, rewound, clarification_round, hydrated,
                                           issue_comments, loaded>>,
           pc' \in {pc, "setup"}, new_comments' \subseteq DOMAIN thread,
           approval_signal' \in 0 .. Len(thread), last_seen' \in 0 .. Len(thread),
           tick' \in TickRecords, tick'.at = "signal" => tick'.found # 0,
           failures' \in {failures, failures + 1}, failures' <= FAILURES,
           sent' = sent \/ \E id \in DOMAIN thread :
               sent' = sent \cup {[seen |-> tick.seen, listed |-> tick.listed, id |-> id]},
           denied' \subseteq DOMAIN thread, started' \in 0 .. Len(thread),
           repeated' \in BOOLEAN
    PROVE  ConversationTypeOK'
<1>1. failures' \in 0 .. FAILURES
    BY ConversationAssumption DEF ConversationTypeOK
<1>2. tick.seen \in 0 .. Len(thread) /\ tick.listed \in 0 .. Len(thread)
    BY DEF ConversationTypeOK
<1>3. sent' \subseteq [seen : 0 .. Len(thread), listed : 0 .. Len(thread), id : DOMAIN thread]
    BY <1>2 DEF ConversationTypeOK
<1> QED BY <1>1, <1>3 DEF ConversationTypeOK, TickRecords, At

(* So does a step of the tick.                                             *)
LEMMA TickStepType ==
    ASSUME ConversationTypeOK, TickSteps
    PROVE  ConversationTypeOK'
<1> USE DEF runVars, given, signalVars, historyVars, At, Goes, AttemptFails
<1>1. /\ tick \in TickRecords /\ NoTick \in TickRecords /\ NoTick.at = "idle"
      /\ At("signal") => tick.found # 0
      /\ Len(thread) \in Nat /\ failures \in Nat /\ FAILURES \in Nat /\ failures <= FAILURES
    BY ConversationAssumption DEF ConversationTypeOK, TickRecords, NoTick
<1>2. ASSUME NEW at \in {"idle", "sync", "history", "post", "detect"}
      PROVE  /\ [tick EXCEPT !.at = at] \in TickRecords
             /\ [tick EXCEPT !.at = at].at # "signal"
    BY <1>1 DEF TickRecords
<1>3. UNCHANGED rewound
    BY DEF TickSteps
<1>4. /\ new_comments \subseteq DOMAIN thread /\ denied \subseteq DOMAIN thread
      /\ approval_signal \in 0 .. Len(thread) /\ last_seen \in 0 .. Len(thread)
      /\ started \in 0 .. Len(thread) /\ repeated \in BOOLEAN
    BY DEF ConversationTypeOK
<1>5. ASSUME StartWorkflow \/ ForwardHistory \/ PostNewComments
      PROVE  repeated' \in BOOLEAN /\ failures' \in {failures, failures + 1}
             /\ failures' <= FAILURES
    <2>1. repeated' = repeated \/ repeated' = TRUE
        BY <1>5, Zenon DEF StartWorkflow, ForwardHistory, PostNewComments
    <2>2. failures' = failures \/ (failures < FAILURES /\ failures' = failures + 1)
        BY <1>5, Zenon DEF StartWorkflow, ForwardHistory, PostNewComments
    <2>3. repeated' \in BOOLEAN
        BY <1>4, <2>1, Zenon
    <2> QED BY <1>1, <2>2, <2>3
<1>6. CASE TickLists \/ Sync \/ SyncAttemptFails
    <2>1. LastSeen \in 0 .. Len(thread)
        BY LastSeenIsGreatest
    <2>2. tick' \in TickRecords /\ tick'.at # "signal"
        <3>1. CASE TickLists
            <4>1. tick' = [at |-> "sync", listed |-> Len(thread), seen |-> 0, found |-> 0]
                BY <3>1 DEF TickLists, NoTick
            <4>2. Len(thread) \in 0 .. Len(thread) /\ 0 \in 0 .. Len(thread)
                BY <1>1
            <4> QED BY <4>1, <4>2 DEF TickRecords
        <3>2. CASE Sync
            BY <1>1, <2>1, <3>2 DEF Sync, Since, TickRecords
        <3>3. CASE SyncAttemptFails
            BY <1>2, <3>3 DEF SyncAttemptFails
        <3> QED BY <1>6, <3>1, <3>2, <3>3
    <2> QED BY <1>1, <1>3, <1>4, <1>6, <2>2, TickFrame DEF TickLists, Sync, SyncAttemptFails
<1>7. CASE StartWorkflow
    <2>1. tick' \in TickRecords /\ tick'.at # "signal"
        BY <1>2, <1>7 DEF StartWorkflow
    <2>2. started' \in 0 .. Len(thread)
        BY <1>1, <1>7 DEF StartWorkflow, TickRecords
    <2> QED BY <1>1, <1>3, <1>4, <1>7, <2>1, <2>2, TickFrame, <1>5 DEF StartWorkflow
<1>8. ASSUME NEW ids \in SUBSET DOMAIN thread, Receive(ids)
      PROVE  /\ new_comments' \subseteq DOMAIN thread
             /\ approval_signal' \in 0 .. Len(thread) /\ last_seen' \in 0 .. Len(thread)
             /\ UNCHANGED <<pc, clarification_round, hydrated, issue_comments, loaded>>
    <2>1. last_seen' \in {last_seen} \cup ids
        BY <1>8, ReceiveType
    <2> QED BY <1>4, <1>8, <2>1 DEF Receive
<1>9. CASE ForwardHistory
    <2>1. 1 .. tick.listed \in SUBSET DOMAIN thread
        BY DEF ConversationTypeOK
    <2>2. tick' \in TickRecords /\ tick'.at # "signal"
        BY <1>1, <1>2, <1>9 DEF ForwardHistory, AfterStart
    <2>3. /\ new_comments' \subseteq DOMAIN thread
          /\ approval_signal' \in 0 .. Len(thread) /\ last_seen' \in 0 .. Len(thread)
          /\ UNCHANGED <<pc, clarification_round, hydrated, issue_comments, loaded>>
        BY <1>4, <1>8, <1>9, <2>1 DEF ForwardHistory
    <2> QED BY <1>1, <1>3, <1>4, <1>9, <2>2, <2>3, TickFrame, <1>5 DEF ForwardHistory
<1>10. CASE PostNewComments
    <2>1. tick.seen + 1 .. tick.listed \in SUBSET DOMAIN thread
        BY DEF ConversationTypeOK
    <2>2. tick' \in TickRecords /\ tick'.at # "signal"
        BY <1>2, <1>10 DEF PostNewComments
    <2>3. /\ new_comments' \subseteq DOMAIN thread
          /\ approval_signal' \in 0 .. Len(thread) /\ last_seen' \in 0 .. Len(thread)
          /\ UNCHANGED <<pc, clarification_round, hydrated, issue_comments, loaded>>
        BY <1>4, <1>8, <1>10, <2>1 DEF PostNewComments
    <2> QED BY <1>1, <1>3, <1>4, <1>10, <2>2, <2>3, TickFrame, <1>5 DEF PostNewComments
<1>11. /\ NewCommands \in SUBSET Nat /\ NewCommands \subseteq DOMAIN thread
       /\ \A i \in DOMAIN thread : i # 0 /\ i \in 0 .. Len(thread)
    BY DEF NewCommands, ConversationTypeOK
<1>12. ASSUME NEW ids \in SUBSET NewCommands,
              tick' = IF ids = {} THEN NoTick
                      ELSE [tick EXCEPT !.at = "signal", !.found = FirstOf(ids)]
       PROVE  tick' \in TickRecords /\ (tick'.at = "signal" => tick'.found # 0)
    <2>1. ids # {} => FirstOf(ids) \in ids
        BY <1>11, FirstIsLeast
    <2> QED BY <1>1, <1>11, <1>12, <2>1 DEF TickRecords
<1>13. CASE DetectApprovalSignal
    <2>1. tick' \in TickRecords /\ (tick'.at = "signal" => tick'.found # 0)
        BY <1>12, <1>13 DEF DetectApprovalSignal
    <2> QED BY <1>1, <1>3, <1>4, <1>13, <2>1, TickFrame DEF DetectApprovalSignal
<1>14. CASE PermissionQueryFails
    <2>1. PICK rest \in SUBSET NewCommands :
            /\ denied' = denied \cup (NewCommands \ rest)
            /\ tick' = IF rest = {} THEN NoTick
                       ELSE [tick EXCEPT !.at = "signal", !.found = FirstOf(rest)]
        BY <1>14 DEF PermissionQueryFails
    <2>2. tick' \in TickRecords /\ (tick'.at = "signal" => tick'.found # 0)
        BY <1>12, <2>1
    <2>3. denied' \subseteq DOMAIN thread
        BY <1>4, <1>11, <2>1
    <2> QED BY <1>1, <1>3, <1>4, <1>14, <2>2, <2>3, TickFrame DEF PermissionQueryFails
<1>15. CASE SignalIssueWorkflow
    <2>1. tick.found \in DOMAIN thread /\ tick.found \in 0 .. Len(thread)
        BY <1>15 DEF SignalIssueWorkflow, ConversationTypeOK
    <2>2. last_seen' \in 0 .. Len(thread)
        BY <1>4, <1>15, <2>1, RecordedType DEF SignalIssueWorkflow, SeenWith
    <2>3. tick' \in TickRecords /\ (tick'.at = "signal" => tick'.found # 0)
        BY <1>1, <1>15, <2>1 DEF SignalIssueWorkflow, TickRecords
    <2> QED BY <1>1, <1>3, <1>4, <1>15, <2>1, <2>2, <2>3, TickFrame DEF SignalIssueWorkflow
<1> QED BY <1>6, <1>7, <1>9, <1>10, <1>13, <1>14, <1>15 DEF TickSteps

(* The types hold.                                                         *)
LEMMA TypeStep ==
    ASSUME ConversationTypeOK, [Next]_vars
    PROVE  ConversationTypeOK'
<1>1. ASSUME NEW body \in Bodies, Write(body) PROVE ConversationTypeOK'
    <2>1. thread' \in Seq(Bodies) /\ Len(thread') = Len(thread) + 1 /\ Len(thread) \in Nat
        BY <1>1 DEF Write, ConversationTypeOK
    <2>2. DOMAIN thread \subseteq DOMAIN thread' /\ 0 .. Len(thread) \subseteq 0 .. Len(thread')
        BY <2>1 DEF ConversationTypeOK
    <2>3. UNCHANGED <<runVars, signalVars, tick, failures, historyVars, rewound>>
        BY <1>1 DEF Write
    <2>4. tick' \in [at : {"idle", "sync", "history", "post", "detect", "signal"},
                     listed : 0 .. Len(thread'), seen : 0 .. Len(thread'),
                     found : 0 .. Len(thread')]
        BY <2>2, <2>3 DEF ConversationTypeOK
    <2>5. sent' \subseteq [seen : 0 .. Len(thread'), listed : 0 .. Len(thread'),
                           id : DOMAIN thread']
        BY <2>2, <2>3 DEF ConversationTypeOK, historyVars
    <2> QED BY <2>1, <2>2, <2>3, <2>4, <2>5
            DEF ConversationTypeOK, runVars, given, signalVars, historyVars, At
<1>2. CASE UNCHANGED vars
    BY <1>2 DEF vars, ConversationTypeOK, runVars, given, signalVars, historyVars, At
<1> QED BY <1>1, <1>2, RunStepType, TickStepType DEF Next

(* The state keeps to the values the code can give it.                     *)
THEOREM ConversationTypes == SafetySpec => []ConversationTypeOK
<1>1. ASSUME Init PROVE ConversationTypeOK
    <2>1. thread \in Seq(Bodies) /\ Len(thread) = 0 /\ DOMAIN thread = 1 .. 0
        BY <1>1 DEF Init
    <2>2. tick = [at |-> "idle", listed |-> 0, seen |-> 0, found |-> 0]
        BY <1>1 DEF Init, NoTick
    <2>3. MAX_CLARIFICATION_ROUNDS \in Nat /\ FAILURES \in Nat
        BY ConversationAssumption
    <2>4. /\ tick \in [at : {"idle", "sync", "history", "post", "detect", "signal"},
                        listed : 0 .. Len(thread), seen : 0 .. Len(thread),
                        found : 0 .. Len(thread)]
          /\ ~At("signal")
        BY <2>1, <2>2 DEF At
    <2>5. /\ sent \subseteq [seen : 0 .. Len(thread), listed : 0 .. Len(thread),
                             id : DOMAIN thread]
          /\ denied \subseteq DOMAIN thread
          /\ issue_comments \subseteq DOMAIN thread /\ new_comments \subseteq DOMAIN thread
        BY <1>1 DEF Init
    <2>6. /\ 0 \in 0 .. Len(thread) /\ 0 \in 0 .. MAX_CLARIFICATION_ROUNDS
          /\ 0 \in 0 .. FAILURES
        BY <2>1, <2>3
    <2> QED BY <1>1, <2>1, <2>4, <2>5, <2>6 DEF Init, ConversationTypeOK
<1>2. ConversationTypeOK /\ [Next]_vars => ConversationTypeOK'
    BY TypeStep
<1> QED BY <1>1, <1>2, PTL DEF SafetySpec

-----------------------------------------------------------------------------
(* The inductive invariants.                                               *)

(* Everything LastSeen was, is or may become.                              *)
Reached == {last_seen, loaded, approval_signal} \cup issue_comments \cup new_comments

(* Comment i is with the run, or was passed over by a command.             *)
Heard(i) ==
    \/ i \in new_comments \/ thread[i] \in Shown
    \/ \E s \in sent : s.listed < i /\ i <= s.id

(* All that is below what was ever reached has been heard, and so has what *)
(* a tick takes for seen, or has listed and forwarded.                     *)
HeardInv ==
    /\ \A c \in Reached : \A i \in 1 .. c : Heard(i)
    /\ tick.at \in {"post", "detect", "signal"} => \A i \in 1 .. tick.seen : Heard(i)
    /\ tick.at \in {"detect", "signal"} => \A i \in 1 .. tick.listed : Heard(i)

(* What a tick and the run know of each other.                             *)
TickInv ==
    /\ pc = "none" => tick.at \in {"idle", "sync"} /\ started = 0 /\ sent = {}
    /\ tick.at = "history" => started = tick.listed
    /\ tick.at = "signal" =>
          /\ tick.found \in DOMAIN thread /\ tick.seen < tick.found
          /\ \A i \in NewCommands : i < tick.found => i \in denied

(* The fate of command i is decided.                                       *)
Settled(i) ==
    \/ \E s \in sent : s.seen < s.id /\ s.id <= i /\ (i <= s.listed \/ i = s.id)
    \/ i \in denied
    \/ i <= started
    \/ repeated

(* The tick has forwarded command i and will look at it.                   *)
Looked(i) == tick.at \in {"detect", "signal"} /\ tick.seen < i /\ i <= tick.listed

(* A command below what was ever reached is settled or in the tick's hands; *)
(* what the tick takes for seen is settled.                                *)
FateInv ==
    /\ \A c \in Reached : \A i \in 1 .. c :
          thread[i] \in Commands => Settled(i) \/ Looked(i)
    /\ tick.at \in {"post", "detect", "signal"} =>
          \A i \in 1 .. tick.seen : thread[i] \in Commands => Settled(i)

(* What the tick is about to send, or has sent.                            *)
InHand == [seen |-> tick.seen, listed |-> tick.listed, id |-> tick.found]

(* The cursor is past what the run was started with and what it was sent,  *)
(* and so is what a tick takes for seen.                                   *)
Ordered ==
    /\ \A s, t \in sent : s.id = t.id => s = t
    /\ \A s \in sent : s.id > started
    /\ pc \notin {"none", "closed"} =>
          /\ \A s \in sent : s.id <= LastSeen
          /\ tick.at # "history" => started <= LastSeen
    /\ tick.at \in {"post", "detect", "signal"} => started <= tick.seen
    /\ tick.at \in {"post", "detect"} => \A s \in sent : s.id <= tick.seen
    /\ tick.at = "signal" => \A s \in sent : s.id <= tick.seen \/ s = InHand

OrderInv == repeated \/ rewound \/ Ordered

-----------------------------------------------------------------------------
(* Nothing is passed over but by a command.                                *)

(* A comment that is merged is with the run, or one of the same words is.  *)
LEMMA MergedShows ==
    ASSUME NEW ids \in SUBSET Nat, NEW i \in ids
    PROVE  thread[i] \in Shown \/ \E j \in Merged(ids) : thread[j] = thread[i]
<1> DEFINE same == {j \in ids : thread[j] = thread[i]}
<1>1. PICK m \in same : \A j \in same : m <= j
    <2>1. same \in SUBSET Nat /\ same # {}
        OBVIOUS
    <2> HIDE DEF same
    <2> QED BY <2>1, LeastExists
<1>2. \A j \in ids : j < m => thread[j] # thread[m]
    BY <1>1
<1>3. thread[i] \notin Shown => m \in Merged(ids)
    BY <1>1, <1>2 DEF Merged
<1> QED BY <1>1, <1>3

(* What is merged stays with the run.                                      *)
LEMMA MergeKeeps ==
    ASSUME ConversationTypeOK, MergeNew, UNCHANGED <<thread, hydrated, sent>>,
           NEW i \in DOMAIN thread, Heard(i)
    PROVE  Heard(i)'
<1>1. issue_comments' = Merged(new_comments) /\ issue_comments \subseteq issue_comments'
    BY MergedType DEF MergeNew
<1>2. Shown \subseteq Shown'
    BY <1>1 DEF Shown
<1>3. CASE i \in new_comments
    <2>1. new_comments \in SUBSET Nat
        BY DEF ConversationTypeOK
    <2>2. thread[i] \in Shown \/ \E j \in issue_comments' : thread[j] = thread[i]
        BY <1>1, <1>3, <2>1, MergedShows
    <2>3. thread[i] \in Shown'
        BY <1>2, <2>2 DEF Shown
    <2> QED BY <2>3 DEF Heard
<1> QED BY <1>2, <1>3 DEF Heard

(* A step of the run keeps what has been heard, and what the query answers *)
(* is never more than it may have been.                                    *)
LEMMA RunKeeps ==
    ASSUME ConversationTypeOK, RunSteps
    PROVE  /\ UNCHANGED <<thread, tick, failures, historyVars>>
           /\ pc \notin {"none", "closed"} /\ pc' # "none"
           /\ Reached' \subseteq Reached \cup {0}
           /\ \A i \in DOMAIN thread : Heard(i) => Heard(i)'
<1> USE DEF given, signalVars, historyVars
<1>1. UNCHANGED <<thread, tick, failures, historyVars>>
    BY DEF RunSteps
<1>2. ASSUME HydrateEnds
      PROVE  \A i \in DOMAIN thread : Heard(i) => Heard(i)'
    <2>1. Shown \subseteq Shown'
        BY <1>1, <1>2 DEF HydrateEnds, Shown, ConversationTypeOK
    <2> QED BY <1>1, <1>2, <2>1 DEF HydrateEnds, Heard
<1>3. ASSUME UNCHANGED given
      PROVE  \A i \in DOMAIN thread : Heard(i) => Heard(i)'
    BY <1>1, <1>3 DEF Heard, Shown
<1>4. CASE HydrateStarts \/ DiscoveryStarts
    BY <1>1, <1>3, <1>4 DEF HydrateStarts, DiscoveryStarts, Reached
<1>5. CASE HydrateEnds
    BY <1>1, <1>2, <1>5 DEF HydrateEnds, Reached
<1>6. CASE TriageStarts \/ Replied
    <2>1. \A i \in DOMAIN thread : Heard(i) => Heard(i)'
        BY <1>1, <1>6, MergeKeeps DEF TriageStarts, Replied
    <2>2. issue_comments' \subseteq issue_comments \cup new_comments /\ new_comments' = {}
        BY <1>6, MergedType DEF TriageStarts, Replied, MergeNew
    <2> QED BY <1>1, <1>6, <2>1, <2>2 DEF TriageStarts, Replied, Reached
<1>7. CASE TriageReady \/ TriageAsks \/ TriageAbandons
    BY <1>1, <1>3, <1>7 DEF TriageReady, TriageAsks, TriageAbandons, Reached
<1>8. CASE Canceled \/ GateAnswered
    <2>1. approval_signal \in 0 .. Len(thread) /\ Recorded(approval_signal)
        BY <1>8 DEF Canceled, GateAnswered, ConversationTypeOK
    <2>2. last_seen' \in {last_seen, approval_signal}
        BY <2>1, RecordedType
    <2>3. UNCHANGED <<given, loaded, approval_signal>>
        BY <1>8 DEF Canceled, GateAnswered
    <2>4. pc \notin {"none", "closed"} /\ pc' # "none"
        BY <1>8, Zenon DEF Canceled, GateAnswered
    <2> QED BY <1>1, <1>3, <2>2, <2>3, <2>4 DEF Reached
<1>9. CASE DiscoveryEnds
    BY <1>1, <1>3, <1>9 DEF DiscoveryEnds, Reached
<1>10. CASE GateOpens \/ GateReplanned
    BY <1>1, <1>3, <1>10 DEF GateOpens, GateReplanned, Reached
<1> QED BY <1>4, <1>5, <1>6, <1>7, <1>8, <1>9, <1>10 DEF RunSteps

(* What the query has reached is in the thread.                            *)
LEMMA ReachedType ==
    ASSUME ConversationTypeOK
    PROVE  Reached \subseteq 0 .. Len(thread) /\ LastSeen \in Reached /\ Len(thread) \in Nat
<1>1. Len(thread) \in Nat /\ \A i \in DOMAIN thread : i \in 0 .. Len(thread)
    BY DEF ConversationTypeOK
<1>2. /\ issue_comments \subseteq DOMAIN thread /\ new_comments \subseteq DOMAIN thread
      /\ {last_seen, loaded, approval_signal} \subseteq 0 .. Len(thread)
    BY DEF ConversationTypeOK
<1>3. LastSeen \in Reached
    BY LastSeenIsGreatest DEF Reached
<1> QED BY <1>1, <1>2, <1>3 DEF Reached

(* A comment written now disturbs nothing that was heard.                  *)
LEMMA WriteKeeps ==
    ASSUME ConversationTypeOK, NEW body \in Bodies, Write(body)
    PROVE  /\ UNCHANGED <<runVars, signalVars, tick, failures, historyVars, rewound>>
           /\ Reached' = Reached /\ Shown' = Shown
           /\ \A i \in DOMAIN thread :
                 thread'[i] = thread[i] /\ i \in DOMAIN thread' /\ (Heard(i) => Heard(i)')
<1>1. UNCHANGED <<runVars, signalVars, tick, failures, historyVars, rewound>>
    BY DEF Write
<1>2. thread' = Append(thread, body) /\ thread \in Seq(Bodies)
    BY DEF Write, ConversationTypeOK
<1>3. \A i \in DOMAIN thread : thread'[i] = thread[i] /\ i \in DOMAIN thread'
    BY <1>2
<1>4. 1 .. hydrated \cup issue_comments \subseteq DOMAIN thread
    BY DEF ConversationTypeOK
<1>5. Shown' = Shown
    BY <1>1, <1>3, <1>4 DEF Shown, runVars, given
<1>6. Reached' = Reached
    BY <1>1 DEF Reached, runVars, given, signalVars
<1>7. \A i \in DOMAIN thread : Heard(i) => Heard(i)'
    BY <1>1, <1>3, <1>5 DEF Heard, runVars, given, historyVars
<1> QED BY <1>1, <1>3, <1>5, <1>6, <1>7

(* The tick in the words of the invariants.                                *)
LEMMA TickType ==
    ASSUME ConversationTypeOK
    PROVE  /\ tick \in TickRecords /\ Len(thread) \in Nat /\ DOMAIN thread = 1 .. Len(thread)
           /\ \A id \in DOMAIN thread : [seen |-> tick.seen, listed |-> tick.listed, id |-> id]
                 \in [seen : 0 .. Len(thread), listed : 0 .. Len(thread), id : DOMAIN thread]
           /\ tick.at = "signal" => tick.found \in DOMAIN thread
           /\ NewCommands \subseteq DOMAIN thread /\ NewCommands \in SUBSET Nat
BY DEF ConversationTypeOK, TickRecords, NewCommands, At

(* A step of the tick takes nothing from the run.                          *)
LEMMA TickKeeps ==
    ASSUME ConversationTypeOK, TickSteps
    PROVE  /\ UNCHANGED <<thread, hydrated, issue_comments, loaded, rewound>>
           /\ new_comments \subseteq new_comments' /\ sent \subseteq sent'
           /\ denied \subseteq denied' /\ (repeated => repeated')
           /\ pc' = pc \/ (pc = "none" /\ pc' = "setup")
           /\ \A i \in DOMAIN thread : Heard(i) => Heard(i)'
<1> USE DEF runVars, given, signalVars, historyVars, Receive
<1>1. UNCHANGED <<thread, hydrated, issue_comments, loaded, rewound>>
    BY DEF TickSteps, TickLists, StartWorkflow, ForwardHistory, Sync, PostNewComments,
           SyncAttemptFails, DetectApprovalSignal, PermissionQueryFails, SignalIssueWorkflow
<1>2. new_comments \subseteq new_comments' /\ sent \subseteq sent' /\ denied \subseteq denied'
    BY DEF TickSteps, TickLists, StartWorkflow, ForwardHistory, Sync, PostNewComments,
           SyncAttemptFails, DetectApprovalSignal, PermissionQueryFails, SignalIssueWorkflow
<1>3. pc' = pc \/ (pc = "none" /\ pc' = "setup")
    BY DEF TickSteps, TickLists, StartWorkflow, ForwardHistory, Sync, PostNewComments,
           SyncAttemptFails, DetectApprovalSignal, PermissionQueryFails, SignalIssueWorkflow
<1>4. repeated' = repeated \/ repeated' = TRUE
    BY Zenon
       DEF TickSteps, TickLists, StartWorkflow, ForwardHistory, Sync, PostNewComments,
           SyncAttemptFails, DetectApprovalSignal, PermissionQueryFails, SignalIssueWorkflow
<1>5. Shown' = Shown
    BY <1>1 DEF Shown
<1>6. \A i \in DOMAIN thread : Heard(i) => Heard(i)'
    BY <1>1, <1>2, <1>5 DEF Heard
<1> QED BY <1>1, <1>2, <1>3, <1>4, <1>6

(* What is posted is what the query may answer next.                       *)
LEMMA ReceiveReaches ==
    ASSUME ConversationTypeOK, NEW ids \in SUBSET DOMAIN thread, Receive(ids)
    PROVE  /\ Reached' \subseteq Reached \cup ids
           /\ new_comments' = new_comments \cup ids
<1>1. /\ last_seen' \in {last_seen} \cup ids
      /\ new_comments' = new_comments \cup ids
      /\ UNCHANGED <<issue_comments, loaded, approval_signal>>
    BY ReceiveType
<1> QED BY <1>1 DEF Reached

(* A step of the tick keeps to what has been heard.                        *)
LEMMA HeardTick ==
    ASSUME ConversationTypeOK, HeardInv, TickSteps
    PROVE  HeardInv'
<1> USE DEF runVars, given, signalVars, historyVars, At, Goes, AttemptFails
<1>1. /\ UNCHANGED <<thread, hydrated, issue_comments, loaded>>
      /\ sent \subseteq sent'
      /\ \A i \in DOMAIN thread : Heard(i) => Heard(i)'
    BY TickKeeps
<1>2. /\ Reached \subseteq 0 .. Len(thread) /\ LastSeen \in Reached
      /\ Len(thread) \in Nat /\ DOMAIN thread = 1 .. Len(thread) /\ tick \in TickRecords
    BY ReachedType, TickType
<1>3. \A c \in 0 .. Len(thread) : 1 .. c \subseteq DOMAIN thread
    BY <1>2
<1>4. \A c \in Reached : \A i \in 1 .. c : Heard(i)'
    BY <1>1, <1>2, <1>3 DEF HeardInv
<1>5. /\ tick.seen \in 0 .. Len(thread) /\ tick.listed \in 0 .. Len(thread)
      /\ tick.found \in 0 .. Len(thread)
    BY <1>2 DEF TickRecords
<1>6. /\ tick.at \in {"post", "detect", "signal"} => \A i \in 1 .. tick.seen : Heard(i)'
      /\ tick.at \in {"detect", "signal"} => \A i \in 1 .. tick.listed : Heard(i)'
    BY <1>1, <1>3, <1>5 DEF HeardInv
<1>7. ASSUME UNCHANGED signalVars, UNCHANGED new_comments
      PROVE  \A c \in Reached' : \A i \in 1 .. c : Heard(i)'
    <2>1. Reached' = Reached
        BY <1>1, <1>7 DEF Reached
    <2> QED BY <1>4, <2>1
<1>8. CASE TickLists \/ SyncAttemptFails \/ StartWorkflow
    <2>1. tick'.at \notin {"post", "detect", "signal"}
        BY <1>2, <1>8 DEF TickLists, SyncAttemptFails, StartWorkflow, NoTick, TickRecords
    <2>2. UNCHANGED signalVars /\ UNCHANGED new_comments
        BY <1>8 DEF TickLists, SyncAttemptFails, StartWorkflow
    <2> QED BY <1>7, <2>1, <2>2 DEF HeardInv
<1>9. CASE ForwardHistory
    <2>1. tick'.at \notin {"post", "detect", "signal"}
        BY <1>2, <1>9 DEF ForwardHistory, AfterStart, NoTick, TickRecords
    <2>2. CASE Receive(1 .. tick.listed)
        <3>1. 1 .. tick.listed \in SUBSET DOMAIN thread
            BY <1>3, <1>5
        <3>2. Reached' \subseteq Reached \cup (1 .. tick.listed)
              /\ new_comments' = new_comments \cup (1 .. tick.listed)
            BY <2>2, <3>1, ReceiveReaches
        <3>3. \A c \in 1 .. tick.listed : \A i \in 1 .. c : Heard(i)'
            BY <1>5, <3>2 DEF Heard
        <3>4. \A c \in Reached' : \A i \in 1 .. c : Heard(i)'
            BY <1>4, <3>2, <3>3
        <3> QED BY <2>1, <3>4 DEF HeardInv
    <2>3. CASE UNCHANGED <<runVars, signalVars>>
        BY <1>7, <2>1, <2>3 DEF HeardInv
    <2> QED BY <1>9, <2>2, <2>3 DEF ForwardHistory
<1>10. CASE Sync
    <2>1. \A c \in Reached' : \A i \in 1 .. c : Heard(i)'
        BY <1>7, <1>10 DEF Sync
    <2>2. CASE tick' = NoTick
        BY <2>1, <2>2 DEF HeardInv, NoTick
    <2>3. CASE tick' # NoTick
        <3>1. /\ tick'.seen = LastSeen /\ tick'.listed = tick.listed
              /\ tick'.at = IF HasNew THEN "post" ELSE "detect"
            BY <1>2, <1>10, <2>3 DEF Sync, Since, TickRecords
        <3>2. \A i \in 1 .. LastSeen : Heard(i)'
            BY <1>2, <1>4
        <3>3. ~HasNew => \A i \in 1 .. tick.listed : Heard(i)'
            BY <1>2, <1>5, <3>2 DEF HasNew
        <3> QED BY <2>1, <3>1, <3>2, <3>3 DEF HeardInv
    <2> QED BY <2>2, <2>3
<1>11. CASE PostNewComments
    <2>1. CASE Running
        <3>1. Receive(tick.seen + 1 .. tick.listed)
              /\ tick.seen + 1 .. tick.listed \in SUBSET DOMAIN thread
            BY <1>2, <1>5, <1>11, <2>1 DEF PostNewComments
        <3>2. Reached' \subseteq Reached \cup (tick.seen + 1 .. tick.listed)
              /\ new_comments' = new_comments \cup (tick.seen + 1 .. tick.listed)
            BY <3>1, ReceiveReaches
        <3>3. \A i \in 1 .. tick.listed : Heard(i)'
            <4> SUFFICES ASSUME NEW i \in 1 .. tick.listed PROVE Heard(i)'
                OBVIOUS
            <4>1. CASE i <= tick.seen
                BY <1>5, <1>6, <1>11, <4>1 DEF PostNewComments
            <4>2. CASE ~(i <= tick.seen)
                BY <1>5, <3>2, <4>2 DEF Heard
            <4> QED BY <4>1, <4>2
        <3>4. \A c \in Reached' : \A i \in 1 .. c : Heard(i)'
            BY <1>4, <1>5, <3>2, <3>3
        <3>5. \/ tick'.at = "detect" /\ tick'.listed = tick.listed /\ tick'.seen = tick.seen
              \/ tick'.at = "sync"
            BY <1>2, <1>11, <2>1 DEF PostNewComments, TickRecords
        <3>6. tick.at = "post"
            BY <1>11 DEF PostNewComments
        <3> QED BY <1>6, <3>3, <3>4, <3>5, <3>6 DEF HeardInv
    <2>2. CASE ~Running
        <3>1. tick'.at = "sync" /\ UNCHANGED signalVars /\ UNCHANGED new_comments
            BY <1>2, <1>11, <2>2 DEF PostNewComments, TickRecords
        <3> QED BY <1>7, <3>1 DEF HeardInv
    <2> QED BY <2>1, <2>2
<1>12. CASE DetectApprovalSignal \/ PermissionQueryFails
    <2>1. \A c \in Reached' : \A i \in 1 .. c : Heard(i)'
        BY <1>7, <1>12 DEF DetectApprovalSignal, PermissionQueryFails
    <2>2. \/ tick' = NoTick
          \/ tick'.at = "signal" /\ tick'.listed = tick.listed /\ tick'.seen = tick.seen
        BY <1>2, <1>12 DEF DetectApprovalSignal, PermissionQueryFails, TickRecords
    <2>3. tick.at = "detect"
        BY <1>12 DEF DetectApprovalSignal, PermissionQueryFails
    <2> QED BY <1>6, <2>1, <2>2, <2>3 DEF HeardInv, NoTick
<1>13. CASE SignalIssueWorkflow
    <2>1. /\ approval_signal' = tick.found /\ Recorded(tick.found)
          /\ [seen |-> tick.seen, listed |-> tick.listed, id |-> tick.found] \in sent'
          /\ UNCHANGED runVars /\ tick.at = "signal"
        BY <1>13 DEF SignalIssueWorkflow, SeenWith
    <2>2. last_seen' \in {last_seen, tick.found}
        BY <1>5, <2>1, RecordedType
    <2>3. Reached' \subseteq Reached \cup {tick.found}
        BY <2>1, <2>2 DEF Reached
    <2>4. \A i \in 1 .. tick.found : Heard(i)'
        <3> SUFFICES ASSUME NEW i \in 1 .. tick.found PROVE Heard(i)'
            OBVIOUS
        <3>1. CASE i <= tick.listed
            BY <1>5, <1>6, <2>1, <3>1
        <3>2. CASE ~(i <= tick.listed)
            <4>1. tick.listed < i /\ i <= tick.found
                BY <1>5, <3>2
            <4> QED BY <2>1, <4>1 DEF Heard
        <3> QED BY <3>1, <3>2
    <2>5. \/ tick' = NoTick
          \/ tick'.at = "signal" /\ tick'.listed = tick.listed /\ tick'.seen = tick.seen
        BY <1>2, <1>13 DEF SignalIssueWorkflow, TickRecords
    <2>6. \A c \in Reached' : \A i \in 1 .. c : Heard(i)'
        BY <1>4, <2>3, <2>4
    <2> QED BY <1>6, <2>1, <2>5, <2>6 DEF HeardInv, NoTick
<1> QED BY <1>8, <1>9, <1>10, <1>11, <1>12, <1>13 DEF TickSteps

(* So does every step.                                                     *)
LEMMA HeardStep ==
    ASSUME ConversationTypeOK, HeardInv, [Next]_vars
    PROVE  HeardInv'
<1>1. /\ Reached \subseteq 0 .. Len(thread)
      /\ Len(thread) \in Nat /\ DOMAIN thread = 1 .. Len(thread) /\ tick \in TickRecords
    BY ReachedType, TickType
<1>2. \A c \in 0 .. Len(thread) : 1 .. c \subseteq DOMAIN thread
    BY <1>1
<1>3. tick.seen \in 0 .. Len(thread) /\ tick.listed \in 0 .. Len(thread)
    BY <1>1 DEF TickRecords
<1>4. ASSUME tick' = tick, Reached' \subseteq Reached \cup {0},
             \A i \in DOMAIN thread : Heard(i) => Heard(i)'
      PROVE  HeardInv'
    BY <1>1, <1>2, <1>3, <1>4 DEF HeardInv
<1>5. CASE \E body \in Bodies : Write(body)
    BY <1>4, <1>5, WriteKeeps
<1>6. CASE RunSteps
    BY <1>4, <1>6, RunKeeps
<1>7. CASE UNCHANGED vars
    <2>1. Reached' = Reached /\ \A i \in DOMAIN thread : Heard(i)' = Heard(i)
        BY <1>7 DEF vars, runVars, given, signalVars, historyVars, Reached, Heard, Shown
    <2> QED BY <1>4, <1>7, <2>1 DEF vars
<1> QED BY <1>5, <1>6, <1>7, HeardTick DEF Next

(* The cursor passes over a comment the run was not given only by a        *)
(* command, found in a read newer than the list that was forwarded.        *)
THEOREM ConversationSkips == SafetySpec => []SkippedOnlyByCommand
<1>1. Init => HeardInv
    BY DEF Init, HeardInv, Reached, NoTick
<1>2. ConversationTypeOK /\ HeardInv /\ [Next]_vars => HeardInv'
    BY HeardStep
<1>3. ConversationTypeOK /\ HeardInv => SkippedOnlyByCommand
    BY ReachedType DEF HeardInv, Heard, SkippedOnlyByCommand
<1> QED BY <1>1, <1>2, <1>3, ConversationTypes, PTL DEF SafetySpec

-----------------------------------------------------------------------------
(* Every command has a fate.                                               *)

(* What a tick and the run know of each other stays true.                  *)
LEMMA TickInvStep ==
    ASSUME ConversationTypeOK, TickInv, [Next]_vars
    PROVE  TickInv'
<1> USE DEF runVars, given, signalVars, historyVars, At, Goes, AttemptFails
<1>1. /\ tick \in TickRecords /\ Len(thread) \in Nat /\ DOMAIN thread = 1 .. Len(thread)
      /\ NewCommands \subseteq DOMAIN thread /\ NewCommands \in SUBSET Nat
    BY TickType
<1>2. /\ tick.seen \in 0 .. Len(thread) /\ tick.listed \in 0 .. Len(thread)
      /\ tick.found \in 0 .. Len(thread)
    BY <1>1 DEF TickRecords
<1>3. CASE \E body \in Bodies : Write(body)
    <2>1. PICK body \in Bodies : Write(body)
        BY <1>3
    <2>2. UNCHANGED <<pc, tick, sent, started, denied>>
        BY <2>1, WriteKeeps
    <2>3. thread' = Append(thread, body) /\ thread \in Seq(Bodies)
        BY <2>1 DEF Write, ConversationTypeOK
    <2>4. \A i \in NewCommands' : i \in NewCommands \/ ~(i < tick.found)
        BY <1>1, <1>2, <2>2, <2>3 DEF NewCommands
    <2>5. DOMAIN thread \subseteq DOMAIN thread'
        BY <2>3
    <2>6. tick.at = "signal" => \A i \in NewCommands' : i < tick.found => i \in denied
        BY <2>4 DEF TickInv
    <2> QED BY <2>2, <2>5, <2>6 DEF TickInv
<1>4. CASE RunSteps
    <2>1. /\ UNCHANGED <<thread, tick, sent, started, denied>>
          /\ pc # "none" /\ pc' # "none"
        BY <1>4, RunKeeps
    <2>2. NewCommands' = NewCommands
        BY <2>1 DEF NewCommands
    <2> QED BY <2>1, <2>2 DEF TickInv
<1>5. CASE UNCHANGED vars
    BY <1>5 DEF vars, TickInv, NewCommands
<1>6. ASSUME TickSteps PROVE UNCHANGED thread /\ denied \subseteq denied'
    BY <1>6, TickKeeps
<1>7. CASE TickLists \/ SyncAttemptFails
    <2>1. UNCHANGED <<pc, started, sent>>
        BY <1>7 DEF TickLists, SyncAttemptFails
    <2>2. tick'.at = "sync"
        BY <1>1, <1>7 DEF TickLists, SyncAttemptFails, NoTick, TickRecords
    <2> QED BY <2>1, <2>2 DEF TickInv
<1>8. CASE StartWorkflow
    <2>1. pc' = "setup" /\ started' = tick.listed
        BY <1>8 DEF StartWorkflow
    <2>2. tick'.at \in {"history", "sync"} /\ tick'.listed = tick.listed
        BY <1>1, <1>8 DEF StartWorkflow, TickRecords
    <2> QED BY <2>1, <2>2 DEF TickInv
<1>9. CASE ForwardHistory
    <2>1. UNCHANGED <<pc, started, sent>>
        BY <1>9 DEF ForwardHistory, Receive
    <2>2. tick'.at \in {"idle", "sync"}
        BY <1>1, <1>9 DEF ForwardHistory, AfterStart, NoTick, TickRecords
    <2> QED BY <2>1, <2>2 DEF TickInv
<1>10. CASE Sync
    <2>1. UNCHANGED <<pc, started, sent>> /\ pc # "none"
        BY <1>10 DEF Sync
    <2>2. tick'.at \in {"idle", "post", "detect"}
        BY <1>1, <1>10 DEF Sync, NoTick, TickRecords
    <2> QED BY <2>1, <2>2 DEF TickInv
<1>11. CASE PostNewComments
    <2>1. UNCHANGED <<pc, started, sent>> /\ tick.at = "post"
        BY <1>11 DEF PostNewComments, Receive
    <2>2. tick'.at \in {"detect", "sync"}
        BY <1>1, <1>11 DEF PostNewComments, TickRecords
    <2> QED BY <2>1, <2>2 DEF TickInv
<1>12. \A ids \in SUBSET NewCommands : ids # {} =>
           FirstOf(ids) \in ids /\ \A i \in ids : FirstOf(ids) <= i
    BY <1>1, FirstIsLeast
<1>13. ASSUME NEW ids \in SUBSET NewCommands, ids # {},
              UNCHANGED <<thread, pc, started, sent>>, tick.at = "detect",
              tick' = [tick EXCEPT !.at = "signal", !.found = FirstOf(ids)],
              denied \subseteq denied', NewCommands \ ids \subseteq denied'
       PROVE  TickInv'
    <2>1. FirstOf(ids) \in ids /\ \A i \in ids : FirstOf(ids) <= i
        BY <1>12, <1>13
    <2>2. tick'.at = "signal" /\ tick'.found = FirstOf(ids) /\ tick'.seen = tick.seen
        BY <1>1, <1>13 DEF TickRecords
    <2>3. NewCommands' = NewCommands /\ \A i \in NewCommands : tick.seen < i
        BY <1>1, <1>2, <1>13, <2>2 DEF NewCommands
    <2>4. \A i \in NewCommands : i < FirstOf(ids) => i \in denied'
        BY <1>1, <1>13, <2>1
    <2> QED BY <1>1, <1>13, <2>1, <2>2, <2>3, <2>4 DEF TickInv
<1>14. CASE DetectApprovalSignal
    <2>1. CASE NewCommands = {}
        BY <1>14, <2>1 DEF DetectApprovalSignal, TickInv, NoTick
    <2>2. CASE NewCommands # {}
        BY <1>13, <1>14, <2>2 DEF DetectApprovalSignal
    <2> QED BY <2>1, <2>2
<1>15. CASE PermissionQueryFails
    <2>1. UNCHANGED <<thread, pc, started, sent>> /\ tick.at = "detect"
        BY <1>15 DEF PermissionQueryFails
    <2>2. PICK rest \in SUBSET NewCommands :
            /\ denied' = denied \cup (NewCommands \ rest)
            /\ tick' = IF rest = {} THEN NoTick
                       ELSE [tick EXCEPT !.at = "signal", !.found = FirstOf(rest)]
        BY <1>15 DEF PermissionQueryFails
    <2>3. CASE rest = {}
        BY <2>1, <2>2, <2>3 DEF TickInv, NoTick
    <2>4. CASE rest # {}
        <3>1. denied \subseteq denied' /\ NewCommands \ rest \subseteq denied'
            BY <2>2
        <3>2. tick' = [tick EXCEPT !.at = "signal", !.found = FirstOf(rest)]
            BY <2>2, <2>4
        <3> QED BY <1>13, <2>1, <2>4, <3>1, <3>2
    <2> QED BY <2>3, <2>4
<1>16. CASE SignalIssueWorkflow
    <2>1. UNCHANGED <<thread, pc, started, denied>> /\ tick.at = "signal" /\ pc # "none"
        BY <1>16 DEF SignalIssueWorkflow, Running
    <2>2. \/ tick' = NoTick
          \/ tick'.at = "signal" /\ tick'.found = tick.found /\ tick'.seen = tick.seen
        BY <1>1, <1>16 DEF SignalIssueWorkflow, TickRecords
    <2>3. tick' # NoTick => NewCommands' = NewCommands
        BY <2>1, <2>2 DEF NewCommands
    <2> QED BY <2>1, <2>2, <2>3 DEF TickInv, NoTick
<1> QED BY <1>3, <1>4, <1>5, <1>7, <1>8, <1>9, <1>10, <1>11, <1>14, <1>15, <1>16
        DEF Next, TickSteps

(* A step of the tick leaves no command behind.                            *)
LEMMA FateTick ==
    ASSUME ConversationTypeOK, TickInv, FateInv, TickSteps
    PROVE  FateInv'
<1> USE DEF runVars, given, signalVars, historyVars, At, Goes, AttemptFails
<1>1. /\ UNCHANGED <<thread, hydrated, issue_comments, loaded>>
      /\ sent \subseteq sent' /\ denied \subseteq denied' /\ (repeated => repeated')
    BY TickKeeps
<1>2. /\ Reached \subseteq 0 .. Len(thread) /\ LastSeen \in Reached
      /\ Len(thread) \in Nat /\ DOMAIN thread = 1 .. Len(thread) /\ tick \in TickRecords
      /\ NewCommands \subseteq DOMAIN thread /\ NewCommands \in SUBSET Nat
    BY ReachedType, TickType
<1>3. /\ tick.seen \in 0 .. Len(thread) /\ tick.listed \in 0 .. Len(thread)
      /\ tick.found \in 0 .. Len(thread)
    BY <1>2 DEF TickRecords
<1>4. \A i \in Nat : Settled(i) => Settled(i)'
    <2>1. started' = started \/ (started = 0 /\ started' \in Nat)
        <3>1. CASE StartWorkflow
            BY <1>2, <1>3, <3>1 DEF StartWorkflow, TickInv
        <3>2. CASE ~StartWorkflow
            BY <3>2, Zenon
               DEF TickSteps, TickLists, ForwardHistory, Sync, PostNewComments,
                   SyncAttemptFails, DetectApprovalSignal, PermissionQueryFails,
                   SignalIssueWorkflow
        <3> QED BY <3>1, <3>2
    <2> QED BY <1>1, <2>1 DEF Settled
<1>5. \A c \in Reached : 1 .. c \in SUBSET Nat
    BY <1>2
<1>6. ASSUME ~(tick.at \in {"detect", "signal"})
      PROVE  \A c \in Reached : \A i \in 1 .. c : thread[i] \in Commands => Settled(i)'
    BY <1>4, <1>5, <1>6 DEF FateInv, Looked
<1>7. tick.at \in {"post", "detect", "signal"} =>
          \A i \in 1 .. tick.seen : thread[i] \in Commands => Settled(i)'
    BY <1>3, <1>4 DEF FateInv
<1>8. ASSUME UNCHANGED signalVars, UNCHANGED new_comments
      PROVE  Reached' = Reached
    BY <1>1, <1>8 DEF Reached
<1>9. CASE TickLists \/ SyncAttemptFails \/ StartWorkflow
    <2>1. tick'.at \notin {"post", "detect", "signal"}
        BY <1>2, <1>9 DEF TickLists, SyncAttemptFails, StartWorkflow, NoTick, TickRecords
    <2>2. UNCHANGED signalVars /\ UNCHANGED new_comments /\ tick.at \in {"idle", "sync", "post"}
        BY <1>9 DEF TickLists, SyncAttemptFails, StartWorkflow
    <2>3. Reached' = Reached
        BY <1>8, <2>2
    <2> QED BY <1>1, <1>6, <2>1, <2>2, <2>3 DEF FateInv
<1>10. CASE ForwardHistory
    <2>1. tick'.at \notin {"post", "detect", "signal"} /\ tick.at = "history"
        BY <1>2, <1>10 DEF ForwardHistory, AfterStart, NoTick, TickRecords
    <2>2. CASE Receive(1 .. tick.listed)
        <3>1. 1 .. tick.listed \in SUBSET DOMAIN thread
            BY <1>2, <1>3
        <3>2. Reached' \subseteq Reached \cup (1 .. tick.listed)
            BY <2>2, <3>1, ReceiveReaches
        <3>3. started' = tick.listed
            BY <1>10, <2>1 DEF ForwardHistory, TickInv
        <3>4. \A c \in 1 .. tick.listed : \A i \in 1 .. c : Settled(i)'
            BY <1>3, <3>3 DEF Settled
        <3> QED BY <1>1, <1>6, <2>1, <3>2, <3>4 DEF FateInv
    <2>3. CASE UNCHANGED <<runVars, signalVars>>
        BY <1>1, <1>6, <1>8, <2>1, <2>3 DEF FateInv
    <2> QED BY <1>10, <2>2, <2>3 DEF ForwardHistory
<1>11. CASE Sync
    <2>1. Reached' = Reached /\ tick.at = "sync"
        BY <1>8, <1>11 DEF Sync
    <2>2. tick' = NoTick \/ tick'.seen = LastSeen
        BY <1>2, <1>11 DEF Sync, Since, TickRecords
    <2> QED BY <1>1, <1>2, <1>6, <2>1, <2>2 DEF FateInv, NoTick
<1>12. CASE PostNewComments
    <2>1. tick.at = "post"
        BY <1>12 DEF PostNewComments
    <2>2. CASE Running
        <3>1. Receive(tick.seen + 1 .. tick.listed)
              /\ tick.seen + 1 .. tick.listed \in SUBSET DOMAIN thread
            BY <1>2, <1>3, <1>12, <2>2 DEF PostNewComments
        <3>2. Reached' \subseteq Reached \cup (tick.seen + 1 .. tick.listed)
            BY <3>1, ReceiveReaches
        <3>3. \/ tick'.at = "detect" /\ tick'.listed = tick.listed /\ tick'.seen = tick.seen
              \/ tick'.at = "sync" /\ repeated'
            BY <1>2, <1>12, <2>2 DEF PostNewComments, TickRecords
        <3>4. \A i \in 1 .. tick.listed :
                  thread[i] \in Commands => Settled(i)' \/ Looked(i)'
            <4> SUFFICES ASSUME NEW i \in 1 .. tick.listed, thread[i] \in Commands
                         PROVE  Settled(i)' \/ Looked(i)'
                OBVIOUS
            <4>1. CASE i <= tick.seen
                BY <1>3, <1>7, <2>1, <4>1
            <4>2. CASE ~(i <= tick.seen)
                BY <1>3, <3>3, <4>2 DEF Looked, Settled
            <4> QED BY <4>1, <4>2
        <3>5. \A c \in Reached' : \A i \in 1 .. c :
                  thread[i] \in Commands => Settled(i)' \/ Looked(i)'
            BY <1>3, <1>6, <2>1, <3>2, <3>4
        <3> QED BY <1>1, <1>7, <2>1, <3>3, <3>5 DEF FateInv
    <2>3. CASE ~Running
        <3>1. tick'.at = "sync" /\ UNCHANGED signalVars /\ UNCHANGED new_comments
            BY <1>2, <1>12, <2>3 DEF PostNewComments, TickRecords
        <3> QED BY <1>1, <1>6, <1>8, <2>1, <3>1 DEF FateInv
    <2> QED BY <2>2, <2>3
<1>13. \A i \in DOMAIN thread :
           thread[i] \in Commands /\ tick.seen < i => i \in NewCommands
    BY DEF NewCommands
<1>14. CASE DetectApprovalSignal \/ PermissionQueryFails
    <2>1. /\ UNCHANGED signalVars /\ UNCHANGED new_comments /\ tick.at = "detect"
        BY <1>14 DEF DetectApprovalSignal, PermissionQueryFails
    <2>2. \/ tick' = NoTick /\ NewCommands \subseteq denied'
          \/ tick'.at = "signal" /\ tick'.listed = tick.listed /\ tick'.seen = tick.seen
        BY <1>2, <1>14 DEF DetectApprovalSignal, PermissionQueryFails, TickRecords
    <2>3. Reached' = Reached
        BY <1>8, <2>1
    <2>4. ASSUME NEW c \in Reached, NEW i \in 1 .. c, thread[i] \in Commands
          PROVE  Settled(i)' \/ Looked(i)'
        <3>1. Settled(i) \/ Looked(i)
            BY <2>4 DEF FateInv
        <3>2. i \in DOMAIN thread /\ i \in Nat
            BY <1>2
        <3>3. CASE Settled(i)
            BY <1>4, <3>2, <3>3
        <3>4. CASE Looked(i)
            BY <1>13, <2>2, <2>4, <3>2, <3>4 DEF Looked, Settled
        <3> QED BY <3>1, <3>3, <3>4
    <2>5. tick' = NoTick => tick'.at = "idle"
        BY DEF NoTick
    <2> QED BY <1>1, <1>7, <2>1, <2>2, <2>3, <2>4, <2>5 DEF FateInv
<1>15. CASE SignalIssueWorkflow
    <2>1. /\ approval_signal' = tick.found /\ Recorded(tick.found)
          /\ InHand \in sent' /\ UNCHANGED runVars /\ tick.at = "signal"
        BY <1>15 DEF SignalIssueWorkflow, SeenWith, InHand
    <2>2. last_seen' \in {last_seen, tick.found}
        BY <1>3, <2>1, RecordedType
    <2>3. Reached' \subseteq Reached \cup {tick.found}
        BY <2>1, <2>2 DEF Reached
    <2>4. /\ tick.found \in DOMAIN thread /\ tick.seen < tick.found
          /\ \A i \in NewCommands : i < tick.found => i \in denied
        BY <2>1 DEF TickInv
    <2>5. ASSUME NEW i \in DOMAIN thread, thread[i] \in Commands,
                 i <= tick.found \/ i <= tick.listed
          PROVE  Settled(i)'
        <3>1. CASE i <= tick.seen
            BY <1>2, <1>3, <1>7, <2>1, <2>5, <3>1
        <3>2. CASE ~(i <= tick.seen) /\ i < tick.found
            <4>1. i \in denied
                BY <1>2, <1>3, <1>13, <2>4, <2>5, <3>2
            <4> QED BY <1>1, <4>1 DEF Settled
        <3>3. CASE tick.found <= i
            <4>1. /\ InHand.seen < InHand.id /\ InHand.id <= i
                  /\ i <= InHand.listed \/ i = InHand.id
                BY <1>2, <1>3, <2>4, <2>5, <3>3 DEF InHand
            <4> QED BY <2>1, <4>1 DEF Settled
        <3> QED BY <1>2, <1>3, <3>1, <3>2, <3>3
    <2>6. ASSUME NEW c \in Reached', NEW i \in 1 .. c, thread[i] \in Commands
          PROVE  Settled(i)'
        <3>1. i \in DOMAIN thread /\ i \in Nat
            BY <1>2, <2>3, <2>4
        <3>2. CASE c = tick.found
            BY <1>2, <2>4, <2>5, <2>6, <3>1, <3>2
        <3>3. CASE c \in Reached
            <4>1. Settled(i) \/ Looked(i)
                BY <2>6, <3>3 DEF FateInv
            <4> QED BY <1>4, <2>5, <2>6, <3>1, <4>1 DEF Looked
        <3> QED BY <2>3, <3>2, <3>3
    <2>7. tick' = NoTick \/ tick'.seen = tick.seen
        BY <1>2, <1>15 DEF SignalIssueWorkflow, TickRecords
    <2> QED BY <1>1, <1>7, <2>1, <2>6, <2>7 DEF FateInv, NoTick
<1> QED BY <1>9, <1>10, <1>11, <1>12, <1>14, <1>15 DEF TickSteps

(* Nor does any step.                                                      *)
LEMMA FateStep ==
    ASSUME ConversationTypeOK, TickInv, FateInv, [Next]_vars
    PROVE  FateInv'
<1>1. /\ Reached \subseteq 0 .. Len(thread)
      /\ Len(thread) \in Nat /\ DOMAIN thread = 1 .. Len(thread) /\ tick \in TickRecords
    BY ReachedType, TickType
<1>2. \A c \in 0 .. Len(thread) : 1 .. c \subseteq DOMAIN thread
    BY <1>1
<1>3. tick.seen \in 0 .. Len(thread) /\ tick.listed \in 0 .. Len(thread)
    BY <1>1 DEF TickRecords
<1>4. ASSUME UNCHANGED <<tick, historyVars>>, Reached' \subseteq Reached \cup {0},
             \A i \in DOMAIN thread : thread'[i] = thread[i]
      PROVE  FateInv'
    <2>1. \A i \in DOMAIN thread :
              Settled(i)' = Settled(i) /\ Looked(i)' = Looked(i) /\ thread'[i] = thread[i]
        BY <1>4 DEF Settled, Looked, historyVars
    <2> QED BY <1>1, <1>2, <1>3, <1>4, <2>1 DEF FateInv
<1>5. CASE \E body \in Bodies : Write(body)
    BY <1>4, <1>5, WriteKeeps
<1>6. CASE RunSteps
    BY <1>4, <1>6, RunKeeps
<1>7. CASE UNCHANGED vars
    BY <1>4, <1>7 DEF vars, runVars, given, signalVars, Reached
<1> QED BY <1>5, <1>6, <1>7, FateTick DEF Next

(* A command the cursor has passed was sent, came after the one its tick   *)
(* sent, lost its permission query, is in the tick's hands, is older than  *)
(* the run, or an attempt was repeated after it was forwarded.             *)
THEOREM ConversationFates == SafetySpec => []CommandFate
<1>1. Init => TickInv /\ FateInv
    BY DEF Init, TickInv, FateInv, Reached, NoTick
<1>2. ConversationTypeOK /\ TickInv /\ FateInv /\ [Next]_vars => TickInv' /\ FateInv'
    BY TickInvStep, FateStep
<1>3. ConversationTypeOK /\ TickInv /\ FateInv => CommandFate
    <2> SUFFICES ASSUME ConversationTypeOK, TickInv, FateInv,
                        NEW i \in 1 .. LastSeen, thread[i] \in Commands,
                        ~Settled(i)
                 PROVE  tick.seen < i /\ (At("detect") \/ (At("signal") /\ tick.found <= i))
        BY DEF CommandFate, Settled
    <2>1. Looked(i)
        BY ReachedType DEF FateInv
    <2>2. i \in DOMAIN thread /\ i \in Nat
        BY ReachedType, TickType
    <2>3. i \in NewCommands
        BY <2>1, <2>2 DEF Looked, NewCommands
    <2>4. i \notin denied
        BY DEF Settled
    <2>5. tick.at = "signal" => tick.found \in Nat /\ ~(i < tick.found)
        BY <2>2, <2>3, <2>4, TickType DEF TickInv
    <2> QED BY <2>1, <2>2, <2>5 DEF Looked, At
<1> QED BY <1>1, <1>2, <1>3, ConversationTypes, PTL DEF SafetySpec

-----------------------------------------------------------------------------
(* A run obeys nothing old, and nothing twice.                             *)

(* What the query answers after a step.                                    *)
LEMMA SeenAfter ==
    ConversationTypeOK' =>
        /\ \A i \in {last_seen'} \cup issue_comments' \cup new_comments' : i <= LastSeen'
        /\ LastSeen' \in Nat
<1> DEFINE seen ==
        /\ \A i \in {last_seen} \cup issue_comments \cup new_comments : i <= LastSeen
        /\ LastSeen \in Nat
<1>1. ConversationTypeOK => seen
    BY LastSeenIsGreatest, ReachedType
<1>2. ConversationTypeOK' => seen'
    BY <1>1, PTL
<1> QED BY <1>2

(* A step of the tick never puts the cursor back.                          *)
LEMMA TickSees ==
    ASSUME ConversationTypeOK, ConversationTypeOK', TickSteps
    PROVE  LastSeen <= LastSeen'
<1>1. issue_comments' = issue_comments /\ new_comments \subseteq new_comments'
    BY TickKeeps
<1>2. last_seen <= last_seen'
    <2>1. last_seen \in Nat
        BY DEF ConversationTypeOK
    <2>2. CASE UNCHANGED last_seen
        BY <2>1, <2>2
    <2>3. CASE ForwardHistory \/ PostNewComments
        <3>1. /\ 1 .. tick.listed \in SUBSET DOMAIN thread
              /\ tick.seen + 1 .. tick.listed \in SUBSET DOMAIN thread
            BY TickType DEF TickRecords
        <3>2. \/ UNCHANGED last_seen
              \/ Receive(1 .. tick.listed) \/ Receive(tick.seen + 1 .. tick.listed)
            BY <2>3 DEF ForwardHistory, PostNewComments, signalVars
        <3> QED BY <2>2, <3>1, <3>2, ReceiveType
    <2>4. CASE SignalIssueWorkflow
        <3>1. tick.found \in 0 .. Len(thread) /\ Recorded(tick.found)
            BY <2>4 DEF ConversationTypeOK, SignalIssueWorkflow, SeenWith
        <3> QED BY <3>1, RecordedType
    <2> QED BY <2>2, <2>3, <2>4
            DEF TickSteps, TickLists, StartWorkflow, Sync, SyncAttemptFails,
                DetectApprovalSignal, PermissionQueryFails, signalVars
<1>3. LastSeen \in {last_seen} \cup issue_comments \cup new_comments
      /\ LastSeen \in 0 .. Len(thread)
    BY LastSeenIsGreatest
<1>4. /\ \A i \in {last_seen'} \cup issue_comments' \cup new_comments' : i <= LastSeen'
      /\ LastSeen' \in Nat
    BY SeenAfter
<1>5. last_seen \in Nat /\ last_seen' \in Nat /\ last_seen' <= LastSeen'
    BY <1>4 DEF ConversationTypeOK
<1>6. Len(thread) \in Nat
    BY TickType
<1>7. CASE LastSeen = last_seen
    BY <1>2, <1>3, <1>4, <1>5, <1>6, <1>7
<1>8. CASE LastSeen \in issue_comments \cup new_comments
    BY <1>1, <1>4, <1>8
<1> QED BY <1>3, <1>7, <1>8

(* A step of the tick keeps the order.                                     *)
LEMMA OrderTick ==
    ASSUME ConversationTypeOK, ConversationTypeOK', TickInv, Ordered, TickSteps, ~repeated'
    PROVE  Ordered'
<1> USE DEF runVars, given, signalVars, historyVars, At, Goes, AttemptFails
<1>1. LastSeen <= LastSeen'
    BY TickSees
<1>2. /\ LastSeen \in Nat /\ started \in Nat /\ \A s \in sent : s.id \in Nat
      /\ tick \in TickRecords /\ DOMAIN thread = 1 .. Len(thread) /\ Len(thread) \in Nat
    <2>1. LastSeen \in Nat
        BY ReachedType
    <2>2. tick \in TickRecords /\ DOMAIN thread = 1 .. Len(thread) /\ Len(thread) \in Nat
        BY TickType
    <2>3. started \in Nat
        BY DEF ConversationTypeOK
    <2>4. \A s \in sent : s.id \in DOMAIN thread
        BY DEF ConversationTypeOK
    <2> QED BY <2>1, <2>2, <2>3, <2>4
<1>3. /\ tick.seen \in 0 .. Len(thread) /\ tick.listed \in 0 .. Len(thread)
      /\ tick.found \in 0 .. Len(thread)
    BY <1>2 DEF TickRecords
<1>4. LastSeen' \in Nat /\ last_seen' <= LastSeen'
      /\ \A i \in new_comments' : i <= LastSeen'
    BY SeenAfter
<1>5. ASSUME UNCHANGED <<pc, sent, started>>, tick.at # "history"
      PROVE  pc' \notin {"none", "closed"} =>
                /\ \A s \in sent' : s.id <= LastSeen'
                /\ started' <= LastSeen'
    BY <1>1, <1>2, <1>4, <1>5 DEF Ordered
<1>6. CASE TickLists \/ SyncAttemptFails
    <2>1. UNCHANGED <<pc, sent, started>> /\ tick.at # "history" /\ tick'.at = "sync"
        BY <1>2, <1>6 DEF TickLists, SyncAttemptFails, NoTick, TickRecords
    <2> QED BY <1>5, <2>1 DEF Ordered
<1>7. CASE StartWorkflow
    <2>1. sent = {} /\ sent' = sent
        BY <1>7 DEF StartWorkflow, TickInv
    <2>2. tick'.at = "history"
        BY <1>2, <1>7 DEF StartWorkflow, TickRecords
    <2> QED BY <2>1, <2>2 DEF Ordered
<1>8. CASE ForwardHistory
    <2>1. UNCHANGED <<pc, sent, started>> /\ tick' = NoTick
        BY <1>8 DEF ForwardHistory, AfterStart, Receive
    <2>2. started = tick.listed /\ pc # "none"
        BY <1>8 DEF ForwardHistory, TickInv
    <2>3. pc' \notin {"none", "closed"} => started <= LastSeen'
        <3>1. CASE Running
            <4>1. new_comments' = new_comments \cup (1 .. tick.listed)
                BY <1>8, <3>1 DEF ForwardHistory, Receive
            <4>2. CASE tick.listed = 0
                BY <1>4, <2>2, <4>2
            <4>3. CASE tick.listed # 0
                <5>1. tick.listed \in 1 .. tick.listed
                    BY <1>2, <1>3, <4>3
                <5> QED BY <1>4, <2>2, <4>1, <5>1
            <4> QED BY <4>2, <4>3
        <3>2. CASE ~Running
            BY <2>1, <3>2 DEF Running
        <3> QED BY <3>1, <3>2
    <2> QED BY <1>1, <1>2, <1>4, <2>1, <2>3 DEF Ordered, NoTick
<1>9. CASE Sync
    <2>1. UNCHANGED <<pc, sent, started>> /\ tick.at = "sync"
        BY <1>9 DEF Sync
    <2>2. \/ tick' = NoTick
          \/ /\ Running /\ tick'.seen = LastSeen
             /\ tick'.at \in {"post", "detect"}
        BY <1>2, <1>9 DEF Sync, Since, TickRecords
    <2>3. Running => started <= LastSeen /\ \A s \in sent : s.id <= LastSeen
        BY <2>1 DEF Running, Ordered
    <2> QED BY <1>5, <2>1, <2>2, <2>3 DEF Ordered, NoTick
<1>10. CASE PostNewComments
    <2>1. UNCHANGED <<pc, sent, started>> /\ tick.at = "post"
        BY <1>10 DEF PostNewComments, Receive
    <2>2. tick'.at \in {"detect", "sync"} /\ tick'.seen = tick.seen
        BY <1>2, <1>10 DEF PostNewComments, TickRecords
    <2> QED BY <1>5, <2>1, <2>2 DEF Ordered
<1>11. CASE DetectApprovalSignal \/ PermissionQueryFails
    <2>1. UNCHANGED <<pc, sent, started>> /\ tick.at = "detect"
        BY <1>11 DEF DetectApprovalSignal, PermissionQueryFails
    <2>2. tick' = NoTick \/ (tick'.at = "signal" /\ tick'.seen = tick.seen)
        BY <1>2, <1>11 DEF DetectApprovalSignal, PermissionQueryFails, TickRecords
    <2> QED BY <1>5, <2>1, <2>2 DEF Ordered, NoTick
<1>12. CASE SignalIssueWorkflow
    <2>1. /\ UNCHANGED <<pc, started>> /\ tick.at = "signal" /\ pc \notin {"none", "closed"}
          /\ sent' = sent \cup {InHand} /\ Recorded(tick.found)
        BY <1>12 DEF SignalIssueWorkflow, SeenWith, InHand, Running
    <2>2. tick.found <= last_seen' /\ last_seen' \in Nat
        <3>1. tick.found <= last_seen'
            BY <1>3, <2>1, RecordedType
        <3> QED BY <3>1 DEF ConversationTypeOK
    <2>3. tick.found <= LastSeen'
        BY <1>2, <1>3, <1>4, <2>2
    <2>4. /\ InHand.id = tick.found /\ tick.seen < tick.found
          /\ \A s \in sent : s.id <= tick.seen \/ s = InHand
        BY <2>1 DEF InHand, TickInv, Ordered
    <2>5. \A s, t \in sent' : s.id = t.id => s = t
        <3>1. ASSUME NEW s \in sent PROVE s.id = tick.found => s = InHand
            BY <1>2, <1>3, <2>4, <3>1
        <3>2. \A s, t \in sent : s.id = t.id => s = t
            BY DEF Ordered
        <3> QED BY <2>1, <2>4, <3>1, <3>2
    <2>6. \A s \in sent' : s.id > started
        BY <1>2, <1>3, <2>1, <2>4 DEF Ordered
    <2>7. (\A s \in sent' : s.id <= LastSeen') /\ started <= LastSeen'
        BY <1>1, <1>2, <1>4, <2>1, <2>3, <2>4 DEF Ordered
    <2>8. \/ tick' = NoTick
          \/ tick'.at = "signal" /\ tick'.seen = tick.seen /\ InHand' = InHand
        BY <1>2, <1>12 DEF SignalIssueWorkflow, TickRecords, InHand
    <2>9. started <= tick.seen
        BY <2>1 DEF Ordered
    <2> QED BY <2>1, <2>4, <2>5, <2>6, <2>7, <2>8, <2>9 DEF Ordered, NoTick
<1> QED BY <1>6, <1>7, <1>8, <1>9, <1>10, <1>11, <1>12 DEF TickSteps

(* Every step keeps the order, or an attempt was repeated or the cursor put *)
(* back.                                                                   *)
LEMMA OrderStep ==
    ASSUME ConversationTypeOK, TickInv, OrderInv, [Next]_vars
    PROVE  OrderInv'
<1>1. ConversationTypeOK'
    BY TypeStep
<1>2. CASE RunSteps
    <2>1. UNCHANGED <<tick, sent, started, repeated>> /\ pc \notin {"none", "closed"}
        BY <1>2, RunKeeps DEF historyVars
    <2>2. rewound' = (rewound \/ LastSeen' < LastSeen)
        BY <1>2 DEF RunSteps
    <2>3. LastSeen \in Nat /\ LastSeen' \in Nat
        BY <1>1, ReachedType, SeenAfter
    <2>4. started \in Nat /\ \A s \in sent : s.id \in Nat
        BY DEF ConversationTypeOK
    <2>5. ASSUME Ordered, ~(LastSeen' < LastSeen) PROVE Ordered'
        BY <2>1, <2>3, <2>4, <2>5 DEF Ordered, InHand
    <2> QED BY <2>1, <2>2, <2>5, Zenon DEF OrderInv
<1>3. CASE TickSteps
    <2>1. UNCHANGED rewound /\ (repeated => repeated')
        BY <1>3, TickKeeps
    <2>2. Ordered /\ ~repeated' => Ordered'
        BY <1>1, <1>3, OrderTick
    <2> QED BY <2>1, <2>2, Zenon DEF OrderInv
<1>4. ASSUME UNCHANGED <<runVars, signalVars, tick, failures, historyVars, rewound>>
      PROVE  OrderInv'
    <2>1. LastSeen' = LastSeen
        BY <1>4 DEF LastSeen, runVars, given, signalVars
    <2>2. Ordered => Ordered'
        BY <1>4, <2>1 DEF Ordered, InHand, runVars, historyVars
    <2>3. UNCHANGED <<repeated, rewound>>
        BY <1>4 DEF historyVars
    <2> QED BY <2>2, <2>3, Zenon DEF OrderInv
<1>5. CASE \E body \in Bodies : Write(body)
    BY <1>4, <1>5, WriteKeeps
<1>6. CASE UNCHANGED vars
    BY <1>4, <1>6 DEF vars
<1> QED BY <1>2, <1>3, <1>5, <1>6 DEF Next

(* One command is sent by one tick, and a run does not obey what was       *)
(* written before it, unless an attempt was repeated after its effect or   *)
(* an await put the cursor back.                                           *)
THEOREM ConversationObeys == SafetySpec => []CommandsAreNew
<1>1. Init => TickInv /\ OrderInv
    BY DEF Init, TickInv, OrderInv, Ordered, NoTick
<1>2. ConversationTypeOK /\ TickInv /\ OrderInv /\ [Next]_vars => TickInv' /\ OrderInv'
    BY TickInvStep, OrderStep
<1>3. OrderInv => CommandsAreNew
    BY Zenon DEF OrderInv, Ordered, CommandsAreNew
<1> QED BY <1>1, <1>2, <1>3, ConversationTypes, PTL DEF SafetySpec

=============================================================================
