---------------------------- MODULE CommentsProofs ----------------------------
(***************************************************************************)
(* What holds of an issue's comments for every number of rounds, planning  *)
(* attempts, revisions and failures, and every set of people: a phase has  *)
(* one comment, that comment shows what the run last gave it unless the    *)
(* poller wrote over it, what people add stays unless somebody was between *)
(* reading and writing the comment when they did, and a question is asked  *)
(* once, or once more for an attempt that failed.                          *)
(***************************************************************************)
EXTENDS IssueComments, TLAPS, WellFoundedInduction, FiniteSetTheorems

-----------------------------------------------------------------------------
(* The inductive invariant.                                                *)

(* What the run is to do next, once the write it awaits is done.           *)
Nears(step) == pc = step \/ (pc = "write" /\ call.next = step)

(* A round was begun before its question, and a revision left for the next *)
(* one.                                                                    *)
Counted ==
    /\ Nears("ask") => clarification_round >= 1
    /\ Nears("revise") => latest_spec_rev < REVISIONS

(* What the worker read is of the comment that it is to write; and no one  *)
(* else can have made that comment since.                                  *)
WorkerKnows ==
    /\ read.worker # NoRead => Writes(PhaseMarkers)
    /\ read.worker = NotFound =>
          \A i \in DOMAIN comments : comments[i].marker # call.marker
    /\ read.worker.at # 0 => comments[read.worker.at].marker = call.marker

(* The poller reads a comment to write to it.                              *)
PollerKnows ==
    /\ read.poller.held =>
          read.poller.at # 0 /\ read.poller.text \in Texts /\ pending # <<>>
    /\ ~read.poller.held => read.poller = NoRead

(* What is safe is in the comment, and in what is held of the comment.     *)
SafeIsRead ==
    \A s \in safe :
        /\ s[1] \in DOMAIN comments /\ s[2] \in comments[s[1]].tail
        /\ read.worker.at = s[1] => s[2] \in read.worker.tail
        /\ read.poller.at = s[1] => s[2] \in read.poller.tail

CommentsInv ==
    /\ CommentsTypeOK /\ Counted
    /\ WorkerKnows /\ PollerKnows
    /\ OneCommentPerPhase /\ PhaseIsShown /\ SafeIsRead

(* No marker of a question is one of a phase.                              *)
LEMMA QuestionsAreNoPhase ==
    /\ Triage \in PhaseMarkers
    /\ \A r \in 1 .. REVISIONS : Design(r) \in PhaseMarkers
    /\ \A n : Question(n) \notin PhaseMarkers
    /\ PhaseMarkers \subseteq Markers
    /\ \A r \in 1 .. MAX_CLARIFICATION_ROUNDS + 1 : Question(r) \in Markers
BY DEF PhaseMarkers, Markers, Triage, Design, Question

(* A listing in which the marker is has a first comment with it, and that  *)
(* is what is read.                                                        *)
LEMMA FirstFound ==
    ASSUME NEW S \in SUBSET Nat, S # {}
    PROVE  \E i \in S : \A j \in S : i <= j
<1> DEFINE R == OpToRel(<, Nat)
<1>1. PICK i \in S : \A j \in S : ~(<<j, i>> \in R)
    <2> HIDE DEF R
    <2>1. IsWellFoundedOn(R, Nat)
        BY NatLessThanWellFounded DEF R
    <2> QED BY <2>1, WFMin
<1>2. \A j \in S : ~(j < i)
    BY <1>1 DEF OpToRel
<1> QED BY <1>2

LEMMA LookupFinds ==
    ASSUME CommentsTypeOK, NEW marker
    PROVE  \/ /\ Lookup(marker) = NotFound
              /\ \A i \in DOMAIN comments : comments[i].marker # marker
           \/ \E i \in DOMAIN comments :
                 comments[i].marker = marker /\ Lookup(marker) = Copy(i)
<1> DEFINE found == {i \in DOMAIN comments : comments[i].marker = marker}
<1>1. CASE found = {}
    BY <1>1 DEF Lookup
<1>2. CASE found # {}
    <2>1. found \in SUBSET Nat
        BY DEF CommentsTypeOK
    <2>2. \E i \in found : \A j \in found : i <= j
        BY <1>2, <2>1, FirstFound
    <2>3. (CHOOSE i \in found : \A j \in found : i <= j) \in found
        BY <2>2
    <2> QED BY <1>2, <2>3 DEF Lookup
<1> QED BY <1>1, <1>2

(* A copy is what a writer may hold, at a place of the listing.            *)
LEMMA CopyType ==
    ASSUME CommentsTypeOK, NEW i \in DOMAIN comments
    PROVE  /\ Copy(i) \in Reads /\ Copy(i) # NoRead /\ Copy(i) # NotFound
           /\ Copy(i).held /\ Copy(i).at = i /\ i \in 1 .. Len(comments) /\ i # 0
           /\ Copy(i).tail = comments[i].tail /\ Copy(i).text \in Texts
<1>1. comments[i] \in Comment /\ i \in 1 .. Len(comments) /\ i \in Nat /\ i # 0
    BY DEF CommentsTypeOK
<1>2. comments[i].text \in Texts /\ comments[i].tail \in SUBSET (Remarks \cup Notices)
    BY <1>1 DEF Comment
<1> QED BY <1>1, <1>2 DEF Copy, Reads, NoRead, NotFound

LEMMA NoReadType ==
    /\ NoRead \in Reads /\ NotFound \in Reads /\ NoRead # NotFound
    /\ NoRead.at = 0 /\ NotFound.at = 0 /\ ~NoRead.held /\ NotFound.held
BY DEF NoRead, NotFound, Reads

-----------------------------------------------------------------------------
(* Every step keeps the invariant.                                         *)

LEMMA InitHolds == Init => CommentsInv
<1> SUFFICES ASSUME Init PROVE CommentsInv
    OBVIOUS
<1>1. comments = <<>> /\ DOMAIN comments = {} /\ Len(comments) = 0
    BY DEF Init
<1>2. CommentsTypeOK
    <2>1. comments \in Seq(Comment) /\ refused \in Seq(Notices) /\ pending \in Seq(Notices)
        BY DEF Init
    <2>2. read \in [worker : Reads, poller : Reads]
        BY NoReadType DEF Init
    <2>3. read.worker.at <= Len(comments) /\ read.poller.at <= Len(comments)
        BY <1>1, NoReadType DEF Init
    <2>4. call \in [marker : Markers, text : Texts, next : Awaits]
        BY QuestionsAreNoPhase DEF Init, Texts, Awaits
    <2> QED BY <2>1, <2>2, <2>3, <2>4, CommentsAssumption DEF Init, CommentsTypeOK
<1>3. Counted
    BY DEF Init, Counted, Nears
<1>4. WorkerKnows /\ PollerKnows
    BY NoReadType DEF Init, WorkerKnows, PollerKnows
<1>5. OneCommentPerPhase /\ PhaseIsShown /\ SafeIsRead
    BY <1>1 DEF Init, OneCommentPerPhase, PhaseIsShown, SafeIsRead
<1> QED BY <1>2, <1>3, <1>4, <1>5 DEF CommentsInv

(* What a step of the run asks to be written, it may ask.                  *)
LEMMA AwaitType ==
    ASSUME NEW marker \in Markers, NEW text \in Texts, NEW next \in Awaits,
           Await(marker, text, next)
    PROVE  /\ pc' = "write" /\ call'.next = next
           /\ call' \in [marker : Markers, text : Texts, next : Awaits]
BY DEF Await

(* The run's own steps keep to the types and the counts.                   *)
LEMMA RunStepsType ==
    ASSUME CommentsTypeOK, Counted, RunSteps
    PROVE  /\ pc' \in Awaits \cup {"write"}
           /\ IF pc' = "write"
              THEN call' \in [marker : Markers, text : Texts, next : Awaits]
              ELSE call' = NoCall
           /\ clarification_round' \in 0 .. MAX_CLARIFICATION_ROUNDS
           /\ planning_attempts' \in 0 .. PLANNING_MAX_ATTEMPTS
           /\ latest_spec_rev' \in 1 .. REVISIONS
           /\ Counted' /\ pc # "write"
<1> USE CommentsAssumption, QuestionsAreNoPhase
<1>0. /\ clarification_round \in 0 .. MAX_CLARIFICATION_ROUNDS
      /\ planning_attempts \in 0 .. PLANNING_MAX_ATTEMPTS
      /\ latest_spec_rev \in 1 .. REVISIONS
      /\ pc # "write" => call = NoCall
      /\ Design(latest_spec_rev) \in Markers /\ Triage \in Markers
    BY DEF CommentsTypeOK
<1>1. CASE TriageReady
    BY <1>0, <1>1 DEF TriageReady, Await, counters, Counted, Nears, Awaits, Texts
<1>2. CASE TriageAsks
    BY <1>0, <1>2 DEF TriageAsks, Await, counters, Counted, Nears, Awaits, Texts
<1>3. CASE TriageAbandons
    BY <1>0, <1>3 DEF TriageAbandons, Await, counters, Counted, Nears, Awaits, Texts
<1>4. CASE Ask
    <2>1. Question(clarification_round) \in Markers
        BY <1>0, <1>4 DEF Ask, Counted, Nears
    <2> QED BY <1>0, <1>4, <2>1 DEF Ask, Await, counters, Counted, Nears, Awaits, Texts
<1>5. CASE HandOver
    <2>1. LastQuestion \in Markers
        BY <1>0 DEF LastQuestion
    <2> QED BY <1>0, <1>5, <2>1 DEF HandOver, Await, counters, Counted, Nears, Awaits, Texts
<1>6. CASE Replied
    BY <1>0, <1>6 DEF Replied, Await, counters, Counted, Nears, Awaits, Texts
<1>7. CASE Canceled
    BY <1>0, <1>7 DEF Canceled, Goes, counters, Counted, Nears, Awaits
<1>8. CASE PlanningAttempt
    BY <1>0, <1>8 DEF PlanningAttempt, Await, counters, Counted, Nears, Awaits, Texts
<1>9. CASE PlanningFailed
    BY <1>0, <1>9 DEF PlanningFailed, Await, counters, Counted, Nears, Awaits, Texts
<1>10. CASE DiscoveryRejected
    BY <1>0, <1>10 DEF DiscoveryRejected, Goes, counters, Counted, Nears, Awaits
<1>11. CASE DiscoveryApproved
    BY <1>0, <1>11 DEF DiscoveryApproved, Await, counters, Counted, Nears, Awaits, Texts
<1>12. CASE Decided
    BY <1>0, <1>12 DEF Decided, Await, counters, Counted, Nears, Awaits, Texts
<1>13. CASE GateRevised
    BY <1>0, <1>13 DEF GateRevised, Await, counters, Counted, Nears, Awaits, Texts
<1>14. CASE NextRevision
    BY <1>0, <1>14 DEF NextRevision, Goes, counters, Counted, Nears, Awaits
<1>15. CASE GateReplanned
    BY <1>0, <1>15 DEF GateReplanned, Goes, counters, Counted, Nears, Awaits
<1> QED BY <1>1, <1>2, <1>3, <1>4, <1>5, <1>6, <1>7, <1>8, <1>9, <1>10, <1>11,
           <1>12, <1>13, <1>14, <1>15 DEF RunSteps

(* While the run waits for no write, the worker holds nothing.             *)
LEMMA RunStepsHold == CommentsInv /\ RunSteps => CommentsInv'
<1> SUFFICES ASSUME CommentsInv, RunSteps PROVE CommentsInv'
    OBVIOUS
<1>1. UNCHANGED <<comments, read, refused, pending, failures, kept, safe>>
    BY DEF RunSteps, issueVars, historyVars
<1>2. CommentsTypeOK /\ Counted
    BY DEF CommentsInv
<1>3. CommentsTypeOK' /\ Counted' /\ pc # "write"
    BY <1>1, <1>2, RunStepsType DEF CommentsTypeOK
<1>4. read.worker = NoRead
    BY <1>3 DEF CommentsInv, WorkerKnows, Writes
<1>5. WorkerKnows' /\ PollerKnows'
    BY <1>1, <1>4, NoReadType DEF CommentsInv, WorkerKnows, PollerKnows
<1>6. OneCommentPerPhase' /\ PhaseIsShown' /\ SafeIsRead'
    BY <1>1 DEF CommentsInv, OneCommentPerPhase, PhaseIsShown, SafeIsRead
<1> QED BY <1>3, <1>5, <1>6 DEF CommentsInv

(* What the worker's steps leave of what is read.                          *)
LEMMA ReadWorker ==
    ASSUME CommentsTypeOK, NEW r \in Reads, read' = [read EXCEPT !.worker = r]
    PROVE  /\ read' \in [worker : Reads, poller : Reads]
           /\ read'.worker = r /\ read'.poller = read.poller
BY DEF CommentsTypeOK

LEMMA ReadPoller ==
    ASSUME CommentsTypeOK, NEW r \in Reads, read' = [read EXCEPT !.poller = r]
    PROVE  /\ read' \in [worker : Reads, poller : Reads]
           /\ read'.poller = r /\ read'.worker = read.worker
BY DEF CommentsTypeOK

LEMMA ListHolds == CommentsInv /\ ListComments => CommentsInv'
<1> SUFFICES ASSUME CommentsInv, ListComments PROVE CommentsInv'
    OBVIOUS
<1> USE DEF runVars, counters, historyVars
<1>1. CommentsTypeOK /\ Writes(PhaseMarkers)
    BY DEF CommentsInv, ListComments
<1>2. /\ UNCHANGED <<pc, call, clarification_round, planning_attempts, latest_spec_rev,
                     comments, refused, pending, failures, kept, safe>>
      /\ read' = [read EXCEPT !.worker = Lookup(call.marker)]
    BY DEF ListComments
<1>3. \/ /\ Lookup(call.marker) = NotFound
         /\ \A i \in DOMAIN comments : comments[i].marker # call.marker
      \/ \E i \in DOMAIN comments :
            comments[i].marker = call.marker /\ Lookup(call.marker) = Copy(i)
    BY <1>1, LookupFinds
<1>4. Lookup(call.marker) \in Reads /\ Lookup(call.marker).at <= Len(comments)
    BY <1>1, <1>3, CopyType, NoReadType DEF CommentsTypeOK
<1>5. /\ read' \in [worker : Reads, poller : Reads]
      /\ read'.worker = Lookup(call.marker) /\ read'.poller = read.poller
    BY <1>1, <1>2, <1>4, ReadWorker
<1>6. CommentsTypeOK'
    BY <1>1, <1>2, <1>4, <1>5 DEF CommentsTypeOK
<1>7. Counted' /\ PollerKnows' /\ OneCommentPerPhase' /\ PhaseIsShown'
    BY <1>2, <1>5 DEF CommentsInv, Counted, Nears, PollerKnows, OneCommentPerPhase,
        PhaseIsShown
<1>8. WorkerKnows'
    BY <1>1, <1>2, <1>3, <1>5, CopyType, NoReadType DEF WorkerKnows, Writes
<1>9. SafeIsRead'
    <2> SUFFICES ASSUME NEW s \in safe
                 PROVE  Lookup(call.marker).at = s[1] => s[2] \in Lookup(call.marker).tail
        BY <1>2, <1>5 DEF CommentsInv, SafeIsRead
    <2>1. s[1] \in DOMAIN comments /\ s[2] \in comments[s[1]].tail /\ s[1] # 0
        BY <1>1 DEF CommentsInv, SafeIsRead, CommentsTypeOK
    <2> QED BY <1>1, <1>3, <2>1, CopyType, NoReadType
<1> QED BY <1>6, <1>7, <1>8, <1>9 DEF CommentsInv

(* An attempt that is over leaves nothing read, and what is next as it was.*)
LEMMA AttemptEndsType ==
    ASSUME CommentsTypeOK, Counted, pc = "write", AttemptEnds
    PROVE  /\ pc' \in Awaits \cup {"write"}
           /\ IF pc' = "write"
              THEN call' \in [marker : Markers, text : Texts, next : Awaits]
              ELSE call' = NoCall
           /\ Counted' /\ failures' \in 0 .. FAILURES
           /\ read' \in [worker : Reads, poller : Reads]
           /\ read'.worker = NoRead /\ read'.poller = read.poller
           /\ UNCHANGED <<clarification_round, planning_attempts, latest_spec_rev,
                          refused, pending, safe>>
<1>1. call \in [marker : Markers, text : Texts, next : Awaits]
    BY DEF CommentsTypeOK
<1>2. "write" \notin Awaits
    BY DEF Awaits
<1>3. UNCHANGED <<clarification_round, planning_attempts, latest_spec_rev,
                  refused, pending, safe>>
    BY DEF AttemptEnds, counters
<1>4. /\ read' \in [worker : Reads, poller : Reads]
      /\ read'.worker = NoRead /\ read'.poller = read.poller
    BY ReadWorker, NoReadType DEF AttemptEnds
<1>5. failures' \in 0 .. FAILURES
    BY CommentsAssumption DEF AttemptEnds, CommentsTypeOK
<1>6. CASE pc' = call.next /\ call' = NoCall
    BY <1>1, <1>2, <1>3, <1>4, <1>5, <1>6 DEF Counted, Nears
<1>7. CASE UNCHANGED <<pc, call>>
    BY <1>1, <1>3, <1>4, <1>5, <1>7 DEF Counted, Nears
<1> QED BY <1>6, <1>7 DEF AttemptEnds

(* A new comment comes last, and leaves the others as they were.           *)
LEMMA CommentAdded ==
    ASSUME CommentsTypeOK, call \in [marker : Markers, text : Texts, next : Awaits],
           comments' = Append(comments,
               [marker |-> call.marker, text |-> call.text, tail |-> {}])
    PROVE  /\ comments' \in Seq(Comment) /\ Len(comments') = Len(comments) + 1
           /\ DOMAIN comments' = DOMAIN comments \cup {Len(comments) + 1}
           /\ Len(comments) + 1 \notin DOMAIN comments
           /\ \A i \in DOMAIN comments : comments'[i] = comments[i]
           /\ comments'[Len(comments) + 1].marker = call.marker
           /\ comments'[Len(comments) + 1].text = call.text
<1>1. [marker |-> call.marker, text |-> call.text, tail |-> {}] \in Comment
    BY DEF Comment
<1> QED BY <1>1 DEF CommentsTypeOK

(* The steps that end an attempt and leave the comments that were there.   *)
LEMMA AddedHolds ==
    ASSUME CommentsInv, pc = "write", AttemptEnds,
           comments' = Append(comments,
               [marker |-> call.marker, text |-> call.text, tail |-> {}]),
           kept' \in [PhaseMarkers -> Texts \cup {"none"}]
    PROVE  CommentsTypeOK' /\ Counted' /\ WorkerKnows' /\ PollerKnows' /\ SafeIsRead'
<1>1. CommentsTypeOK /\ Counted /\ call \in [marker : Markers, text : Texts, next : Awaits]
    BY DEF CommentsInv, CommentsTypeOK
<1>2. /\ pc' \in Awaits \cup {"write"}
      /\ IF pc' = "write"
         THEN call' \in [marker : Markers, text : Texts, next : Awaits]
         ELSE call' = NoCall
      /\ Counted' /\ failures' \in 0 .. FAILURES
      /\ read' \in [worker : Reads, poller : Reads]
      /\ read'.worker = NoRead /\ read'.poller = read.poller
      /\ UNCHANGED <<clarification_round, planning_attempts, latest_spec_rev,
                     refused, pending, safe>>
    BY <1>1, AttemptEndsType
<1>3. /\ comments' \in Seq(Comment) /\ Len(comments') = Len(comments) + 1
      /\ DOMAIN comments \subseteq DOMAIN comments'
      /\ \A i \in DOMAIN comments : comments'[i] = comments[i]
    BY <1>1, CommentAdded
<1>4. CommentsTypeOK'
    <2>1. read.poller.at <= Len(comments') /\ NoRead.at <= Len(comments')
        <3>1. read.poller.at \in Nat /\ Len(comments) \in Nat
            BY <1>1 DEF CommentsTypeOK, Reads
        <3> QED BY <1>1, <1>3, <3>1, NoReadType DEF CommentsTypeOK
    <2> QED BY <1>1, <1>2, <1>3, <2>1 DEF CommentsTypeOK
<1>5. WorkerKnows' /\ PollerKnows'
    BY <1>2, NoReadType DEF CommentsInv, WorkerKnows, PollerKnows
<1>6. SafeIsRead'
    <2> SUFFICES ASSUME NEW s \in safe
                 PROVE  /\ s[1] \in DOMAIN comments' /\ s[2] \in comments'[s[1]].tail
                        /\ NoRead.at # s[1]
                        /\ read.poller.at = s[1] => s[2] \in read.poller.tail
        BY <1>2 DEF SafeIsRead
    <2>1. /\ s[1] \in DOMAIN comments /\ s[2] \in comments[s[1]].tail
          /\ read.poller.at = s[1] => s[2] \in read.poller.tail
        BY DEF CommentsInv, SafeIsRead
    <2>2. 0 \notin DOMAIN comments
        BY <1>1 DEF CommentsTypeOK
    <2> QED BY <1>3, <2>1, <2>2, NoReadType
<1> QED BY <1>2, <1>4, <1>5, <1>6

LEMMA CreateHolds == CommentsInv /\ CreateComment => CommentsInv'
<1> SUFFICES ASSUME CommentsInv, CreateComment PROVE CommentsInv'
    OBVIOUS
<1>1. /\ CommentsTypeOK /\ pc = "write" /\ call.marker \in PhaseMarkers
      /\ call \in [marker : Markers, text : Texts, next : Awaits]
      /\ AttemptEnds
      /\ comments' = Append(comments,
             [marker |-> call.marker, text |-> call.text, tail |-> {}])
      /\ kept' = [kept EXCEPT ![call.marker] = call.text]
    BY DEF CommentsInv, CommentsTypeOK, CreateComment, Writes
<1>2. /\ kept' \in [PhaseMarkers -> Texts \cup {"none"}]
      /\ kept'[call.marker] = call.text
      /\ \A m \in PhaseMarkers : m # call.marker => kept'[m] = kept[m]
    BY <1>1 DEF CommentsTypeOK
<1>3. CommentsTypeOK' /\ Counted' /\ WorkerKnows' /\ PollerKnows' /\ SafeIsRead'
    BY <1>1, <1>2, AddedHolds
<1>4. \A i \in DOMAIN comments : comments[i].marker # call.marker
    BY DEF CommentsInv, WorkerKnows, CreateComment
<1>5. /\ DOMAIN comments' = DOMAIN comments \cup {Len(comments) + 1}
      /\ \A i \in DOMAIN comments : comments'[i] = comments[i]
      /\ comments'[Len(comments) + 1].marker = call.marker
      /\ comments'[Len(comments) + 1].text = call.text
    BY <1>1, CommentAdded
<1>6. OneCommentPerPhase'
    BY <1>4, <1>5 DEF CommentsInv, OneCommentPerPhase
<1>7. PhaseIsShown'
    BY <1>2, <1>4, <1>5 DEF CommentsInv, PhaseIsShown
<1> QED BY <1>3, <1>6, <1>7 DEF CommentsInv

LEMMA PostHolds == CommentsInv /\ PostQuestion => CommentsInv'
<1> SUFFICES ASSUME CommentsInv, PostQuestion PROVE CommentsInv'
    OBVIOUS
<1>1. /\ CommentsTypeOK /\ pc = "write" /\ call.marker \notin PhaseMarkers
      /\ call \in [marker : Markers, text : Texts, next : Awaits]
      /\ AttemptEnds
      /\ comments' = Append(comments,
             [marker |-> call.marker, text |-> call.text, tail |-> {}])
      /\ kept' = kept
    BY DEF CommentsInv, CommentsTypeOK, PostQuestion, Writes
<1>2. CommentsTypeOK' /\ Counted' /\ WorkerKnows' /\ PollerKnows' /\ SafeIsRead'
    BY <1>1, AddedHolds DEF CommentsTypeOK
<1>3. /\ DOMAIN comments' = DOMAIN comments \cup {Len(comments) + 1}
      /\ \A i \in DOMAIN comments : comments'[i] = comments[i]
      /\ comments'[Len(comments) + 1].marker = call.marker
    BY <1>1, CommentAdded
<1>4. OneCommentPerPhase' /\ PhaseIsShown'
    BY <1>1, <1>3 DEF CommentsInv, OneCommentPerPhase, PhaseIsShown
<1> QED BY <1>2, <1>4 DEF CommentsInv

(* An edit in place of one comment leaves its marker and the others.       *)
Edited(cs, i, text, tail) == [cs EXCEPT ![i] = [@ EXCEPT !.text = text, !.tail = tail]]

LEMMA CommentEdited ==
    ASSUME NEW cs \in Seq(Comment), NEW i \in DOMAIN cs, NEW text \in Texts,
           NEW tail \in SUBSET (Remarks \cup Notices)
    PROVE  /\ Edited(cs, i, text, tail) \in Seq(Comment)
           /\ Len(Edited(cs, i, text, tail)) = Len(cs)
           /\ DOMAIN Edited(cs, i, text, tail) = DOMAIN cs
           /\ \A j \in DOMAIN cs : Edited(cs, i, text, tail)[j].marker = cs[j].marker
           /\ \A j \in DOMAIN cs : j # i => Edited(cs, i, text, tail)[j] = cs[j]
           /\ Edited(cs, i, text, tail)[i].text = text
           /\ Edited(cs, i, text, tail)[i].tail = tail
<1> DEFINE c == [cs[i] EXCEPT !.text = text, !.tail = tail]
           new == [cs EXCEPT ![i] = c]
<1>1. cs[i] \in Comment
    OBVIOUS
<1>2. c \in Comment /\ c.marker = cs[i].marker /\ c.text = text /\ c.tail = tail
    BY <1>1 DEF Comment
<1>3. Edited(cs, i, text, tail) = new
    BY DEF Edited
<1> HIDE DEF c
<1>4. /\ new \in Seq(Comment) /\ Len(new) = Len(cs) /\ DOMAIN new = DOMAIN cs
      /\ \A j \in DOMAIN cs : j # i => new[j] = cs[j]
      /\ new[i] = c
    BY <1>2
<1> HIDE DEF new
<1> QED BY <1>2, <1>3, <1>4

LEMMA PatchHolds == CommentsInv /\ PatchComment => CommentsInv'
<1> SUFFICES ASSUME CommentsInv, PatchComment PROVE CommentsInv'
    OBVIOUS
<1> DEFINE at == read.worker.at
<1>1. /\ CommentsTypeOK /\ Counted /\ pc = "write" /\ call.marker \in PhaseMarkers
      /\ call \in [marker : Markers, text : Texts, next : Awaits]
      /\ AttemptEnds /\ at \in DOMAIN comments /\ comments[at].marker = call.marker
      /\ read.worker.tail \in SUBSET (Remarks \cup Notices)
      /\ comments' = [comments EXCEPT ![at] =
             [@ EXCEPT !.text = call.text, !.tail = read.worker.tail]]
      /\ kept' = [kept EXCEPT ![call.marker] = call.text]
    <2>1. read.worker \in Reads /\ read.worker.at # 0 /\ CommentsTypeOK
        BY DEF CommentsInv, CommentsTypeOK, PatchComment
    <2>2. at \in DOMAIN comments
        BY <2>1 DEF Reads, CommentsTypeOK
    <2> QED BY <2>1, <2>2 DEF CommentsInv, CommentsTypeOK, PatchComment, Writes, WorkerKnows,
            Rendered, ManualTail, Reads
<1>2. /\ pc' \in Awaits \cup {"write"}
      /\ IF pc' = "write"
         THEN call' \in [marker : Markers, text : Texts, next : Awaits]
         ELSE call' = NoCall
      /\ Counted' /\ failures' \in 0 .. FAILURES
      /\ read' \in [worker : Reads, poller : Reads]
      /\ read'.worker = NoRead /\ read'.poller = read.poller
      /\ UNCHANGED <<clarification_round, planning_attempts, latest_spec_rev,
                     refused, pending, safe>>
    BY <1>1, AttemptEndsType
<1>3. /\ comments' \in Seq(Comment) /\ Len(comments') = Len(comments)
      /\ DOMAIN comments' = DOMAIN comments
      /\ \A j \in DOMAIN comments : comments'[j].marker = comments[j].marker
      /\ \A j \in DOMAIN comments : j # at => comments'[j] = comments[j]
      /\ comments'[at].text = call.text /\ comments'[at].tail = read.worker.tail
    <2>1. /\ comments \in Seq(Comment) /\ call.text \in Texts
          /\ at \in DOMAIN comments /\ read.worker.tail \in SUBSET (Remarks \cup Notices)
          /\ comments' = Edited(comments, at, call.text, read.worker.tail)
        BY <1>1 DEF Edited, CommentsTypeOK
    <2> HIDE DEF at
    <2> QED BY <2>1, CommentEdited
<1>4. /\ kept' \in [PhaseMarkers -> Texts \cup {"none"}]
      /\ kept'[call.marker] = call.text
      /\ \A m \in PhaseMarkers : m # call.marker => kept'[m] = kept[m]
    BY <1>1 DEF CommentsTypeOK
<1>5. CommentsTypeOK'
    <2>1. NoRead.at <= Len(comments')
        BY <1>3, NoReadType DEF CommentsTypeOK
    <2> QED BY <1>1, <1>2, <1>3, <1>4, <2>1 DEF CommentsTypeOK
<1>6. WorkerKnows' /\ PollerKnows'
    BY <1>2, NoReadType DEF CommentsInv, WorkerKnows, PollerKnows
<1>7. OneCommentPerPhase'
    BY <1>3 DEF CommentsInv, OneCommentPerPhase
<1>8. PhaseIsShown'
    <2> SUFFICES ASSUME NEW i \in DOMAIN comments, comments[i].marker \in PhaseMarkers
                 PROVE  \/ comments'[i].text = kept'[comments[i].marker]
                        \/ comments'[i].tail \cap Notices # {}
        BY <1>3 DEF PhaseIsShown
    <2>1. CASE i = at
        BY <1>1, <1>3, <1>4, <2>1
    <2>2. CASE i # at
        <3>1. comments[i].marker # call.marker
            BY <1>1, <2>2 DEF CommentsInv, OneCommentPerPhase
        <3> QED BY <1>3, <1>4, <2>2, <3>1 DEF CommentsInv, PhaseIsShown
    <2> QED BY <2>1, <2>2
<1>9. SafeIsRead'
    <2> SUFFICES ASSUME NEW s \in safe
                 PROVE  /\ s[1] \in DOMAIN comments' /\ s[2] \in comments'[s[1]].tail
                        /\ NoRead.at # s[1]
                        /\ read.poller.at = s[1] => s[2] \in read.poller.tail
        BY <1>2 DEF SafeIsRead
    <2>1. /\ s[1] \in DOMAIN comments /\ s[2] \in comments[s[1]].tail
          /\ at = s[1] => s[2] \in read.worker.tail
          /\ read.poller.at = s[1] => s[2] \in read.poller.tail
        BY DEF CommentsInv, SafeIsRead
    <2>2. 0 \notin DOMAIN comments
        BY <1>1 DEF CommentsTypeOK
    <2> QED BY <1>3, <2>1, <2>2, NoReadType
<1> QED BY <1>2, <1>5, <1>6, <1>7, <1>8, <1>9 DEF CommentsInv

LEMMA FailsHolds == CommentsInv /\ AttemptFails => CommentsInv'
<1> SUFFICES ASSUME CommentsInv, AttemptFails PROVE CommentsInv'
    OBVIOUS
<1>1. CommentsTypeOK /\ failures' \in 0 .. FAILURES
    BY CommentsAssumption DEF CommentsInv, CommentsTypeOK, AttemptFails
<1>2. /\ read' \in [worker : Reads, poller : Reads]
      /\ read'.worker = NoRead /\ read'.poller = read.poller
    BY <1>1, ReadWorker, NoReadType DEF AttemptFails
<1>3. UNCHANGED <<pc, call, clarification_round, planning_attempts, latest_spec_rev,
                  comments, refused, pending, kept, safe>>
    BY DEF AttemptFails, runVars, counters, historyVars
<1>4. CommentsTypeOK'
    <2>1. NoRead.at <= Len(comments)
        BY <1>1, NoReadType DEF CommentsTypeOK
    <2> QED BY <1>1, <1>2, <1>3, <2>1 DEF CommentsTypeOK
<1>5. Counted' /\ OneCommentPerPhase' /\ PhaseIsShown'
    BY <1>3 DEF CommentsInv, Counted, Nears, OneCommentPerPhase, PhaseIsShown
<1>6. WorkerKnows' /\ PollerKnows'
    BY <1>2, <1>3, NoReadType DEF CommentsInv, WorkerKnows, PollerKnows
<1>7. SafeIsRead'
    <2>1. 0 \notin DOMAIN comments
        BY <1>1 DEF CommentsTypeOK
    <2> QED BY <1>2, <1>3, <2>1, NoReadType DEF CommentsInv, SafeIsRead
<1> QED BY <1>4, <1>5, <1>6, <1>7 DEF CommentsInv

LEMMA CommandHolds ==
    ASSUME CommentsInv, NEW notice \in Notices, Command(notice)
    PROVE  CommentsInv'
<1>1. UNCHANGED <<pc, call, clarification_round, planning_attempts, latest_spec_rev,
                  comments, read, pending, failures, kept, safe>>
    BY DEF Command, runVars, counters, historyVars
<1>2. refused' \in Seq(Notices)
    BY DEF CommentsInv, CommentsTypeOK, Command
<1>3. CommentsTypeOK'
    BY <1>1, <1>2 DEF CommentsInv, CommentsTypeOK
<1>4. Counted' /\ WorkerKnows' /\ PollerKnows'
    BY <1>1 DEF CommentsInv, Counted, Nears, WorkerKnows, Writes, PollerKnows
<1>5. OneCommentPerPhase' /\ PhaseIsShown' /\ SafeIsRead'
    BY <1>1 DEF CommentsInv, OneCommentPerPhase, PhaseIsShown, SafeIsRead
<1> QED BY <1>3, <1>4, <1>5 DEF CommentsInv

(* What is read of a comment just listed is what is in it.                 *)
LEMMA PollerReadsHolds == CommentsInv /\ PollerReads => CommentsInv'
<1> SUFFICES ASSUME CommentsInv, PollerReads PROVE CommentsInv'
    OBVIOUS
<1>1. UNCHANGED <<pc, call, clarification_round, planning_attempts, latest_spec_rev,
                  comments, refused, failures, kept, safe>>
    BY DEF PollerReads, runVars, counters, historyVars
<1>2. CommentsTypeOK
    BY DEF CommentsInv
<1>3. PICK i \in DOMAIN comments : read' = [read EXCEPT !.poller = Copy(i)]
    <2>1. PICK rev : /\ Lookup(Design(rev)) # NotFound
                     /\ read' = [read EXCEPT !.poller = Lookup(Design(rev))]
        BY DEF PollerReads
    <2>2. \E i \in DOMAIN comments : Lookup(Design(rev)) = Copy(i)
        BY <1>2, <2>1, LookupFinds
    <2> QED BY <2>1, <2>2
<1>4. /\ Copy(i) \in Reads /\ Copy(i).held /\ Copy(i).at = i /\ i \in 1 .. Len(comments)
      /\ i # 0 /\ Copy(i).tail = comments[i].tail /\ Copy(i).text \in Texts
    BY <1>2, CopyType
<1>5. /\ read' \in [worker : Reads, poller : Reads]
      /\ read'.poller = Copy(i) /\ read'.worker = read.worker
    BY <1>2, <1>3, <1>4, ReadPoller
<1>6. pending' \in Seq(Notices) /\ pending' # <<>>
    <2>1. PICK from \in DOMAIN refused : pending' = SubSeq(refused, from, Len(refused))
        BY DEF PollerReads
    <2>2. refused \in Seq(Notices) /\ from \in 1 .. Len(refused)
        BY <1>2 DEF CommentsTypeOK
    <2>3. SubSeq(refused, from, Len(refused)) \in Seq(Notices)
        BY <2>2
    <2>4. Len(SubSeq(refused, from, Len(refused))) # 0
        BY <2>2
    <2> QED BY <2>1, <2>3, <2>4
<1>7. CommentsTypeOK'
    <2>1. Copy(i).at <= Len(comments)
        BY <1>4
    <2> QED BY <1>1, <1>2, <1>5, <1>6, <2>1 DEF CommentsTypeOK
<1>8. Counted' /\ OneCommentPerPhase' /\ PhaseIsShown' /\ WorkerKnows'
    BY <1>1, <1>5 DEF CommentsInv, Counted, Nears, OneCommentPerPhase, PhaseIsShown,
        WorkerKnows, Writes
<1>9. PollerKnows'
    BY <1>4, <1>5, <1>6 DEF PollerKnows
<1>10. SafeIsRead'
    BY <1>1, <1>4, <1>5 DEF CommentsInv, SafeIsRead
<1> QED BY <1>7, <1>8, <1>9, <1>10 DEF CommentsInv

(* The poller writes an older text, but its note as well.                  *)
LEMMA AppendHolds == CommentsInv /\ AppendNotice => CommentsInv'
<1> SUFFICES ASSUME CommentsInv, AppendNotice PROVE CommentsInv'
    OBVIOUS
<1> DEFINE at == read.poller.at
           notice == Head(pending)
           written == read.poller.tail \cup {notice}
<1>1. UNCHANGED <<pc, call, clarification_round, planning_attempts, latest_spec_rev,
                  refused, failures, kept>>
    BY DEF AppendNotice, runVars, counters
<1>2. CommentsTypeOK /\ read.poller.held /\ pending # <<>> /\ pending \in Seq(Notices)
    BY DEF CommentsInv, CommentsTypeOK, AppendNotice, PollerKnows
<1>3. /\ read.poller \in Reads /\ at \in DOMAIN comments
      /\ comments[at] \in Comment /\ notice \in Notices /\ Len(pending) \in Nat \ {0}
    <2>1. read.poller \in Reads /\ at # 0 /\ at <= Len(comments)
        BY <1>2 DEF CommentsInv, CommentsTypeOK, PollerKnows
    <2>2. at \in DOMAIN comments
        BY <1>2, <2>1 DEF Reads, CommentsTypeOK
    <2> QED BY <1>2, <2>1, <2>2 DEF CommentsTypeOK
<1>left. Len(pending) \in Nat /\ Len(pending) >= 1
    BY <1>2
<1>4. pending' = Tail(pending) /\ pending' \in Seq(Notices)
    BY <1>2 DEF AppendNotice
<1>5. /\ read' \in [worker : Reads, poller : Reads] /\ read'.worker = read.worker
      /\ \/ Len(pending) = 1 /\ read'.poller = NoRead
         \/ Len(pending) > 1 /\ read'.poller = read.poller /\ pending' # <<>>
    <2>1. CASE Len(pending) = 1
        <3>1. read' = [read EXCEPT !.poller = NoRead]
            BY <2>1 DEF AppendNotice
        <3> QED BY <1>2, <2>1, <3>1, NoReadType, ReadPoller
    <2>2. CASE Len(pending) # 1
        <3>1. read' = read
            BY <2>2 DEF AppendNotice
        <3>2. Len(pending') # 0
            BY <1>2, <1>3, <1>4, <2>2
        <3>3. pending' # <<>>
            BY <3>2
        <3>4. Len(pending) > 1
            BY <1>left, <2>2
        <3>5. read \in [worker : Reads, poller : Reads]
            BY <1>2 DEF CommentsTypeOK
        <3> QED BY <3>1, <3>3, <3>4, <3>5
    <2> QED BY <2>1, <2>2
<1>6. WorkerKnows /\ PollerKnows /\ SafeIsRead /\ OneCommentPerPhase /\ PhaseIsShown /\ Counted
    BY DEF CommentsInv
<1>7. /\ comments' \in Seq(Comment) /\ Len(comments') = Len(comments)
      /\ DOMAIN comments' = DOMAIN comments
      /\ \A j \in DOMAIN comments : comments'[j].marker = comments[j].marker
      /\ \A j \in DOMAIN comments : j # at => comments'[j] = comments[j]
      /\ \/ comments' = comments /\ safe' = safe
         \/ /\ comments'[at].tail = written
            /\ \/ safe' = safe
               \/ /\ Len(pending) = 1 /\ read.worker.at # at
                  /\ safe' = safe \cup {<<at, notice>>}
    <2>1. CASE notice \in read.poller.tail
        BY <1>2, <2>1 DEF AppendNotice, CommentsTypeOK
    <2>2. CASE notice \notin read.poller.tail
        <3>1. /\ comments \in Seq(Comment) /\ at \in DOMAIN comments
              /\ read.poller.text \in Texts /\ written \in SUBSET (Remarks \cup Notices)
            BY <1>2, <1>3, <1>6 DEF PollerKnows, CommentsTypeOK, Reads
        <3>2. comments' = Edited(comments, at, read.poller.text, written)
            BY <2>2 DEF AppendNotice, Edited
        <3>3. /\ comments' \in Seq(Comment) /\ Len(comments') = Len(comments)
              /\ DOMAIN comments' = DOMAIN comments
              /\ \A j \in DOMAIN comments : comments'[j].marker = comments[j].marker
              /\ \A j \in DOMAIN comments : j # at => comments'[j] = comments[j]
              /\ comments'[at].tail = written
            <4> HIDE DEF at, written
            <4> QED BY <3>1, <3>2, CommentEdited
        <3>4. \/ safe' = safe
              \/ /\ Len(pending) = 1 /\ read.worker.at # at
                 /\ safe' = safe \cup {<<at, notice>>}
            <4>1. safe' = IF Len(pending) > 1 \/ read.worker.at = at
                          THEN safe ELSE safe \cup {<<at, notice>>}
                BY <2>2 DEF AppendNotice
            <4> HIDE DEF at, notice
            <4> QED BY <1>left, <4>1
        <3> QED BY <3>3, <3>4
    <2> QED BY <2>1, <2>2
<1>8. CommentsTypeOK'
    <2>1. safe' \subseteq Nat \X (Remarks \cup Notices)
        <3>1. at \in Nat /\ notice \in Remarks \cup Notices
            BY <1>3 DEF Reads
        <3> HIDE DEF at, notice
        <3> QED BY <1>2, <1>7, <3>1 DEF CommentsTypeOK
    <2>2. read'.worker.at <= Len(comments') /\ read'.poller.at <= Len(comments')
        BY <1>2, <1>5, <1>7, NoReadType DEF CommentsTypeOK
    <2> QED BY <1>1, <1>2, <1>4, <1>5, <1>7, <2>1, <2>2 DEF CommentsTypeOK
<1>9. Counted' /\ OneCommentPerPhase'
    BY <1>1, <1>6, <1>7 DEF Counted, Nears, OneCommentPerPhase
<1>10. WorkerKnows'
    <2>1. read.worker.at # 0 => read.worker.at \in DOMAIN comments
        BY <1>2 DEF CommentsTypeOK, Reads
    <2> QED BY <1>1, <1>5, <1>6, <1>7, <2>1 DEF WorkerKnows, Writes
<1>11. PollerKnows'
    BY <1>2, <1>5, <1>6, NoReadType DEF PollerKnows
<1>12. PhaseIsShown'
    <2> SUFFICES ASSUME NEW i \in DOMAIN comments, comments[i].marker \in PhaseMarkers
                 PROVE  \/ comments'[i].text = kept[comments[i].marker]
                        \/ comments'[i].tail \cap Notices # {}
        BY <1>1, <1>7 DEF PhaseIsShown
    <2>1. CASE comments'[i] = comments[i]
        BY <1>6, <2>1 DEF PhaseIsShown
    <2>2. CASE comments'[i].tail = written
        BY <1>3, <2>2
    <2> QED BY <1>7, <2>1, <2>2
<1>13. SafeIsRead'
    <2> SUFFICES ASSUME NEW s \in safe'
                 PROVE  /\ s[1] \in DOMAIN comments' /\ s[2] \in comments'[s[1]].tail
                        /\ read'.worker.at = s[1] => s[2] \in read'.worker.tail
                        /\ read'.poller.at = s[1] => s[2] \in read'.poller.tail
        BY DEF SafeIsRead
    <2>1. at # 0 /\ 0 \notin DOMAIN comments
        BY <1>2, <1>3 DEF CommentsTypeOK
    <2>2. CASE s \in safe
        <3>1. /\ s[1] \in DOMAIN comments /\ s[2] \in comments[s[1]].tail
              /\ read.worker.at = s[1] => s[2] \in read.worker.tail
              /\ read.poller.at = s[1] => s[2] \in read.poller.tail
            BY <1>6, <2>2 DEF SafeIsRead
        <3>2. s[2] \in comments'[s[1]].tail
            <4>1. CASE s[1] = at /\ comments'[at].tail = written
                BY <3>1, <4>1
            <4>2. CASE comments'[s[1]] = comments[s[1]]
                BY <3>1, <4>2
            <4> QED BY <1>7, <3>1, <4>1, <4>2
        <3>3. NoRead.at # s[1]
            BY <2>1, <3>1, NoReadType
        <3> HIDE DEF at, written, notice
        <3> QED BY <1>5, <1>7, <3>1, <3>2, <3>3
    <2>3. CASE s \notin safe
        <3>1. /\ s = <<at, notice>> /\ comments'[at].tail = written
              /\ Len(pending) = 1 /\ read.worker.at # at
            BY <1>7, <2>3
        <3>2. read'.poller = NoRead
            BY <1>5, <3>1
        <3>3. s[1] = at /\ s[2] = notice
            BY <3>1
        <3> QED BY <1>3, <1>5, <1>7, <2>1, <3>1, <3>2, <3>3, NoReadType
    <2> QED BY <2>2, <2>3
<1> QED BY <1>8, <1>9, <1>10, <1>11, <1>12, <1>13 DEF CommentsInv

LEMMA PollerEndsHolds == CommentsInv /\ PollerEnds => CommentsInv'
<1> SUFFICES ASSUME CommentsInv, PollerEnds PROVE CommentsInv'
    OBVIOUS
<1>1. /\ UNCHANGED <<pc, call, clarification_round, planning_attempts, latest_spec_rev,
                     comments, refused, failures, kept, safe>>
      /\ pending' = <<>> /\ CommentsTypeOK
    BY DEF CommentsInv, PollerEnds, runVars, counters, historyVars
<1>2. /\ read' \in [worker : Reads, poller : Reads]
      /\ read'.poller = NoRead /\ read'.worker = read.worker
    BY <1>1, ReadPoller, NoReadType DEF PollerEnds
<1>3. CommentsTypeOK'
    <2>1. NoRead.at <= Len(comments) /\ pending' \in Seq(Notices)
        BY <1>1, NoReadType DEF CommentsTypeOK
    <2> QED BY <1>1, <1>2, <2>1 DEF CommentsTypeOK
<1>4. Counted' /\ WorkerKnows' /\ OneCommentPerPhase' /\ PhaseIsShown'
    BY <1>1, <1>2 DEF CommentsInv, Counted, Nears, WorkerKnows, Writes,
        OneCommentPerPhase, PhaseIsShown
<1>5. PollerKnows'
    BY <1>2, NoReadType DEF PollerKnows
<1>6. SafeIsRead'
    <2>1. 0 \notin DOMAIN comments
        BY <1>1 DEF CommentsTypeOK
    <2> QED BY <1>1, <1>2, <2>1, NoReadType DEF CommentsInv, SafeIsRead
<1> QED BY <1>3, <1>4, <1>5, <1>6 DEF CommentsInv

(* A remark is safe where nobody holds an older copy.                      *)
LEMMA RemarkHolds ==
    ASSUME CommentsInv, NEW remark \in Remarks, NEW i \in DOMAIN comments, Remark(remark, i)
    PROVE  CommentsInv'
<1>1. /\ UNCHANGED <<pc, call, clarification_round, planning_attempts, latest_spec_rev,
                     read, refused, pending, failures, kept>>
      /\ safe' = IF i \in {read.worker.at, read.poller.at}
                 THEN safe ELSE safe \cup {<<i, remark>>}
    BY DEF Remark, runVars, counters
<1>2. /\ CommentsTypeOK /\ Counted /\ WorkerKnows /\ PollerKnows
      /\ OneCommentPerPhase /\ PhaseIsShown /\ SafeIsRead
    BY DEF CommentsInv
<1> DEFINE tail == comments[i].tail \cup {remark}
<1>3. /\ comments' \in Seq(Comment) /\ Len(comments') = Len(comments)
      /\ DOMAIN comments' = DOMAIN comments
      /\ \A j \in DOMAIN comments : comments'[j].marker = comments[j].marker
      /\ \A j \in DOMAIN comments : j # i => comments'[j] = comments[j]
      /\ comments'[i].text = comments[i].text /\ comments'[i].tail = tail
    <2>1. comments \in Seq(Comment) /\ comments[i] \in Comment
        BY <1>2 DEF CommentsTypeOK
    <2>2. comments[i].text \in Texts /\ tail \in SUBSET (Remarks \cup Notices)
        BY <2>1 DEF Comment
    <2>3. comments' = Edited(comments, i, comments[i].text, tail)
        <3>1. comments' = [comments EXCEPT ![i] = [@ EXCEPT !.tail = tail]]
            BY DEF Remark
        <3>2. [comments[i] EXCEPT !.tail = tail]
                  = [comments[i] EXCEPT !.text = comments[i].text, !.tail = tail]
            BY <2>1 DEF Comment
        <3> QED BY <3>1, <3>2 DEF Edited
    <2> HIDE DEF tail
    <2> QED BY <2>1, <2>2, <2>3, CommentEdited
<1>4. CommentsTypeOK'
    <2>1. safe' \subseteq Nat \X (Remarks \cup Notices)
        BY <1>1, <1>2 DEF CommentsTypeOK
    <2> QED BY <1>1, <1>2, <1>3, <2>1 DEF CommentsTypeOK
<1>5. Counted' /\ OneCommentPerPhase' /\ PollerKnows'
    BY <1>1, <1>2, <1>3 DEF Counted, Nears, OneCommentPerPhase, PollerKnows
<1>6. WorkerKnows'
    <2>1. read.worker.at # 0 => read.worker.at \in DOMAIN comments
        BY <1>2 DEF CommentsTypeOK, Reads
    <2> QED BY <1>1, <1>2, <1>3, <2>1 DEF WorkerKnows, Writes
<1>7. PhaseIsShown'
    <2> SUFFICES ASSUME NEW j \in DOMAIN comments, comments[j].marker \in PhaseMarkers
                 PROVE  \/ comments'[j].text = kept[comments[j].marker]
                        \/ comments'[j].tail \cap Notices # {}
        BY <1>1, <1>3 DEF PhaseIsShown
    <2>1. CASE j # i
        BY <1>2, <1>3, <2>1 DEF PhaseIsShown
    <2>2. CASE j = i
        BY <1>2, <1>3, <2>2 DEF PhaseIsShown
    <2> QED BY <2>1, <2>2
<1>8. SafeIsRead'
    <2> SUFFICES ASSUME NEW s \in safe'
                 PROVE  /\ s[1] \in DOMAIN comments /\ s[2] \in comments'[s[1]].tail
                        /\ read.worker.at = s[1] => s[2] \in read.worker.tail
                        /\ read.poller.at = s[1] => s[2] \in read.poller.tail
        BY <1>1, <1>3 DEF SafeIsRead
    <2>1. CASE s \in safe
        <3>1. s[1] \in DOMAIN comments /\ s[2] \in comments[s[1]].tail
            BY <1>2, <2>1 DEF SafeIsRead
        <3>2. s[2] \in comments'[s[1]].tail
            <4>1. CASE s[1] = i
                BY <1>3, <3>1, <4>1
            <4>2. CASE s[1] # i
                BY <1>3, <3>1, <4>2
            <4> QED BY <4>1, <4>2
        <3> QED BY <1>2, <2>1, <3>1, <3>2 DEF SafeIsRead
    <2>2. CASE s \notin safe
        <3>1. s = <<i, remark>> /\ i \notin {read.worker.at, read.poller.at}
            BY <1>1, <2>2
        <3> QED BY <1>3, <3>1
    <2> QED BY <2>1, <2>2
<1> QED BY <1>2, <1>4, <1>5, <1>6, <1>7, <1>8 DEF CommentsInv

LEMMA StutterHolds == CommentsInv /\ UNCHANGED vars => CommentsInv'
<1> SUFFICES ASSUME CommentsInv, UNCHANGED vars PROVE CommentsInv'
    OBVIOUS
<1>1. UNCHANGED <<pc, call, clarification_round, planning_attempts, latest_spec_rev,
                  comments, read, refused, pending, failures, kept, safe>>
    BY DEF vars, runVars, counters, issueVars, historyVars
<1> QED BY <1>1 DEF CommentsInv, CommentsTypeOK, Counted, Nears, WorkerKnows, Writes,
        PollerKnows, OneCommentPerPhase, PhaseIsShown, SafeIsRead

LEMMA StepHolds == CommentsInv /\ [Next]_vars => CommentsInv'
BY RunStepsHold, ListHolds, CreateHolds, PatchHolds, PostHolds, FailsHolds, CommandHolds,
   PollerReadsHolds, AppendHolds, PollerEndsHolds, RemarkHolds, StutterHolds DEF Next

-----------------------------------------------------------------------------
(* The theorems.                                                           *)

(* The invariant holds for ever: what every writer holds is of the comment *)
(* it is about to write.                                                   *)
THEOREM CommentsInvHolds == Spec => []CommentsInv
<1>1. Init => CommentsInv
    BY InitHolds
<1>2. CommentsInv /\ [Next]_vars => CommentsInv'
    BY StepHolds
<1> QED BY <1>1, <1>2, PTL DEF Spec

(* The state keeps to the values the code can give it: a run asks one      *)
(* question more than its rounds at most, and for no revision beyond the   *)
(* bound.                                                                  *)
THEOREM CommentsTypeHolds == Spec => []CommentsTypeOK
<1>1. CommentsInv => CommentsTypeOK
    BY DEF CommentsInv
<1> QED BY <1>1, CommentsInvHolds, PTL

(* upsert_phase_comment never leaves a phase, or a revision of the design, *)
(* with two comments, however often it is repeated.                        *)
THEOREM OneCommentPerPhaseHolds == Spec => []OneCommentPerPhase
<1>1. CommentsInv => OneCommentPerPhase
    BY DEF CommentsInv
<1> QED BY <1>1, CommentsInvHolds, PTL

(* A phase comment shows what the run last gave it, or has a note of the   *)
(* poller at its end.                                                      *)
THEOREM PhaseIsShownHolds == Spec => []PhaseIsShown
<1>1. CommentsInv => PhaseIsShown
    BY DEF CommentsInv
<1> QED BY <1>1, CommentsInvHolds, PTL

(* A remark or a note made while nobody held the comment is never lost.    *)
THEOREM SafeRemarksStayHolds == Spec => []SafeRemarksStay
<1>1. CommentsInv => SafeRemarksStay
    BY DEF CommentsInv, SafeIsRead, SafeRemarksStay
<1> QED BY <1>1, CommentsInvHolds, PTL

-----------------------------------------------------------------------------
(* The questions.  Nothing looks whether a question is on the issue before *)
(* it is posted: that it is there once more than attempts failed, at most, *)
(* is because the run awaits the post of a question once.                  *)

Asked(n) == {i \in DOMAIN comments : comments[i].marker = Question(n)}
Asking(n) == pc = "write" /\ call.marker = Question(n)

(* The run may yet come to ask it: of later rounds, the next one's also if *)
(* it gives up, and this round's between its start and the post.           *)
ToAsk(n) ==
    \/ n > clarification_round + 1
    \/ n = clarification_round + 1 /\ pc # "over" /\ ~Asking(n)
    \/ n = clarification_round /\ Nears("ask")

Posts(n) == IF ToAsk(n) THEN 0 ELSE IF Asking(n) THEN failures ELSE 1 + failures

(* What is written before the run waits for a reply, or gives up.          *)
QuestionNext ==
    pc = "write" =>
        \/ call.marker \in PhaseMarkers /\ call.next # "clarification"
        \/ /\ call.marker = Question(clarification_round)
           /\ call.next = "clarification"
        \/ call.marker = Question(clarification_round + 1) /\ call.next = "over"

AwaitsAnAnswer == pc = "clarification" => Asked(clarification_round) # {}

Rounds == 1 .. MAX_CLARIFICATION_ROUNDS + 1

PostsCounted == \A n \in Rounds : Cardinality(Asked(n)) <= Posts(n)

QuestionInv == QuestionNext /\ AwaitsAnAnswer /\ PostsCounted

LEMMA AskedCounts ==
    ASSUME CommentsTypeOK, NEW n
    PROVE  IsFiniteSet(Asked(n)) /\ Cardinality(Asked(n)) \in Nat
<1>1. DOMAIN comments = 1 .. Len(comments) /\ Len(comments) \in Nat
    BY DEF CommentsTypeOK
<1>2. IsFiniteSet(DOMAIN comments)
    BY <1>1, FS_Interval
<1>3. IsFiniteSet(Asked(n))
    BY <1>2, FS_Subset DEF Asked
<1> QED BY <1>3, FS_CardinalityType

(* Two questions differ by their rounds, and a phase is none.              *)
LEMMA QuestionsDiffer ==
    /\ \A m, n : Question(m) = Question(n) => m = n
    /\ \A n : Question(n) \notin PhaseMarkers
BY QuestionsAreNoPhase DEF Question

(* Only the post of a question changes which there are.                    *)
LEMMA EditsKeepAsked ==
    ASSUME CommentsTypeOK, NEW i \in DOMAIN comments, NEW text, NEW tail,
           comments' = [comments EXCEPT ![i] = [@ EXCEPT !.text = text, !.tail = tail]]
    PROVE  \A n : Asked(n)' = Asked(n)
<1>1. comments[i] \in Comment
    BY DEF CommentsTypeOK
<1>2. [comments[i] EXCEPT !.text = text, !.tail = tail].marker = comments[i].marker
    BY <1>1 DEF Comment
<1>3. /\ DOMAIN comments' = DOMAIN comments
      /\ \A j \in DOMAIN comments : comments'[j].marker = comments[j].marker
    BY <1>2
<1> QED BY <1>3 DEF Asked

LEMMA OthersKeepAsked ==
    ASSUME CommentsInv, [Next]_vars, ~PostQuestion
    PROVE  \A n : Asked(n)' = Asked(n)
<1>1. CommentsTypeOK
    BY DEF CommentsInv
<1>2. CASE CreateComment
    <2>1. /\ call.marker \in PhaseMarkers /\ pc = "write"
          /\ call \in [marker : Markers, text : Texts, next : Awaits]
        BY <1>1, <1>2 DEF CreateComment, Writes, CommentsTypeOK
    <2>2. /\ DOMAIN comments' = DOMAIN comments \cup {Len(comments) + 1}
          /\ \A i \in DOMAIN comments : comments'[i] = comments[i]
          /\ comments'[Len(comments) + 1].marker = call.marker
        BY <1>1, <1>2, <2>1, CommentAdded DEF CreateComment
    <2> QED BY <2>1, <2>2, QuestionsDiffer DEF Asked
<1>3. CASE PatchComment
    <2>1. read.worker.at \in DOMAIN comments
        BY <1>1, <1>3 DEF CommentsTypeOK, Reads, PatchComment
    <2> QED BY <1>1, <1>3, <2>1, EditsKeepAsked DEF PatchComment
<1>4. CASE AppendNotice
    <2>1. read.poller.at \in DOMAIN comments
        BY <1>1, <1>4 DEF CommentsInv, PollerKnows, CommentsTypeOK, Reads, AppendNotice
    <2>2. CASE UNCHANGED comments
        BY <2>2 DEF Asked
    <2>3. CASE ~UNCHANGED comments
        BY <1>1, <1>4, <2>1, <2>3, EditsKeepAsked DEF AppendNotice
    <2> QED BY <2>2, <2>3
<1>5. CASE \E remark \in Remarks, i \in DOMAIN comments : Remark(remark, i)
    <2>1. PICK remark \in Remarks, i \in DOMAIN comments : Remark(remark, i)
        BY <1>5
    <2>2. comments[i] \in Comment
        BY <1>1 DEF CommentsTypeOK
    <2>3. comments' = [comments EXCEPT ![i] = [@ EXCEPT
              !.text = comments[i].text, !.tail = comments[i].tail \cup {remark}]]
        BY <2>1, <2>2 DEF Remark, Comment
    <2> QED BY <1>1, <2>3, EditsKeepAsked
<1>6. CASE UNCHANGED comments
    BY <1>6 DEF Asked
<1> QED BY <1>2, <1>3, <1>4, <1>5, <1>6 DEF Next, RunSteps, issueVars, ListComments,
           AttemptFails, Command, PollerReads, PollerEnds, vars

(* Attempts that fail only add to the posts there may be.                  *)
LEMMA MoreFailures ==
    ASSUME CommentsTypeOK, QuestionInv, failures' \in Nat, failures <= failures',
           UNCHANGED <<pc, call, clarification_round>>, \A n : Asked(n)' = Asked(n)
    PROVE  QuestionInv'
<1>1. QuestionNext' /\ AwaitsAnAnswer'
    BY DEF QuestionInv, QuestionNext, AwaitsAnAnswer
<1>2. PostsCounted'
    <2> SUFFICES ASSUME NEW n \in Rounds
                 PROVE  Cardinality(Asked(n)) <= Posts(n)'
        BY DEF PostsCounted
    <2>1. Cardinality(Asked(n)) <= Posts(n) /\ Cardinality(Asked(n)) \in Nat
        BY AskedCounts DEF QuestionInv, PostsCounted
    <2>2. failures \in Nat
        BY CommentsAssumption DEF CommentsTypeOK
    <2>3. (ToAsk(n)' <=> ToAsk(n)) /\ (Asking(n)' <=> Asking(n))
        BY DEF ToAsk, Asking, Nears
    <2> QED BY <2>1, <2>2, <2>3 DEF Posts
<1> QED BY <1>1, <1>2 DEF QuestionInv

(* A step of the run that may yet come to ask, or asks, might have before. *)
LEMMA RunAsksInTurn ==
    ASSUME CommentsTypeOK, RunSteps
    PROVE  /\ QuestionNext'
           /\ \A n \in Rounds : (ToAsk(n) \/ Asking(n))' => ToAsk(n)
           /\ pc # "write" /\ pc' # "clarification"
<1> USE CommentsAssumption
<1>0. /\ clarification_round \in Nat /\ latest_spec_rev \in 1 .. REVISIONS
      /\ \A n \in Rounds : n \in Nat
      /\ \A r \in 1 .. REVISIONS : Design(r) \in PhaseMarkers /\ Triage \in PhaseMarkers
      /\ "write" \notin Awaits
    BY QuestionsAreNoPhase DEF CommentsTypeOK, Rounds, Awaits
<1> USE QuestionsDiffer DEF QuestionNext, ToAsk, Asking, Nears, Await, Goes, counters
<1>1. CASE TriageReady
    BY <1>0, <1>1 DEF TriageReady
<1>2. CASE TriageAsks
    BY <1>0, <1>2 DEF TriageAsks
<1>3. CASE TriageAbandons
    BY <1>0, <1>3 DEF TriageAbandons
<1>4. CASE Ask
    BY <1>0, <1>4 DEF Ask
<1>5. CASE HandOver
    BY <1>0, <1>5 DEF HandOver, LastQuestion
<1>6. CASE Replied
    BY <1>0, <1>6 DEF Replied
<1>7. CASE Canceled
    BY <1>0, <1>7 DEF Canceled
<1>8. CASE PlanningAttempt
    BY <1>0, <1>8 DEF PlanningAttempt
<1>9. CASE PlanningFailed
    BY <1>0, <1>9 DEF PlanningFailed
<1>10. CASE DiscoveryRejected
    BY <1>0, <1>10 DEF DiscoveryRejected
<1>11. CASE DiscoveryApproved
    BY <1>0, <1>11 DEF DiscoveryApproved
<1>12. CASE Decided
    BY <1>0, <1>12 DEF Decided
<1>13. CASE GateRevised
    BY <1>0, <1>13 DEF GateRevised
<1>14. CASE NextRevision
    BY <1>0, <1>14 DEF NextRevision
<1>15. CASE GateReplanned
    BY <1>0, <1>15 DEF GateReplanned
<1> QED BY <1>1, <1>2, <1>3, <1>4, <1>5, <1>6, <1>7, <1>8, <1>9, <1>10, <1>11,
           <1>12, <1>13, <1>14, <1>15 DEF RunSteps

LEMMA RunStepsAsk ==
    ASSUME CommentsTypeOK, QuestionInv, RunSteps, \A n : Asked(n)' = Asked(n)
    PROVE  QuestionInv'
<1>1. /\ QuestionNext'
      /\ \A n \in Rounds : (ToAsk(n) \/ Asking(n))' => ToAsk(n)
      /\ pc # "write" /\ pc' # "clarification"
    BY RunAsksInTurn
<1>2. PostsCounted'
    <2> SUFFICES ASSUME NEW n \in Rounds
                 PROVE  Cardinality(Asked(n)) <= Posts(n)'
        BY DEF PostsCounted
    <2>1. Cardinality(Asked(n)) <= Posts(n) /\ Cardinality(Asked(n)) \in Nat
        BY AskedCounts DEF QuestionInv, PostsCounted
    <2>2. failures \in Nat /\ failures' = failures
        BY CommentsAssumption DEF CommentsTypeOK, RunSteps, issueVars
    <2>3. (ToAsk(n)' \/ Asking(n)' => ToAsk(n)) /\ ~Asking(n)
        BY <1>1 DEF Asking
    <2> QED BY <2>1, <2>2, <2>3 DEF Posts
<1> QED BY <1>1, <1>2 DEF QuestionInv, AwaitsAnAnswer

(* The write of a phase comment is over: the run goes on, or tries again.  *)
LEMMA PhaseWritten ==
    ASSUME CommentsTypeOK, QuestionInv, Writes(PhaseMarkers), AttemptEnds,
           \A n : Asked(n)' = Asked(n)
    PROVE  QuestionInv'
<1>1. /\ pc = "write" /\ call.next # "clarification" /\ call.next \in Awaits
      /\ \A n : ~Asking(n)
      /\ clarification_round' = clarification_round
      /\ failures \in Nat
    BY QuestionsDiffer, CommentsAssumption
       DEF QuestionInv, QuestionNext, Writes, Asking, AttemptEnds, counters, CommentsTypeOK
<1>2. CASE pc' = call.next /\ call' = NoCall /\ UNCHANGED failures
    <2>1. pc' # "write" /\ pc' # "clarification"
        BY <1>1, <1>2 DEF Awaits
    <2>2. PostsCounted'
        <3> SUFFICES ASSUME NEW n \in Rounds
                     PROVE  Cardinality(Asked(n)) <= Posts(n)'
            BY DEF PostsCounted
        <3>1. Cardinality(Asked(n)) <= Posts(n)
            BY DEF QuestionInv, PostsCounted
        <3>2. ToAsk(n)' => ToAsk(n)
            BY <1>1, <1>2, <2>1 DEF ToAsk, Asking, Nears
        <3>3. ~Asking(n) /\ ~Asking(n)'
            BY <1>1, <2>1 DEF Asking
        <3>4. Cardinality(Asked(n)) \in Nat
            BY AskedCounts
        <3> QED BY <1>1, <1>2, <3>1, <3>2, <3>3, <3>4 DEF Posts
    <2> QED BY <2>1, <2>2 DEF QuestionInv, QuestionNext, AwaitsAnAnswer
<1>3. CASE failures' = failures + 1 /\ UNCHANGED <<pc, call>>
    <2>1. failures' \in Nat /\ failures <= failures'
        BY <1>1, <1>3
    <2> QED BY <1>1, <1>3, <2>1, MoreFailures
<1> QED BY <1>2, <1>3 DEF AttemptEnds

(* The post of a question: it is there once more, and of the others none   *)
(* comes or goes.                                                          *)
LEMMA QuestionAdded ==
    ASSUME CommentsTypeOK, PostQuestion, NEW m, call.marker = Question(m)
    PROVE  /\ Asked(m)' # {} /\ Cardinality(Asked(m)') = Cardinality(Asked(m)) + 1
           /\ \A n : n # m => Asked(n)' = Asked(n)
<1>1. pc = "write" /\ call \in [marker : Markers, text : Texts, next : Awaits]
    BY DEF PostQuestion, Writes, CommentsTypeOK
<1>2. /\ DOMAIN comments' = DOMAIN comments \cup {Len(comments) + 1}
      /\ Len(comments) + 1 \notin DOMAIN comments
      /\ \A i \in DOMAIN comments : comments'[i] = comments[i]
      /\ comments'[Len(comments) + 1].marker = call.marker
    BY <1>1, CommentAdded DEF PostQuestion
<1>3. /\ Asked(m)' = Asked(m) \cup {Len(comments) + 1}
      /\ Len(comments) + 1 \notin Asked(m)
    BY <1>2 DEF Asked
<1>4. IsFiniteSet(Asked(m))
    BY AskedCounts
<1>5. Cardinality(Asked(m) \cup {Len(comments) + 1}) = Cardinality(Asked(m)) + 1
    BY <1>3, <1>4, FS_AddElement
<1>6. \A n : n # m => Asked(n)' = Asked(n)
    BY <1>2, QuestionsDiffer DEF Asked
<1> QED BY <1>3, <1>5, <1>6

LEMMA PostAsks ==
    ASSUME CommentsTypeOK, QuestionInv, PostQuestion
    PROVE  QuestionInv'
<1>1. /\ pc = "write" /\ call.marker \notin PhaseMarkers /\ AttemptEnds
      /\ call.marker \in Markers /\ clarification_round' = clarification_round
      /\ failures \in Nat /\ clarification_round \in Nat
    BY CommentsAssumption DEF PostQuestion, Writes, CommentsTypeOK, AttemptEnds, counters
<1>2. PICK m : /\ call.marker = Question(m)
               /\ \/ m = clarification_round /\ call.next = "clarification"
                  \/ m = clarification_round + 1 /\ call.next = "over"
    BY <1>1 DEF QuestionInv, QuestionNext
<1>3. /\ Asked(m)' # {} /\ Cardinality(Asked(m)') = Cardinality(Asked(m)) + 1
      /\ \A n : n # m => Asked(n)' = Asked(n)
    BY <1>2, QuestionAdded
<1>4. /\ \/ pc' = call.next /\ call' = NoCall /\ failures' = failures
         \/ pc' = pc /\ call' = call /\ failures' = failures + 1
      /\ failures' \in Nat
    BY <1>1 DEF AttemptEnds
<1>5. Asking(m) /\ \A n : n # m => ~Asking(n)
    BY <1>1, <1>2, QuestionsDiffer DEF Asking
<1>6. QuestionNext' /\ AwaitsAnAnswer'
    <2>1. QuestionNext'
        BY <1>1, <1>2, <1>4 DEF QuestionInv, QuestionNext
    <2>2. AwaitsAnAnswer'
        BY <1>1, <1>2, <1>3, <1>4 DEF AwaitsAnAnswer
    <2> QED BY <2>1, <2>2
<1>7. PostsCounted'
    <2> SUFFICES ASSUME NEW n \in Rounds
                 PROVE  Cardinality(Asked(n)') <= Posts(n)'
        BY DEF PostsCounted
    <2>1. Cardinality(Asked(n)) <= Posts(n) /\ Cardinality(Asked(n)) \in Nat /\ n \in Nat
        BY AskedCounts DEF QuestionInv, PostsCounted, Rounds
    <2>2. CASE n = m
        <3>1. Cardinality(Asked(n)) <= failures
            BY <1>1, <1>5, <2>1, <2>2 DEF Posts
        <3>2. ~ToAsk(n)'
            BY <1>1, <1>2, <1>4, <1>5, <2>2 DEF ToAsk, Asking, Nears
        <3>3. CASE pc' = pc /\ call' = call /\ failures' = failures + 1
            BY <1>1, <1>3, <2>1, <2>2, <3>1, <3>2, <3>3 DEF Posts
        <3>4. CASE pc' = call.next /\ call' = NoCall /\ failures' = failures
            <4>1. ~Asking(n)'
                BY <1>2, <3>4 DEF Asking
            <4> QED BY <1>1, <1>3, <2>1, <2>2, <3>1, <3>2, <3>4, <4>1 DEF Posts
        <3> QED BY <1>4, <3>3, <3>4
    <2>3. CASE n # m
        <3>1. ToAsk(n)' => ToAsk(n)
            BY <1>1, <1>2, <1>4, <1>5, <2>1, <2>3 DEF ToAsk, Asking, Nears
        <3>2. ~Asking(n) /\ ~Asking(n)'
            BY <1>1, <1>2, <1>4, <1>5, <2>3 DEF Asking
        <3> QED BY <1>1, <1>3, <1>4, <2>1, <2>3, <3>1, <3>2 DEF Posts
    <2> QED BY <2>2, <2>3
<1> QED BY <1>6, <1>7 DEF QuestionInv

LEMMA QuestionsKept == CommentsInv /\ QuestionInv /\ [Next]_vars => QuestionInv'
<1> SUFFICES ASSUME CommentsInv, QuestionInv, [Next]_vars PROVE QuestionInv'
    OBVIOUS
<1>1. CommentsTypeOK /\ failures \in Nat
    BY CommentsAssumption DEF CommentsInv, CommentsTypeOK
<1>2. CASE PostQuestion
    BY <1>1, <1>2, PostAsks
<1>3. CASE ~PostQuestion
    <2>1. \A n : Asked(n)' = Asked(n)
        BY <1>3, OthersKeepAsked
    <2>2. CASE RunSteps
        BY <1>1, <2>1, <2>2, RunStepsAsk
    <2>3. CASE CreateComment \/ PatchComment
        BY <1>1, <2>1, <2>3, PhaseWritten DEF CreateComment, PatchComment
    <2>4. CASE AttemptFails
        <3>1. failures' \in Nat /\ failures <= failures'
            BY <1>1, <2>4 DEF AttemptFails
        <3> QED BY <1>1, <2>1, <2>4, <3>1, MoreFailures DEF AttemptFails, runVars, counters
    <2>5. CASE UNCHANGED <<pc, call, clarification_round, failures>>
        BY <1>1, <2>1, <2>5, MoreFailures
    <2> QED BY <1>3, <2>2, <2>3, <2>4, <2>5 DEF Next, vars, runVars, counters, issueVars,
               ListComments, Command, PollerReads, AppendNotice, PollerEnds, Remark
<1> QED BY <1>2, <1>3

(* A run that waits for a reply has its question on the issue; and a       *)
(* question is there again only for an attempt that failed, though         *)
(* post_issue_comment looks for no marker.                                 *)
THEOREM QuestionsAskedHolds == Spec => []QuestionsAsked
<1>1. Init => QuestionInv
    <2> SUFFICES ASSUME Init PROVE QuestionInv
        OBVIOUS
    <2>1. /\ pc = "write" /\ comments = <<>> /\ clarification_round = 0
          /\ call.next = "triage" /\ call.marker = Triage /\ failures = 0
        BY DEF Init
    <2>2. \A n : Asked(n) = {}
        BY <2>1 DEF Asked
    <2>3. \A n \in Rounds : Posts(n) \in Nat
        BY <2>1 DEF Posts
    <2>4. Cardinality({}) = 0
        BY FS_EmptySet
    <2>5. PostsCounted
        BY <2>2, <2>3, <2>4 DEF PostsCounted
    <2>6. QuestionNext
        BY <2>1, QuestionsAreNoPhase DEF QuestionNext
    <2> QED BY <2>1, <2>5, <2>6 DEF QuestionInv, AwaitsAnAnswer
<1>2. CommentsInv /\ QuestionInv /\ [Next]_vars => QuestionInv'
    BY QuestionsKept
<1>3. CommentsInv /\ QuestionInv => QuestionsAsked
    <2> SUFFICES ASSUME CommentsInv, QuestionInv PROVE QuestionsAsked
        OBVIOUS
    <2>1. failures \in Nat
        BY CommentsAssumption DEF CommentsInv, CommentsTypeOK
    <2>2. ASSUME NEW n \in Rounds PROVE Cardinality(Asked(n)) <= 1 + failures
        <3>1. Cardinality(Asked(n)) <= Posts(n) /\ Cardinality(Asked(n)) \in Nat
            BY AskedCounts DEF CommentsInv, QuestionInv, PostsCounted
        <3> QED BY <2>1, <3>1 DEF Posts
    <2>3. pc = "clarification" =>
              \E i \in DOMAIN comments : comments[i].marker = Question(clarification_round)
        BY DEF QuestionInv, AwaitsAnAnswer, Asked
    <2> QED BY <2>2, <2>3 DEF QuestionsAsked, Asked, Rounds
<1> QED BY <1>1, <1>2, <1>3, CommentsInvHolds, PTL DEF Spec

=============================================================================
