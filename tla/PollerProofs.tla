---------------------------- MODULE PollerProofs ----------------------------
(***************************************************************************)
(* What holds of the poller for every number of issues, ticks, runs and    *)
(* failures, and however visibility lags: an issue has at most one run at  *)
(* a time, and no run follows another before the issue says how that one   *)
(* ended.  With a single schedule, the end of a run is announced once and  *)
(* a run that works on an issue keeps it among those that are polled.      *)
(***************************************************************************)
EXTENDS IssuePoller, TLAPS, WellFoundedInduction, SequenceTheorems, FiniteSetTheorems

-----------------------------------------------------------------------------
(* The inductive invariant.                                                *)

(* The types that the argument needs.                                      *)
Shapes ==
    /\ runs \in [Issues -> Seq(Runs)]
    /\ comments \in [Issues -> Seq(Comments)]
    /\ visible \in [Issues -> [n : Nat, open : BOOLEAN]]
    /\ pc \in [Ticks -> PCs]
    /\ todo \in [Ticks -> SUBSET Issues]
    /\ snapshot \in [Ticks -> [Issues -> Nat]]
    /\ work \in [Ticks -> Work]

(* Every run but the latest of an issue is closed.                         *)
EarlierRunsClosed ==
    \A i \in Issues : \A n \in DOMAIN runs[i] :
        n < Len(runs[i]) => runs[i][n].stage = "closed"

(* Visibility is late, but what it says once was so.                       *)
VisibleWasSo ==
    \A i \in Issues :
        /\ visible[i].n # 0 => visible[i].n \in DOMAIN runs[i]
        /\ visible[i].n = 0 => ~visible[i].open
        /\ visible[i].n # 0 /\ ~visible[i].open => runs[i][visible[i].n].stage = "closed"

(* Run n of i has ended, and the issue says so.                            *)
Acknowledged(i, n) ==
    /\ n \in DOMAIN runs[i] /\ runs[i][n].stage = "closed"
    /\ HasMarker(i, n, Len(comments[i]))

(* What a tick at work knows: the issue it is about; when it is to start a *)
(* run, that the one before is acknowledged; later, a run that was started.*)
TickKnows(t) ==
    /\ pc[t] \notin {"idle", "capacity", "next"} => work[t].issue \in Issues
    /\ pc[t] = "start" =>
          work[t].run = 1 \/ Acknowledged(work[t].issue, work[t].run - 1)
    /\ pc[t] \notin {"idle", "capacity", "next", "resolve", "start"}
          => work[t].run \in DOMAIN runs[work[t].issue]

PollerInv ==
    /\ Shapes
    /\ EarlierRunsClosed
    /\ VisibleWasSo
    /\ \A t \in Ticks : TickKnows(t)

(* The invariant is more than what it was strengthened for.                *)
LEMMA OnlyLatestLive == PollerInv => OneLiveRun
<1> SUFFICES ASSUME PollerInv, NEW i \in Issues, NEW m \in OpenRuns(i), NEW n \in OpenRuns(i)
             PROVE  m = n
    BY DEF OneLiveRun
<1>1. runs[i] \in Seq(Runs)
    BY DEF PollerInv, Shapes
<1>2. /\ m \in DOMAIN runs[i] /\ runs[i][m].stage # "closed"
      /\ n \in DOMAIN runs[i] /\ runs[i][n].stage # "closed"
    BY DEF OpenRuns, Open
<1> QED BY <1>1, <1>2 DEF PollerInv, EarlierRunsClosed

(* A bounded set of natural numbers that is not empty has a greatest one:  *)
(* last_seen is the id of a comment.                                       *)
LEMMA GreatestExists ==
    ASSUME NEW S \in SUBSET Nat, S # {}, NEW b \in Nat, \A x \in S : x <= b
    PROVE  \E m \in S : \A x \in S : x <= m
<1> DEFINE Below == {k \in Nat : \E x \in S : k = b - x}
           R == OpToRel(<, Nat)
<1>1. PICK x0 \in S : TRUE
    OBVIOUS
<1>2. b - x0 \in Below
    BY <1>1
<1>3. Below \subseteq Nat /\ Below # {}
    BY <1>2
<1>4. PICK k \in Below : \A l \in Below : ~(<<l, k>> \in R)
    <2> HIDE DEF Below, R
    <2>1. IsWellFoundedOn(R, Nat)
        BY NatLessThanWellFounded DEF R
    <2> QED BY <1>3, <2>1, WFMin
<1>5. \A l \in Below : ~(l < k)
    BY <1>4 DEF OpToRel
<1>6. PICK m \in S : k = b - m
    OBVIOUS
<1>7. ASSUME NEW x \in S PROVE x <= m
    <2>1. b - x \in Below
        BY <1>7
    <2>2. ~(b - x < b - m)
        BY <1>5, <1>6, <2>1
    <2>3. x \in Nat /\ m \in Nat
        BY <1>7
    <2> QED BY <2>2, <2>3
<1> QED BY <1>7

LEMMA GreatestSeen ==
    ASSUME NEW seen \in Nat, NEW b \in Nat, NEW ids \in SUBSET (1..b)
    PROVE  (CHOOSE m \in {seen} \cup ids : \A id \in {seen} \cup ids : id <= m) \in Nat
<1> DEFINE S == {seen} \cup ids
<1>1. \A x \in ids : x \in Nat /\ x <= b
    BY SMT
<1>2. S \in SUBSET Nat /\ S # {} /\ \A x \in S : x <= b + seen
    BY <1>1
<1>3. \E m \in S : \A x \in S : x <= m
    <2> DEFINE top == b + seen
    <2>1. top \in Nat /\ \A x \in S : x <= top
        BY <1>2
    <2>2. S \in SUBSET Nat /\ S # {}
        BY <1>2
    <2> HIDE DEF S, top
    <2> QED BY <2>1, <2>2, GreatestExists
<1> QED BY <1>2, <1>3

(* Receiving comments of the issue leaves a run a run.                     *)
LEMMA ReceiveType ==
    ASSUME NEW r \in Runs, NEW b \in Nat, NEW ids \in SUBSET (1..b)
    PROVE  Receive(r, ids) \in Runs /\ Receive(r, ids).stage = r.stage
<1>1. r.last_seen \in Nat
    BY DEF Runs
<1>2. (CHOOSE m \in {r.last_seen} \cup ids : \A id \in {r.last_seen} \cup ids : id <= m) \in Nat
    <2> DEFINE seen == r.last_seen
    <2>1. seen \in Nat
        BY <1>1
    <2> HIDE DEF seen
    <2>2. (CHOOSE m \in {seen} \cup ids : \A id \in {seen} \cup ids : id <= m) \in Nat
        BY <2>1, GreatestSeen, ZenonT(30)
    <2> QED BY <2>2 DEF seen
<1> QED BY <1>2 DEF Receive, Runs

-----------------------------------------------------------------------------
(* How runs and comments change.                                           *)

(* A run that follows another follows one that is acknowledged.            *)
RunsFollow ==
    \A i \in Issues : Len(runs'[i]) > Len(runs[i]) /\ runs[i] # <<>>
        => HasMarker(i, Len(runs[i]), Len(comments[i]))

(* Runs stay, and what has closed stays closed.                            *)
RunsEvolve ==
    /\ \A i \in Issues : \A n \in DOMAIN runs[i] :
          /\ n \in DOMAIN runs'[i]
          /\ runs[i][n].stage = "closed" => runs'[i][n].stage = "closed"
    /\ RunsFollow

(* Comments stay where they are.                                           *)
CommentsGrow ==
    \A i \in Issues :
        /\ Len(comments[i]) <= Len(comments'[i])
        /\ \A id \in DOMAIN comments[i] :
              id \in DOMAIN comments'[i] /\ comments'[i][id] = comments[i][id]

(* An open run, the latest of its issue therefore, changes.                *)
LEMMA RunChanges ==
    ASSUME Shapes, EarlierRunsClosed, NEW i \in Issues, NEW n \in DOMAIN runs[i],
           Open(runs[i][n]), NEW r \in Runs, runs' = [runs EXCEPT ![i][n] = r]
    PROVE  runs' \in [Issues -> Seq(Runs)] /\ EarlierRunsClosed' /\ RunsEvolve
<1>1. runs[i] \in Seq(Runs) /\ n \in 1..Len(runs[i])
    BY DEF Shapes
<1>2. runs'[i] = [runs[i] EXCEPT ![n] = r] /\ \A j \in Issues \ {i} : runs'[j] = runs[j]
    BY DEF Shapes
<1>3. runs'[i] \in Seq(Runs) /\ Len(runs'[i]) = Len(runs[i]) /\ DOMAIN runs'[i] = DOMAIN runs[i]
    BY <1>1, <1>2
<1>4. n = Len(runs[i])
    BY <1>1 DEF EarlierRunsClosed, Open
<1>5. \A k \in DOMAIN runs[i] : k # n => runs'[i][k] = runs[i][k]
    BY <1>1, <1>2
<1>6. runs' \in [Issues -> Seq(Runs)]
    BY <1>1, <1>2, <1>3 DEF Shapes
<1>7. EarlierRunsClosed'
    <2> SUFFICES ASSUME NEW j \in Issues, NEW k \in DOMAIN runs'[j], k < Len(runs'[j])
                 PROVE  runs'[j][k].stage = "closed"
        BY DEF EarlierRunsClosed
    <2>1. CASE j = i
        BY <1>1, <1>3, <1>4, <1>5, <2>1 DEF EarlierRunsClosed
    <2>2. CASE j # i
        BY <1>2, <2>2 DEF EarlierRunsClosed
    <2> QED BY <2>1, <2>2
<1>8. \A j \in Issues : Len(runs'[j]) = Len(runs[j]) /\ Len(runs[j]) \in Nat
    BY <1>2, <1>3 DEF Shapes
<1>9. RunsFollow
    BY <1>8 DEF RunsFollow
<1>10. RunsEvolve
    BY <1>2, <1>3, <1>5, <1>9 DEF RunsEvolve, Open
<1> QED BY <1>6, <1>7, <1>10

(* A run starts when those before it are closed.                           *)
LEMMA RunStarts ==
    ASSUME Shapes, NEW i \in Issues, \A n \in DOMAIN runs[i] : runs[i][n].stage = "closed",
           runs[i] # <<>> => HasMarker(i, Len(runs[i]), Len(comments[i])),
           runs' = [runs EXCEPT ![i] = Append(@, NewRun)]
    PROVE  /\ runs' \in [Issues -> Seq(Runs)] /\ RunsEvolve
           /\ EarlierRunsClosed => EarlierRunsClosed'
           /\ Len(runs'[i]) = Len(runs[i]) + 1
<1>1. runs[i] \in Seq(Runs) /\ NewRun \in Runs
    BY DEF Shapes, NewRun, Runs, Stages, Closures, Signals
<1>2. runs'[i] = Append(runs[i], NewRun) /\ \A j \in Issues \ {i} : runs'[j] = runs[j]
    BY DEF Shapes
<1>3. /\ runs'[i] \in Seq(Runs) /\ Len(runs'[i]) = Len(runs[i]) + 1
      /\ \A n \in DOMAIN runs[i] : n \in DOMAIN runs'[i] /\ runs'[i][n] = runs[i][n]
    BY <1>1, <1>2
<1>4. runs' \in [Issues -> Seq(Runs)]
    BY <1>2, <1>3 DEF Shapes
<1>5. RunsEvolve
    <2>1. \A j \in Issues \ {i} : Len(runs'[j]) = Len(runs[j]) /\ Len(runs[j]) \in Nat
        BY <1>2 DEF Shapes
    <2>2. RunsFollow
        BY <2>1 DEF RunsFollow
    <2> QED BY <1>2, <1>3, <2>2 DEF RunsEvolve
<1>6. ASSUME EarlierRunsClosed PROVE EarlierRunsClosed'
    <2> SUFFICES ASSUME NEW j \in Issues, NEW k \in DOMAIN runs'[j], k < Len(runs'[j])
                 PROVE  runs'[j][k].stage = "closed"
        BY DEF EarlierRunsClosed
    <2>1. CASE j = i
        <3>1. k \in DOMAIN runs[i]
            BY <1>1, <1>3, <2>1
        <3> QED BY <1>3, <2>1, <3>1
    <2>2. CASE j # i
        BY <1>2, <1>6, <2>2 DEF EarlierRunsClosed
    <2> QED BY <2>1, <2>2
<1> QED BY <1>3, <1>4, <1>5, <1>6

(* Writing a comment leaves the others where they are.                     *)
LEMMA CommentAppended ==
    ASSUME Shapes, NEW i \in Issues, NEW c \in Comments,
           comments' = [comments EXCEPT ![i] = Append(@, c)]
    PROVE  comments' \in [Issues -> Seq(Comments)] /\ CommentsGrow
<1>1. comments[i] \in Seq(Comments)
    BY DEF Shapes
<1>2. comments'[i] = Append(comments[i], c) /\ \A j \in Issues \ {i} : comments'[j] = comments[j]
    BY DEF Shapes
<1>3. /\ comments'[i] \in Seq(Comments) /\ Len(comments[i]) <= Len(comments'[i])
      /\ \A id \in DOMAIN comments[i] :
            id \in DOMAIN comments'[i] /\ comments'[i][id] = comments[i][id]
    BY <1>1, <1>2
<1>4. \A j \in Issues : Len(comments[j]) \in Nat
    BY DEF Shapes
<1> QED BY <1>2, <1>3, <1>4 DEF Shapes, CommentsGrow

(* What is unchanged evolves and grows.                                    *)
LEMMA NothingChanges ==
    ASSUME Shapes
    PROVE  /\ UNCHANGED runs => RunsEvolve /\ runs' \in [Issues -> Seq(Runs)]
           /\ UNCHANGED comments => CommentsGrow /\ comments' \in [Issues -> Seq(Comments)]
           /\ UNCHANGED runs /\ EarlierRunsClosed => EarlierRunsClosed'
<1>1. \A j \in Issues : Len(comments[j]) \in Nat /\ Len(runs[j]) \in Nat
    BY DEF Shapes
<1> QED BY <1>1 DEF Shapes, RunsEvolve, RunsFollow, CommentsGrow, EarlierRunsClosed

(* What is acknowledged stays so.                                          *)
LEMMA AcknowledgedStays ==
    ASSUME Shapes, RunsEvolve, CommentsGrow, comments' \in [Issues -> Seq(Comments)],
           NEW i \in Issues, NEW n, Acknowledged(i, n)
    PROVE  Acknowledged(i, n)'
<1>1. PICK id \in 1..Len(comments[i]) :
          id \in DOMAIN comments[i] /\ comments[i][id] = Marker(n)
    BY DEF Acknowledged, HasMarker
<1>2. Len(comments[i]) \in Nat /\ Len(comments'[i]) \in Nat /\ Len(comments[i]) <= Len(comments'[i])
    BY DEF Shapes, CommentsGrow
<1>3. id \in 1..Len(comments'[i]) /\ id \in DOMAIN comments'[i] /\ comments'[i][id] = Marker(n)
    BY <1>1, <1>2 DEF CommentsGrow
<1> QED BY <1>3 DEF Acknowledged, HasMarker, RunsEvolve

-----------------------------------------------------------------------------
(* The steps of people and runs.                                           *)

(* What the steps other than the poller's do to runs and comments.         *)
Evolves ==
    /\ runs' \in [Issues -> Seq(Runs)] /\ EarlierRunsClosed' /\ RunsEvolve
    /\ comments' \in [Issues -> Seq(Comments)] /\ CommentsGrow

(* A run that goes from an open stage to any other is a run that changes.  *)
LEMMA MoveIsChange ==
    ASSUME Shapes, EarlierRunsClosed, NEW i \in Issues, NEW n,
           NEW from \in Stages \ {"closed"}, NEW to \in Stages,
           Moves(i, n, from, to) \/ MovesToGate(i, n, from, to)
    PROVE  runs' \in [Issues -> Seq(Runs)] /\ EarlierRunsClosed' /\ RunsEvolve
<1>1. n \in DOMAIN runs[i] /\ Open(runs[i][n])
    BY DEF Moves, MovesToGate, Open
<1>2. runs[i][n] \in Runs
    BY <1>1 DEF Shapes
<1>3. \E r \in Runs : runs' = [runs EXCEPT ![i][n] = r]
    <2>1. CASE Moves(i, n, from, to)
        <3>1. [runs[i][n] EXCEPT !.stage = to] \in Runs
            BY <1>2 DEF Runs
        <3>2. runs' = [runs EXCEPT ![i][n] = [runs[i][n] EXCEPT !.stage = to]]
            BY <2>1 DEF Moves
        <3> QED BY <3>1, <3>2
    <2>2. CASE MovesToGate(i, n, from, to)
        <3>1. [runs[i][n] EXCEPT !.stage = to, !.signal = "none"] \in Runs
            BY <1>2 DEF Runs, Signals
        <3>2. runs' = [runs EXCEPT ![i][n] = [runs[i][n] EXCEPT !.stage = to, !.signal = "none"]]
            BY <2>2 DEF MovesToGate
        <3> QED BY <3>1, <3>2
    <2> QED BY <2>1, <2>2
<1> QED BY <1>1, <1>3, RunChanges

(* So is one that is canceled, that ends or whose cursor goes back.        *)
LEMMA EndIsChange ==
    ASSUME Shapes, EarlierRunsClosed, NEW i \in Issues, NEW n,
           Canceled(i, n) \/ Closes(i, n) \/ Fails(i, n) \/ CursorGoesBack(i, n)
    PROVE  runs' \in [Issues -> Seq(Runs)] /\ EarlierRunsClosed' /\ RunsEvolve
<1>1. n \in DOMAIN runs[i] /\ Open(runs[i][n])
    BY DEF Canceled, Closes, Fails, CursorGoesBack, Open
<1>2. runs[i][n] \in Runs
    BY <1>1 DEF Shapes
<1>3. \E r \in Runs : runs' = [runs EXCEPT ![i][n] = r]
    <2>1. CASE Canceled(i, n)
        <3>1. PICK c \in Closures : runs' = [runs EXCEPT ![i][n].stage = "quarantine",
                                                         ![i][n].closure = c]
            BY <2>1 DEF Canceled, Closures
        <3>2. [runs[i][n] EXCEPT !.stage = "quarantine", !.closure = c] \in Runs
            BY <1>2 DEF Runs, Stages
        <3>3. runs' = [runs EXCEPT ![i][n] = [runs[i][n] EXCEPT !.stage = "quarantine",
                                                               !.closure = c]]
            BY <3>1
        <3> QED BY <3>2, <3>3
    <2>2. CASE Closes(i, n) \/ Fails(i, n)
        <3>1. PICK c \in Closures : Close(i, n, c)
            BY <2>2 DEF Closes, Fails, Closures
        <3>2. [NewRun EXCEPT !.stage = "closed", !.closure = c] \in Runs
            BY DEF Runs, NewRun, Stages, Closures, Signals
        <3> QED BY <3>1, <3>2 DEF Close
    <2>3. CASE CursorGoesBack(i, n)
        <3>1. PICK id \in 0 .. Len(comments[i]) :
                  runs' = [runs EXCEPT ![i][n].last_seen = id]
            BY <2>3 DEF CursorGoesBack
        <3>2. id \in Nat
            BY <3>1 DEF Shapes
        <3>3. [runs[i][n] EXCEPT !.last_seen = id] \in Runs
            BY <1>2, <3>2 DEF Runs
        <3>4. runs' = [runs EXCEPT ![i][n] = [runs[i][n] EXCEPT !.last_seen = id]]
            BY <3>1
        <3> QED BY <3>3, <3>4
    <2> QED BY <2>1, <2>2, <2>3
<1> QED BY <1>1, <1>3, RunChanges

(* A step of a run is a change of an open run.                             *)
LEMMA RunStepEvolves ==
    ASSUME Shapes, EarlierRunsClosed, NEW i \in Issues, NEW n \in Nat, RunStep(i, n)
    PROVE  Evolves
<1> USE DEF Stages
<1>1. runs' \in [Issues -> Seq(Runs)] /\ EarlierRunsClosed' /\ RunsEvolve
    <2>1. CASE TakeUp(i, n)
        BY <2>1, MoveIsChange DEF TakeUp
    <2>2. CASE Works(i, n)
        BY <2>2, MoveIsChange DEF Works
    <2>3. CASE OpensGate(i, n)
        BY <2>3, MoveIsChange DEF OpensGate
    <2>4. CASE DesignApproved(i, n)
        BY <2>4, MoveIsChange DEF DesignApproved
    <2>5. CASE DesignRevised(i, n)
        BY <2>5, MoveIsChange DEF DesignRevised
    <2>6. CASE Quarantines(i, n)
        BY <2>6, MoveIsChange DEF Quarantines
    <2>7. CASE NeedsHuman(i, n)
        BY <2>7, MoveIsChange DEF NeedsHuman
    <2>8. CASE Merged(i, n)
        BY <2>8, MoveIsChange DEF Merged
    <2>9. CASE Canceled(i, n) \/ Closes(i, n) \/ Fails(i, n) \/ CursorGoesBack(i, n)
        BY <2>9, EndIsChange
    <2> QED BY <2>1, <2>2, <2>3, <2>4, <2>5, <2>6, <2>7, <2>8, <2>9 DEF RunStep
<1>2. comments' \in [Issues -> Seq(Comments)] /\ CommentsGrow
    <2>1. CASE Quarantines(i, n)
        <3>1. Marker(n) \in Comments
            BY DEF Marker, Comment, Comments
        <3> QED BY <2>1, <3>1, CommentAppended, NothingChanges DEF Quarantines
    <2>2. CASE ~Quarantines(i, n)
        <3>1. UNCHANGED comments
            BY <2>2 DEF RunStep, TakeUp, Works, OpensGate, DesignApproved, DesignRevised,
                        Canceled, NeedsHuman, Merged, Closes, Fails, Close,
                        CursorGoesBack, issueVars
        <3> QED BY <3>1, NothingChanges
    <2> QED BY <2>1, <2>2
<1> QED BY <1>1, <1>2 DEF Evolves

(* What visibility said is still so.                                       *)
LEMMA VisibleStays ==
    ASSUME Shapes, VisibleWasSo, RunsEvolve, UNCHANGED visible
    PROVE  VisibleWasSo'
BY DEF Shapes, VisibleWasSo, RunsEvolve

(* What a tick knows stays so while others act.                            *)
LEMMA TickKnowsStays ==
    ASSUME Shapes, Evolves, NEW t \in Ticks, TickKnows(t),
           pc'[t] = pc[t], work'[t] = work[t]
    PROVE  TickKnows(t)'
<1>1. pc[t] \notin {"idle", "capacity", "next"} => work[t].issue \in Issues
    BY DEF TickKnows
<1>2. ASSUME pc[t] = "start", work[t].run # 1
      PROVE  Acknowledged(work[t].issue, work[t].run - 1)'
    <2>1. work[t].issue \in Issues /\ Acknowledged(work[t].issue, work[t].run - 1)
        BY <1>2 DEF TickKnows
    <2>2. PICK id \in 1..Len(comments[work[t].issue]) :
              /\ id \in DOMAIN comments[work[t].issue]
              /\ comments[work[t].issue][id] = Marker(work[t].run - 1)
        BY <2>1 DEF Acknowledged, HasMarker
    <2>3. id \in 1..Len(comments'[work[t].issue])
        BY <2>1, <2>2 DEF Shapes, Evolves, CommentsGrow
    <2> QED BY <2>1, <2>2, <2>3
            DEF Evolves, CommentsGrow, RunsEvolve, Acknowledged, HasMarker
<1>3. ASSUME pc[t] \notin {"idle", "capacity", "next", "resolve", "start"}
      PROVE  work[t].run \in DOMAIN runs'[work[t].issue]
    BY <1>1, <1>3 DEF TickKnows, Evolves, RunsEvolve
<1> QED BY <1>1, <1>2, <1>3 DEF TickKnows

(* Whatever goes on without the poller preserves the invariant.            *)
LEMMA PolledStepInv ==
    ASSUME PollerInv, PolledStep, UNCHANGED tickVars
    PROVE  PollerInv' /\ Evolves
<1> USE DEF PollerInv
<1>1. Evolves
    <2>1. PICK i \in Issues :
              \/ WriteComment(i) \/ PutLabel(i) \/ VisibilityCatchesUp(i)
              \/ \E n \in 1..MAX_RUNS : RunStep(i, n)
        BY DEF PolledStep
    <2>2. CASE WriteComment(i)
        <3>1. PICK kind \in CommentKinds :
                  comments' = [comments EXCEPT ![i] = Append(@, Comment(kind, 0))]
            BY <2>2 DEF WriteComment
        <3>2. Comment(kind, 0) \in Comments
            BY CommentKindsAssumption DEF Comment, Comments, WrittenKinds
        <3> QED BY <2>2, <3>1, <3>2, CommentAppended, NothingChanges DEF WriteComment, Evolves
    <2>3. CASE PutLabel(i) \/ VisibilityCatchesUp(i)
        BY <2>3, NothingChanges DEF PutLabel, VisibilityCatchesUp, issueVars, Evolves
    <2>4. CASE \E n \in 1..MAX_RUNS : RunStep(i, n)
        BY <2>4, PolledBoundsAssumption, RunStepEvolves
    <2> QED BY <2>1, <2>2, <2>3, <2>4
<1>2. visible' \in [Issues -> [n : Nat, open : BOOLEAN]] /\ VisibleWasSo'
    <2>1. CASE UNCHANGED visible
        BY <1>1, <2>1, VisibleStays DEF Shapes, Evolves
    <2>2. ASSUME NEW i \in Issues, VisibilityCatchesUp(i)
          PROVE  visible' \in [Issues -> [n : Nat, open : BOOLEAN]] /\ VisibleWasSo'
        <3>1. UNCHANGED runs /\ visible' = [visible EXCEPT ![i] = Latest(i)]
            BY <2>2 DEF VisibilityCatchesUp
        <3>2. runs[i] \in Seq(Runs)
            BY DEF Shapes
        <3>3. Latest(i) \in [n : Nat, open : BOOLEAN]
            BY <3>2 DEF Latest, NothingVisible, Open
        <3>4. /\ Latest(i).n # 0 => Latest(i).n \in DOMAIN runs[i]
              /\ Latest(i).n = 0 => ~Latest(i).open
              /\ Latest(i).n # 0 /\ ~Latest(i).open => runs[i][Latest(i).n].stage = "closed"
            <4>1. CASE runs[i] = <<>>
                BY <4>1 DEF Latest, NothingVisible
            <4>2. CASE runs[i] # <<>>
                <5>1. Len(runs[i]) \in DOMAIN runs[i]
                    BY <3>2, <4>2
                <5>2. Latest(i) = [n |-> Len(runs[i]),
                                   open |-> Open(runs[i][Len(runs[i])])]
                    BY <4>2 DEF Latest
                <5>3. Latest(i).n = Len(runs[i]) /\ Latest(i).n # 0
                    BY <3>2, <4>2, <5>2
                <5>4. Latest(i).open = Open(runs[i][Len(runs[i])])
                    BY <5>2
                <5>5. Latest(i).open <=> runs[i][Len(runs[i])].stage # "closed"
                    BY <5>4, Zenon DEF Open
                <5> QED BY <5>1, <5>3, <5>5
            <4> QED BY <4>1, <4>2
        <3>5. visible'[i] = Latest(i) /\ \A j \in Issues \ {i} : visible'[j] = visible[j]
            BY <3>1 DEF Shapes
        <3>6. visible' \in [Issues -> [n : Nat, open : BOOLEAN]]
            BY <3>1, <3>3 DEF Shapes
        <3> QED BY <3>1, <3>4, <3>5, <3>6 DEF VisibleWasSo
    <2>3. UNCHANGED visible \/ \E i \in Issues : VisibilityCatchesUp(i)
        <3>1. ASSUME NEW i \in Issues, NEW n \in 1..MAX_RUNS, RunStep(i, n)
              PROVE  UNCHANGED visible
            BY <3>1 DEF RunStep, TakeUp, Works, OpensGate, DesignApproved, DesignRevised,
                        Canceled, Quarantines, NeedsHuman, Merged, Closes, Fails, Close,
                        CursorGoesBack
        <3> QED BY <3>1 DEF PolledStep, WriteComment, PutLabel
    <2> QED BY <2>1, <2>2, <2>3
<1>3. ASSUME NEW t \in Ticks PROVE TickKnows(t)'
    BY <1>1, TickKnowsStays DEF tickVars
<1> QED BY <1>1, <1>2, <1>3 DEF Shapes, Evolves, tickVars

-----------------------------------------------------------------------------
(* The steps of ticks.                                                     *)

(* A step of tick t, described by what it does to what others see and by   *)
(* what t knows after it, preserves the invariant.                         *)
LEMMA TickPreserves ==
    ASSUME PollerInv, NEW t \in Ticks, Evolves, UNCHANGED visible,
           pc' \in [Ticks -> PCs], work' \in [Ticks -> Work],
           todo' \in [Ticks -> SUBSET Issues], snapshot' \in [Ticks -> [Issues -> Nat]],
           \A u \in Ticks \ {t} : pc'[u] = pc[u] /\ work'[u] = work[u],
           TickKnows(t)'
    PROVE  PollerInv' /\ Evolves
<1>1. VisibleWasSo'
    BY VisibleStays DEF PollerInv, Evolves
<1>2. ASSUME NEW u \in Ticks PROVE TickKnows(u)'
    <2>1. CASE u # t
        BY <2>1, TickKnowsStays DEF PollerInv
    <2>2. CASE u = t
        BY <2>2
    <2> QED BY <2>1, <2>2
<1>3. Shapes' /\ EarlierRunsClosed'
    BY DEF PollerInv, Shapes, Evolves
<1> QED BY <1>1, <1>2, <1>3 DEF PollerInv

(* The same for a tick that goes on with its issue.                        *)
LEMMA GoesPreserves ==
    ASSUME PollerInv, NEW t \in Ticks, Evolves, UNCHANGED visible,
           NEW to \in PCs, NEW known \in Work, Goes(t, to, known),
           to \notin {"idle", "capacity", "next"} => known.issue \in Issues,
           to = "start" => known.run = 1 \/ Acknowledged(known.issue, known.run - 1),
           to \notin {"idle", "capacity", "next", "resolve", "start"}
              => known.run \in DOMAIN runs'[known.issue]
    PROVE  PollerInv' /\ Evolves
<1>1. /\ pc' \in [Ticks -> PCs] /\ work' \in [Ticks -> Work]
      /\ todo' \in [Ticks -> SUBSET Issues] /\ snapshot' \in [Ticks -> [Issues -> Nat]]
      /\ pc'[t] = to /\ work'[t] = known
      /\ \A u \in Ticks \ {t} : pc'[u] = pc[u] /\ work'[u] = work[u]
    BY DEF PollerInv, Shapes, Goes
<1>2. ASSUME to = "start", known.run # 1
      PROVE  Acknowledged(known.issue, known.run - 1)'
    <2>1. known.issue \in Issues /\ Acknowledged(known.issue, known.run - 1)
        BY <1>2
    <2> QED BY <2>1, AcknowledgedStays DEF PollerInv, Evolves
<1>3. TickKnows(t)'
    BY <1>1, <1>2 DEF TickKnows, Acknowledged, HasMarker
<1> QED BY <1>1, <1>3, TickPreserves

(* Taking the next issue and beginning an activity again are such steps.   *)
LEMMA TakesNextPreserves ==
    ASSUME PollerInv, NEW t \in Ticks, Evolves, UNCHANGED visible, TakesNext(t)
    PROVE  PollerInv' /\ Evolves
<1>1. NoWork \in Work /\ "next" \in PCs
    BY DEF NoWork, Work, Signals, PCs
<1> QED BY <1>1, GoesPreserves DEF TakesNext

LEMMA BeginsAgainPreserves ==
    ASSUME PollerInv, NEW t \in Ticks, Evolves, UNCHANGED visible,
           pc[t] \notin {"idle", "capacity", "next"},
           \/ BeginsAgain(t, "resolve")
           \/ BeginsAgain(t, "view") /\ pc[t] \notin {"resolve", "start"}
    PROVE  PollerInv' /\ Evolves
<1>1. work[t] \in Work /\ work[t].issue \in Issues
    BY DEF PollerInv, Shapes, TickKnows
<1>2. CASE BeginsAgain(t, "resolve")
    <2>1. [NoWork EXCEPT !.issue = work[t].issue, !.run = 0] \in Work
        BY <1>1 DEF NoWork, Work, Signals
    <2>2. Goes(t, "resolve", [NoWork EXCEPT !.issue = work[t].issue, !.run = 0])
        BY <1>2 DEF BeginsAgain
    <2>3. [NoWork EXCEPT !.issue = work[t].issue, !.run = 0].issue = work[t].issue
        BY DEF NoWork
    <2> QED BY <1>1, <2>1, <2>2, <2>3, GoesPreserves DEF PCs
<1>3. CASE BeginsAgain(t, "view") /\ pc[t] \notin {"resolve", "start"}
    <2> DEFINE known == [NoWork EXCEPT !.issue = work[t].issue, !.run = work[t].run]
    <2>1. known \in Work /\ known.issue = work[t].issue /\ known.run = work[t].run
        BY <1>1 DEF NoWork, Work, Signals
    <2>2. Goes(t, "view", known)
        BY <1>3 DEF BeginsAgain
    <2>3. work[t].run \in DOMAIN runs'[work[t].issue]
        BY <1>1, <1>3 DEF PollerInv, TickKnows, Evolves, RunsEvolve
    <2> HIDE DEF known
    <2> QED BY <1>1, <2>1, <2>2, <2>3, GoesPreserves DEF PCs
<1> QED BY <1>2, <1>3

(* A step that leaves runs and comments alone evolves them.                *)
LEMMA StutterEvolves ==
    ASSUME PollerInv, UNCHANGED polledVars
    PROVE  Evolves /\ UNCHANGED visible
BY NothingChanges DEF PollerInv, Evolves, polledVars, issueVars

(* A tick begins, counts, takes an issue, ends.                            *)
LEMMA TickFrameInv ==
    ASSUME PollerInv, NEW t \in Ticks,
           ListReadyIssues(t) \/ Capacity(t) \/ TakeIssue(t) \/ TickEnds(t)
    PROVE  PollerInv' /\ Evolves
<1>1. Evolves /\ UNCHANGED visible
    BY StutterEvolves DEF ListReadyIssues, Capacity, TakeIssue, TickEnds
<1>2. CASE Capacity(t)
    BY <1>1, <1>2, TakesNextPreserves DEF Capacity
<1>3. CASE ListReadyIssues(t)
    <2>1. \A i \in Issues : Len(comments[i]) \in Nat
        BY DEF PollerInv, Shapes
    <2>2. pc' = [pc EXCEPT ![t] = "capacity"] /\ UNCHANGED work
        BY <1>3 DEF ListReadyIssues
    <2>3. snapshot' \in [Ticks -> [Issues -> Nat]]
        BY <1>3, <2>1 DEF ListReadyIssues, PollerInv, Shapes
    <2>4. todo' \in [Ticks -> SUBSET Issues]
        BY <1>3 DEF ListReadyIssues, PollerInv, Shapes
    <2>5. TickKnows(t)'
        BY <2>2 DEF TickKnows, PollerInv, Shapes
    <2> QED BY <1>1, <2>2, <2>3, <2>4, <2>5, TickPreserves DEF PollerInv, Shapes, PCs
<1>4. CASE TakeIssue(t)
    <2>1. PICK i \in todo[t] : /\ todo' = [todo EXCEPT ![t] = @ \ {i}]
                              /\ work' = [work EXCEPT ![t] = [NoWork EXCEPT !.issue = i]]
        BY <1>4 DEF TakeIssue
    <2>2. i \in Issues
        BY DEF PollerInv, Shapes
    <2>3. /\ [NoWork EXCEPT !.issue = i] \in Work
          /\ [NoWork EXCEPT !.issue = i].issue = i
        BY <2>2 DEF NoWork, Work, Signals
    <2>4. pc' = [pc EXCEPT ![t] = "resolve"] /\ UNCHANGED snapshot
        BY <1>4 DEF TakeIssue
    <2>5. TickKnows(t)'
        BY <2>1, <2>2, <2>3, <2>4 DEF TickKnows, PollerInv, Shapes
    <2> QED BY <1>1, <2>1, <2>3, <2>4, <2>5, TickPreserves DEF PollerInv, Shapes, PCs
<1>5. CASE TickEnds(t)
    <2>1. pc' = [pc EXCEPT ![t] = "idle"] /\ UNCHANGED <<todo, work>>
        BY <1>5 DEF TickEnds
    <2>2. snapshot' \in [Ticks -> [Issues -> Nat]]
        BY <1>5 DEF TickEnds, NoSnapshot, PollerInv, Shapes
    <2>3. TickKnows(t)'
        BY <2>1 DEF TickKnows, PollerInv, Shapes
    <2> QED BY <1>1, <2>1, <2>2, <2>3, TickPreserves DEF PollerInv, Shapes, PCs
<1> QED BY <1>2, <1>3, <1>4, <1>5

(* What a tick at work holds, spelled out.                                 *)
LEMMA AtWork ==
    ASSUME PollerInv, NEW t \in Ticks, pc[t] \notin {"idle", "capacity", "next"}
    PROVE  /\ work[t] \in Work /\ work[t].issue \in Issues /\ work[t].run \in Nat
           /\ runs[work[t].issue] \in Seq(Runs) /\ comments[work[t].issue] \in Seq(Comments)
           /\ pc[t] \notin {"resolve", "start"} =>
                 /\ work[t].run \in DOMAIN runs[work[t].issue]
                 /\ CurrentRun(t) \in Runs
<1>1. work[t] \in Work /\ work[t].issue \in Issues /\ work[t].run \in Nat
    BY DEF PollerInv, Shapes, TickKnows, Work
<1>2. runs[work[t].issue] \in Seq(Runs) /\ comments[work[t].issue] \in Seq(Comments)
    BY <1>1 DEF PollerInv, Shapes
<1>3. pc[t] \notin {"resolve", "start"} => work[t].run \in DOMAIN runs[work[t].issue]
    BY DEF PollerInv, TickKnows
<1> QED BY <1>1, <1>2, <1>3 DEF CurrentRun

(* The latest run that visibility knows: it is synchronised, quarantined   *)
(* or, when it closed and the issue says so, followed by the next.         *)
LEMMA ResolveInv ==
    ASSUME PollerInv, NEW t \in Ticks, ResolveLatestRun(t)
    PROVE  PollerInv' /\ Evolves
<1> DEFINE i == work[t].issue
           latest == visible[i]
           About(n) == [work[t] EXCEPT !.run = n]
<1>1. Evolves /\ UNCHANGED visible /\ UNCHANGED runs
    BY StutterEvolves DEF ResolveLatestRun, polledVars
<1>2. /\ work[t] \in Work /\ i \in Issues
      /\ runs[i] \in Seq(Runs) /\ comments[i] \in Seq(Comments)
    BY AtWork DEF ResolveLatestRun
<1>3. latest.n \in Nat /\ latest.open \in BOOLEAN
    BY <1>2 DEF PollerInv, Shapes
<1>4. ASSUME NEW n \in Nat
      PROVE  About(n) \in Work /\ About(n).issue = i /\ About(n).run = n
    BY <1>2 DEF Work
<1>5. ASSUME latest.n # 0, NEW to \in {"sync", "view"}, Goes(t, to, About(latest.n))
      PROVE  PollerInv' /\ Evolves
    <2>1. latest.n \in DOMAIN runs[i]
        BY <1>2, <1>5 DEF PollerInv, VisibleWasSo
    <2>2. to \in PCs
        BY DEF PCs
    <2>3. /\ About(latest.n) \in Work /\ About(latest.n).issue = i
          /\ About(latest.n).run = latest.n
        BY <1>3, <1>4
    <2> HIDE DEF About
    <2> QED BY <1>1, <1>2, <1>5, <2>1, <2>2, <2>3, GoesPreserves
<1>6. CASE latest.open /\ Goes(t, "sync", About(latest.n))
    <2>1. latest.n # 0
        BY <1>2, <1>6 DEF PollerInv, VisibleWasSo
    <2> QED BY <1>5, <1>6, <2>1
<1>7. CASE /\ ~(latest.n = 0 \/ HasMarker(i, latest.n, snapshot[t][i]))
           /\ Goes(t, "view", About(latest.n))
    BY <1>5, <1>7
<1>8. CASE /\ ~latest.open
           /\ latest.n = 0 \/ HasMarker(i, latest.n, snapshot[t][i])
           /\ Goes(t, "start", About(latest.n + 1))
    <2> DEFINE known == About(latest.n + 1)
    <2>1. known \in Work /\ known.issue = i /\ known.run = latest.n + 1
        <3>1. latest.n + 1 \in Nat
            BY <1>3
        <3> HIDE DEF About, latest, i
        <3> QED BY <3>1, <1>4
    <2>2. known.run = 1 \/ Acknowledged(known.issue, known.run - 1)
        <3>1. CASE latest.n = 0
            BY <2>1, <3>1
        <3>2. CASE latest.n # 0
            <4>1. latest.n \in DOMAIN runs[i] /\ runs[i][latest.n].stage = "closed"
                BY <1>2, <1>8, <3>2 DEF PollerInv, VisibleWasSo
            <4>2. HasMarker(i, latest.n, Len(comments[i]))
                BY <1>2, <1>8, <3>2 DEF HasMarker
            <4>3. known.run - 1 = latest.n
                BY <1>3, <2>1
            <4> QED BY <2>1, <4>1, <4>2, <4>3 DEF Acknowledged
        <3> QED BY <3>1, <3>2
    <2> HIDE DEF known
    <2>3. Goes(t, "start", known)
        BY <1>8 DEF known
    <2> QED BY <1>1, <1>2, <2>1, <2>2, <2>3, GoesPreserves DEF PCs
<1>9. CASE TakesNext(t)
    BY <1>1, <1>9, TakesNextPreserves
<1> QED BY <1>6, <1>7, <1>8, <1>9 DEF ResolveLatestRun

(* When a tick may start a run, those before it are closed.                *)
LEMMA StartedInTurn ==
    ASSUME PollerInv, NEW t \in Ticks, pc[t] = "start",
           work[t].run \notin DOMAIN runs[work[t].issue]
    PROVE  /\ \A n \in DOMAIN runs[work[t].issue] : runs[work[t].issue][n].stage = "closed"
           /\ work[t].run = Len(runs[work[t].issue]) + 1
           /\ runs[work[t].issue] # <<>> =>
                 HasMarker(work[t].issue, Len(runs[work[t].issue]),
                           Len(comments[work[t].issue]))
<1> DEFINE i == work[t].issue
           k == work[t].run
<1>1. i \in Issues /\ k \in Nat /\ runs[i] \in Seq(Runs)
    BY AtWork
<1>2. CASE k = 1
    <2>1. Len(runs[i]) = 0
        BY <1>1, <1>2
    <2> QED BY <1>1, <1>2, <2>1
<1>3. CASE k # 1
    <2>1. Acknowledged(i, k - 1)
        BY <1>3 DEF PollerInv, TickKnows
    <2>2. k - 1 \in DOMAIN runs[i] /\ runs[i][k - 1].stage = "closed"
          /\ HasMarker(i, k - 1, Len(comments[i]))
        BY <2>1 DEF Acknowledged
    <2>3. k - 1 = Len(runs[i])
        BY <1>1, <2>2
    <2>4. \A n \in DOMAIN runs[i] : n < Len(runs[i]) \/ n = k - 1
        BY <1>1, <2>3
    <2>5. \A n \in DOMAIN runs[i] : runs[i][n].stage = "closed"
        BY <1>1, <2>2, <2>4 DEF PollerInv, EarlierRunsClosed
    <2>6. k = Len(runs[i]) + 1
        BY <1>1, <2>3
    <2>7. HasMarker(i, Len(runs[i]), Len(comments[i]))
        BY <2>2, <2>3
    <2> QED BY <2>5, <2>6, <2>7
<1> QED BY <1>2, <1>3

(* A run starts, or turns out to be there already.                         *)
LEMMA StartInv ==
    ASSUME PollerInv, NEW t \in Ticks, StartWorkflow(t)
    PROVE  PollerInv' /\ Evolves
<1> DEFINE i == work[t].issue
           k == work[t].run
<1>1. /\ work[t] \in Work /\ i \in Issues /\ k \in Nat /\ runs[i] \in Seq(Runs)
      /\ pc[t] = "start"
    BY AtWork DEF StartWorkflow
<1>2. UNCHANGED visible /\ CommentsGrow /\ comments' \in [Issues -> Seq(Comments)]
    BY NothingChanges DEF StartWorkflow, issueVars, PollerInv
<1>3. Evolves /\ k \in DOMAIN runs'[i]
    <2>1. CASE k \in DOMAIN runs[i]
        <3>1. UNCHANGED runs
            BY <2>1 DEF StartWorkflow
        <3> QED BY <1>2, <2>1, <3>1, NothingChanges DEF PollerInv, Evolves
    <2>2. CASE k \notin DOMAIN runs[i]
        <3>1. runs' = [runs EXCEPT ![i] = Append(@, NewRun)]
            BY <2>2 DEF StartWorkflow
        <3>2. /\ runs' \in [Issues -> Seq(Runs)] /\ RunsEvolve /\ EarlierRunsClosed'
              /\ Len(runs'[i]) = Len(runs[i]) + 1
            BY <1>1, <2>2, <3>1, StartedInTurn, RunStarts DEF PollerInv
        <3>3. k = Len(runs[i]) + 1
            BY <1>1, <2>2, StartedInTurn
        <3>4. runs'[i] \in Seq(Runs)
            BY <1>1, <3>2
        <3> QED BY <1>1, <1>2, <3>2, <3>3, <3>4 DEF Evolves
    <2> QED BY <2>1, <2>2
<1>4. \/ Goes(t, "sync", work[t]) \/ Goes(t, "forward", work[t])
      \/ BeginsAgain(t, "resolve")
    BY DEF StartWorkflow
<1> QED BY <1>1, <1>2, <1>3, <1>4, GoesPreserves, BeginsAgainPreserves DEF PCs

(* A run that is told of comments or of a signal is a run that changes.    *)
LEMMA ToldEvolves ==
    ASSUME PollerInv, NEW t \in Ticks,
           pc[t] \notin {"idle", "capacity", "next", "resolve", "start"},
           Open(CurrentRun(t)), NEW r \in Runs,
           runs' = [runs EXCEPT ![work[t].issue][work[t].run] = r], UNCHANGED comments
    PROVE  Evolves
<1>1. work[t].issue \in Issues /\ work[t].run \in DOMAIN runs[work[t].issue]
    BY AtWork
<1> QED BY <1>1, RunChanges, NothingChanges DEF PollerInv, CurrentRun, Evolves

(* What the tick listed are places of comments.                            *)
LEMMA ListedType ==
    ASSUME PollerInv, NEW t \in Ticks, NEW i \in Issues, NEW id \in Nat
    PROVE  /\ Listed(t, i) \in SUBSET (1..Len(comments[i]))
           /\ Later(Listed(t, i), id) \in SUBSET (1..Len(comments[i]))
           /\ Len(comments[i]) \in Nat
<1>1. comments[i] \in Seq(Comments)
    BY DEF PollerInv, Shapes
<1> QED BY <1>1 DEF Listed, Later, Written

(* The history is forwarded to the run that was started.                   *)
LEMMA ForwardInv ==
    ASSUME PollerInv, NEW t \in Ticks, ForwardHistory(t)
    PROVE  PollerInv' /\ Evolves
<1>1. /\ work[t].issue \in Issues /\ CurrentRun(t) \in Runs
      /\ work[t].run \in DOMAIN runs[work[t].issue] /\ pc[t] = "forward"
    BY AtWork DEF ForwardHistory
<1>2. UNCHANGED visible /\ UNCHANGED comments
    BY DEF ForwardHistory, issueVars
<1>3. Evolves
    <2>1. CASE Open(CurrentRun(t))
        <3> DEFINE r == Receive(CurrentRun(t), Listed(t, work[t].issue))
        <3>1. r \in Runs
            BY <1>1, ListedType, ReceiveType
        <3>2. runs' = [runs EXCEPT ![work[t].issue][work[t].run] = r]
            BY <2>1 DEF ForwardHistory, CurrentRun
        <3> HIDE DEF r
        <3> QED BY <1>1, <1>2, <2>1, <3>1, <3>2, ToldEvolves
    <2>2. CASE ~Open(CurrentRun(t))
        BY <1>2, <2>2, NothingChanges DEF ForwardHistory, PollerInv, Evolves
    <2> QED BY <2>1, <2>2
<1>4. TakesNext(t) \/ BeginsAgain(t, "resolve")
    BY DEF ForwardHistory
<1> QED BY <1>1, <1>2, <1>3, <1>4, TakesNextPreserves, BeginsAgainPreserves

(* The synchronisation looks at the run before it updates it.              *)
LEMMA SyncInv ==
    ASSUME PollerInv, NEW t \in Ticks, Sync(t)
    PROVE  PollerInv' /\ Evolves
<1>1. /\ work[t] \in Work /\ work[t].issue \in Issues /\ CurrentRun(t) \in Runs
      /\ work[t].run \in DOMAIN runs[work[t].issue]
    BY AtWork DEF Sync
<1>2. Evolves /\ UNCHANGED visible /\ UNCHANGED runs
    BY StutterEvolves DEF Sync, polledVars
<1>3. CASE Goes(t, "view", work[t])
    BY <1>1, <1>2, <1>3, GoesPreserves DEF PCs
<1>4. CASE ~Goes(t, "view", work[t])
    <2> DEFINE known == [work[t] EXCEPT !.found.id = CurrentRun(t).last_seen]
    <2>1. PICK to \in {"detect", "post"} : Goes(t, to, known)
        BY <1>4 DEF Sync
    <2>2. CurrentRun(t).last_seen \in Nat
        BY <1>1 DEF Runs
    <2>3. known \in Work /\ known.issue = work[t].issue /\ known.run = work[t].run
        BY <1>1, <2>2 DEF Work
    <2>4. to \in PCs
        BY DEF PCs
    <2> HIDE DEF known
    <2> QED BY <1>1, <1>2, <2>1, <2>3, <2>4, GoesPreserves
<1> QED BY <1>3, <1>4

LEMMA PostInv ==
    ASSUME PollerInv, NEW t \in Ticks, PostNewComments(t)
    PROVE  PollerInv' /\ Evolves
<1>1. /\ work[t] \in Work /\ work[t].issue \in Issues /\ CurrentRun(t) \in Runs
      /\ work[t].run \in DOMAIN runs[work[t].issue] /\ pc[t] = "post"
    BY AtWork DEF PostNewComments
<1>2. UNCHANGED visible /\ UNCHANGED comments
    BY DEF PostNewComments, issueVars
<1>3. Evolves
    <2>1. CASE Open(CurrentRun(t))
        <3> DEFINE r == Receive(CurrentRun(t),
                                Later(Listed(t, work[t].issue), work[t].found.id))
        <3>1. work[t].found.id \in Nat
            BY <1>1 DEF Work
        <3>2. r \in Runs
            BY <1>1, <3>1, ListedType, ReceiveType
        <3>3. runs' = [runs EXCEPT ![work[t].issue][work[t].run] = r]
            BY <2>1 DEF PostNewComments, CurrentRun
        <3> HIDE DEF r
        <3> QED BY <1>1, <1>2, <2>1, <3>2, <3>3, ToldEvolves
    <2>2. CASE ~Open(CurrentRun(t))
        BY <1>2, <2>2, NothingChanges DEF PostNewComments, PollerInv, Evolves
    <2> QED BY <2>1, <2>2
<1>4. work[t].run \in DOMAIN runs'[work[t].issue]
    BY <1>1, <1>3 DEF Evolves, RunsEvolve
<1>5. Goes(t, "detect", work[t]) \/ BeginsAgain(t, "resolve")
    BY DEF PostNewComments
<1> QED BY <1>1, <1>2, <1>3, <1>4, <1>5, GoesPreserves, BeginsAgainPreserves DEF PCs

(* The quarantine touches no run.                                          *)
LEMMA QuarantineInv ==
    ASSUME PollerInv, NEW t \in Ticks, ViewIssue(t) \/ EditLabels(t) \/ PostMarker(t)
    PROVE  PollerInv' /\ Evolves
<1>1. /\ work[t] \in Work /\ work[t].issue \in Issues /\ work[t].run \in Nat
      /\ work[t].run \in DOMAIN runs[work[t].issue]
      /\ pc[t] \notin {"idle", "capacity", "next", "resolve", "start"}
    BY AtWork DEF ViewIssue, EditLabels, PostMarker
<1>2. UNCHANGED runs /\ UNCHANGED visible
    BY DEF ViewIssue, EditLabels, PostMarker, polledVars
<1>3. Evolves
    <2>1. CASE UNCHANGED comments
        BY <1>2, <2>1, NothingChanges DEF PollerInv, Evolves
    <2>2. CASE ~UNCHANGED comments
        <3>1. comments' = [comments EXCEPT ![work[t].issue] = Append(@, Marker(work[t].run))]
            BY <2>2 DEF ViewIssue, EditLabels, PostMarker, polledVars, issueVars
        <3>2. Marker(work[t].run) \in Comments
            BY <1>1 DEF Marker, Comment, Comments
        <3> QED BY <1>1, <1>2, <3>1, <3>2, CommentAppended, NothingChanges
                DEF PollerInv, Evolves
    <2> QED BY <2>1, <2>2
<1>4. CASE ViewIssue(t)
    <2> DEFINE closure == CurrentRun(t).closure
               known == [work[t] EXCEPT
                   !.drop = Dropped(labels[work[t].issue], closure),
                   !.add = StatusLabels(closure) \ labels[work[t].issue],
                   !.posted = HasMarker(work[t].issue, work[t].run,
                                        Len(comments[work[t].issue]))]
    <2>1. StatusLabels(closure) \in SUBSET StateLabels
        BY DEF StatusLabels, StateLabels
    <2>2. Dropped(labels[work[t].issue], closure) \in SUBSET StateLabels
        BY DEF Dropped
    <2>3. HasMarker(work[t].issue, work[t].run, Len(comments[work[t].issue])) \in BOOLEAN
        BY DEF HasMarker
    <2>4. known \in Work /\ known.issue = work[t].issue /\ known.run = work[t].run
        BY <1>1, <2>1, <2>2, <2>3 DEF Work
    <2>5. Goes(t, "edit", known)
        BY <1>4 DEF ViewIssue
    <2> HIDE DEF known
    <2> QED BY <1>1, <1>2, <1>3, <2>4, <2>5, GoesPreserves DEF PCs
<1>5. CASE EditLabels(t) \/ PostMarker(t)
    <2>1. Goes(t, "comment", work[t]) \/ TakesNext(t) \/ BeginsAgain(t, "view")
        BY <1>5 DEF EditLabels, PostMarker
    <2> QED BY <1>1, <1>2, <1>3, <2>1, GoesPreserves, TakesNextPreserves,
               BeginsAgainPreserves DEF PCs
<1> QED BY <1>4, <1>5

(* Detecting a signal reads, and signaling tells an open run.              *)
LEMMA SignalInv ==
    ASSUME PollerInv, NEW t \in Ticks, DetectApprovalSignal(t) \/ SignalIssueWorkflow(t)
    PROVE  PollerInv' /\ Evolves
<1>1. /\ work[t] \in Work /\ work[t].issue \in Issues /\ CurrentRun(t) \in Runs
      /\ work[t].run \in DOMAIN runs[work[t].issue]
      /\ comments[work[t].issue] \in Seq(Comments)
      /\ pc[t] \notin {"idle", "capacity", "next", "resolve", "start"}
    BY AtWork DEF DetectApprovalSignal, SignalIssueWorkflow
<1>2. CASE DetectApprovalSignal(t)
    <2>1. Evolves /\ UNCHANGED visible /\ UNCHANGED runs
        BY <1>2, StutterEvolves DEF DetectApprovalSignal, polledVars
    <2>2. CASE TakesNext(t)
        BY <2>1, <2>2, TakesNextPreserves
    <2>3. ASSUME NEW signal \in DetectedSignals(work[t].issue, work[t].found.id),
                 Goes(t, "signal", [work[t] EXCEPT !.found = signal])
          PROVE  PollerInv' /\ Evolves
        <3>1. signal \in [kind : Signals, id : Nat]
            <4>1. FirstCommand(work[t].issue, work[t].found.id)
                      \subseteq [kind : Signals, id : Nat]
                BY <1>1 DEF FirstCommand, Signals
            <4> QED BY <4>1 DEF DetectedSignals, Signals, Commands
        <3> DEFINE known == [work[t] EXCEPT !.found = signal]
        <3>2. known \in Work /\ known.issue = work[t].issue /\ known.run = work[t].run
            BY <1>1, <3>1 DEF Work
        <3> HIDE DEF known
        <3>3. Goes(t, "signal", known)
            BY <2>3 DEF known
        <3> QED BY <1>1, <2>1, <3>2, <3>3, GoesPreserves DEF PCs
    <2> QED BY <1>2, <2>2, <2>3 DEF DetectApprovalSignal
<1>3. CASE SignalIssueWorkflow(t)
    <2> DEFINE r == Signaled(CurrentRun(t), work[t].found.kind, work[t].found.id)
    <2>1. work[t].found.kind \in Signals /\ work[t].found.id \in Nat
        BY <1>1 DEF Work
    <2>2. r \in Runs
        BY <1>1, <2>1 DEF Signaled, Runs
    <2>3. /\ runs' = [runs EXCEPT ![work[t].issue][work[t].run] = r]
          /\ Open(CurrentRun(t)) /\ UNCHANGED comments /\ UNCHANGED visible
        BY <1>3 DEF SignalIssueWorkflow, CurrentRun, issueVars
    <2> HIDE DEF r
    <2>4. Evolves
        BY <1>1, <2>2, <2>3, ToldEvolves
    <2>5. work[t].run \in DOMAIN runs'[work[t].issue]
        BY <1>1, <2>4 DEF Evolves, RunsEvolve
    <2>6. TakesNext(t) \/ Goes(t, "signal", work[t])
        BY <1>3 DEF SignalIssueWorkflow
    <2> QED BY <1>1, <2>3, <2>4, <2>5, <2>6, GoesPreserves, TakesNextPreserves DEF PCs
<1> QED BY <1>2, <1>3

(* The activity of a failed attempt begins again.                          *)
LEMMA RestartInv ==
    ASSUME PollerInv, NEW t \in Ticks, ActivityRestarts(t)
    PROVE  PollerInv' /\ Evolves
<1>1. Evolves /\ UNCHANGED visible
    BY StutterEvolves DEF ActivityRestarts
<1> QED BY <1>1, BeginsAgainPreserves DEF ActivityRestarts

-----------------------------------------------------------------------------
(* The theorems.                                                           *)

(* The invariant holds at first, when there are no runs.                   *)
LEMMA PollerInitInv == Init => PollerInv
<1> SUFFICES ASSUME Init PROVE PollerInv
    OBVIOUS
<1> USE DEF Init, PolledInit
<1>1. Shapes
    BY DEF Shapes, NothingVisible, PCs, NoSnapshot, NoWork, Work, Signals
<1>2. EarlierRunsClosed
    BY DEF EarlierRunsClosed
<1>3. VisibleWasSo
    BY DEF VisibleWasSo, NothingVisible
<1>4. ASSUME NEW t \in Ticks PROVE TickKnows(t)
    BY DEF TickKnows
<1> QED BY <1>1, <1>2, <1>3, <1>4 DEF PollerInv

(* Every step preserves it.                                                *)
LEMMA PollerNextInv == PollerInv /\ [Next]_vars => PollerInv' /\ Evolves
<1> SUFFICES ASSUME PollerInv, [Next]_vars PROVE PollerInv' /\ Evolves
    OBVIOUS
<1>1. CASE PolledStep /\ UNCHANGED <<tickVars, failures>>
    BY <1>1, PolledStepInv DEF tickVars
<1>2. ASSUME NEW t \in Ticks, TickStep(t) PROVE PollerInv' /\ Evolves
    BY <1>2, TickFrameInv, ResolveInv, StartInv, ForwardInv, SyncInv, PostInv,
       QuarantineInv, SignalInv DEF TickStep
<1>3. ASSUME NEW t \in Ticks, ActivityRestarts(t) PROVE PollerInv' /\ Evolves
    BY <1>3, RestartInv
<1>4. CASE UNCHANGED vars
    <2>1. Evolves /\ UNCHANGED visible /\ UNCHANGED <<pc, work, todo, snapshot>>
        BY <1>4, StutterEvolves DEF vars, tickVars
    <2>2. VisibleWasSo'
        BY <2>1, VisibleStays DEF PollerInv, Evolves
    <2>3. ASSUME NEW t \in Ticks PROVE TickKnows(t)'
        BY <2>1, TickKnowsStays DEF PollerInv
    <2> QED BY <2>1, <2>2, <2>3 DEF PollerInv, Shapes, Evolves
<1> QED BY <1>1, <1>2, <1>3, <1>4 DEF Next

(* Whatever the number of ticks that watch the same issues, whatever fails *)
(* and however late visibility is, an issue has at most one run at a time: *)
(* start_or_update_issue_workflow_activity, activities.py 1240-1311.       *)
THEOREM OneLiveRunAlways == SafetySpec => []OneLiveRun
<1>1. Init => PollerInv
    BY PollerInitInv
<1>2. PollerInv /\ [Next]_vars => PollerInv'
    BY PollerNextInv
<1>3. PollerInv => OneLiveRun
    BY OnlyLatestLive
<1> QED BY <1>1, <1>2, <1>3, PTL DEF SafetySpec

(* Nor does a run follow another on an issue whose comments do not say how *)
(* that one ended: activities.py 1274-1286.                                *)
THEOREM AcknowledgedRestartAlways == SafetySpec => AcknowledgedRestart
<1> DEFINE Follow == \A i \in Issues : Len(runs'[i]) > Len(runs[i]) /\ runs[i] # <<>>
                       => HasMarker(i, Len(runs[i]), Len(comments[i]))
<1>1. Init => PollerInv
    BY PollerInitInv
<1>2. PollerInv /\ [Next]_vars => PollerInv'
    BY PollerNextInv
<1>3. PollerInv /\ [Next]_vars => [Follow]_vars
    BY PollerNextInv DEF Evolves, RunsEvolve, RunsFollow
<1> QED BY <1>1, <1>2, <1>3, PTL DEF SafetySpec, AcknowledgedRestart

-----------------------------------------------------------------------------
(* The type invariant: what Shapes leaves out is not needed above.         *)

IssueShapes ==
    /\ issue_open \in [Issues -> BOOLEAN]
    /\ labels \in [Issues -> SUBSET (StateLabels \cup ActionLabels)]
    /\ labelings \in [Issues -> 0..MAX_LABELINGS]

TickShapes ==
    /\ remaining \in [Ticks -> 0..MAX_CONCURRENT]
    /\ failures \in 0..MAX_FAILURES

(* Swapping labels leaves labels that exist.                               *)
LEMMA SwapType ==
    ASSUME IssueShapes, NEW i \in Issues, NEW remove,
           NEW add \in SUBSET (StateLabels \cup ActionLabels), Swap(i, remove, add)
    PROVE  labels' \in [Issues -> SUBSET (StateLabels \cup ActionLabels)]
BY DEF IssueShapes, Swap

(* People and runs keep to the labels there are.                           *)
LEMMA PolledShapes ==
    ASSUME IssueShapes, PolledStep
    PROVE  IssueShapes'
<1> USE DEF IssueShapes
<1>1. ASSUME NEW i \in Issues, WriteComment(i) \/ VisibilityCatchesUp(i)
      PROVE  IssueShapes'
    BY <1>1 DEF WriteComment, VisibilityCatchesUp, issueVars
<1>2. ASSUME NEW i \in Issues, PutLabel(i)
      PROVE  IssueShapes'
    <2>1. \E label \in {"ready"} \cup ActionLabels :
              labels' = [labels EXCEPT ![i] = @ \cup {label}]
        BY <1>2 DEF PutLabel
    <2>2. labels' \in [Issues -> SUBSET (StateLabels \cup ActionLabels)]
        BY <2>1 DEF StateLabels
    <2>3. labelings' \in [Issues -> 0..MAX_LABELINGS]
        BY <1>2, PolledBoundsAssumption DEF PutLabel
    <2> QED BY <1>2, <2>2, <2>3 DEF PutLabel
<1>3. ASSUME NEW i \in Issues, NEW n \in 1..MAX_RUNS, RunStep(i, n)
      PROVE  IssueShapes'
    <2>1. UNCHANGED labelings
        BY <1>3 DEF RunStep, TakeUp, Works, OpensGate, DesignApproved, DesignRevised,
                    Canceled, Quarantines, NeedsHuman, Merged, Closes, Fails, Close,
                    CursorGoesBack, issueVars
    <2>2. UNCHANGED issue_open \/ issue_open' = [issue_open EXCEPT ![i] = FALSE]
        BY <1>3 DEF RunStep, TakeUp, Works, OpensGate, DesignApproved, DesignRevised,
                    Canceled, Quarantines, NeedsHuman, Merged, Closes, Fails, Close,
                    CursorGoesBack, issueVars
    <2>3. UNCHANGED labels \/ \E remove, add : add \subseteq StateLabels /\ Swap(i, remove, add)
        <3>1. StatusLabels(runs[i][n].closure) \subseteq StateLabels
            BY DEF StatusLabels, StateLabels
        <3>2. CASE Quarantines(i, n)
            BY <3>1, <3>2 DEF Quarantines
        <3>3. CASE TakeUp(i, n)
            BY <3>3 DEF TakeUp, StateLabels
        <3>4. CASE DesignApproved(i, n)
            BY <3>4 DEF DesignApproved
        <3>5. CASE Canceled(i, n)
            BY <3>5 DEF Canceled, StateLabels
        <3>6. CASE NeedsHuman(i, n) \/ Merged(i, n)
            BY <3>6 DEF NeedsHuman, Merged, StateLabels
        <3> QED BY <1>3, <3>2, <3>3, <3>4, <3>5, <3>6
                DEF RunStep, Works, OpensGate, DesignRevised, Closes, Fails, Close,
                    CursorGoesBack, issueVars
    <2> QED BY <2>1, <2>2, <2>3, SwapType
<1> QED BY <1>1, <1>2, <1>3 DEF PolledStep

(* So does the quarantine of a tick.                                       *)
LEMMA TickIssueShapes ==
    ASSUME PollerInv, IssueShapes, NEW t \in Ticks, TickStep(t) \/ ActivityRestarts(t)
    PROVE  IssueShapes'
<1>1. CASE EditLabels(t)
    <2>1. work[t].issue \in Issues /\ work[t].add \in SUBSET StateLabels
        BY <1>1, AtWork DEF EditLabels, Work
    <2> QED BY <1>1, <2>1, SwapType DEF EditLabels, IssueShapes
<1>2. CASE UNCHANGED <<issue_open, labels, labelings>>
    BY <1>2 DEF IssueShapes
<1> QED BY <1>1, <1>2
        DEF TickStep, ListReadyIssues, Capacity, TakeIssue, TickEnds, ResolveLatestRun,
            StartWorkflow, ForwardHistory, Sync, PostNewComments, ViewIssue, PostMarker,
            DetectApprovalSignal, SignalIssueWorkflow, ActivityRestarts, polledVars, issueVars

(* What capacity leaves is a number of starts, at most MAX_CONCURRENT; a   *)
(* history that was forwarded takes one off.                               *)
LEMMA TickCounts ==
    ASSUME TickShapes, NEW t \in Ticks, TickStep(t) \/ ActivityRestarts(t)
    PROVE  TickShapes'
<1> USE DEF TickShapes
<1>1. UNCHANGED failures \/ AttemptFails(t)
    BY DEF TickStep, ListReadyIssues, Capacity, TakeIssue, TickEnds, ResolveLatestRun,
           StartWorkflow, ForwardHistory, Sync, PostNewComments, ViewIssue, EditLabels,
           PostMarker, DetectApprovalSignal, SignalIssueWorkflow, ActivityRestarts
<1>2. failures' \in 0..MAX_FAILURES
    BY <1>1, FailuresAssumption DEF AttemptFails
<1>3. CASE Capacity(t)
    <2> DEFINE active == Cardinality({i \in Issues : visible[i].open})
    <2>1. active \in Nat
        BY IssuesAssumption, FS_Subset, FS_CardinalityType
    <2>2. (IF active < MAX_CONCURRENT THEN MAX_CONCURRENT - active ELSE 0) \in 0..MAX_CONCURRENT
        BY <2>1, CapacityAssumption
    <2> QED BY <1>2, <1>3, <2>2 DEF Capacity
<1>4. CASE TickEnds(t)
    BY <1>2, <1>4, CapacityAssumption DEF TickEnds
<1>5. CASE ForwardHistory(t)
    <2>1. \/ UNCHANGED remaining
          \/ remaining' = [remaining EXCEPT ![t] = IF @ > 0 THEN @ - 1 ELSE 0]
        BY <1>5 DEF ForwardHistory
    <2> QED BY <1>2, <2>1, CapacityAssumption
<1>6. CASE UNCHANGED remaining
    BY <1>2, <1>6
<1> QED BY <1>3, <1>4, <1>5, <1>6
        DEF TickStep, ListReadyIssues, TakeIssue, ResolveLatestRun, StartWorkflow, Sync,
            PostNewComments, ViewIssue, EditLabels, PostMarker, DetectApprovalSignal,
            SignalIssueWorkflow, ActivityRestarts

(* The poller's variables keep to the values the activities give them.     *)
THEOREM PollerTypeCorrect == SafetySpec => []PollerTypeOK
<1>1. Init => IssueShapes /\ TickShapes
    BY PolledBoundsAssumption, CapacityAssumption, FailuresAssumption
    DEF Init, PolledInit, IssueShapes, TickShapes
<1>2. PollerInv /\ IssueShapes /\ TickShapes /\ [Next]_vars => (IssueShapes /\ TickShapes)'
    <2> SUFFICES ASSUME PollerInv, IssueShapes, TickShapes, [Next]_vars
                 PROVE  IssueShapes' /\ TickShapes'
        OBVIOUS
    <2>1. CASE PolledStep /\ UNCHANGED <<tickVars, failures>>
        BY <2>1, PolledShapes DEF TickShapes, tickVars
    <2>2. ASSUME NEW t \in Ticks, TickStep(t) \/ ActivityRestarts(t)
          PROVE  IssueShapes' /\ TickShapes'
        BY <2>2, TickIssueShapes, TickCounts
    <2>3. CASE UNCHANGED vars
        BY <2>3 DEF vars, polledVars, issueVars, tickVars, IssueShapes, TickShapes
    <2> QED BY <2>1, <2>2, <2>3 DEF Next
<1>3. PollerInv /\ IssueShapes /\ TickShapes => PollerTypeOK
    BY DEF PollerInv, Shapes, IssueShapes, TickShapes, PollerTypeOK, PolledTypeOK
<1> QED BY <1>1, <1>2, <1>3, PollerInitInv, PollerNextInv, PTL DEF SafetySpec

-----------------------------------------------------------------------------
(* A single schedule.  One schedule runs one tick at a time, so that with  *)
(* it nobody but the run itself touches what the tick is about: visibility *)
(* is at most one run behind, and only a latest run is quarantined.        *)

OneSchedule == \A t, u \in Ticks : t = u

Announced(i, n) == \E id \in DOMAIN comments[i] : comments[i][id] = Marker(n)

\* Every run that another followed is announced.
EarlierAnnounced ==
    \A i \in Issues : \A n \in DOMAIN runs[i] : n < Len(runs[i]) => Announced(i, n)

VisibleNear ==
    \A i \in Issues :
        /\ Len(runs[i]) <= visible[i].n + 1
        /\ visible[i].open => visible[i].n = Len(runs[i])

\* The comments the tick listed announce them too.
SnapshotKnows(t) ==
    pc[t] # "idle" =>
        \A i \in Issues : \A n \in DOMAIN runs[i] :
            n < Len(runs[i]) => HasMarker(i, n, snapshot[t][i])

\* What is to be started is the next run, or the one that was started when
\* the attempt before failed.
StartsNext(t) ==
    LET i == work[t].issue
        n == work[t].run
    IN pc[t] = "start" =>
          /\ Len(runs[i]) <= n /\ n <= visible[i].n + 1
          /\ n # 1 => HasMarker(i, n - 1, snapshot[t][i])
          /\ visible[i].open => n \in DOMAIN runs[i]

\* The quarantine is about the latest run, which has closed, and whether its
\* end is announced is as the quarantine saw it.
KnowsLatest(t) ==
    LET i == work[t].issue
        n == work[t].run
    IN /\ pc[t] \in {"sync", "view", "edit", "comment"} => n = Len(runs[i])
       /\ pc[t] \in {"view", "edit", "comment"} => runs[i][n].stage = "closed"
       /\ pc[t] \in {"edit", "comment"} /\ ~work[t].posted => ~Announced(i, n)

SoloInv ==
    /\ EarlierAnnounced /\ VisibleNear
    /\ \A t \in Ticks : SnapshotKnows(t) /\ StartsNext(t) /\ KnowsLatest(t)

(* A marker is announced when it is among all the comments.                *)
LEMMA AnnouncedIs ==
    ASSUME Shapes, NEW i \in Issues, NEW n
    PROVE  /\ HasMarker(i, n, Len(comments[i])) <=> Announced(i, n)
           /\ \A length \in Nat : HasMarker(i, n, length) => Announced(i, n)
<1>1. comments[i] \in Seq(Comments) /\ DOMAIN comments[i] = 1..Len(comments[i])
    BY DEF Shapes
<1> QED BY <1>1 DEF HasMarker, Announced

(* What is announced stays so.                                             *)
LEMMA AnnouncedStays ==
    ASSUME CommentsGrow, NEW i \in Issues, NEW n
    PROVE  /\ Announced(i, n) => Announced(i, n)'
           /\ \A length : HasMarker(i, n, length)
                => \E id \in 1..length : id \in DOMAIN comments'[i] /\ comments'[i][id] = Marker(n)
BY DEF CommentsGrow, Announced, HasMarker

(* A step that starts no run leaves the runs' numbers.                     *)
NoRunStarts == \A i \in Issues : Len(runs'[i]) = Len(runs[i])

LEMMA RunChangeStartsNone ==
    ASSUME Shapes, NEW i \in Issues, NEW n \in DOMAIN runs[i], NEW r,
           runs' = [runs EXCEPT ![i][n] = r], runs' \in [Issues -> Seq(Runs)]
    PROVE  NoRunStarts
<1>1. \A j \in Issues : DOMAIN runs'[j] = DOMAIN runs[j]
    BY DEF Shapes
<1>2. \A j \in Issues : /\ runs[j] \in Seq(Runs) /\ runs'[j] \in Seq(Runs)
                        /\ Len(runs[j]) \in Nat /\ Len(runs'[j]) \in Nat
                        /\ DOMAIN runs[j] = 1..Len(runs[j])
                        /\ DOMAIN runs'[j] = 1..Len(runs'[j])
    BY DEF Shapes
<1> QED BY <1>1, <1>2 DEF NoRunStarts

(* Neither people nor runs start a run.                                    *)
LEMMA PolledStartsNone ==
    ASSUME Shapes, Evolves, PolledStep
    PROVE  NoRunStarts
<1>1. ASSUME NEW i \in Issues, WriteComment(i) \/ PutLabel(i) \/ VisibilityCatchesUp(i)
      PROVE  NoRunStarts
    BY <1>1 DEF WriteComment, PutLabel, VisibilityCatchesUp, NoRunStarts
<1>2. ASSUME NEW i \in Issues, NEW n \in 1..MAX_RUNS, RunStep(i, n)
      PROVE  NoRunStarts
    <2>1. n \in DOMAIN runs[i] /\ \E r : runs' = [runs EXCEPT ![i][n] = r]
        <3>1. ASSUME NEW from, NEW to, Moves(i, n, from, to)
              PROVE  /\ n \in DOMAIN runs[i]
                     /\ runs' = [runs EXCEPT ![i][n] = [runs[i][n] EXCEPT !.stage = to]]
            BY <3>1 DEF Moves
        <3>2. ASSUME NEW from, NEW to, MovesToGate(i, n, from, to)
              PROVE  /\ n \in DOMAIN runs[i]
                     /\ runs' = [runs EXCEPT ![i][n] =
                                    [runs[i][n] EXCEPT !.stage = to, !.signal = "none"]]
            BY <3>2 DEF MovesToGate
        <3>3. CASE TakeUp(i, n) \/ Works(i, n) \/ DesignApproved(i, n) \/ Quarantines(i, n)
                   \/ NeedsHuman(i, n) \/ Merged(i, n)
            BY <3>1, <3>3 DEF TakeUp, Works, DesignApproved, Quarantines, NeedsHuman, Merged
        <3>4. CASE OpensGate(i, n) \/ DesignRevised(i, n)
            BY <3>2, <3>4 DEF OpensGate, DesignRevised
        <3>5. CASE Canceled(i, n)
            <4> DEFINE rejected == Signal(i, n) = "Reject" /\ runs[i][n].stage = "merge_gate"
                       closure == IF rejected THEN "rejected" ELSE "canceled"
            <4>1. runs' = [runs EXCEPT ![i][n] =
                              [runs[i][n] EXCEPT !.stage = "quarantine", !.closure = closure]]
                BY <3>5 DEF Canceled
            <4> QED BY <3>5, <4>1 DEF Canceled
        <3>6. CASE Closes(i, n) \/ Fails(i, n)
            BY <3>6 DEF Closes, Fails, Close
        <3>7. CASE CursorGoesBack(i, n)
            <4>1. PICK id : runs' = [runs EXCEPT ![i][n].last_seen = id]
                BY <3>7 DEF CursorGoesBack
            <4>2. runs' = [runs EXCEPT ![i][n] = [runs[i][n] EXCEPT !.last_seen = id]]
                BY <4>1
            <4> QED BY <3>7, <4>2 DEF CursorGoesBack
        <3> QED BY <1>2, <3>3, <3>4, <3>5, <3>6, <3>7 DEF RunStep
    <2> QED BY <2>1, RunChangeStartsNone DEF Evolves
<1> QED BY <1>1, <1>2 DEF PolledStep

(* Only a run in its quarantine announces anything by itself.              *)
LEMMA PolledAnnounces ==
    ASSUME Shapes, PolledStep, NEW i \in Issues, NEW n \in DOMAIN runs[i],
           runs[i][n].stage = "closed", Announced(i, n)'
    PROVE  Announced(i, n)
<1>1. \A j \in Issues : comments[j] \in Seq(Comments)
    BY DEF Shapes
<1>2. CASE UNCHANGED comments
    BY <1>2 DEF Announced
<1>3. ASSUME NEW j \in Issues, NEW c, c # Marker(n) \/ j # i,
             comments' = [comments EXCEPT ![j] = Append(@, c)]
      PROVE  Announced(i, n)
    <2>1. PICK id \in DOMAIN comments'[i] : comments'[i][id] = Marker(n)
        BY DEF Announced
    <2>2. CASE j # i
        <3>1. comments'[i] = comments[i]
            BY <1>3, <2>2 DEF Shapes
        <3> QED BY <2>1, <3>1 DEF Announced
    <2>3. CASE j = i
        <3>1. comments'[i] = Append(comments[i], c)
            BY <1>3, <2>3 DEF Shapes
        <3>2. id # Len(comments[i]) + 1
            BY <1>1, <1>3, <2>1, <2>3, <3>1
        <3>3. id \in DOMAIN comments[i] /\ comments[i][id] = Marker(n)
            BY <1>1, <2>1, <3>1, <3>2
        <3> QED BY <3>3 DEF Announced
    <2> QED BY <2>2, <2>3
<1>4. ASSUME NEW j \in Issues, WriteComment(j) PROVE Announced(i, n)
    <2>1. PICK kind \in CommentKinds :
              comments' = [comments EXCEPT ![j] = Append(@, Comment(kind, 0))]
        BY <1>4 DEF WriteComment
    <2>2. Comment(kind, 0) # Marker(n)
        BY CommentKindsAssumption DEF Comment, Marker, WrittenKinds, Commands
    <2> QED BY <1>3, <2>1, <2>2
<1>5. ASSUME NEW j \in Issues, NEW m \in 1..MAX_RUNS, Quarantines(j, m)
      PROVE  Announced(i, n)
    <2>1. j # i \/ m # n
        BY <1>5 DEF Quarantines, Moves
    <2>2. Marker(m) # Marker(n) \/ j # i
        BY <2>1 DEF Marker, Comment
    <2>3. UNCHANGED comments \/ comments' = [comments EXCEPT ![j] = Append(@, Marker(m))]
        BY <1>5 DEF Quarantines
    <2>4. ASSUME comments' = [comments EXCEPT ![j] = Append(@, Marker(m))]
          PROVE  Announced(i, n)
        <3> DEFINE c == Marker(m)
        <3>1. c # Marker(n) \/ j # i
            BY <2>2
        <3>2. comments' = [comments EXCEPT ![j] = Append(@, c)]
            BY <2>4
        <3> HIDE DEF c
        <3> QED BY <1>3, <3>1, <3>2
    <2> QED BY <1>2, <2>3, <2>4
<1>6. ASSUME NEW j \in Issues, NEW m \in 1..MAX_RUNS, RunStep(j, m)
      PROVE  Announced(i, n)
    <2>1. Quarantines(j, m) \/ UNCHANGED comments
        BY <1>6 DEF RunStep, TakeUp, Works, OpensGate, DesignApproved, DesignRevised,
                    Canceled, NeedsHuman, Merged, Closes, Fails, Close, CursorGoesBack,
                    issueVars
    <2> QED BY <1>2, <1>5, <2>1
<1>7. ASSUME NEW j \in Issues, PutLabel(j) \/ VisibilityCatchesUp(j)
      PROVE  Announced(i, n)
    BY <1>2, <1>7 DEF PutLabel, VisibilityCatchesUp, issueVars
<1> QED BY <1>4, <1>6, <1>7 DEF PolledStep

(* What is known with a single schedule stays so while no tick acts.       *)
LEMMA SoloPolled ==
    ASSUME PollerInv, SoloInv, PolledStep, UNCHANGED tickVars
    PROVE  SoloInv'
<1> USE DEF SoloInv
<1>1. PollerInv' /\ Evolves /\ Shapes /\ Shapes' /\ CommentsGrow
    BY PolledStepInv DEF PollerInv, Evolves
<1>2. NoRunStarts
    BY <1>1, PolledStartsNone
<1>3. \A i \in Issues :
          /\ runs[i] \in Seq(Runs) /\ runs'[i] \in Seq(Runs)
          /\ Len(runs'[i]) = Len(runs[i]) /\ Len(runs[i]) \in Nat
          /\ DOMAIN runs[i] = 1..Len(runs[i]) /\ DOMAIN runs'[i] = 1..Len(runs[i])
    BY <1>1, <1>2 DEF NoRunStarts, Shapes
<1>4. EarlierAnnounced'
    BY <1>1, <1>3, AnnouncedStays DEF EarlierAnnounced
<1>5. ASSUME NEW i \in Issues
      PROVE  \/ UNCHANGED visible[i]
             \/ visible'[i] = Latest(i) /\ runs'[i] = runs[i]
    <2>1. UNCHANGED visible \/ \E j \in Issues : VisibilityCatchesUp(j)
        <3>1. ASSUME NEW j \in Issues, NEW n \in 1..MAX_RUNS, RunStep(j, n)
              PROVE  UNCHANGED visible
            BY <3>1 DEF RunStep, TakeUp, Works, OpensGate, DesignApproved, DesignRevised,
                        Canceled, Quarantines, NeedsHuman, Merged, Closes, Fails, Close,
                        CursorGoesBack
        <3> QED BY <3>1 DEF PolledStep, WriteComment, PutLabel
    <2> QED BY <1>1, <2>1 DEF VisibilityCatchesUp, Shapes
<1>6. ASSUME NEW i \in Issues
      PROVE  /\ Latest(i).n = Len(runs[i])
             /\ Latest(i).open <=> runs[i] # <<>> /\ runs[i][Len(runs[i])].stage # "closed"
    <2>1. CASE runs[i] = <<>>
        BY <2>1 DEF Latest, NothingVisible
    <2>2. CASE runs[i] # <<>>
        <3>1. Latest(i) = [n |-> Len(runs[i]), open |-> Open(runs[i][Len(runs[i])])]
            BY <2>2 DEF Latest
        <3>2. Latest(i).n = Len(runs[i])
            BY <3>1
        <3>3. Latest(i).open = Open(runs[i][Len(runs[i])])
            BY <3>1
        <3>4. Latest(i).open <=> runs[i][Len(runs[i])].stage # "closed"
            BY <3>3, Zenon DEF Open
        <3> QED BY <2>2, <3>2, <3>4
    <2> QED BY <2>1, <2>2
<1>7. VisibleNear'
    <2> SUFFICES ASSUME NEW i \in Issues
                 PROVE  /\ Len(runs'[i]) <= visible'[i].n + 1
                        /\ visible'[i].open => visible'[i].n = Len(runs'[i])
        BY DEF VisibleNear
    <2>1. CASE visible'[i] = visible[i]
        BY <1>3, <2>1 DEF VisibleNear
    <2>2. CASE visible'[i] = Latest(i)
        BY <1>3, <1>6, <2>2
    <2> QED BY <1>5, <2>1, <2>2
<1>8. ASSUME NEW t \in Ticks PROVE SnapshotKnows(t)'
    <2>1. pc'[t] = pc[t] /\ snapshot'[t] = snapshot[t]
        BY DEF tickVars
    <2>2. ASSUME pc[t] # "idle", NEW i \in Issues, NEW n \in DOMAIN runs'[i], n < Len(runs'[i])
          PROVE  HasMarker(i, n, snapshot[t][i])'
        <3>1. HasMarker(i, n, snapshot[t][i])
            BY <1>3, <2>2 DEF SnapshotKnows
        <3> QED BY <1>1, <2>1, <3>1, AnnouncedStays DEF HasMarker
    <2> QED BY <2>1, <2>2 DEF SnapshotKnows
<1>9. ASSUME NEW t \in Ticks PROVE StartsNext(t)'
    <2> DEFINE i == work[t].issue
               n == work[t].run
    <2>1. pc'[t] = pc[t] /\ snapshot'[t] = snapshot[t] /\ work'[t] = work[t]
        BY DEF tickVars
    <2> SUFFICES ASSUME pc[t] = "start"
                 PROVE  /\ Len(runs'[i]) <= n /\ n <= visible'[i].n + 1
                        /\ n # 1 => HasMarker(i, n - 1, snapshot[t][i])'
                        /\ visible'[i].open => n \in DOMAIN runs'[i]
        BY <2>1 DEF StartsNext, HasMarker
    <2>2. i \in Issues /\ n \in Nat
        BY AtWork
    <2>3. /\ Len(runs[i]) <= n /\ n <= visible[i].n + 1
          /\ n # 1 => HasMarker(i, n - 1, snapshot[t][i])
          /\ visible[i].open => n \in DOMAIN runs[i]
        BY DEF StartsNext
    <2>4. n # 1 => HasMarker(i, n - 1, snapshot[t][i])'
        BY <1>1, <2>1, <2>2, <2>3, AnnouncedStays DEF HasMarker
    <2>5. n = 1 \/ (n - 1 \in DOMAIN runs[i] /\ runs[i][n - 1].stage = "closed")
        BY DEF PollerInv, TickKnows, Acknowledged
    <2>6. CASE visible'[i] = visible[i]
        BY <1>3, <2>2, <2>3, <2>4, <2>6
    <2>7. CASE visible'[i] = Latest(i)
        <3>1. n <= Len(runs[i]) + 1
            BY <1>3, <2>2, <2>5
        <3>2. n = Len(runs[i]) \/ n = Len(runs[i]) + 1
            BY <1>3, <2>2, <2>3, <3>1
        <3>3. Latest(i).open => n \in DOMAIN runs[i]
            BY <1>3, <1>6, <2>2, <2>5, <3>2
        <3> QED BY <1>3, <1>6, <2>2, <2>3, <2>4, <2>7, <3>1, <3>3
    <2> QED BY <1>5, <2>2, <2>6, <2>7
<1>10. ASSUME NEW t \in Ticks PROVE KnowsLatest(t)'
    <2> DEFINE i == work[t].issue
               n == work[t].run
    <2>1. pc'[t] = pc[t] /\ work'[t] = work[t]
        BY DEF tickVars
    <2> SUFFICES ASSUME pc[t] \in {"sync", "view", "edit", "comment"}
                 PROVE  /\ n = Len(runs'[i])
                        /\ pc[t] # "sync" => runs'[i][n].stage = "closed"
                        /\ pc[t] \in {"edit", "comment"} /\ ~work[t].posted
                              => ~Announced(i, n)'
        BY <2>1 DEF KnowsLatest, Announced
    <2>2. i \in Issues /\ n \in DOMAIN runs[i]
        BY AtWork
    <2>3. /\ n = Len(runs[i])
          /\ pc[t] # "sync" => runs[i][n].stage = "closed"
          /\ pc[t] \in {"edit", "comment"} /\ ~work[t].posted => ~Announced(i, n)
        BY DEF KnowsLatest
    <2>4. pc[t] # "sync" => runs'[i][n].stage = "closed"
        BY <1>1, <2>2, <2>3 DEF Evolves, RunsEvolve
    <2>5. pc[t] \in {"edit", "comment"} /\ ~work[t].posted => ~Announced(i, n)'
        <3>1. \A j \in Issues : \A m \in DOMAIN runs[j] :
                  runs[j][m].stage = "closed" /\ ~Announced(j, m)
                      => ~\E id \in DOMAIN comments'[j] : comments'[j][id] = Marker(m)
            BY <1>1, PolledAnnounces DEF Announced
        <3> QED BY <2>1, <2>2, <2>3, <3>1 DEF Announced
    <2> QED BY <1>3, <2>2, <2>3, <2>4, <2>5
<1> QED BY <1>4, <1>7, <1>8, <1>9, <1>10

(* What a tick must know for going on with its issue to keep this.         *)
KnowsEnough(t, to, known) ==
    /\ to = "start" =>
          /\ Len(runs[known.issue]) <= known.run
          /\ known.run <= visible[known.issue].n + 1
          /\ known.run # 1 => HasMarker(known.issue, known.run - 1, snapshot[t][known.issue])
          /\ visible[known.issue].open => known.run \in DOMAIN runs[known.issue]
    /\ to \in {"sync", "view", "edit", "comment"} =>
          known.run \in DOMAIN runs[known.issue] /\ known.run = Len(runs[known.issue])
    /\ to \in {"view", "edit", "comment"} =>
          runs[known.issue][known.run].stage = "closed"
    /\ to \in {"edit", "comment"} =>
          UNCHANGED comments /\ (~known.posted => ~Announced(known.issue, known.run))

LEMMA SoloGoes ==
    ASSUME PollerInv, SoloInv, OneSchedule, NEW t \in Ticks, pc[t] # "idle",
           PollerInv', Evolves, NoRunStarts, UNCHANGED visible,
           NEW to, NEW known, Goes(t, to, known),
           to \notin {"idle", "capacity", "next"} => known.issue \in Issues,
           KnowsEnough(t, to, known)
    PROVE  SoloInv'
<1> USE DEF SoloInv
<1>1. /\ pc'[t] = to /\ work'[t] = known /\ snapshot'[t] = snapshot[t]
      /\ Shapes /\ CommentsGrow /\ RunsEvolve
    BY DEF PollerInv, Shapes, Goes, Evolves
<1>2. \A i \in Issues :
          /\ runs[i] \in Seq(Runs) /\ runs'[i] \in Seq(Runs)
          /\ Len(runs'[i]) = Len(runs[i]) /\ Len(runs[i]) \in Nat
          /\ DOMAIN runs[i] = 1..Len(runs[i]) /\ DOMAIN runs'[i] = 1..Len(runs[i])
    BY DEF PollerInv, NoRunStarts, Shapes
<1>3. EarlierAnnounced' /\ VisibleNear'
    BY <1>1, <1>2, AnnouncedStays DEF EarlierAnnounced, VisibleNear
<1>4. SnapshotKnows(t)'
    <2> SUFFICES ASSUME NEW i \in Issues, NEW n \in DOMAIN runs'[i], n < Len(runs'[i])
                 PROVE  HasMarker(i, n, snapshot[t][i])'
        BY <1>1 DEF SnapshotKnows
    <2>1. HasMarker(i, n, snapshot[t][i])
        BY <1>2 DEF SnapshotKnows
    <2> QED BY <1>1, <2>1, AnnouncedStays DEF HasMarker
<1>5. ASSUME to = "start"
      PROVE  StartsNext(t)'
    <2> DEFINE i == known.issue
               n == known.run
    <2>1. i \in Issues
        BY <1>5
    <2>2. /\ Len(runs[i]) <= n /\ n <= visible[i].n + 1
          /\ n # 1 => HasMarker(i, n - 1, snapshot[t][i])
          /\ visible[i].open => n \in DOMAIN runs[i]
        BY <1>5 DEF KnowsEnough
    <2>3. n # 1 => \E id \in 1..snapshot[t][i] :
                       id \in DOMAIN comments'[i] /\ comments'[i][id] = Marker(n - 1)
        BY <1>1, <2>1, <2>2, AnnouncedStays
    <2> HIDE DEF i, n
    <2>4. /\ Len(runs'[i]) <= n /\ n <= visible'[i].n + 1
          /\ visible'[i].open => n \in DOMAIN runs'[i]
        BY <1>2, <2>1, <2>2
    <2> QED BY <1>1, <2>3, <2>4 DEF StartsNext, HasMarker, i, n
<1>6. to # "start" => StartsNext(t)'
    BY <1>1 DEF StartsNext
<1>7. KnowsLatest(t)'
    <2> SUFFICES ASSUME to \in {"sync", "view", "edit", "comment"}
                 PROVE  KnowsLatest(t)'
        BY <1>1 DEF KnowsLatest
    <2> DEFINE i == known.issue
               n == known.run
    <2>1. i \in Issues /\ n \in DOMAIN runs[i] /\ n = Len(runs[i])
        BY DEF KnowsEnough
    <2>2. n = Len(runs'[i])
        BY <1>2, <2>1
    <2>3. to # "sync" => runs'[i][n].stage = "closed"
        BY <1>1, <2>1 DEF KnowsEnough, RunsEvolve
    <2>4. to \in {"edit", "comment"} /\ ~known.posted =>
              ~\E id \in DOMAIN comments'[i] : comments'[i][id] = Marker(n)
        BY DEF KnowsEnough, Announced
    <2> HIDE DEF i, n
    <2> QED BY <1>1, <2>2, <2>3, <2>4 DEF KnowsLatest, Announced, i, n
<1>8. \A u \in Ticks : u = t
    BY DEF OneSchedule
<1> QED BY <1>3, <1>4, <1>5, <1>6, <1>7, <1>8

(* Taking the next issue, and synchronising again, ask for no knowledge.   *)
LEMMA SoloTakesNext ==
    ASSUME PollerInv, SoloInv, OneSchedule, NEW t \in Ticks, pc[t] # "idle",
           PollerInv', Evolves, NoRunStarts, UNCHANGED visible, TakesNext(t)
    PROVE  SoloInv'
BY SoloGoes DEF TakesNext, KnowsEnough

LEMMA SoloBeginsAgain ==
    ASSUME PollerInv, SoloInv, OneSchedule, NEW t \in Ticks,
           pc[t] \notin {"idle", "capacity", "next"},
           PollerInv', Evolves, NoRunStarts, UNCHANGED visible,
           \/ BeginsAgain(t, "resolve")
           \/ BeginsAgain(t, "view") /\ pc[t] \in {"view", "edit", "comment"}
    PROVE  SoloInv'
<1>1. work[t].issue \in Issues
    BY AtWork
<1>2. CASE BeginsAgain(t, "resolve")
    <2> DEFINE known == [NoWork EXCEPT !.issue = work[t].issue, !.run = 0]
    <2>1. Goes(t, "resolve", known)
        BY <1>2 DEF BeginsAgain
    <2>2. known.issue = work[t].issue
        BY DEF NoWork
    <2> HIDE DEF known
    <2> QED BY <1>1, <2>1, <2>2, SoloGoes DEF KnowsEnough
<1>3. CASE BeginsAgain(t, "view") /\ pc[t] \in {"view", "edit", "comment"}
    <2> DEFINE known == [NoWork EXCEPT !.issue = work[t].issue, !.run = work[t].run]
    <2>1. Goes(t, "view", known)
        BY <1>3 DEF BeginsAgain
    <2>2. known.issue = work[t].issue /\ known.run = work[t].run
        BY DEF NoWork
    <2>3. KnowsEnough(t, "view", known)
        BY <1>3, <2>2, AtWork DEF SoloInv, KnowsLatest, KnowsEnough
    <2> HIDE DEF known
    <2> QED BY <1>1, <2>1, <2>2, <2>3, SoloGoes
<1> QED BY <1>2, <1>3

(* The tick begins with the comments that are there, takes issues, ends.   *)
LEMMA SoloFrame ==
    ASSUME PollerInv, SoloInv, OneSchedule, NEW t \in Ticks, PollerInv', Evolves,
           ListReadyIssues(t) \/ Capacity(t) \/ TakeIssue(t) \/ TickEnds(t)
    PROVE  SoloInv'
<1> USE DEF SoloInv
<1>1. UNCHANGED polledVars /\ NoRunStarts
    BY DEF ListReadyIssues, Capacity, TakeIssue, TickEnds, polledVars, NoRunStarts
<1>2. UNCHANGED <<runs, comments, visible>>
    BY <1>1 DEF polledVars, issueVars
<1>3. EarlierAnnounced' /\ VisibleNear'
    BY <1>2 DEF EarlierAnnounced, VisibleNear, Announced
<1>4. pc'[t] \in {"capacity", "next", "resolve", "idle"}
    BY DEF ListReadyIssues, Capacity, TakeIssue, TickEnds, TakesNext, Goes, PollerInv, Shapes
<1>5. StartsNext(t)' /\ KnowsLatest(t)'
    BY <1>4 DEF StartsNext, KnowsLatest
<1>6. SnapshotKnows(t)'
    <2>1. CASE ListReadyIssues(t)
        <3>1. \A i \in Issues : snapshot'[t][i] = Len(comments[i])
            BY <2>1 DEF ListReadyIssues, PollerInv, Shapes
        <3>2. \A i \in Issues : \A n \in DOMAIN runs[i] :
                  n < Len(runs[i]) => HasMarker(i, n, Len(comments[i]))
            BY AnnouncedIs DEF PollerInv, EarlierAnnounced
        <3> QED BY <1>2, <3>1, <3>2 DEF SnapshotKnows, HasMarker
    <2>2. CASE Capacity(t) \/ TakeIssue(t)
        <3>1. snapshot' = snapshot /\ pc[t] # "idle"
            BY <2>2 DEF Capacity, TakeIssue, TakesNext, Goes
        <3> QED BY <1>2, <3>1 DEF SnapshotKnows, HasMarker
    <2>3. CASE TickEnds(t)
        BY <2>3 DEF TickEnds, SnapshotKnows, PollerInv, Shapes
    <2> QED BY <2>1, <2>2, <2>3
<1>7. \A u \in Ticks : u = t
    BY DEF OneSchedule
<1> QED BY <1>3, <1>5, <1>6, <1>7

(* Visibility, at most a run behind, decides what is done about the run.   *)
LEMMA SoloResolve ==
    ASSUME PollerInv, SoloInv, OneSchedule, NEW t \in Ticks, PollerInv', Evolves,
           ResolveLatestRun(t)
    PROVE  SoloInv'
<1> DEFINE i == work[t].issue
           latest == visible[i]
           About(n) == [work[t] EXCEPT !.run = n]
<1>1. /\ pc[t] = "resolve" /\ UNCHANGED <<runs, comments, visible>>
      /\ NoRunStarts
    BY DEF ResolveLatestRun, polledVars, issueVars, NoRunStarts
<1>2. work[t] \in Work /\ i \in Issues /\ runs[i] \in Seq(Runs)
    BY <1>1, AtWork
<1>3. latest.n \in Nat /\ latest.open \in BOOLEAN
    BY <1>2 DEF PollerInv, Shapes
<1>4. ASSUME NEW n PROVE About(n).issue = i /\ About(n).run = n
    BY <1>2 DEF Work
<1>5. /\ latest.n # 0 => latest.n \in DOMAIN runs[i]
      /\ latest.n = 0 => ~latest.open
      /\ latest.n # 0 /\ ~latest.open => runs[i][latest.n].stage = "closed"
      /\ Len(runs[i]) <= latest.n + 1
      /\ latest.open => latest.n = Len(runs[i])
    BY <1>2 DEF PollerInv, VisibleWasSo, SoloInv, VisibleNear
<1>6. \A n \in DOMAIN runs[i] : n < Len(runs[i]) => HasMarker(i, n, snapshot[t][i])
    BY <1>1, <1>2 DEF SoloInv, SnapshotKnows
<1>7. CASE latest.open /\ Goes(t, "sync", About(latest.n))
    <2>1. KnowsEnough(t, "sync", About(latest.n))
        BY <1>4, <1>5, <1>7 DEF KnowsEnough
    <2> QED BY <1>1, <1>2, <1>4, <1>7, <2>1, SoloGoes
<1>8. CASE /\ ~latest.open /\ latest.n # 0 /\ ~HasMarker(i, latest.n, snapshot[t][i])
           /\ Goes(t, "view", About(latest.n))
    <2>1. latest.n \in DOMAIN runs[i] /\ runs[i][latest.n].stage = "closed"
        BY <1>5, <1>8
    <2>2. latest.n = Len(runs[i])
        BY <1>2, <1>6, <1>8, <2>1
    <2>3. KnowsEnough(t, "view", About(latest.n))
        BY <1>4, <2>1, <2>2 DEF KnowsEnough
    <2> QED BY <1>1, <1>2, <1>4, <1>8, <2>3, SoloGoes
<1>9. CASE /\ ~latest.open
           /\ latest.n = 0 \/ HasMarker(i, latest.n, snapshot[t][i])
           /\ Goes(t, "start", About(latest.n + 1))
    <2> DEFINE known == About(latest.n + 1)
    <2>1. known.issue = i /\ known.run = latest.n + 1
        BY <1>4
    <2> HIDE DEF known
    <2>2. known.run - 1 = latest.n
        BY <1>3, <2>1
    <2>3. KnowsEnough(t, "start", known)
        <3>1. known.run # 1 => latest.n # 0
            BY <2>1
        <3>2. known.run # 1 => HasMarker(i, latest.n, snapshot[t][i])
            BY <1>9, <3>1
        <3>3. known.run # 1 =>
                  HasMarker(known.issue, known.run - 1, snapshot[t][known.issue])
            BY <2>1, <2>2, <3>2
        <3>4. ~visible[known.issue].open
            BY <1>9, <2>1
        <3>5. Len(runs[known.issue]) <= known.run /\ known.run <= visible[known.issue].n + 1
            BY <1>3, <1>5, <2>1
        <3> QED BY <3>3, <3>4, <3>5 DEF KnowsEnough
    <2>4. Goes(t, "start", known)
        BY <1>9 DEF known
    <2> QED BY <1>1, <1>2, <2>1, <2>3, <2>4, SoloGoes
<1>10. CASE TakesNext(t)
    BY <1>1, <1>10, SoloTakesNext
<1> QED BY <1>7, <1>8, <1>9, <1>10 DEF ResolveLatestRun

(* The next run starts, and is the latest then; or the attempt before had  *)
(* started it.                                                             *)
LEMMA SoloStart ==
    ASSUME PollerInv, SoloInv, OneSchedule, NEW t \in Ticks, PollerInv', Evolves,
           StartWorkflow(t)
    PROVE  SoloInv'
<1> DEFINE i == work[t].issue
           n == work[t].run
<1>1. pc[t] = "start" /\ UNCHANGED <<comments, visible>>
    BY DEF StartWorkflow, issueVars
<1>2. i \in Issues /\ n \in Nat /\ runs[i] \in Seq(Runs)
    BY <1>1, AtWork
<1>3. /\ Len(runs[i]) <= n /\ n <= visible[i].n + 1
      /\ n # 1 => HasMarker(i, n - 1, snapshot[t][i])
      /\ visible[i].open => n \in DOMAIN runs[i]
    BY <1>1 DEF SoloInv, StartsNext
<1>4. CASE n \in DOMAIN runs[i]
    <2>1. UNCHANGED runs /\ NoRunStarts
        BY <1>4 DEF StartWorkflow, NoRunStarts
    <2>2. n = Len(runs[i])
        BY <1>2, <1>3, <1>4
    <2>3. CASE Goes(t, "sync", work[t])
        <3>1. KnowsEnough(t, "sync", work[t])
            BY <1>4, <2>2 DEF KnowsEnough
        <3> QED BY <1>1, <1>2, <2>1, <2>3, <3>1, SoloGoes
    <2>4. CASE BeginsAgain(t, "resolve")
        BY <1>1, <2>1, <2>4, SoloBeginsAgain
    <2> QED BY <1>4, <2>3, <2>4 DEF StartWorkflow
<1>5. CASE n \notin DOMAIN runs[i]
    <2>1. n = Len(runs[i]) + 1
        BY <1>1, <1>5, StartedInTurn
    <2>2. runs' = [runs EXCEPT ![i] = Append(@, NewRun)]
        BY <1>5 DEF StartWorkflow
    <2>3. /\ Len(runs'[i]) = n /\ DOMAIN runs'[i] = 1..n
          /\ \A j \in Issues \ {i} : runs'[j] = runs[j]
        BY <1>2, <2>1, <2>2 DEF PollerInv, Shapes
    <2>4. ASSUME NEW m \in DOMAIN runs'[i], m < Len(runs'[i])
          PROVE  /\ HasMarker(i, m, snapshot[t][i])
                 /\ Announced(i, m)
        <3>1. m \in DOMAIN runs[i]
            BY <1>2, <2>1, <2>3, <2>4
        <3>2. CASE m < Len(runs[i])
            BY <1>1, <1>2, <3>1, <3>2 DEF SoloInv, SnapshotKnows, EarlierAnnounced
        <3>3. CASE m >= Len(runs[i])
            <4>1. m = n - 1 /\ n # 1
                BY <1>2, <2>1, <3>1, <3>3
            <4>2. HasMarker(i, m, snapshot[t][i])
                BY <1>3, <4>1
            <4>3. snapshot[t][i] \in Nat
                BY <1>2 DEF PollerInv, Shapes
            <4> QED BY <1>2, <4>2, <4>3, AnnouncedIs DEF PollerInv
        <3> QED BY <1>2, <3>1, <3>2, <3>3
    <2>5. EarlierAnnounced'
        <3> SUFFICES ASSUME NEW j \in Issues, NEW m \in DOMAIN runs'[j], m < Len(runs'[j])
                     PROVE  Announced(j, m)
            BY <1>1 DEF EarlierAnnounced, Announced
        <3>1. CASE j = i
            BY <2>4, <3>1
        <3>2. CASE j # i
            BY <2>3, <3>2 DEF SoloInv, EarlierAnnounced
        <3> QED BY <3>1, <3>2
    <2>6. VisibleNear'
        <3>1. ~visible[i].open
            BY <1>3, <1>5
        <3> QED BY <1>1, <1>3, <2>3, <3>1 DEF SoloInv, VisibleNear
    <2>7. snapshot' = snapshot /\ pc'[t] \in {"forward", "resolve"}
        BY <1>5 DEF StartWorkflow, BeginsAgain, Goes, PollerInv, Shapes
    <2>8. SnapshotKnows(t)'
        <3> SUFFICES ASSUME NEW j \in Issues, NEW m \in DOMAIN runs'[j], m < Len(runs'[j])
                     PROVE  HasMarker(j, m, snapshot[t][j])
            BY <1>1, <2>7 DEF SnapshotKnows, HasMarker
        <3>1. CASE j = i
            BY <2>4, <3>1
        <3>2. CASE j # i
            BY <1>1, <2>3, <3>2 DEF SoloInv, SnapshotKnows
        <3> QED BY <3>1, <3>2
    <2>9. StartsNext(t)' /\ KnowsLatest(t)'
        BY <2>7 DEF StartsNext, KnowsLatest
    <2>10. \A u \in Ticks : u = t
        BY DEF OneSchedule
    <2> QED BY <2>5, <2>6, <2>8, <2>9, <2>10 DEF SoloInv
<1> QED BY <1>4, <1>5

(* Telling a run starts none.                                              *)
LEMMA ToldStartsNone ==
    ASSUME PollerInv, Evolves, NEW t \in Ticks,
           ForwardHistory(t) \/ PostNewComments(t) \/ SignalIssueWorkflow(t)
    PROVE  NoRunStarts
<1>1. /\ work[t].issue \in Issues /\ work[t].run \in DOMAIN runs[work[t].issue]
    BY AtWork DEF ForwardHistory, PostNewComments, SignalIssueWorkflow
<1>2. CASE UNCHANGED runs
    BY <1>2 DEF NoRunStarts
<1>3. ASSUME NEW r, runs' = [runs EXCEPT ![work[t].issue][work[t].run] = r]
      PROVE  NoRunStarts
    BY <1>1, <1>3, RunChangeStartsNone DEF PollerInv, Evolves
<1>4. CASE ForwardHistory(t)
    <2>1. \/ UNCHANGED runs
          \/ runs' = [runs EXCEPT ![work[t].issue][work[t].run] =
                         Receive(CurrentRun(t), Listed(t, work[t].issue))]
        BY <1>4 DEF ForwardHistory, CurrentRun
    <2> QED BY <1>2, <1>3, <2>1
<1>5. CASE PostNewComments(t)
    <2>1. \/ UNCHANGED runs
          \/ runs' = [runs EXCEPT ![work[t].issue][work[t].run] =
                         Receive(CurrentRun(t),
                                 Later(Listed(t, work[t].issue), work[t].found.id))]
        BY <1>5 DEF PostNewComments, CurrentRun
    <2> QED BY <1>2, <1>3, <2>1
<1>6. CASE SignalIssueWorkflow(t)
    <2>1. runs' = [runs EXCEPT ![work[t].issue][work[t].run] =
                      Signaled(CurrentRun(t), work[t].found.kind, work[t].found.id)]
        BY <1>6 DEF SignalIssueWorkflow, CurrentRun
    <2> QED BY <1>3, <2>1
<1> QED BY <1>4, <1>5, <1>6

(* A tick that talks to a run goes on, or resolves its issue again.        *)
LEMMA SoloTalks ==
    ASSUME PollerInv, SoloInv, OneSchedule, NEW t \in Ticks, PollerInv', Evolves,
           \/ ForwardHistory(t) \/ PostNewComments(t)
           \/ DetectApprovalSignal(t) \/ SignalIssueWorkflow(t)
    PROVE  SoloInv'
<1>1. /\ pc[t] \in {"forward", "post", "detect", "signal"} /\ UNCHANGED visible
      /\ DetectApprovalSignal(t) => NoRunStarts
    BY DEF ForwardHistory, PostNewComments, DetectApprovalSignal, SignalIssueWorkflow,
           polledVars, NoRunStarts
<1>2. NoRunStarts
    BY <1>1, ToldStartsNone
<1>3. work[t] \in Work /\ work[t].issue \in Issues
    BY <1>1, AtWork
<1>4. CASE TakesNext(t) \/ BeginsAgain(t, "resolve")
    BY <1>1, <1>2, <1>4, SoloTakesNext, SoloBeginsAgain
<1>5. ASSUME NEW to \in {"detect", "signal"}, NEW known, known.issue = work[t].issue,
             Goes(t, to, known)
      PROVE  SoloInv'
    BY <1>1, <1>2, <1>3, <1>5, SoloGoes DEF KnowsEnough
<1>6. CASE DetectApprovalSignal(t)
    <2>1. ASSUME NEW signal, Goes(t, "signal", [work[t] EXCEPT !.found = signal])
          PROVE  SoloInv'
        <3> DEFINE known == [work[t] EXCEPT !.found = signal]
        <3>1. known.issue = work[t].issue
            BY <1>3 DEF Work
        <3> HIDE DEF known
        <3> QED BY <1>5, <2>1, <3>1 DEF known
    <2> QED BY <1>4, <1>6, <2>1 DEF DetectApprovalSignal
<1>7. CASE ForwardHistory(t) \/ PostNewComments(t) \/ SignalIssueWorkflow(t)
    <2>1. \/ TakesNext(t) \/ BeginsAgain(t, "resolve")
          \/ Goes(t, "detect", work[t]) \/ Goes(t, "signal", work[t])
        BY <1>7 DEF ForwardHistory, PostNewComments, SignalIssueWorkflow
    <2> QED BY <1>4, <1>5, <2>1
<1> QED BY <1>6, <1>7

(* A synchronisation that finds the run closed goes on to quarantine it.   *)
LEMMA SoloSync ==
    ASSUME PollerInv, SoloInv, OneSchedule, NEW t \in Ticks, PollerInv', Evolves, Sync(t)
    PROVE  SoloInv'
<1>1. pc[t] = "sync" /\ UNCHANGED <<runs, comments, visible>> /\ NoRunStarts
    BY DEF Sync, polledVars, issueVars, NoRunStarts
<1>2. /\ work[t] \in Work /\ work[t].issue \in Issues
      /\ work[t].run \in DOMAIN runs[work[t].issue]
      /\ work[t].run = Len(runs[work[t].issue])
    BY <1>1, AtWork DEF SoloInv, KnowsLatest
<1>3. CASE ~Open(CurrentRun(t)) /\ Goes(t, "view", work[t])
    <2>1. KnowsEnough(t, "view", work[t])
        BY <1>2, <1>3 DEF KnowsEnough, Open, CurrentRun
    <2> QED BY <1>1, <1>2, <1>3, <2>1, SoloGoes
<1>4. CASE Open(CurrentRun(t))
    <2> DEFINE known == [work[t] EXCEPT !.found.id = CurrentRun(t).last_seen]
    <2>1. PICK to \in {"detect", "post"} : Goes(t, to, known)
        BY <1>4 DEF Sync
    <2>2. known.issue = work[t].issue
        BY <1>2 DEF Work
    <2> HIDE DEF known
    <2> QED BY <1>1, <1>2, <2>1, <2>2, SoloGoes DEF KnowsEnough
<1> QED BY <1>3, <1>4 DEF Sync

(* The quarantine looks whether the end is announced before it edits, and  *)
(* nobody else announces it in between.                                    *)
LEMMA SoloQuarantine ==
    ASSUME PollerInv, SoloInv, OneSchedule, NEW t \in Ticks, PollerInv', Evolves,
           ViewIssue(t) \/ EditLabels(t) \/ PostMarker(t)
    PROVE  SoloInv'
<1>1. /\ pc[t] \in {"view", "edit", "comment"} /\ UNCHANGED <<runs, visible>>
      /\ NoRunStarts
    BY DEF ViewIssue, EditLabels, PostMarker, polledVars, NoRunStarts
<1>2. /\ work[t] \in Work /\ work[t].issue \in Issues
      /\ work[t].run \in DOMAIN runs[work[t].issue]
      /\ work[t].run = Len(runs[work[t].issue])
      /\ runs[work[t].issue][work[t].run].stage = "closed"
    BY <1>1, AtWork DEF SoloInv, KnowsLatest
<1>3. CASE TakesNext(t) \/ BeginsAgain(t, "view")
    BY <1>1, <1>3, SoloTakesNext, SoloBeginsAgain
<1>4. CASE ViewIssue(t)
    <2> DEFINE i == work[t].issue
               closure == CurrentRun(t).closure
               marked == HasMarker(i, work[t].run, Len(comments[i]))
               known == [work[t] EXCEPT !.drop = Dropped(labels[i], closure),
                                        !.add = StatusLabels(closure) \ labels[i],
                                        !.posted = marked]
    <2>1. known.issue = i /\ known.run = work[t].run /\ known.posted = marked
        BY <1>2 DEF Work
    <2>2. UNCHANGED comments /\ Goes(t, "edit", known)
        BY <1>4 DEF ViewIssue, polledVars, issueVars
    <2>3. ~marked => ~Announced(i, work[t].run)
        BY <1>2, AnnouncedIs DEF PollerInv
    <2> HIDE DEF known, marked
    <2>4. ~known.posted => ~Announced(known.issue, known.run)
        BY <2>1, <2>3
    <2>5. KnowsEnough(t, "edit", known)
        BY <1>2, <2>1, <2>2, <2>4 DEF KnowsEnough
    <2> QED BY <1>1, <1>2, <2>1, <2>2, <2>5, SoloGoes
<1>5. CASE EditLabels(t) /\ Goes(t, "comment", work[t])
    <2>1. UNCHANGED comments /\ pc[t] = "edit"
        BY <1>5 DEF EditLabels
    <2>2. ~work[t].posted => ~Announced(work[t].issue, work[t].run)
        BY <2>1 DEF SoloInv, KnowsLatest
    <2>3. KnowsEnough(t, "comment", work[t])
        BY <1>2, <2>1, <2>2 DEF KnowsEnough
    <2> QED BY <1>1, <1>2, <1>5, <2>3, SoloGoes
<1> QED BY <1>3, <1>4, <1>5 DEF EditLabels, PostMarker

(* The invariant of a single schedule holds at first, when nothing runs.   *)
LEMMA SoloInit == Init => SoloInv
BY DEF Init, PolledInit, SoloInv, EarlierAnnounced, VisibleNear, SnapshotKnows, StartsNext,
       KnowsLatest, NothingVisible

(* Every step of a single schedule preserves it.                           *)
LEMMA SoloStep ==
    ASSUME OneSchedule
    PROVE  PollerInv /\ SoloInv /\ [Next]_vars => SoloInv'
<1> SUFFICES ASSUME PollerInv, SoloInv, [Next]_vars
             PROVE  SoloInv'
    OBVIOUS
<1>1. PollerInv' /\ Evolves
    BY PollerNextInv
<1>2. CASE PolledStep /\ UNCHANGED <<tickVars, failures>>
    BY <1>2, SoloPolled
<1>3. ASSUME NEW t \in Ticks, TickStep(t) PROVE SoloInv'
    BY <1>1, <1>3, SoloFrame, SoloResolve, SoloStart, SoloTalks, SoloSync, SoloQuarantine
    DEF TickStep
<1>4. ASSUME NEW t \in Ticks, ActivityRestarts(t) PROVE SoloInv'
    <2>1. UNCHANGED visible /\ NoRunStarts
        BY <1>4 DEF ActivityRestarts, polledVars, NoRunStarts
    <2> QED BY <1>1, <1>4, <2>1, SoloBeginsAgain DEF ActivityRestarts
<1>5. CASE UNCHANGED vars
    BY <1>5 DEF vars, polledVars, issueVars, tickVars, SoloInv, EarlierAnnounced, VisibleNear,
                Announced, SnapshotKnows, StartsNext, KnowsLatest, HasMarker
<1> QED BY <1>2, <1>3, <1>4, <1>5 DEF Next

(* A marker that is written when it is not there is there once.            *)
LEMMA AppendedOnce ==
    ASSUME Shapes, AnnouncedOnce, NEW i \in Issues, NEW c,
           c.kind = "marker" => \A id \in DOMAIN comments[i] : comments[i][id] # c,
           comments' = [comments EXCEPT ![i] = Append(@, c)]
    PROVE  AnnouncedOnce'
<1>1. comments[i] \in Seq(Comments)
    BY DEF Shapes
<1>2. comments'[i] = Append(comments[i], c) /\ \A j \in Issues \ {i} : comments'[j] = comments[j]
    BY DEF Shapes
<1>3. ASSUME NEW a \in DOMAIN comments'[i], NEW b \in DOMAIN comments'[i],
             comments'[i][a].kind = "marker", comments'[i][a] = comments'[i][b]
      PROVE  a = b
    <2>1. \A id \in DOMAIN comments'[i] :
              \/ id \in DOMAIN comments[i] /\ comments'[i][id] = comments[i][id]
              \/ id = Len(comments[i]) + 1 /\ comments'[i][id] = c
        BY <1>1, <1>2
    <2>2. CASE a \in DOMAIN comments[i] /\ b \in DOMAIN comments[i]
        BY <1>1, <1>3, <2>1, <2>2 DEF AnnouncedOnce
    <2> QED BY <1>1, <1>3, <2>1, <2>2
<1> QED BY <1>2, <1>3 DEF AnnouncedOnce

(* A run announces its end in its quarantine, if it is not announced.      *)
LEMMA PolledAnnouncesOnce ==
    ASSUME Shapes, AnnouncedOnce, PolledStep
    PROVE  AnnouncedOnce'
<1>1. CASE UNCHANGED comments
    BY <1>1 DEF AnnouncedOnce
<1>2. ASSUME NEW i \in Issues, WriteComment(i) PROVE AnnouncedOnce'
    <2>1. PICK kind \in CommentKinds :
              comments' = [comments EXCEPT ![i] = Append(@, Comment(kind, 0))]
        BY <1>2 DEF WriteComment
    <2> DEFINE c == Comment(kind, 0)
    <2>2. c.kind # "marker"
        BY CommentKindsAssumption DEF Comment, WrittenKinds, Commands
    <2>3. comments' = [comments EXCEPT ![i] = Append(@, c)]
        BY <2>1
    <2> HIDE DEF c
    <2> QED BY <2>2, <2>3, AppendedOnce
<1>3. ASSUME NEW i \in Issues, NEW n \in 1..MAX_RUNS, Quarantines(i, n)
      PROVE  AnnouncedOnce'
    <2> DEFINE c == Marker(n)
    <2>1. CASE HasMarker(i, n, Len(comments[i]))
        BY <1>1, <1>3, <2>1 DEF Quarantines
    <2>2. CASE ~HasMarker(i, n, Len(comments[i]))
        <3>1. comments' = [comments EXCEPT ![i] = Append(@, c)]
            BY <1>3, <2>2 DEF Quarantines
        <3>2. \A id \in DOMAIN comments[i] : comments[i][id] # c
            BY <2>2, AnnouncedIs DEF Announced
        <3> HIDE DEF c
        <3> QED BY <3>1, <3>2, AppendedOnce
    <2> QED BY <2>1, <2>2
<1>4. ASSUME NEW i \in Issues, NEW n \in 1..MAX_RUNS, RunStep(i, n)
      PROVE  Quarantines(i, n) \/ UNCHANGED comments
    BY <1>4 DEF RunStep, TakeUp, Works, OpensGate, DesignApproved, DesignRevised, Canceled,
                NeedsHuman, Merged, Closes, Fails, Close, CursorGoesBack, issueVars
<1>5. ASSUME NEW i \in Issues, PutLabel(i) \/ VisibilityCatchesUp(i)
      PROVE  UNCHANGED comments
    BY <1>5 DEF PutLabel, VisibilityCatchesUp, issueVars
<1> QED BY <1>1, <1>2, <1>3, <1>4, <1>5 DEF PolledStep

(* With a single schedule the end of a run is announced once, attempts     *)
(* that fail after posting included: the quarantine looks for the marker   *)
(* in what is on the issue when it begins.                                 *)
THEOREM AnnouncedOnceAlways ==
    ASSUME OneSchedule
    PROVE  SafetySpec => []AnnouncedOnce
<1>1. Init => AnnouncedOnce
    BY DEF Init, PolledInit, AnnouncedOnce
<1>2. PollerInv /\ SoloInv /\ AnnouncedOnce /\ [Next]_vars => AnnouncedOnce'
    <2> SUFFICES ASSUME PollerInv, SoloInv, AnnouncedOnce, [Next]_vars
                 PROVE  AnnouncedOnce'
        OBVIOUS
    <2>1. CASE PolledStep
        BY <2>1, PolledAnnouncesOnce DEF PollerInv
    <2>2. CASE UNCHANGED comments
        BY <2>2 DEF AnnouncedOnce
    <2>3. ASSUME NEW t \in Ticks, PostMarker(t) PROVE AnnouncedOnce'
        <3> DEFINE c == Marker(work[t].run)
        <3>1. CASE work[t].posted
            BY <2>2, <2>3, <3>1 DEF PostMarker
        <3>2. CASE ~work[t].posted
            <4>1. comments' = [comments EXCEPT ![work[t].issue] = Append(@, c)]
                BY <2>3, <3>2 DEF PostMarker
            <4>2. \A id \in DOMAIN comments[work[t].issue] : comments[work[t].issue][id] # c
                BY <2>3, <3>2 DEF PostMarker, SoloInv, KnowsLatest, Announced
            <4>3. work[t].issue \in Issues
                BY <2>3, AtWork DEF PostMarker
            <4> HIDE DEF c
            <4> QED BY <4>1, <4>2, <4>3, AppendedOnce DEF PollerInv
        <3> QED BY <3>1, <3>2
    <2>4. ASSUME NEW t \in Ticks, TickStep(t) \/ ActivityRestarts(t)
          PROVE  PostMarker(t) \/ UNCHANGED comments
        BY <2>4 DEF TickStep, ListReadyIssues, Capacity, TakeIssue, TickEnds,
                    ResolveLatestRun, StartWorkflow, ForwardHistory, Sync, PostNewComments,
                    ViewIssue, EditLabels, DetectApprovalSignal, SignalIssueWorkflow,
                    ActivityRestarts, polledVars, issueVars
    <2>5. CASE UNCHANGED vars
        BY <2>2, <2>5 DEF vars, polledVars, issueVars
    <2> QED BY <2>1, <2>2, <2>3, <2>4, <2>5 DEF Next
<1> QED BY <1>1, <1>2, PollerInitInv, PollerNextInv, SoloInit, SoloStep, PTL DEF SafetySpec

Working(run) == run.stage \notin {"new", "quarantine", "teardown", "closed"}

(* The step of a run that works afterwards keeps its issue's label, or     *)
(* puts it on; that of a run that does not, needs none.                    *)
LEMMA RunKeepsLabel ==
    ASSUME Shapes, IssueShapes, NEW i \in Issues, NEW n, RunStep(i, n)
    PROVE  /\ n \in DOMAIN runs[i] /\ Open(runs[i][n])
           /\ \A m \in DOMAIN runs[i] : m # n => runs'[i][m] = runs[i][m]
           /\ \A j \in Issues \ {i} : UNCHANGED <<runs[j], labels[j]>>
           /\ Working(runs'[i][n]) /\ (Working(runs[i][n]) => "active" \in labels[i])
                 => "active" \in labels'[i]
<1> USE DEF Shapes, IssueShapes
<1>1. ASSUME NEW from, NEW to, from # "closed", Moves(i, n, from, to) \/ MovesToGate(i, n, from, to)
      PROVE  /\ n \in DOMAIN runs[i] /\ Open(runs[i][n]) /\ runs[i][n].stage = from
             /\ \A m \in DOMAIN runs[i] : m # n => runs'[i][m] = runs[i][m]
             /\ \A j \in Issues \ {i} : UNCHANGED runs[j]
             /\ runs'[i][n].stage = to
    <2>1. n \in DOMAIN runs[i] /\ runs[i][n].stage = from /\ runs[i][n] \in Runs
        BY <1>1 DEF Moves, MovesToGate
    <2>2. CASE Moves(i, n, from, to)
        <3>1. runs' = [runs EXCEPT ![i][n] = [runs[i][n] EXCEPT !.stage = to]]
            BY <2>2 DEF Moves
        <3>2. [runs[i][n] EXCEPT !.stage = to].stage = to
            BY <2>1 DEF Runs
        <3> QED BY <1>1, <2>1, <3>1, <3>2 DEF Open
    <2>3. CASE MovesToGate(i, n, from, to)
        <3>1. runs' = [runs EXCEPT ![i][n] = [runs[i][n] EXCEPT !.stage = to, !.signal = "none"]]
            BY <2>3 DEF MovesToGate
        <3>2. [runs[i][n] EXCEPT !.stage = to, !.signal = "none"].stage = to
            BY <2>1 DEF Runs
        <3> QED BY <1>1, <2>1, <3>1, <3>2 DEF Open
    <2> QED BY <1>1, <2>2, <2>3
<1>2. CASE TakeUp(i, n)
    BY <1>1, <1>2 DEF TakeUp, Swap
<1>3. CASE Works(i, n) \/ OpensGate(i, n) \/ DesignRevised(i, n)
    <2>1. \E from \in {"triage", "build_check", "planning", "building", "design_gate"},
             to \in Stages :
              Moves(i, n, from, to) \/ MovesToGate(i, n, from, to)
        BY <1>3 DEF Works, OpensGate, DesignRevised, Stages
    <2>2. UNCHANGED labels
        BY <1>3 DEF Works, OpensGate, DesignRevised, issueVars
    <2> QED BY <1>1, <2>1, <2>2 DEF Working
<1>4. CASE DesignApproved(i, n)
    BY <1>1, <1>4 DEF DesignApproved, Swap, Working
<1>5. CASE Quarantines(i, n) \/ NeedsHuman(i, n) \/ Merged(i, n)
    <2>1. \E from \in Stages \ {"closed"} : Moves(i, n, from, "teardown")
        BY <1>5 DEF Quarantines, NeedsHuman, Merged, Stages
    <2>2. \A j \in Issues \ {i} : UNCHANGED labels[j]
        BY <1>5 DEF Quarantines, NeedsHuman, Merged, Swap
    <2> QED BY <1>1, <2>1, <2>2 DEF Working
<1>6. ASSUME NEW r, n \in DOMAIN runs[i], runs' = [runs EXCEPT ![i][n] = r]
      PROVE  /\ \A m \in DOMAIN runs[i] : m # n => runs'[i][m] = runs[i][m]
             /\ \A j \in Issues \ {i} : UNCHANGED runs[j]
             /\ runs'[i][n] = r
    BY <1>6
<1>7. CASE Canceled(i, n)
    <2>1. n \in DOMAIN runs[i] /\ runs[i][n] \in Runs /\ Open(runs[i][n])
        BY <1>7 DEF Canceled, Open
    <2>2. PICK c \in Closures : runs' = [runs EXCEPT ![i][n].stage = "quarantine",
                                                     ![i][n].closure = c]
        BY <1>7 DEF Canceled, Closures
    <2> DEFINE r == [runs[i][n] EXCEPT !.stage = "quarantine", !.closure = c]
    <2>3. runs' = [runs EXCEPT ![i][n] = [runs[i][n] EXCEPT !.stage = "quarantine",
                                                            !.closure = c]]
        BY <2>1, <2>2
    <2>4. r.stage = "quarantine"
        BY <2>1 DEF Runs
    <2> HIDE DEF r
    <2> QED BY <1>6, <1>7, <2>1, <2>3, <2>4 DEF Canceled, Swap, Working
<1>8. CASE Closes(i, n) \/ Fails(i, n)
    <2>1. n \in DOMAIN runs[i] /\ Open(runs[i][n])
        BY <1>8 DEF Closes, Fails, Open
    <2>2. PICK c : Close(i, n, c)
        BY <1>8 DEF Closes, Fails
    <2> DEFINE r == [NewRun EXCEPT !.stage = "closed", !.closure = c]
    <2>3. runs' = [runs EXCEPT ![i][n] = r] /\ UNCHANGED labels
        BY <2>2 DEF Close, issueVars
    <2>4. r.stage = "closed"
        BY DEF NewRun
    <2> HIDE DEF r
    <2> QED BY <1>6, <2>1, <2>3, <2>4 DEF Working
<1>9. CASE CursorGoesBack(i, n)
    <2>1. n \in DOMAIN runs[i] /\ runs[i][n] \in Runs /\ Open(runs[i][n]) /\ UNCHANGED labels
        BY <1>9 DEF CursorGoesBack, Open, issueVars
    <2>2. PICK id : runs' = [runs EXCEPT ![i][n].last_seen = id]
        BY <1>9 DEF CursorGoesBack
    <2> DEFINE r == [runs[i][n] EXCEPT !.last_seen = id]
    <2>3. runs' = [runs EXCEPT ![i][n] = r]
        BY <2>2
    <2>4. r.stage = runs[i][n].stage
        BY <2>1 DEF Runs
    <2> HIDE DEF r
    <2> QED BY <1>6, <2>1, <2>3, <2>4 DEF Working
<1> QED BY <1>2, <1>3, <1>4, <1>5, <1>7, <1>8, <1>9 DEF RunStep

(* While no tick acts a run that works keeps its label: it is the only run *)
(* of its issue that is open.                                              *)
LEMMA PolledKeepsLabels ==
    ASSUME PollerInv, IssueShapes, LiveRunIsPolled, PolledStep
    PROVE  LiveRunIsPolled'
<1> USE DEF LiveRunIsPolled, OpenRuns, Open
<1>1. ASSUME NEW i \in Issues, WriteComment(i) \/ VisibilityCatchesUp(i)
      PROVE  LiveRunIsPolled'
    BY <1>1 DEF WriteComment, VisibilityCatchesUp, issueVars
<1>2. ASSUME NEW i \in Issues, PutLabel(i)
      PROVE  LiveRunIsPolled'
    <2>1. UNCHANGED runs /\ \A j \in Issues : labels[j] \subseteq labels'[j]
        BY <1>2 DEF PutLabel, IssueShapes
    <2> QED BY <2>1
<1>3. ASSUME NEW i \in Issues, NEW n \in 1..MAX_RUNS, RunStep(i, n)
      PROVE  LiveRunIsPolled'
    <2>1. /\ n \in DOMAIN runs[i] /\ runs[i][n].stage # "closed"
          /\ \A m \in DOMAIN runs[i] : m # n => runs'[i][m] = runs[i][m]
          /\ \A j \in Issues \ {i} : UNCHANGED <<runs[j], labels[j]>>
          /\ Working(runs'[i][n]) /\ (Working(runs[i][n]) => "active" \in labels[i])
                => "active" \in labels'[i]
        BY <1>3, RunKeepsLabel DEF PollerInv
    <2>2. \A m \in DOMAIN runs'[i] : m = n \/ runs'[i][m].stage = "closed"
        <3>1. /\ runs[i] \in Seq(Runs) /\ DOMAIN runs[i] = 1..Len(runs[i])
              /\ runs'[i] \in Seq(Runs) /\ DOMAIN runs'[i] = 1..Len(runs'[i])
              /\ Len(runs[i]) = Len(runs'[i])
            BY <1>3, PolledStepInv, PolledStartsNone, RunStepEvolves, PolledBoundsAssumption
            DEF PollerInv, Shapes, Evolves, NoRunStarts
        <3>2. n = Len(runs[i])
            BY <2>1, <3>1 DEF PollerInv, EarlierRunsClosed
        <3>3. \A m \in DOMAIN runs[i] : m # n => runs[i][m].stage = "closed"
            BY <3>1, <3>2 DEF PollerInv, EarlierRunsClosed
        <3> QED BY <2>1, <3>1, <3>3
    <2>3. Working(runs[i][n]) => "active" \in labels[i]
        BY <2>1 DEF Working
    <2>4. Working(runs'[i][n]) => "active" \in labels'[i]
        BY <2>1, <2>3
    <2> QED BY <2>1, <2>2, <2>4 DEF Working
<1> QED BY <1>1, <1>2, <1>3 DEF PolledStep

(* With a single schedule neither does the quarantine take the label off   *)
(* the issue of a run that works: the run it is about is the latest, and   *)
(* has closed.                                                             *)
LEMMA TickKeepsLabels ==
    ASSUME PollerInv, SoloInv, IssueShapes, LiveRunIsPolled, NEW t \in Ticks,
           TickStep(t) \/ ActivityRestarts(t)
    PROVE  LiveRunIsPolled'
<1> USE DEF LiveRunIsPolled, OpenRuns, Open
<1>1. CASE UNCHANGED <<runs, labels>>
    BY <1>1
<1>2. CASE EditLabels(t)
    <2> DEFINE i == work[t].issue
               n == work[t].run
    <2>1. /\ i \in Issues /\ runs[i] \in Seq(Runs) /\ n \in DOMAIN runs[i]
          /\ n = Len(runs[i]) /\ runs[i][n].stage = "closed"
        BY <1>2, AtWork DEF EditLabels, SoloInv, KnowsLatest
    <2>2. \A m \in DOMAIN runs[i] : runs[i][m].stage = "closed"
        BY <2>1 DEF PollerInv, EarlierRunsClosed
    <2>3. UNCHANGED runs /\ \A j \in Issues \ {i} : UNCHANGED labels[j]
        BY <1>2 DEF EditLabels, Swap, IssueShapes
    <2> HIDE DEF i, n
    <2> QED BY <2>2, <2>3
<1>3. CASE StartWorkflow(t)
    <2>1. UNCHANGED labels
        BY <1>3 DEF StartWorkflow, issueVars
    <2>2. work[t].issue \in Issues /\ runs[work[t].issue] \in Seq(Runs)
        BY <1>3, AtWork DEF StartWorkflow
    <2>3. UNCHANGED runs \/ runs' = [runs EXCEPT ![work[t].issue] = Append(@, NewRun)]
        BY <1>3 DEF StartWorkflow
    <2>4. ASSUME runs' = [runs EXCEPT ![work[t].issue] = Append(@, NewRun)],
                 NEW i \in Issues, NEW n \in DOMAIN runs'[i]
          PROVE  \/ n \in DOMAIN runs[i] /\ runs'[i][n] = runs[i][n]
                 \/ runs'[i][n].stage = "new"
        <3>1. CASE i # work[t].issue
            BY <2>4, <3>1 DEF PollerInv, Shapes
        <3>2. CASE i = work[t].issue
            <4>1. runs'[i] = Append(runs[i], NewRun)
                BY <2>4, <3>2 DEF PollerInv, Shapes
            <4>2. NewRun.stage = "new"
                BY DEF NewRun
            <4> QED BY <2>2, <2>4, <3>2, <4>1, <4>2
        <3> QED BY <3>1, <3>2
    <2> QED BY <1>1, <2>1, <2>3, <2>4
<1>4. ASSUME NEW r, r.stage = CurrentRun(t).stage,
             work[t].issue \in Issues, work[t].run \in DOMAIN runs[work[t].issue],
             runs' = [runs EXCEPT ![work[t].issue][work[t].run] = r], UNCHANGED labels
      PROVE  LiveRunIsPolled'
    <2>1. ASSUME NEW i \in Issues
          PROVE  /\ DOMAIN runs'[i] = DOMAIN runs[i]
                 /\ \A n \in DOMAIN runs[i] : runs'[i][n].stage = runs[i][n].stage
        BY <1>4 DEF CurrentRun, PollerInv, Shapes
    <2> QED BY <1>4, <2>1
<1>5. CASE ForwardHistory(t) \/ PostNewComments(t) \/ SignalIssueWorkflow(t)
    <2>1. /\ work[t].issue \in Issues /\ work[t].run \in DOMAIN runs[work[t].issue]
          /\ CurrentRun(t) \in Runs /\ UNCHANGED labels
        BY <1>5, AtWork DEF ForwardHistory, PostNewComments, SignalIssueWorkflow, issueVars
    <2>2. ASSUME NEW ids PROVE Receive(CurrentRun(t), ids).stage = CurrentRun(t).stage
        BY <2>1 DEF Receive, Runs
    <2>3. ASSUME NEW kind, NEW id
          PROVE  Signaled(CurrentRun(t), kind, id).stage = CurrentRun(t).stage
        BY <2>1 DEF Signaled, Runs
    <2>4. ForwardHistory(t) => \/ UNCHANGED runs
              \/ runs' = [runs EXCEPT ![work[t].issue][work[t].run] =
                             Receive(CurrentRun(t), Listed(t, work[t].issue))]
        BY DEF ForwardHistory, CurrentRun
    <2>5. PostNewComments(t) => \/ UNCHANGED runs
              \/ runs' = [runs EXCEPT ![work[t].issue][work[t].run] =
                             Receive(CurrentRun(t),
                                     Later(Listed(t, work[t].issue), work[t].found.id))]
        BY DEF PostNewComments, CurrentRun
    <2>6. SignalIssueWorkflow(t) =>
              runs' = [runs EXCEPT ![work[t].issue][work[t].run] =
                          Signaled(CurrentRun(t), work[t].found.kind, work[t].found.id)]
        BY DEF SignalIssueWorkflow, CurrentRun
    <2> QED BY <1>1, <1>4, <1>5, <2>1, <2>2, <2>3, <2>4, <2>5, <2>6
<1> QED BY <1>1, <1>2, <1>3, <1>5
        DEF TickStep, ListReadyIssues, Capacity, TakeIssue, TickEnds, ResolveLatestRun, Sync,
            ViewIssue, PostMarker, DetectApprovalSignal, ActivityRestarts, polledVars,
            issueVars

(* With a single schedule a run that works on an issue keeps the issue     *)
(* among those that are polled: quarantining an earlier run does not take  *)
(* its label off, however late visibility is and whatever is retried.      *)
THEOREM LiveRunStaysPolled ==
    ASSUME OneSchedule
    PROVE  SafetySpec => []LiveRunIsPolled
<1>1. Init => LiveRunIsPolled /\ IssueShapes
    BY PolledBoundsAssumption DEF Init, PolledInit, LiveRunIsPolled, OpenRuns, IssueShapes
<1>2. PollerInv /\ IssueShapes /\ [Next]_vars => IssueShapes'
    <2>1. ASSUME IssueShapes, UNCHANGED vars PROVE IssueShapes'
        BY <2>1 DEF vars, polledVars, issueVars, IssueShapes
    <2> QED BY <2>1, PolledShapes, TickIssueShapes DEF Next
<1>3. PollerInv /\ SoloInv /\ IssueShapes /\ LiveRunIsPolled /\ [Next]_vars => LiveRunIsPolled'
    <2>1. ASSUME LiveRunIsPolled, UNCHANGED vars PROVE LiveRunIsPolled'
        BY <2>1 DEF vars, polledVars, issueVars, LiveRunIsPolled, OpenRuns, Open
    <2> QED BY <2>1, PolledKeepsLabels, TickKeepsLabels DEF Next
<1> QED BY <1>1, <1>2, <1>3, PollerInitInv, PollerNextInv, SoloInit, SoloStep, PTL
        DEF SafetySpec

=============================================================================
