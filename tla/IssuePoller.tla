----------------------------- MODULE IssuePoller -----------------------------
(***************************************************************************)
(* The issue poller: ticks of runtime/issue_poll_workflow.py and the       *)
(* activities they run (runtime/activities.py 1050-1607).  A tick lists    *)
(* the issues that carry a polled label, counts the free capacity, and     *)
(* then takes the issues in turn: start or synchronise the issue's run,    *)
(* quarantine the issue of a run that closed, or look for a command or an  *)
(* action label and signal it to the run.                                  *)
(*                                                                         *)
(* pc names the remote call a tick is about to make.  Calls of one         *)
(* activity follow each other with anything in between; an attempt that    *)
(* fails, before or after its call took effect, begins the activity again. *)
(* A schedule runs one tick at a time; two schedules may watch the same    *)
(* issues, one slot of Ticks each.                                         *)
(***************************************************************************)
EXTENDS PolledIssues

CONSTANTS
    Ticks,
    MAX_CONCURRENT,     \* DF_WATCH_MAX_CONCURRENT
    MAX_FAILURES        \* bound: failed attempts in a behaviour

ASSUME CapacityAssumption == MAX_CONCURRENT \in Nat \ {0}
ASSUME FailuresAssumption == MAX_FAILURES \in Nat

VARIABLES
    pc,             \* of each tick: the call it makes next
    todo, snapshot, \* the issues listed and not yet taken; comments they had
    remaining,      \* starts that are left
    work,           \* what it knows of the issue it has taken
    failures

tickVars == <<pc, todo, snapshot, remaining, work>>
vars == <<polledVars, tickVars, failures>>

PCs == {"idle", "capacity", "next", "resolve", "start", "forward", "sync", "post",
        "view", "edit", "comment", "detect", "signal"}

(* run: the number of the run the activity is about; found: the last seen  *)
(* comment of a sync, then the signal detected; drop, add, posted: what    *)
(* the quarantine saw on the issue.                                        *)
NoIssue == "no_issue"
Work == [issue : Issues \cup {NoIssue}, run : Nat, found : [kind : Signals, id : Nat],
         drop : SUBSET StateLabels, add : SUBSET StateLabels, posted : BOOLEAN]
NoWork == [issue |-> NoIssue, run |-> 0, found |-> [kind |-> "none", id |-> 0],
           drop |-> {}, add |-> {}, posted |-> FALSE]
NoSnapshot == [i \in Issues |-> 0]

Init ==
    /\ PolledInit
    /\ pc = [t \in Ticks |-> "idle"]
    /\ todo = [t \in Ticks |-> {}]
    /\ snapshot = [t \in Ticks |-> NoSnapshot]
    /\ remaining = [t \in Ticks |-> 0]
    /\ work = [t \in Ticks |-> NoWork]
    /\ failures = 0

\* The tick t goes on to the call "to" with what it then knows.
Goes(t, to, known) ==
    /\ pc' = [pc EXCEPT ![t] = to]
    /\ work' = [work EXCEPT ![t] = known]
    /\ UNCHANGED <<todo, snapshot>>

\* It is through with its issue.
TakesNext(t) == Goes(t, "next", NoWork)

\* The activity begins again with its issue and the run it is called with.
BeginsAgain(t, at) ==
    LET kept == IF at = "resolve" THEN 0 ELSE work[t].run
    IN Goes(t, at, [NoWork EXCEPT !.issue = work[t].issue, !.run = kept])

\* An attempt fails: before its call, or after the call took effect.
AttemptFails(t) == failures < MAX_FAILURES /\ failures' = failures + 1

CurrentRun(t) == runs[work[t].issue][work[t].run]

-----------------------------------------------------------------------------
(* list_ready_issues_activity and issue_workflow_capacity_activity.        *)

ListReadyIssues(t) ==
    /\ pc[t] = "idle"
    /\ LET listed == {i \in Issues : issue_open[i] /\ labels[i] \cap PollLabels # {}}
       IN /\ listed # {}
          /\ todo' = [todo EXCEPT ![t] = listed]
    /\ snapshot' = [snapshot EXCEPT ![t] = [i \in Issues |-> Len(comments[i])]]
    /\ pc' = [pc EXCEPT ![t] = "capacity"]
    /\ UNCHANGED <<polledVars, remaining, work, failures>>

\* Mutant of Capacity: the query counts runs that have closed too.
CapacityOfAllRuns(t) ==
    /\ pc[t] = "capacity"
    /\ LET active == Cardinality({i \in Issues : visible[i].n > 0})
       IN remaining' = [remaining EXCEPT ![t] =
                           IF active < MAX_CONCURRENT THEN MAX_CONCURRENT - active ELSE 0]
    /\ TakesNext(t)
    /\ UNCHANGED <<polledVars, failures>>

Capacity(t) ==
    /\ pc[t] = "capacity"
    /\ LET active == Cardinality({i \in Issues : visible[i].open})
       IN remaining' = [remaining EXCEPT ![t] =
                           IF active < MAX_CONCURRENT THEN MAX_CONCURRENT - active ELSE 0]
    /\ TakesNext(t)
    /\ UNCHANGED <<polledVars, failures>>

TakeIssue(t) ==
    /\ pc[t] = "next"
    /\ \E i \in todo[t] :
          /\ todo' = [todo EXCEPT ![t] = @ \ {i}]
          /\ work' = [work EXCEPT ![t] = [NoWork EXCEPT !.issue = i]]
    /\ pc' = [pc EXCEPT ![t] = "resolve"]
    /\ UNCHANGED <<polledVars, snapshot, remaining, failures>>

TickEnds(t) ==
    /\ pc[t] = "next" /\ todo[t] = {}
    /\ pc' = [pc EXCEPT ![t] = "idle"]
    /\ snapshot' = [snapshot EXCEPT ![t] = NoSnapshot]
    /\ remaining' = [remaining EXCEPT ![t] = 0]
    /\ UNCHANGED <<polledVars, todo, work, failures>>

-----------------------------------------------------------------------------
(* start_or_update_issue_workflow_activity.                                *)

\* The comments the tick listed with issue i, without those of the bot.
Listed(t, i) == Written(i, 1, snapshot[t][i])
Later(ids, id) == {c \in ids : c > id}

\* Mutant of ResolveLatestRun: a run that closed is followed by another at once.
ResolveWithoutMarker(t) ==
    LET latest == visible[work[t].issue]
        About(n) == [work[t] EXCEPT !.run = n]
    IN /\ pc[t] = "resolve"
       /\ \/ latest.open /\ Goes(t, "sync", About(latest.n))
          \/ ~latest.open /\ remaining[t] > 0 /\ latest.n < MAX_RUNS
                /\ Goes(t, "start", About(latest.n + 1))
          \/ ~latest.open /\ (remaining[t] = 0 \/ latest.n = MAX_RUNS) /\ TakesNext(t)
       /\ UNCHANGED <<polledVars, remaining, failures>>

\* Mutant of ResolveLatestRun: a run without a marker is taken for closed.
ResolveWithoutStatus(t) ==
    LET i == work[t].issue
        latest == visible[i]
    IN /\ pc[t] = "resolve"
       /\ \/ latest.n = 0 /\ remaining[t] = 0 /\ TakesNext(t)
          \/ latest.n = 0 /\ remaining[t] > 0 /\ Goes(t, "start", [work[t] EXCEPT !.run = 1])
          \/ latest.n > 0 /\ HasMarker(i, latest.n, snapshot[t][i]) /\ TakesNext(t)
          \/ latest.n > 0 /\ ~HasMarker(i, latest.n, snapshot[t][i])
                /\ Goes(t, "view", [work[t] EXCEPT !.run = latest.n])
       /\ UNCHANGED <<polledVars, remaining, failures>>

\* _resolve_latest_run asks visibility; the comments are those of the list.
\* A run beyond MAX_RUNS is not started: this is a bound of the model.
ResolveLatestRun(t) ==
    LET i == work[t].issue
        latest == visible[i]
        acknowledged == latest.n = 0 \/ HasMarker(i, latest.n, snapshot[t][i])
        mayStart == remaining[t] > 0 /\ latest.n < MAX_RUNS
        About(n) == [work[t] EXCEPT !.run = n]
    IN /\ pc[t] = "resolve"
       /\ \/ latest.open /\ Goes(t, "sync", About(latest.n))
          \/ ~latest.open /\ ~acknowledged /\ Goes(t, "view", About(latest.n))
          \/ ~latest.open /\ acknowledged /\ mayStart
                /\ Goes(t, "start", About(latest.n + 1))
          \/ ~latest.open /\ acknowledged /\ ~mayStart /\ TakesNext(t)
       /\ UNCHANGED <<polledVars, remaining, failures>>

\* Mutant of StartWorkflow: the id may be used again.
StartWorkflowTwice(t) ==
    /\ pc[t] = "start"
    /\ runs' = [runs EXCEPT ![work[t].issue] = Append(@, NewRun)]
    /\ \/ Goes(t, "forward", work[t]) /\ UNCHANGED failures
       \/ AttemptFails(t) /\ BeginsAgain(t, "resolve")
    /\ UNCHANGED <<issueVars, visible, remaining>>

\* start_workflow with WorkflowIDReusePolicy.REJECT_DUPLICATE.
StartWorkflow(t) ==
    LET i == work[t].issue
        duplicate == work[t].run \in DOMAIN runs[i]
    IN /\ pc[t] = "start"
       /\ runs' = IF duplicate THEN runs ELSE [runs EXCEPT ![i] = Append(@, NewRun)]
       /\ \/ Goes(t, IF duplicate THEN "sync" ELSE "forward", work[t]) /\ UNCHANGED failures
          \/ AttemptFails(t) /\ BeginsAgain(t, "resolve")
       /\ UNCHANGED <<issueVars, visible, remaining>>

\* _forward_history_to_fresh_run; that the run has closed is not an error.
ForwardHistory(t) ==
    LET i == work[t].issue
    IN /\ pc[t] = "forward"
       /\ runs' = IF Open(CurrentRun(t))
                  THEN [runs EXCEPT ![i][work[t].run] = Receive(@, Listed(t, i))]
                  ELSE runs
       /\ \/ /\ TakesNext(t) /\ UNCHANGED failures
             /\ remaining' = [remaining EXCEPT ![t] = IF @ > 0 THEN @ - 1 ELSE 0]
          \/ AttemptFails(t) /\ BeginsAgain(t, "resolve") /\ UNCHANGED remaining
       /\ UNCHANGED <<issueVars, visible>>

\* _sync_existing_issue_workflow: describe and query.
Sync(t) ==
    LET i == work[t].issue
        seen == CurrentRun(t).last_seen
    IN /\ pc[t] = "sync"
       /\ \/ Open(CurrentRun(t))
             /\ Goes(t, IF Later(Listed(t, i), seen) = {} THEN "detect" ELSE "post",
                     [work[t] EXCEPT !.found.id = seen])
          \/ ~Open(CurrentRun(t)) /\ Goes(t, "view", work[t])
       /\ UNCHANGED <<polledVars, remaining, failures>>

\* The update post_new_comments; of a run that has closed it is an error.
PostNewComments(t) ==
    LET i == work[t].issue
        news == Later(Listed(t, i), work[t].found.id)
    IN /\ pc[t] = "post"
       /\ \/ Open(CurrentRun(t))
             /\ runs' = [runs EXCEPT ![i][work[t].run] = Receive(@, news)]
             /\ \/ Goes(t, "detect", work[t]) /\ UNCHANGED failures
                \/ AttemptFails(t) /\ BeginsAgain(t, "resolve")
          \/ ~Open(CurrentRun(t)) /\ BeginsAgain(t, "resolve") /\ UNCHANGED <<runs, failures>>
       /\ UNCHANGED <<issueVars, visible, remaining>>

-----------------------------------------------------------------------------
(* quarantine_closed_issue_activity: view, edit, comment.                  *)

\* Mutant of ViewIssue: no look for a marker that is already there.
ViewIssueNoMarker(t) ==
    LET closure == CurrentRun(t).closure
        onIssue == labels[work[t].issue]
    IN /\ pc[t] = "view"
       /\ Goes(t, "edit", [work[t] EXCEPT !.drop = Dropped(onIssue, closure),
                                          !.add = StatusLabels(closure) \ onIssue])
       /\ UNCHANGED <<polledVars, remaining, failures>>

ViewIssue(t) ==
    LET i == work[t].issue
        closure == CurrentRun(t).closure
    IN /\ pc[t] = "view"
       /\ Goes(t, "edit",
               [work[t] EXCEPT !.drop = Dropped(labels[i], closure),
                               !.add = StatusLabels(closure) \ labels[i],
                               !.posted = HasMarker(i, work[t].run, Len(comments[i]))])
       /\ UNCHANGED <<polledVars, remaining, failures>>

EditLabels(t) ==
    /\ pc[t] = "edit"
    /\ Swap(work[t].issue, work[t].drop, work[t].add)
    /\ \/ Goes(t, "comment", work[t]) /\ UNCHANGED failures
       \/ AttemptFails(t) /\ BeginsAgain(t, "view")
    /\ UNCHANGED <<issue_open, comments, labelings, runs, visible, remaining>>

PostMarker(t) ==
    /\ pc[t] = "comment"
    /\ comments' = IF work[t].posted
                   THEN comments
                   ELSE [comments EXCEPT ![work[t].issue] = Append(@, Marker(work[t].run))]
    /\ \/ TakesNext(t) /\ UNCHANGED failures
       \/ AttemptFails(t) /\ BeginsAgain(t, "view")
    /\ UNCHANGED <<issue_open, labels, labelings, runs, visible, remaining>>

-----------------------------------------------------------------------------
(* detect_approval_signal_activity and signal_issue_workflow_activity.     *)

\* Mutant of FirstCommand: the comments of the bot are read as commands.
FirstCommandOfAnyone(i, seen) ==
    LET commands == {id \in DOMAIN comments[i] : id > seen /\ comments[i][id].kind # "text"}
    IN {[kind |-> comments[i][id].kind, id |-> id] :
           id \in {c \in commands : \A d \in commands : c <= d}}

\* The first command after the comments already seen.
FirstCommand(i, seen) ==
    LET commands == {id \in DOMAIN comments[i] : id > seen /\ comments[i][id].kind \in Commands}
    IN {[kind |-> comments[i][id].kind, id |-> id] :
           id \in {c \in commands : \A d \in commands : c <= d}}

\* Labels come first, and df:cancel before df:approved.
DetectedSignals(i, seen) ==
    CASE "cancel" \in labels[i] -> {[kind |-> "Cancel", id |-> 0]}
      [] {"cancel", "approved"} \cap labels[i] = {"approved"} -> {[kind |-> "Approve", id |-> 0]}
      [] OTHER -> FirstCommand(i, seen)

DetectApprovalSignal(t) ==
    LET detected == DetectedSignals(work[t].issue, work[t].found.id)
    IN /\ pc[t] = "detect"
       /\ \/ detected = {} /\ TakesNext(t)
          \/ \E signal \in detected : Goes(t, "signal", [work[t] EXCEPT !.found = signal])
       /\ UNCHANGED <<polledVars, remaining, failures>>

\* The update of a run that has closed fails, and is tried again for ever.
SignalIssueWorkflow(t) ==
    LET found == work[t].found
    IN /\ pc[t] = "signal" /\ Open(CurrentRun(t))
       /\ runs' = [runs EXCEPT ![work[t].issue][work[t].run] =
                      Signaled(@, found.kind, found.id)]
       /\ \/ TakesNext(t) /\ UNCHANGED failures
          \/ AttemptFails(t) /\ Goes(t, "signal", work[t])
       /\ UNCHANGED <<issueVars, visible, remaining>>

-----------------------------------------------------------------------------
\* An attempt fails between two calls of its activity.
ActivityRestarts(t) ==
    /\ AttemptFails(t)
    /\ \/ pc[t] \in {"start", "forward", "sync", "post"} /\ BeginsAgain(t, "resolve")
       \/ pc[t] \in {"edit", "comment"} /\ BeginsAgain(t, "view")
    /\ UNCHANGED <<polledVars, remaining>>

TickStep(t) ==
    \/ ListReadyIssues(t) \/ Capacity(t) \/ TakeIssue(t) \/ TickEnds(t)
    \/ ResolveLatestRun(t) \/ StartWorkflow(t) \/ ForwardHistory(t)
    \/ Sync(t) \/ PostNewComments(t)
    \/ ViewIssue(t) \/ EditLabels(t) \/ PostMarker(t)
    \/ DetectApprovalSignal(t) \/ SignalIssueWorkflow(t)

Next ==
    \/ PolledStep /\ UNCHANGED <<tickVars, failures>>
    \/ \E t \in Ticks : TickStep(t) \/ ActivityRestarts(t)

\* The schedule fires again, Temporal retries activities, and visibility
\* catches up.  People and runs do as they like.
Fairness ==
    /\ \A t \in Ticks : WF_vars(TickStep(t))
    /\ \A i \in Issues : WF_vars(VisibilityCatchesUp(i) /\ UNCHANGED <<tickVars, failures>>)

SafetySpec == Init /\ [][Next]_vars
Spec == SafetySpec /\ Fairness

-----------------------------------------------------------------------------
(* PROPERTIES.                                                             *)

(* The poller's variables keep to the values the activities give them.     *)
PollerTypeOK ==
    /\ PolledTypeOK
    /\ pc \in [Ticks -> PCs]
    /\ todo \in [Ticks -> SUBSET Issues]
    /\ snapshot \in [Ticks -> [Issues -> Nat]]
    /\ remaining \in [Ticks -> 0..MAX_CONCURRENT]
    /\ work \in [Ticks -> Work]
    /\ failures \in 0..MAX_FAILURES

(* However ticks race, attempts are retried and visibility lags, an issue  *)
(* has at most one run at a time (activities.py 1240-1311).                *)
OneLiveRun == \A i \in Issues : \A m, n \in OpenRuns(i) : m = n

(* A run follows another only after the issue says, in a comment, how the  *)
(* one before ended (activities.py 1274-1286).                             *)
AcknowledgedRestart ==
    [][\A i \in Issues : Len(runs'[i]) > Len(runs[i]) /\ runs[i] # <<>>
          => HasMarker(i, Len(runs[i]), Len(comments[i]))]_vars

(* A run that works on an issue keeps the issue among those that are       *)
(* polled: quarantining an earlier run does not take its label off.        *)
LiveRunIsPolled ==
    \A i \in Issues : \A n \in OpenRuns(i) :
        runs[i][n].stage \notin {"new", "quarantine", "teardown"} => "active" \in labels[i]

(* The end of a run is announced once, attempts that fail after posting    *)
(* included (docstring of quarantine_closed_issue_activity).               *)
AnnouncedOnce ==
    \A i \in Issues : \A a, b \in DOMAIN comments[i] :
        comments[i][a].kind = "marker" /\ comments[i][a] = comments[i][b] => a = b

Waits(i) ==
    /\ issue_open[i] /\ "ready" \in labels[i]
    /\ OpenRuns(i) = {} /\ Len(runs[i]) < MAX_RUNS

\* What became of the latest run is said in a comment on the issue, by the
\* poller or by the run itself.
EndIsAnnounced(i) ==
    runs[i] = <<>> \/ HasMarker(i, Len(runs[i]), Len(comments[i]))

Answered(i) == OpenRuns(i) # {} \/ ("ready" \notin labels[i] /\ EndIsAnnounced(i))

\* Visibility has caught up with the issue, and no tick is under way.
Quiet(i) == visible[i] = Latest(i) /\ \A t \in Ticks : pc[t] = "idle"

\* A tick that found a signal whose run has closed since.
Stuck(t) == pc[t] = "signal" /\ ~Open(CurrentRun(t))

(* df:ready on an issue without a run has an effect, unless the poller is  *)
(* stuck: a run is started, or the label comes off an issue that says how  *)
(* its latest run ended.  It may have said so before the label was put on: *)
(* while visibility shows the run as open, it is quarantined once more, and*)
(* its marker is not repeated (activities.py 1159-1166, 1405-1431).  Once  *)
(* the end is announced and visibility has caught up, the label always     *)
(* starts a run.  A run that ended under df:needs-human has not announced  *)
(* it: the df:ready put back to retry (docs/github-labels.md 42) comes off *)
(* with the announcement, and the next one retries.  (The capacity is one  *)
(* run for each issue here.)                                               *)
ReadyHasEffect ==
    \A i \in Issues :
        /\ Waits(i) ~> (Answered(i) \/ \E t \in Ticks : Stuck(t))
        /\ (Waits(i) /\ Quiet(i) /\ EndIsAnnounced(i)) ~> (OpenRuns(i) # {})

(* README 386: the poller picks df:ready up within one interval.           *)
ReadyIsPickedUp == \A i \in Issues : Waits(i) ~> (OpenRuns(i) # {} \/ "ready" \notin labels[i])

=============================================================================
