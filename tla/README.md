# Verification of darkfactory

TLA+ modules, TLC configurations and TLAPS proofs for `src/src/darkfactory`, the
Temporal application that turns a prompt or a GitHub issue into a merged pull
request: it plans with language-model agents, asks a human to accept the plan,
builds and repairs on a worker container, and asks a human to accept the merge.

Paths below are relative to `src/src/darkfactory/` unless they begin with `src/`.
`PROJECT.json` names, for every definition that models code, the lines it models.

## 1. The system

| Part | State it keeps | Operations | What is hard |
|---|---|---|---|
| **Prompt-run workflow** `runtime/workflow.py` | the suspended coroutine, gate decisions, `_pending_gate`, `_state`, attempt counters | `run`; updates `approve_brief`, `revise_brief`, `reject_brief`, `approve_merge`, `reject_merge`, `trigger_fix`, `trigger_rebuild`, `approve_gate`; query `current_state_summary` | update handlers run between any two awaits; decisions outlive the gate they were meant for; two nested bounded loops; every exit through teardown |
| **Gate clients** `runtime/gate_admin.py`, `cli.py` | what the query answered; a waiter's two `approved_*` flags | `gate approve/reject/revise/fix/rebuild`, the auto-approving and the evaluation waiter | query, decide, update: three steps with others in between |
| **Issue-run workflow** `runtime/issue_workflow.py` | coroutine, `_approval_signal`, `_new_comments`, clarification round, spec revision, current label, `_state`; outside it: the labels on the issue | `run`; updates `signal_approval`, `post_new_comments`, and the gate aliases; query | one signal slot, discarded at chosen places; labels are a second copy of the state, swapped one await at a time |
| **Repair loop and verdict** `runtime/workflow.py` 158-382, `stages/verify.py` | findings channels, verify summary, attempts per work package and predicate | targets, budget, attempt recording, stale-finding slicing, verdict | the loop ends only if each failure charges someone; findings must be about the code that is there |
| **Pipeline state and reducers** `state.py` | the typed state dictionary | `merge` and per-channel reducers | a channel returned whole and appended again duplicates |
| **Stage activities** `runtime/activities.py` | worker checkout, pull request, labels | build, fixer, verify, PR, reviewer, merge, label and quarantine activities | at-least-once execution; an attempt may take effect and still fail |
| **Issue poller** `runtime/issue_poll_workflow.py`, poll activities | none between ticks: labels, markers in comments, workflow ids | scan, capacity, start-or-sync, forward comments, detect and forward approvals, quarantine, label reconciliation | overlapping ticks; eventual visibility; progress markers stored before the work is done |
| **Build subgraph** `stages/build.py` | Builder and Tester records of one attempt | supervisor, Builder, Tester, reconciliation with the diff | a worker that raises is sent again; what the result leaves out |
| **Verify subgraph** `stages/verify.py` | cached plan, `verify_retries`, report files in the checkout | discovery of test steps, steps, verdict, semantic coverage | an empty or failed plan; reports of an earlier cycle; two nodes that may fail one verdict |
| **Worker container** `runtime/activities.py`, `runtime/worker_main.py`, `tools/sandbox.py` | container, clone, branch | setup, teardown, orphan reaping | retries after half a setup |
| **Phase comments** `runtime/phase_comment.py`, upsert and notes in `runtime/activities.py` | one comment per phase, found by a marker | upsert, question, note on a refused command | whole bodies are written back by writers that read them earlier; repeated attempts |
| **Schedules** `runtime/schedule_admin.py` | the poll schedule | create, update, pause, delete | two administrators |
| **Hooks** `hooks/*.py` | call counts and windows of one agent session | allow or deny a tool call | boundaries |
| **Agents, prompts, hydrator, tools, evaluation, tracing** | none a run depends on | one call each | their answers are inputs |

How they interact: clients and the poller reach a run only through Temporal
updates and queries; an update handler runs while the coroutine is suspended at
an await. The coroutine reaches the world only through activities, each
retried by Temporal. A run and the poller share the issue (labels, comments).
The poller starts runs and forwards to them.

Correctness, component by component. *Workflows*: nothing is built without an
accepted plan and nothing lands without consent given for what is there; what
lands was verified; every loop is bounded; every exit releases the worker.
*Clients*: a decision reaches the gate it was made for. *Repair loop*: no target
is tried more often than its budget, and no verdict rests on findings that were
dealt with. *Issue run*: labels say where the run is; a gate is not answered by
an old signal; a cancellation is obeyed. *Poller*: one live run per issue,
never more than the capacity, no comment or command lost, no retry without
acknowledgement. *Build*: every slice is built once, after what it depends on, and
what its turns changed is in a patch. *Verify*: a verdict is the evidence of its own
attempt, and is counted once. *Worker*: whatever fails or is repeated, the run ends
and its container goes. *Comments*: one comment per phase, which shows the phase and
keeps what others added to it.

## 2. Modules

    RepairLoop                pure functions of the verify/Fixer loop
      RepairState             findings, budget, verdict; results of build, verify, fixer
        DarkFactoryWorkflow   the prompt run: coroutine, updates, query
          GateClients         + operators, waiters, alias callers: a closed system
            MCGateClients     instances for TLC
            GateClientsProofs theorems
        DarkFactoryIssueWorkflow   the issue run: a closed system
          MCIssueWorkflow     instances for TLC
          IssueProofs         theorems
      RepairProofs            lemmas about RepairLoop and RepairState
      WorkerCheckout          container, clone, branch, diff of a turn
        BuildStage            supervisor, Builder, Tester
          BuildProofs         theorems about topo_sort
        VerifyStage           plan, steps, verdict, semantic coverage
          WorkerRun           a prompt run seen from its worker: a closed system
            MCWorkerRun       instances for TLC
            WorkerProofs      theorems
    GatedDelivery             what a run of either kind promises
    IssueComments             phase comments, questions, notes: a closed system
      MCIssueComments         instances for TLC
      CommentsProofs          theorems
    IssueConversation         comments, cursor, commands, one run: a closed system
      ConversationProofs      theorems
    PolledIssues              issues, people, runs seen from outside, visibility
      IssuePoller             + ticks: a closed system
        MCIssuePoller         instances for TLC
        PollerProofs          theorems

**How a coroutine is modelled.** `pc` names the await a `run` coroutine is
suspended at. One action is one resumption: the result of that await, with
everything the code does until the next one. An update handler is an action
of its own that fires at any await, as Temporal delivers it. Activities that
Temporal retries for ever have no failing outcome; those with a
`maximum_attempts` can fail for good (`StageFails`, `MergeAttemptFails`).

**`RepairLoop`, `RepairState`.** One Tester finding is its work package, whether
it says `infeasible_predicate`, and (history) the revision of the code it is
about. One verification report says whether the mechanical steps are clean,
which predicates are listed as not covered, and whether some predicate of the
brief is uncovered. `Passed`, `TargetWPs`, `Exhausted`, `Bump`,
`DropStale` are the functions of `workflow.py` 158-382 and the aggregation of
`stages/verify.py` 486-588. `BuildMerge` keeps what `build_stage` and
`state.merge` do together: the channel comes back with its input included and
is appended to itself.

**`DarkFactoryWorkflow`.** `brief_gate`, `brief_revise`, `merge_gate`,
`merge_action` are the four decision fields. A decision also carries, as
history, the gate and the revisions its sender was shown. `summary_pending_gate`
is the query's answer.

**`GateClients`.** A command is two steps, `Inspect` and `Operate`; a waiter's turn
is `Poll` and an answer. Between them any other step may happen. `LegacyDecide`
is a caller of the alias `approve_gate`, which asks nothing first. `Refused` is
an update sent to a run that has closed.

**`DarkFactoryIssueWorkflow`.** The label swaps of the run are the table `Swaps`:
what a swap removes, what it adds, and where the run goes on. The issue's
labels are a set beside `current_df_label`, the run's own idea of them. The
poller appears as what it can do to a run: signals and batches of comments at any
moment, and the action labels `df:approved` and `df:cancel` that cause them.

**`PolledIssues`.** What the poller reads and acts on: for each issue its labels and
comments and the runs `run-1`, `run-2`, ... that were started for it. A run is the issue run
seen from outside: the stages of `runs[i][n].stage` are its waits and the stretches of
work between them, the lifecycle labels (all of them polled) are one label
`active`, and it may fail at any moment (`Fails`). A marker is the comment that says how
run `n` ended. `visible[i]` is what `list_workflows` answers of the latest run: true at some
earlier moment, and brought up to date by `VisibilityCatchesUp`.

**`IssuePoller`.** `pc[t]` names the remote call tick `t` is about to make and `work[t]` what it
knows of the issue it has taken: an action is one call with the code up to the next
one. `start_or_update_issue_workflow` is `ResolveLatestRun`, `StartWorkflow`,
`ForwardHistory`, `Sync`, `PostNewComments`; `quarantine_closed_issue` is `ViewIssue`,
`EditLabels`, `PostMarker`; then `DetectApprovalSignal` and `SignalIssueWorkflow`. An
attempt that fails, before its call or after the call took effect
(`AttemptFails`), begins its activity again (`BeginsAgain`) with the arguments it was
called with. The schedule skips a tick while one is running, so one slot of `Ticks` is one
schedule.

**`WorkerCheckout`, `BuildStage`, `VerifyStage`, `WorkerRun`.** What
`DarkFactoryWorkflow` takes for one result of an activity is taken apart here. The
checkout is the set of paths that differ from HEAD; a turn's patches are a diff
against HEAD of before the turn, so what was committed by somebody else is in none of
them. `BuildStage` is one turn per action, together with the supervisor's decision
that sent it (`Dispatched`); `TopoSort` is `topo_sort`, one round of Kahn's algorithm a
call of a recursive function (`Ready`, then `Among` keeps the plan's order). `VerifyStage` is the four nodes `EnsurePlan`, `RunPlan`,
`Aggregate`, `SemanticCoverage`, with the plan it caches between calls and the report
files that outlive a cycle. `WorkerRun` puts them in the coroutine up to the verdict, with
attempts that fail (`StageAttemptFails`), a setup that fails half-way
(`SetupAttemptFails`) and a container that dies (`WorkerDies`). Its property
`StageResults` is the bridge: whatever happens inside, a build, a verification and a fix
change the state of the workflow as `RepairState` says (`INSTANCE RepairState` in
`WorkerRun`, the non-blocking findings hidden).

**`IssueComments`.** Up to the design gate the issue is written by the run
(`ListComments`, then `CreateComment` or `PatchComment`; `PostQuestion`), by the poller
(`PollerReads`, `AppendNotice`) and by people (`Remark`). A write replaces the whole
body, so `read` keeps what each writer saw. `kept` is the last text the run gave
a phase, `safe` the remarks made while no writer stood between its read and its write.

**`IssueConversation`.** What people write on an issue and what a run makes of it. `thread` is the
issue; a comment's id is its place in it. The poller keeps nothing between ticks: how far it has
read is what the run's query answers (`LastSeen`), the greatest of `last_seen_comment_id`, which
`post_new_comments` and `signal_approval` advance, and of the ids of the comments the run
holds. A tick is `TickLists`, then `StartWorkflow` and `ForwardHistory` or `Sync` and
`PostNewComments`, then `DetectApprovalSignal`, which reads the comments anew, and
`SignalIssueWorkflow`. The run is the part of the coroutine that reads comments and commands: the
hydrator, triage with its clarification rounds, planning and the design gate. It writes
`self._state = merge(self._state, await ...)`: Python loads `self._state` before the await, so
what an update records in the state during `hydrate_stage` or `discovery_stage` is overwritten.
`loaded` is the cursor of the state that was loaded, `rewound` (history) says that the answer of the
query has gone back. In `IssuePoller` the same step is `CursorGoesBack` of `PolledIssues`. `sent`,
`denied`, `started`, `repeated` are history.

**`GatedDelivery`.** Start, plan, brief gate, work, merge gate, merge, release,
with the steps allowed between them. Both workflows are shown to implement it
(`DeliverySpec`), under the mapping `delivery_stage`.

**History variables.** `code` counts the changes of the worker's checkout,
`verified` holds the revisions that passed, `brief` the revision of the plan,
`pushed` and `landed` the revisions that are the head of the pull request and
that were merged. No guard reads them but those of properties.

## 3. Runs

| Run | Question | Bounds | States |
|---|---|---|---|
| `prompt_gates` | Do gates work with one client of any kind? `SystemTypeOK`, `LandedWasVerified`, `OnlyToTheWaitingGate`, `InformedBuild`, `InformedMerge`, `DeliverySpec` | 1 work package, 1 predicate, budget 1, 2 planning rounds, 2 merge attempts, 5 commands | 19,658 |
| `prompt_repair` | Does an unattended run repair within its budget, on fresh evidence, and end? `AutoFixBudget`, `FreshEvidence`, `UnattendedRunCloses` | 2 work packages, 1 predicate, budget 2, every Fixer outcome, up to 2 Tester findings a build; two clients, each a waiter or an operator with 1 command | 373,032 |
| `issue_run` | Does the issue run keep labels, signals, budget, delivery and progress? `TypeOK`, `OnlyLiveSignals`, `LabelsTellTheState`, `OneLifecycleLabel`, `LandedWasVerified`, `AutoFixBudget`, `DeliverySpec`, `ComesToRest` | 1 work package, 1 predicate, budget 1, 2 planning rounds, 1 clarification round, 3 signals of any kind, 1 batch of comments | 228,064 |
| `poller` | Does the poller keep an issue to one run at a time, announce each end once, start none unannounced, and react to `df:ready`? `PollerTypeOK`, `OneLiveRun`, `LiveRunIsPolled`, `AnnouncedOnce`, `AcknowledgedRestart`, `ReadyHasEffect` | 1 issue, 1 schedule, 2 runs, 1 comment (approve, revise, reject), 2 labelings, capacity 1, 1 failed attempt | 907,936 |
| `worker_run` | Do the stages do what their activities report? `WorkerTypeOK`, `BuildInOrder`, `PatchesAccountForTree`, `OneRetryPerVerdict`, `VerdictIsEvidence`, `StageResults`, `RunEnds` | 2 slices, one of them depending on the other or each on the other; 1 predicate, budget 1; turns of every kind, 5 a stage; 2 attempts a stage, 1 failed setup, up to 2 Tester findings a build, one for each slice | 328,147 |
| `issue_comments` | Do the comments survive their writers? `CommentsTypeOK`, `OneCommentPerPhase`, `SafeRemarksStay`, `PhaseIsShown`, `QuestionsAsked` | 1 remark, 2 refused commands (interchangeable), 1 clarification round, 1 planning attempt, 2 revisions, 1 failed attempt | 4,407,509 |
| `issue_conversation` | Does what people write reach the run, in order and once? `ConversationTypeOK`, `SkippedOnlyByCommand`, `CommandFate`, `CommandsAreNew`, `RepliesAreHeard` | 2 comments, each a reply or one of three commands (approve, revise, cancel); 1 clarification round, 1 failed attempt; revisions and planning attempts unbounded | 1,609,791 |
| `merge_after_fix`, `issue_stale_findings`, `issue_cancel`, `poller_stuck`, `blocked_builder` | each exhibits one finding of section 4 | as the run of the same system | stops at the violation |

*Why the bounds are enough.* Five commands let one operator revise a plan, accept
it, ask for a fix, ask for a rebuild and decide. Three signals let an issue run be
answered at both gates with one more at any wrong moment. Two work packages with
budget 2 let one target exhaust its budget while the other has attempts
left; the code has `FIXER_MAX_ATTEMPTS = 2`, `PLANNING_MAX_ATTEMPTS = 5` and three
attempts of `merge_branch`. Planning rounds are alike except for the
counter, so the limit is met with 2. The Testers of a build report up to `FINDINGS` findings, a bound of the
model: two of them name two work packages, or one twice, and the prompt and issue runs with one work package have
one. Two runs of an issue are a run and the one that
must wait for it; two labelings ask for both, or ask for one and cancel it, or put `df:ready` back after a run; one failure
falls on any call of either. Five turns are a Builder and a Tester of each of two
slices and one that raises; more of those meet the limit. A dependency and a cycle of
two are the cases of the topological order; a second attempt of a stage meets what the first left in the
checkout, a third would meet no more. Two refused commands are what one listing has to
answer with two writes; two revisions are two design comments, the earlier of which a slow
poller still holds. Two comments are one that is passed over, or read too early, and one that passes it.
A `reject` is left out of their kinds there: before the gate it does what `approve` does, at the gate what
`cancel` does, and the theorems of `ConversationProofs` hold for all of `CommandKinds`. Revisions have no bound of their own: commands,
signals and the budget bound them. What is bounded is an instance; the theorems
of section 5 have no bounds.

*Fairness.* `WF(WorkflowStep)`: a Temporal worker runs whatever is ready, every
activity has a timeout and an attempt limit or an unbounded retry policy that is
taken to succeed at last. That is assumed of label swaps (the labels exist, which `src/docs/github-labels.md` 3
requires of the repository), of comments and of hydration; it is not assumed of the issue run's
merge: `merge_branch` has no retry policy there (`runtime/issue_workflow.py` 236-241), and `gh pr merge` fails
as long as GitHub refuses it, for a conflict or a protected branch. So the issue run's fairness is
`WF(pc # "merge" /\ WorkflowStep)`, and `ComesToRest` has the run that stays in its merge as its one exception. Weak fairness of each waiter: its loop polls on a
timer. The steps of a tick are fair (the schedule fires again, Temporal retries the activities
of a tick without a limit) and so is visibility, which lags but catches up; the runs
the poller serves are not made to move. `WF(ActivitySteps)` in `WorkerRun`: an activity
taken up by a living worker ends, by its own calls or by its timeout. Nothing is
fair about the worker's death, and `RunEnds` allows for it: an activity queued
for a dead worker has no schedule-to-start timeout and waits for ever. In `IssueConversation` the run and the tick are each weakly fair, for the reasons just given; people are not. Operators, humans, and alias callers are never made to act. The abstract
`Spec` of `GatedDelivery` asks only for fairness of `Release`. `ReadyHasEffect` leaves
out a tick that is stuck (finding 4): nothing else keeps the
poller from reacting. Reacting is to start a run, or to take the label off an issue on which
the end of the latest run is announced, by the poller or before by the run itself; that the label then
*starts* a run it says only once the end is announced, visibility has caught up and no tick is under way.

*Deadlock* is not checked: a closed run stops, and a run waits at a gate until a
human comes, and the poller's world rests when people have said and labelled all the bounds
allow and no issue is left to list. The comments of an issue rest when its run is over, and its conversation when nobody writes or the run is past the design gate.

*One client or two.* `InformedBuild`, `InformedMerge` and `OnlyToTheWaitingGate` hold
with one client of any kind, since nobody moves the run between its query and its
update. With two operators they do not (section 4).

## 4. Findings

Each has a run that shows it; the lines it contradicts are quoted in `PROJECT.json`.

1. **Fixes made at the merge gate are not what is merged** (`merge_after_fix`).
   Only `pr_creator_stage` pushes and it runs once. Commits of a merge-gate fix or
   rebuild stay on the worker; `gh pr merge` merges the head of before. As a side
   effect, unverified rework cannot land (`LandedWasVerified` rests on it).
2. **The issue run never drops stale findings** (`issue_stale_findings`). It clears test
   results and findings, not the Tester findings; after a good fix the
   verification fails on until the budget is gone.
3. **A cancellation can be discarded** (`issue_cancel`). The signal slot is cleared
   before each gate; a `Cancel` that came while the run was at work is lost.
4. **A signal sent too late stops the poller** (`poller_stuck`). A tick detects a signal in
   one activity and sends it in the next, which fails when the run has closed in between and
   is retried without a limit. The schedule skips ticks while that one runs.
5. **A blocked Builder passes the verification** (`blocked_builder`). `build_stage` returns
   neither the reconciliation findings nor the Builder outputs; what its
   Builders reported is gone with the subgraph's state.

Seen in the models as well, and left without a run of its own:

- **A label is left behind.** A `trigger_fix` or `trigger_rebuild` at the design gate
  plans again under `df:awaiting-approval`, "brief gate is open" by `src/docs/github-labels.md` 22. If the planning cap
  is reached, the last swap removes `df:designing`, which is not there, and the issue of the closed run keeps
  `df:awaiting-approval` beside `df:needs-human`. `LabelsTellTheState` states exactly these two labels for that end, and that
  nothing was built then; without them TLC finds it violated, in a trace of 18 states.
- **A completed run is labelled as failed.** A rejection at the merge gate is quarantined under
  `df:failed` (`runtime/issue_workflow.py` 873-883), by `src/docs/github-labels.md` 48 the label of runs that Temporal does not call completed.
  `LabelsTellTheState` states the label the code puts there.
- **The `df:ready` that asks for a retry is taken off.** A run that ended as `needs_human`
  leaves no marker. The next tick takes the `df:ready` put back ("a human re-adds `df:ready` to retry",
  `src/docs/github-labels.md` 42) for that of the closed run, quarantines the issue and removes the label
  (`runtime/activities.py` 1279); a second one is needed. `ReadyHasEffect` asks for the start of a run after the end was announced only: with
  `"needs-human" \in labels[i]` in the place of `EndIsAnnounced(i)` TLC finds it violated.
- **A run follows without `df:ready`.** The quarantine takes state labels off an issue and
  leaves `df:approved` and `df:cancel`, which are polled too (`runtime/activities.py` 1408): once the end is announced the next tick
  starts a run, which finds the old signal at its first gate. The same line of the docs has only `df:ready` do that.
- **The cursor is lost.** An update that comes while the run awaits `hydrate_stage` or `discovery_stage` (and
  `build_stage`, `verify_stage` and others written the same way: `runtime/issue_workflow.py` 164, 600, 663, 712)
  records `last_seen_comment_id` in a state that the await then replaces. The next tick forwards and
  examines those comments again. Without its exception for this (`rewound`), TLC finds `CommandsAreNew` violated
  in 13 steps: a command older than the run, forwarded to it as history, is found again and obeyed (a `/df cancel`
  that ended the run before cancels this one). A
  command is sent twice, also to a gate that opened after it was obeyed; and a clarification round is
  ended by comments the run has read already, which the comment at `runtime/issue_workflow.py` 288-293 means to
  exclude.
- An attempt of `start_or_update` that is repeated after its update took effect finds no new comments, and
  tells the tick to look for commands after those it forwarded: a command among them is never
  looked at. `CommandFate` states this as its last case (`repeated`).
- A command passes the cursor over what was written between the list a tick forwarded and that command
  (`SkippedOnlyByCommand`): a reply written there never reaches the run.
- `merge_issue_comments` drops a reply with the body of an earlier comment, though its ids differ; its docstring
  calls the body a fallback for comments without an id.
- A note on a refused command patches the body of the design comment as it was read at the start of the
  activity (`AppendNotice`): a brief written in between is overwritten, and the gate opens without it.
- With two operators a decision may land at a gate that is not waiting: `gate_command` checks
  the gate its query saw, the update handler checks nothing.
- A rebuild leaves each earlier Tester finding twice (`BuildMerge`), and a later slice by
  length removes one copy. `FreshEvidence` is therefore about the automatic loop.
- A merge that GitHub refuses is tried for ever in the issue run (see fairness, section 3). So is the first label swap
  in a repository without the labels, of which `src/docs/github-labels.md` 3 says that the workflow fails.
- While visibility still shows a run that has posted its own marker as open, a `df:ready` is taken off with no new
  comment: the marker is not repeated (`ReadyHasEffect` allows it).
- `src/docs/github-labels.md` 27 has a `fix` or `rebuild` comment answer the merge gate; `parse_command`
  (`runtime/approval.py` 11-16) knows neither.
- Two commands refused in one tick: the second note is written from the listing of before
  the first and removes it (`AppendNotice`; `safe` leaves that case out).
- A failed plan discovery "escalates without burning Fixer budget" by the docstring at
  `stages/verify.py` 86; the workflow records an attempt and runs the Fixer.

## 5. Proofs

TLAPS proves, with any set of clients of any kinds, any work packages, predicates,
reports, budgets and limits that meet the named assumptions
(`WPsAssumption`, `BudgetAssumption`, `ReportsAssumption`, `AttemptsAssumption`,
`KindsAssumption`, `CommandsAssumption`):

| Theorem of `GateClientsProofs` | Says | By |
|---|---|---|
| `TypeCorrect` | `SafetySpec => []SystemTypeOK` | inductive with `AttemptsLeft`: an attempt of the merge is still to be had while the run merges, which keeps `merge_attempts` in range |
| `OnlyVerifiedLands` | `SafetySpec => []LandedWasVerified` | `SafeInv`: nothing is pushed before the repair loop passed (`NothingBuilt`, `NothingPushed`), and what is pushed is verified (`PushedVerified`). `LandedWasVerified` alone is not inductive: it says nothing of the pull request before it lands |
| `BudgetHolds` | `SafetySpec => []AutoFixBudget` | the budget check precedes the recording in one resumption; `BumpWithinBudget` |
| `EvidenceIsFresh` | `SafetySpec => []FreshEvidence` | findings and history are empty until the build, after which `BuildFresh` and `FixerFresh` say every finding kept is of the new revision |
| `ImplementsDelivery` | `SafetySpec => Delivery!SafetySpec` | each action maps to an action of `GatedDelivery` or a stutter, from the type invariant |
| `WaitingGateIsReached`, `BuildIsInformed`, `MergeIsInformed` | `SafetySpec /\ []TakeTurns =>` `OnlyToTheWaitingGate`, `InformedBuild`, `InformedMerge` | `TurnInv`: what a client was shown is still what waits (`ViewsAreCurrent`), and a decision that waits is about the brief and the code as they are (`BriefConsent`, `MergeConsent`) |
| `AloneIsInformed` | one client: `SafetySpec =>` the three | a client that is alone always takes turns |

`TakeTurns` is the condition the three need and no more than the code gives one person at
a terminal: while a client holds a view of a pending gate no other client looks, and no
caller of the deprecated `approve_gate`, which names no gate, is about. `gate_admin` reads
`current_state_summary` and then sends an update; two operators may each read, and the
second then decides on what the first has already decided. So the condition is stated with
the theorem and not assumed of the system; `AloneIsInformed` discharges it for the
instance that `prompt_gates` checks.

`IssueProofs` proves of the issue run, assuming `IssueAttemptsAssumption` and
`IssueBoundsAssumption` beside the three of the repair loop:

| Theorem of `IssueProofs` | Says | By |
|---|---|---|
| `IssueTypeCorrect` | `SafetySpec => []TypeOK` | inductive with `PlanningLeft`: planning begins with an attempt left |
| `IssueOnlyVerifiedLands` | `SafetySpec => []LandedWasVerified` | `SafeInv`, as in the prompt run: nothing is pushed before the repair loop passed, and fixes and rebuilds do not move what is |
| `IssueBudgetHolds` | `SafetySpec => []AutoFixBudget` | a step of the loop records within the budget it has just checked; the fix at the merge gate checks none, and by `SafeInv` there is a pull request then |
| `LiveSignalsOnly` | `SafetySpec => []OnlyLiveSignals` | inductive: the slot is empty whenever a gate opens |
| `LabelsTell`, `OneLabelAtATime` | `SafetySpec => []LabelsTellTheState`, `[]OneLifecycleLabel` | `LabelInv`: the label at every await (`Carried`), which end a run with a last label is coming to (`Ending`), and a single lifecycle label (`Single`). At rest alone the labels say nothing of how they were swapped. The labels at rest are exact, one but for the planning cap after a fix or a rebuild of the brief (section 4), which is shown to end before anything is built (`UnbuiltStep`) |
| `IssueImplementsDelivery` | `SafetySpec => Delivery!SafetySpec` | as for the prompt run, from the types |

`CommentsProofs` (assuming `CommentsAssumption`; any remarks, authors, rounds, revisions, failures):

| Theorem of `CommentsProofs` | Says | By |
|---|---|---|
| `CommentsTypeHolds`, `OneCommentPerPhaseHolds`, `PhaseIsShownHolds`, `SafeRemarksStayHolds` | `Spec => []` of `CommentsTypeOK`, `OneCommentPerPhase`, `PhaseIsShown`, `SafeRemarksStay` | `CommentsInv`: a worker that found no comment is right, since nobody else creates one, and what it found is still there under its marker (`WorkerKnows`); the same of the poller (`PollerKnows`); what is in `safe` is in the copy of whoever is about to write (`SafeIsRead`) |
| `QuestionsAskedHolds` | `Spec => []QuestionsAsked` | `QuestionInv`, on top of `CommentsInv`: a run that waits has the question of its round on the issue, which the write it awaited put there (`AwaitsAnAnswer`, `QuestionNext`), and a round has no post before it is asked, at most one per failure while it is, and one more after (`PostsCounted`). The property alone forgets how many of the posts the failed attempts of this round account for |

`ConversationProofs` (assuming `ConversationAssumption`; any bodies, comments, rounds, failures):

| Theorem of `ConversationProofs` | Says | By |
|---|---|---|
| `ConversationTypes` | `SafetySpec => []ConversationTypeOK` | inductive |
| `ConversationSkips` | `SafetySpec => []SkippedOnlyByCommand` | `HeardInv`: everything below any value the cursor had, or may get back (`Reached`: the state's, the loaded state's, the signal's, the comments'), is with the run or was passed by a command. `LastSeen` alone will not do, since it goes back and forth |
| `ConversationFates` | `SafetySpec => []CommandFate` | `FateInv`: a command below `Reached` is settled, or forwarded and the tick is about to look at it (`Looked`); with `TickInv`, that a tick found the first command nobody was denied |
| `ConversationObeys` | `SafetySpec => []CommandsAreNew` | `OrderInv`: unless an attempt was repeated or the cursor put back, `LastSeen` is past what the run was started with and all it was sent, and so is what a tick takes for seen (`Ordered`) |

`Latest` and `FirstOf` are choices from bounded sets of numbers: that the least exists is
by well-foundedness (`LeastExists`), and the greatest is the least distance from the bound.

`BuildProofs` (assuming `SpecAssumption`) proves of `topo_sort`:

| Theorem of `BuildProofs` | Says | By |
|---|---|---|
| `TopoSortSorts` | for every `depends`, `TopoSort(depends)` has each slice once and, unless the slices depend on each other in a circle, after those it depends on | `RoundSorts`: a round puts slices first that depend on nothing left, and some slice is ready as long as there is no circle (`SomeReady`: one of least rank) |

`Among` and `TopoSort` are recursive functions, which are choices: that a function with the
recursive equation exists has to be shown (`KeptDefined`, `OrderDefined`) before anything
can be said of its values. The library's induction theorems cannot be instantiated, so both
inductions are by least counterexample (`LeastOf`): were there a length, or a number of
slices, for which the claim fails, there would be a least one, and it holds for that one since it
holds for the smaller.

`WorkerProofs` (assuming `SetupAssumption`, `SpecAssumption`, `TurnsAssumption`,
`CoveragesAssumption`, `WorkerRunAssumption`, `WPsAssumption`, `BudgetAssumption`; any slices, plans, turns, reports, attempts):

| Theorem of `WorkerProofs` | Says | By |
|---|---|---|
| `OneRetryPerVerdictHolds` | `Spec => []OneRetryPerVerdict` | `VerdictInv`: what each node of the subgraph knows of the verdict so far (`NodeKnows`) |
| `VerdictIsEvidenceHolds` | `Spec => VerdictIsEvidence` | `VerdictInv`, and that the flags of a plan that ran say what its steps say (`PlanShows`) |
| `PatchesAccountForTreeHolds` | `Spec => []PatchesAccountForTree` | `TreeInv`: in the middle of a build what has no patch yet is still uncommitted, so a later diff shows it, or is already counted as lost |
| `BuildInOrderHolds` | `Spec => []BuildInOrder` | `InTurn`: the records of Builder and Tester are those of the first slices of `build_order`, the Tester's at most one behind. The supervisor looks for the first slice without records (`NextInTurn`); that this is the next in order, and its dependencies come before it, is `TopoSortSorts`. `BuildInOrder` alone does not say which slice comes next |
| `WorkerTypeCorrect` | `Spec => []WorkerTypeOK` | `WorkerInv`: types, `InTurn` (a slice that is sent is one of the plan's), `VerdictInv` (a node hands on a number), `OneBuild` |
| `StageResultsHold` | `Spec => StageResults` | one lemma per stage: `BuildIsOneResult`, with `OneBuild` (the findings of an attempt are those of one build of the current code); `VerifyIsOneResult`, with `VerdictInv`; `FixerIsOneResult`. The discrepancies that block are a subsequence (`Among`), of which `BlockingRead` says that verdict and budget read the same from it as from the whole, and `FixerBlocks` what one fix adds to it |

`RepairProofs` holds the lemmas about slicing and concatenation of findings, and
about what one build, fix or verification leaves of the types and of freshness.

`PollerProofs` proves, for any issues, any number of schedules, any capacity, lag of
visibility and failed attempts (assuming `CommentKindsAssumption`, `PolledBoundsAssumption`,
and for the types `IssuesAssumption`, `CapacityAssumption`, `FailuresAssumption`):

| Theorem of `PollerProofs` | Says | By |
|---|---|---|
| `OneLiveRunAlways` | `SafetySpec => []OneLiveRun` | `PollerInv`, below |
| `AcknowledgedRestartAlways` | `SafetySpec => AcknowledgedRestart` | `PollerInv`: the tick that starts run `n` knows that run `n - 1` is acknowledged |
| `PollerTypeCorrect` | `SafetySpec => []PollerTypeOK` | with `PollerInv`, from which the run a tick works on exists |
| `AnnouncedOnceAlways` | one schedule: `SafetySpec => []AnnouncedOnce` | `SoloInv`, below |
| `LiveRunStaysPolled` | one schedule: `SafetySpec => []LiveRunIsPolled` | `SoloInv` |

`OneLiveRun` is not inductive: a tick about to start a run may know nothing. `PollerInv`
adds that every run but the latest is closed (`EarlierRunsClosed`), that what visibility says
of a run was once so, and of a closed run is so still (`VisibleWasSo`), and that a tick
about to start run `n` knows that run `n - 1` closed and that its marker is on the issue
(`TickKnows`). With `REJECT_DUPLICATE` the start then either finds run `n` there or
appends it after runs that are all closed. Closed runs and comments only ever stay
(`RunsEvolve`, `CommentsGrow`), so knowledge a tick has survives every step of
others: the proof has one lemma for the steps of people and runs (`PolledStepInv`) and one for
each kind of step of a tick. That `last_seen` is a comment id needs that a bounded set of
numbers has a greatest element (`GreatestExists`, by well-foundedness).

The last two have the hypothesis `OneSchedule`, that `Ticks` has one member: a schedule
skips a tick while one is running, so one schedule is one tick at a time. They need it. With two
schedules on one repository TLC finds both violated: two ticks quarantine the same run, each having looked
for the marker before the other posts it, and a late quarantine takes the label off an
issue whose next run has begun. `SoloInv` says what a single tick can rely on: every run but
the latest is announced (`EarlierAnnounced`), visibility is at most one run behind (`VisibleNear`), and
what the tick read of the issue and of its latest run is still so (`SnapshotKnows`, `StartsNext`, `KnowsLatest`).
`PolledIssues` has `IssuesAssumption`, that there are finitely many issues, for the
cardinality in the count of open runs.

Model-checked only: liveness (`UnattendedRunCloses`, `ComesToRest`, `ReadyHasEffect`, `RunEnds`,
`RepliesAreHeard`, the fairness part of `DeliverySpec`), which is outside what the proof
system handles, and the properties that the code violates. Every invariant and every
action property of the passing runs is stated by a theorem.

## 6. Not modelled, and why

Text: prompts, comment bodies, approval parsing, rendering, templates. Model calls:
their answers are inputs chosen by the model. Tracing, LLM selection, evaluation
reports: no state of a run depends on them. Continue-as-new is not used by the code.
In `DarkFactoryWorkflow` the contents of a verification (which commands run, which predicates
are found) are one report; `VerifyStage` has the steps, and of a step its exit and what the parser made
of its report. Of the poller: the probe of workflow ids of an older naming, the limit of the listing, and what comments say beyond their
command; the listing, one query per label in the code, is one step, as are the reads of
labels and comments in the detection of a signal. Of the issue's comments: the phases after the
design gate, which only the run writes, comments that are deleted, and the text of any.
The poller is configured with the default entry label: for another one `_poll_labels` (`runtime/activities.py` 343-346) lists
by that label alone, and no lifecycle or action label is polled.
In `IssueConversation` an issue has one run, and what is written after its design gate is left out, as are
edited and deleted comments, signals sent through labels or by `gate_admin` (but for a fix or a rebuild at the
design gate, `GateReplanned`), and the comments the bot
writes, which are filtered wherever comments are read (the hydrator's filter misses phase comments: they
are text to its agents). A permission query that fails is a refusal (`PermissionQueryFails`), as in the code: the queries of one detection fail for the
first commands and answer for the next.
A Tester's answer may list several findings: in `BuildStage` one stands for those of a turn, and they name its slice.
A Fixer's reconciliation may find up to three discrepancies: all name its target, and one stands for them,
blocking if any of them is, since the verdict and the budget ask no more.
`hydrate` is repeated without a limit and an attempt that failed leaves nothing the next would miss: in `WorkerRun` it is one step.
Of the worker: agents are taken to stay on the branch they are put on and not to undo each other's
commits; attempts of one activity do not overlap (a stage that outlives its heartbeat
could); "uncovered" and "weakly covered" predicates are one kind of not covered.
The reducers of `state.py` beyond concatenation, overwriting and `merge_issue_comments` are folds over text, the hooks are
pure functions of one agent's last calls, the schedule commands are one remote call
each, and the evaluation runner reads finished runs; none of them shares state with another actor.

Some hazards are modelled and only partly covered, or not claimed against, because the code does not prevent
them; their notes in `PROJECT.json` say which case. `CommandFate` names the command lost by a
repeated attempt (`repeated`), `CommandsAreNew` leaves out runs whose cursor went back (`rewound`), `PatchesAccountForTree` what a
lost turn had committed (`lost`) and a checkout that is not there, `PhaseIsShown` comments with a note,
`FreshEvidence` what a human rebuild repeats, `UnattendedRunCloses` a run a human commanded. That one live signal takes
the place of another, and that a report of an earlier cycle is believed, is modelled and claimed of nothing.

## 7. What is left

1. The conversation of an issue over two runs, and after its design gate.
2. The capacity shared by two schedules, and two schedules on one issue, where `AnnouncedOnce` and `LiveRunIsPolled` fail (section 5).
3. Overlapping attempts of one stage in `WorkerRun`, after a heartbeat is missed.
4. `StateReducers`: `merge_work_packages`, `_bounded_add` against reference definitions.
5. Proofs: what two schedules do keep of `AnnouncedOnce` and `LiveRunIsPolled`; that what
   `IssueConversation` and `IssueComments` say of a run is a view of `DarkFactoryIssueWorkflow`.
