---------------------- MODULE DarkFactoryIssueWorkflow ----------------------
(***************************************************************************)
(* The issue-run workflow of runtime/issue_workflow.py: triage with rounds *)
(* of clarification, planning and the design gate, build and repair, pull  *)
(* request, review and merge gate, merge, with the issue's state label     *)
(* swapped at every transition.                                            *)
(*                                                                         *)
(* pc names the await the run coroutine is suspended at, as in module      *)
(* DarkFactoryWorkflow; the awaits of the phase comments are merged with   *)
(* the awaits next to them, they store nothing the run reads.  A swap of   *)
(* labels is an await of its own, because an update handled meanwhile      *)
(* meets the coroutine between two of its decisions.                       *)
(*                                                                         *)
(* An approval signal is [kind, at, rev, code].  The code stores the kind; *)
(* at, rev and code are history: the await it arrived at, and the spec and *)
(* code revisions of that moment.  pushed and landed are history too.      *)
(***************************************************************************)
EXTENDS RepairState, FiniteSets

CONSTANTS
    PLANNING_MAX_ATTEMPTS,      \* Plan Critic rounds per spec revision
    MAX_CLARIFICATION_ROUNDS,   \* questions asked before triage gives up
    SignalKinds,                \* kinds of signal the run is sent
    MAX_SIGNALS,                \* bound: signals in a behaviour
    MAX_COMMENTS                \* bound: forwarded batches of comments

ASSUME IssueAttemptsAssumption ==
    /\ PLANNING_MAX_ATTEMPTS \in Nat \ {0}
    /\ MAX_CLARIFICATION_ROUNDS \in Nat
ASSUME IssueBoundsAssumption ==
    /\ SignalKinds \subseteq {"Approve", "Revise", "Reject", "Cancel", "Fix", "Rebuild"}
    /\ MAX_SIGNALS \in Nat /\ MAX_COMMENTS \in Nat

VARIABLES
    pc, status, worker,
    approval_signal,        \* the last signal, until the run discards it
    signals,                \* signals sent so far
    new_comments,           \* batches of comments not yet handed to triage
    comments,               \* batches forwarded so far
    clarification_round,
    planning_attempts, latest_spec_rev,
    current_df_label,       \* the label the run added last
    labels,                 \* labels on the issue
    pushed, landed

issueVars == <<new_comments, comments, clarification_round>>
planVars == <<planning_attempts, latest_spec_rev>>
labelVars == <<current_df_label, labels>>
signalVars == <<approval_signal, signals>>
landVars == <<pushed, landed>>
vars == <<pc, status, worker, signalVars, issueVars, planVars, labelVars,
          landVars, repairVars>>

LifecycleLabels ==
    {"triaging", "needs-clarification", "designing", "awaiting-approval",
     "building", "verifying", "reviewing", "awaiting-merge", "fixing",
     "in-progress", "done"}
OutcomeLabels == {"needs-human", "canceled", "failed"}
StateLabels == {"ready"} \cup LifecycleLabels \cup OutcomeLabels
ActionLabels == {"approved", "cancel"}

NoSignal == [kind |-> "none", at |-> "none", rev |-> 0, code |-> 0]

-----------------------------------------------------------------------------
(* The label swaps of the run: what is removed, what is added, and the     *)
(* await that follows.  What is not on the issue is not removed.           *)

Swap(remove, add, next) == [remove |-> remove, add |-> add, next |-> next]

Swaps == [
    label_triaging        |-> Swap({"ready"}, "triaging", "triage_check"),
    label_clarification   |-> Swap({"triaging"}, "needs-clarification", "clarification"),
    label_retriage        |-> Swap({"needs-clarification"}, "triaging", "triage_check"),
    label_abandoned       |-> Swap({"triaging"}, "needs-human", "teardown"),
    label_designing       |-> Swap({"triaging"}, "designing", "planning"),
    label_design_failed   |-> Swap({"designing"}, "needs-human", "teardown"),
    label_approval        |-> Swap({"designing"}, "awaiting-approval", "design_gate"),
    label_redesign        |-> Swap({"awaiting-approval"}, "designing", "planning"),
    label_building        |-> Swap({"awaiting-approval", "approved"}, "building", "build_cancel_check"),
    label_verifying       |-> Swap({"building"}, "verifying", "verify"),
    label_verify_failed   |-> Swap({"verifying"}, "needs-human", "teardown"),
    label_reviewing       |-> Swap({"verifying", "fixing", "building", "awaiting-merge"}, "reviewing", "reviewer"),
    label_awaiting_merge  |-> Swap({"reviewing"}, "awaiting-merge", "merge_gate"),
    label_fixing          |-> Swap({"awaiting-merge"}, "fixing", "gate_fixer"),
    label_rebuilding      |-> Swap({"awaiting-merge"}, "building", "gate_build"),
    label_in_progress     |-> Swap({"awaiting-merge"}, "in-progress", "merge"),
    label_done            |-> Swap({"in-progress"}, "done", "teardown")]

\* Mutant of ClearingSwaps: the signal is not discarded before the waits.
ClearingRedesignOnly == {"label_redesign"}

\* After these swaps the run discards the signal it holds.
ClearingSwaps == {"label_approval", "label_redesign", "label_awaiting_merge"}

LabelAwaits == DOMAIN Swaps
RestStates == {"clarification", "design_gate", "merge_gate", "closed"}
StageActivities == {"triage", "discovery", "build", "verify", "fixer", "pr_creator",
                    "reviewer", "gate_fixer", "gate_build", "gate_verify"}
PCs == {"setup", "hydrate", "triage_check", "planning", "build_cancel_check",
        "post_question", "post_abandoned", "label_canceled", "quarantine", "merge", "mark_done", "teardown"}
          \cup LabelAwaits \cup RestStates \cup StageActivities

Init ==
    /\ pc = "setup" /\ status = "running" /\ worker = "none"
    /\ approval_signal = NoSignal /\ signals = 0
    /\ new_comments = 0 /\ comments = 0 /\ clarification_round = 0
    /\ planning_attempts = 0 /\ latest_spec_rev = 1
    /\ current_df_label = "ready" /\ labels = {"ready"}
    /\ pushed = 0 /\ landed = 0
    /\ RepairInit

Go(from, to) == pc = from /\ pc' = to

\* The run is over with this result; what is left is to tidy up from here.
Leave(result, to) == status' = result /\ pc' = to

-----------------------------------------------------------------------------
(* Updates and labels, from the poller or from a Temporal client.          *)

signal_approval ==
    /\ pc # "closed" /\ signals < MAX_SIGNALS
    /\ \E kind \in SignalKinds :
         /\ approval_signal' = [kind |-> kind, at |-> pc,
                                rev |-> latest_spec_rev, code |-> code]
         /\ labels' \in {labels} \cup
                CASE kind = "Approve" -> {labels \cup {"approved"}}
                  [] kind = "Cancel" -> {labels \cup {"cancel"}}
                  [] OTHER -> {}
    /\ signals' = signals + 1
    /\ UNCHANGED <<pc, status, worker, issueVars, planVars, current_df_label,
                   landVars, repairVars>>

post_new_comments ==
    /\ pc # "closed" /\ comments < MAX_COMMENTS
    /\ comments' = comments + 1 /\ new_comments' = new_comments + 1
    /\ UNCHANGED <<pc, status, worker, signalVars, clarification_round, planVars,
                   labelVars, landVars, repairVars>>

-----------------------------------------------------------------------------
\* Mutant of SwapLabel: the new label is added, the old one is not removed.
AddLabel ==
    /\ pc \in LabelAwaits
    /\ labels' = labels \cup {Swaps[pc].add}
    /\ current_df_label' = Swaps[pc].add
    /\ pc' = Swaps[pc].next
    /\ approval_signal' = IF pc \in ClearingSwaps THEN NoSignal ELSE approval_signal
    /\ UNCHANGED <<status, worker, signals, issueVars, planVars, landVars, repairVars>>

SwapLabel ==
    /\ pc \in LabelAwaits
    /\ labels' = (labels \ Swaps[pc].remove) \cup {Swaps[pc].add}
    /\ current_df_label' = Swaps[pc].add
    /\ pc' = Swaps[pc].next
    /\ approval_signal' = IF pc \in ClearingSwaps THEN NoSignal ELSE approval_signal
    /\ UNCHANGED <<status, worker, signals, issueVars, planVars, landVars, repairVars>>

SetupWorker ==
    /\ Go("setup", "hydrate") /\ worker' = "up"
    /\ UNCHANGED <<status, signalVars, issueVars, planVars, labelVars, landVars, repairVars>>

Hydrate ==
    /\ Go("hydrate", "label_triaging")
    /\ UNCHANGED <<status, worker, signalVars, issueVars, planVars, labelVars,
                   landVars, repairVars>>

-----------------------------------------------------------------------------
(* Cancellation: looked for where triage turns and before the build.  The  *)
(* label removed with df:cancel is, at each of these places and at the     *)
(* gates, the one the run added last.                                      *)

CancelRequested == approval_signal.kind = "Cancel"

CancelNoticed ==
    /\ pc \in {"triage_check", "clarification", "build_cancel_check"}
    /\ CancelRequested
    /\ Leave("canceled", "label_canceled")
    /\ UNCHANGED <<worker, signalVars, issueVars, planVars, labelVars, landVars, repairVars>>

LabelCanceled ==
    /\ Go("label_canceled", "quarantine")
    /\ labels' = (labels \ {current_df_label, "cancel"}) \cup {"canceled"}
    /\ current_df_label' = "canceled"
    /\ UNCHANGED <<status, worker, signalVars, issueVars, planVars, landVars, repairVars>>

\* Mutant of Quarantine: the run ends there, its worker is not torn down.
QuarantineAndClose ==
    LET label == IF status = "rejected" THEN "failed" ELSE "canceled"
    IN /\ Go("quarantine", "closed")
       /\ labels' = (labels \ (StateLabels \ {label})) \cup {label}
       /\ UNCHANGED <<status, worker, signalVars, issueVars, planVars,
                      current_df_label, landVars, repairVars>>

\* quarantine_closed_issue_activity with the closure "rejected" or "canceled".
Quarantine ==
    LET label == IF status = "rejected" THEN "failed" ELSE "canceled"
    IN /\ Go("quarantine", "teardown")
       /\ labels' = (labels \ (StateLabels \ {label})) \cup {label}
       /\ UNCHANGED <<status, worker, signalVars, issueVars, planVars,
                      current_df_label, landVars, repairVars>>

-----------------------------------------------------------------------------
(* Triage.  Comments that came before are handed over with the state, those*)
(* that come while the agent works wait for the next round.                *)

TriageStarts ==
    /\ Go("triage_check", "triage") /\ ~CancelRequested
    /\ new_comments' = 0
    /\ UNCHANGED <<status, worker, signalVars, comments, clarification_round,
                   planVars, labelVars, landVars, repairVars>>

TriageReady ==
    /\ Go("triage", "label_designing")
    /\ UNCHANGED <<status, worker, signalVars, issueVars, planVars, labelVars,
                   landVars, repairVars>>

TriageUnclear ==
    /\ pc = "triage"
    /\ IF clarification_round >= MAX_CLARIFICATION_ROUNDS
       THEN Leave("abandoned", "post_abandoned") /\ UNCHANGED clarification_round
       ELSE /\ pc' = "post_question"
            /\ clarification_round' = clarification_round + 1
            /\ UNCHANGED status
    /\ UNCHANGED <<worker, signalVars, new_comments, comments, planVars, labelVars,
                   landVars, repairVars>>

PostQuestion ==
    /\ Go("post_question", "label_clarification")
    /\ UNCHANGED <<status, worker, signalVars, issueVars, planVars, labelVars,
                   landVars, repairVars>>

\* post_issue_comment_activity with mark_needs_human adds the label as well.
PostAbandoned ==
    /\ Go("post_abandoned", "label_abandoned")
    /\ labels' = labels \cup {"needs-human"}
    /\ UNCHANGED <<status, worker, signalVars, issueVars, planVars,
                   current_df_label, landVars, repairVars>>

ClarificationReply ==
    /\ Go("clarification", "label_retriage")
    /\ ~CancelRequested /\ new_comments > 0
    /\ new_comments' = 0
    /\ UNCHANGED <<status, worker, signalVars, comments, clarification_round,
                   planVars, labelVars, landVars, repairVars>>

-----------------------------------------------------------------------------
(* Planning and the design gate.                                           *)

\* Mutant of PlanningAttempt: the attempt is not counted.
PlanningAttemptUncounted ==
    /\ Go("planning", "discovery")
    /\ UNCHANGED <<status, worker, signalVars, issueVars, planVars,
                   labelVars, landVars, repairVars>>

PlanningAttempt ==
    /\ Go("planning", "discovery")
    /\ planning_attempts' = planning_attempts + 1
    /\ UNCHANGED <<status, worker, signalVars, issueVars, latest_spec_rev,
                   labelVars, landVars, repairVars>>

DiscoveryApproved ==
    /\ Go("discovery", "label_approval")
    /\ UNCHANGED <<status, worker, signalVars, issueVars, planVars, labelVars,
                   landVars, repairVars>>

\* Mutant of DiscoveryRejected: one planning attempt too many.
DiscoveryRejectedLate ==
    /\ pc = "discovery"
    /\ IF planning_attempts > PLANNING_MAX_ATTEMPTS
       THEN Leave("needs_human", "label_design_failed")
       ELSE pc' = "planning" /\ UNCHANGED status
    /\ UNCHANGED <<worker, signalVars, issueVars, planVars, labelVars, landVars, repairVars>>

DiscoveryRejected ==
    /\ pc = "discovery"
    /\ IF planning_attempts >= PLANNING_MAX_ATTEMPTS
       THEN Leave("needs_human", "label_design_failed")
       ELSE pc' = "planning" /\ UNCHANGED status
    /\ UNCHANGED <<worker, signalVars, issueVars, planVars, labelVars, landVars, repairVars>>

\* Any kind but Approve, Reject and Cancel leads back to planning; only
\* Revise makes it a new revision, under a new label.
DesignRevised ==
    /\ pc = "design_gate" /\ approval_signal.kind \in {"Revise", "Fix", "Rebuild"}
    /\ IF approval_signal.kind = "Revise"
       THEN pc' = "label_redesign" /\ latest_spec_rev' = latest_spec_rev + 1
       ELSE pc' = "planning" /\ UNCHANGED latest_spec_rev
    /\ planning_attempts' = 0
    /\ UNCHANGED <<status, worker, signalVars, issueVars, labelVars, landVars, repairVars>>

DesignRejected ==
    /\ pc = "design_gate" /\ approval_signal.kind \in {"Reject", "Cancel"}
    /\ Leave("canceled", "label_canceled")
    /\ UNCHANGED <<worker, signalVars, issueVars, planVars, labelVars, landVars, repairVars>>

DesignApproved ==
    /\ Go("design_gate", "label_building") /\ approval_signal.kind = "Approve"
    /\ UNCHANGED <<status, worker, signalVars, issueVars, planVars, labelVars,
                   landVars, repairVars>>

-----------------------------------------------------------------------------
(* Build, then the verify/Fixer loop.  No finding is dropped here.         *)

BuildStarts ==
    /\ Go("build_cancel_check", "build") /\ ~CancelRequested
    /\ UNCHANGED <<status, worker, signalVars, issueVars, planVars, labelVars,
                   landVars, repairVars>>

Build ==
    /\ Go("build", "label_verifying")
    /\ BuildResult(0, 0)
    /\ UNCHANGED <<status, worker, signalVars, issueVars, planVars, labelVars, landVars>>

VerifyPassed(report) ==
    /\ Go("verify", "pr_creator")
    /\ VerifyResult(report) /\ verify_summary'.passed
    /\ UNCHANGED <<status, worker, signalVars, issueVars, planVars, labelVars,
                   landVars, attemptVars>>

VerifyEscalated(report) ==
    /\ pc = "verify"
    /\ VerifyResult(report) /\ ~verify_summary'.passed
    /\ BudgetExhausted(report.reported)
    /\ Leave("needs_human", "label_verify_failed")
    /\ UNCHANGED <<worker, signalVars, issueVars, planVars, labelVars,
                   landVars, attemptVars>>

VerifyFailed(report) ==
    /\ Go("verify", "fixer")
    /\ VerifyResult(report) /\ ~verify_summary'.passed
    /\ ~BudgetExhausted(report.reported)
    /\ RecordFixerAttempt(report.reported)
    /\ UNCHANGED <<status, worker, signalVars, issueVars, planVars, labelVars, landVars>>

Fixer(result) ==
    /\ pc = "fixer"
    /\ FixerResult(result, 0, 0)
    /\ IF result.decision = "fixed"
       THEN pc' = "verify" /\ UNCHANGED status
       ELSE Leave("needs_human", "label_verify_failed")
    /\ UNCHANGED <<worker, signalVars, issueVars, planVars, labelVars, landVars>>

-----------------------------------------------------------------------------
(* Pull request, review and merge gate.                                    *)

PrCreator ==
    /\ Go("pr_creator", "label_reviewing")
    /\ pushed' = code
    /\ UNCHANGED <<status, worker, signalVars, issueVars, planVars, labelVars,
                   landed, repairVars>>

Reviewer ==
    /\ Go("reviewer", "label_awaiting_merge")
    /\ UNCHANGED <<status, worker, signalVars, issueVars, planVars, labelVars,
                   landVars, repairVars>>

MergeRejected ==
    /\ pc = "merge_gate" /\ approval_signal.kind \in {"Reject", "Cancel"}
    /\ Leave(IF approval_signal.kind = "Reject" THEN "rejected" ELSE "canceled",
             "label_canceled")
    /\ UNCHANGED <<worker, signalVars, issueVars, planVars, labelVars, landVars, repairVars>>

MergeApproved ==
    /\ Go("merge_gate", "label_in_progress") /\ approval_signal.kind = "Approve"
    /\ UNCHANGED <<status, worker, signalVars, issueVars, planVars, labelVars,
                   landVars, repairVars>>

\* The attempt is recorded after the swap; nothing it depends on changes there.
MergeFix ==
    /\ Go("merge_gate", "label_fixing") /\ approval_signal.kind = "Fix"
    /\ RecordFixerAttempt(verify_summary.reported)
    /\ UNCHANGED <<status, worker, signalVars, issueVars, planVars, labelVars, landVars,
                   findingVars, verify_summary, code, verified>>

\* Mutant of GateFixer: the fix is pushed as soon as it is made.
GateFixerPushes(result) ==
    /\ Go("gate_fixer", "gate_verify")
    /\ FixerResult(result, 0, 0)
    /\ pushed' = code'
    /\ UNCHANGED <<status, worker, signalVars, issueVars, planVars, labelVars, landed>>

GateFixer(result) ==
    /\ Go("gate_fixer", "gate_verify")
    /\ FixerResult(result, 0, 0)
    /\ UNCHANGED <<status, worker, signalVars, issueVars, planVars, labelVars, landVars>>

MergeRebuild ==
    /\ Go("merge_gate", "label_rebuilding") /\ approval_signal.kind = "Rebuild"
    /\ UNCHANGED <<status, worker, signalVars, issueVars, planVars, labelVars,
                   landVars, repairVars>>

GateBuild ==
    /\ Go("gate_build", "gate_verify")
    /\ BuildResult(0, 0)
    /\ UNCHANGED <<status, worker, signalVars, issueVars, planVars, labelVars, landVars>>

GateVerify(report) ==
    /\ Go("gate_verify", "label_reviewing")
    /\ VerifyResult(report)
    /\ UNCHANGED <<status, worker, signalVars, issueVars, planVars, labelVars,
                   landVars, attemptVars>>

\* Revise means nothing here: the change is reviewed again.
MergeIgnored ==
    /\ Go("merge_gate", "label_reviewing") /\ approval_signal.kind = "Revise"
    /\ UNCHANGED <<status, worker, signalVars, issueVars, planVars, labelVars,
                   landVars, repairVars>>

\* merge_branch is retried for ever here, and GitHub may refuse for ever (an
\* attempt that changes nothing is a stutter).  An attempt that failed may have
\* landed the change, and the next one then finds the pull request merged.
MergeBranch ==
    /\ pc = "merge" /\ Leave("merged", "mark_done")
    /\ landed' = IF landed = 0 THEN pushed ELSE landed
    /\ UNCHANGED <<worker, signalVars, issueVars, planVars, labelVars, pushed, repairVars>>

MergeAttemptFails ==
    /\ pc = "merge" /\ landed = 0 /\ landed' = pushed
    /\ UNCHANGED <<pc, status, worker, signalVars, issueVars, planVars, labelVars,
                   pushed, repairVars>>

\* Mutant of MarkIssueDone: the label of the merge is left in place.
MarkIssueDoneOnly ==
    /\ Go("mark_done", "teardown")
    /\ labels' = labels \cup {"done"}
    /\ UNCHANGED <<status, worker, signalVars, issueVars, planVars, current_df_label,
                   landVars, repairVars>>

MarkIssueDone ==
    /\ Go("mark_done", "label_done")
    /\ labels' = labels \cup {"done"}
    /\ UNCHANGED <<status, worker, signalVars, issueVars, planVars, current_df_label,
                   landVars, repairVars>>

-----------------------------------------------------------------------------
\* The last attempt of a stage activity fails; the label stays as it is.
StageFails ==
    /\ pc \in StageActivities
    /\ Leave("failed", "teardown")
    /\ UNCHANGED <<worker, signalVars, issueVars, planVars, labelVars, landVars, repairVars>>

Teardown ==
    /\ Go("teardown", "closed") /\ worker' = "down"
    /\ UNCHANGED <<status, signalVars, issueVars, planVars, labelVars, landVars, repairVars>>

WorkflowStep ==
    \/ SwapLabel \/ SetupWorker \/ Hydrate
    \/ CancelNoticed \/ LabelCanceled \/ Quarantine
    \/ TriageStarts \/ TriageReady \/ TriageUnclear
    \/ PostQuestion \/ PostAbandoned \/ ClarificationReply
    \/ PlanningAttempt \/ DiscoveryApproved \/ DiscoveryRejected
    \/ DesignRevised \/ DesignRejected \/ DesignApproved
    \/ BuildStarts \/ Build
    \/ \E report \in VerifyReports : VerifyPassed(report) \/ VerifyEscalated(report)
                                       \/ VerifyFailed(report) \/ GateVerify(report)
    \/ \E result \in FixerReports : Fixer(result) \/ GateFixer(result)
    \/ PrCreator \/ Reviewer
    \/ MergeRejected \/ MergeApproved \/ MergeFix \/ MergeRebuild \/ MergeIgnored
    \/ GateBuild \/ MergeBranch \/ MergeAttemptFails \/ MarkIssueDone
    \/ StageFails \/ Teardown

Next == WorkflowStep \/ signal_approval \/ post_new_comments

SafetySpec == Init /\ [][Next]_vars

\* Activities return, those that edit the issue at last with success (the
\* repository has every label, docs/github-labels.md 3), and the Temporal worker
\* runs what is ready.  Nobody makes a human signal or comment, nor GitHub
\* accept a merge.
Spec == SafetySpec /\ WF_vars(pc # "merge" /\ WorkflowStep)

-----------------------------------------------------------------------------
(* PROPERTIES.                                                             *)

SignalViews == [kind : SignalKinds, at : PCs, rev : Nat, code : Nat]

(* Every variable of the issue run keeps to the values the code can store. *)
TypeOK ==
    /\ pc \in PCs
    /\ status \in {"running", "merged", "rejected", "canceled", "needs_human",
                   "abandoned", "failed"}
    /\ worker \in {"none", "up", "down"}
    /\ approval_signal \in SignalViews \cup {NoSignal}
    /\ signals \in 0..MAX_SIGNALS
    /\ comments \in 0..MAX_COMMENTS /\ new_comments \in 0..comments
    /\ clarification_round \in 0..MAX_CLARIFICATION_ROUNDS
    /\ planning_attempts \in 0..PLANNING_MAX_ATTEMPTS
    /\ latest_spec_rev \in Nat
    /\ current_df_label \in StateLabels
    /\ labels \subseteq StateLabels \cup ActionLabels
    /\ pushed \in Nat /\ landed \in Nat
    /\ RepairTypeOK

(* A gate goes by a signal that arrived while the run waited at that gate  *)
(* and about what it showed there: one that came while planning, building  *)
(* or reviewing is discarded (issue_workflow.py 464, 561, 863).            *)
OnlyLiveSignals ==
    /\ pc = "design_gate" /\ approval_signal # NoSignal =>
          approval_signal.at = "design_gate" /\ approval_signal.rev = latest_spec_rev
    /\ pc = "merge_gate" /\ approval_signal # NoSignal =>
          approval_signal.at = "merge_gate" /\ approval_signal.code = code

\* What the closed run left on the issue.  The cap on planning removes
\* df:designing alone (issue_workflow.py 428): after a fix or a rebuild at the
\* design gate the label is df:awaiting-approval, and stays, against
\* docs/github-labels.md 22 (the gate is open).  A rejection is quarantined
\* under df:failed, against line 48 (a run that did not complete).  A stage
\* that failed leaves its own label.
EndLabels(shown) ==
    CASE status = "merged" -> shown = {"done"}
      [] status = "canceled" -> shown = {"canceled"}
      [] status = "rejected" -> shown = {"failed"}
      [] status = "abandoned" -> shown = {"needs-human"}
      [] status = "needs_human" ->
            \/ shown = {"needs-human"}
            \/ shown = {"needs-human", "awaiting-approval"} /\ code = 0
      [] OTHER -> TRUE

(* Where the run rests, the issue's state labels are those of that rest: at *)
(* a human wait the one of the wait, after an end the run chose those of    *)
(* EndLabels, one label but for a planning cap reached after a fix or a     *)
(* rebuild of the brief, when nothing was built.                            *)
LabelsTellTheState ==
    LET shown == labels \cap StateLabels
    IN /\ pc = "clarification" => shown = {"needs-clarification"}
       /\ pc = "design_gate" => shown = {"awaiting-approval"}
       /\ pc = "merge_gate" => shown = {"awaiting-merge"}
       /\ pc = "closed" => EndLabels(shown)

(* Never two lifecycle labels at once while the run works on the issue,    *)
(* but between mark_issue_done and the last swap.                          *)
OneLifecycleLabel ==
    pc # "label_done" => Cardinality(labels \cap LifecycleLabels) <= 1

(* Code that never passed a verification cannot land.                      *)
LandedWasVerified == landed # 0 => landed \in verified

(* Until there is a pull request the Fixer's budget holds.                 *)
AutoFixBudget == pushed = 0 => WithinBudget

(* The run always comes to rest again, closed or waiting for a human,      *)
(* unless GitHub refuses its merge for ever: merge_branch has no retry     *)
(* policy (issue_workflow.py 236-241) and raises whenever gh pr merge fails.*)
ComesToRest == []<>(pc \in RestStates) \/ <>[](pc = "merge")

(* issue_workflow.py 707-709: each cycle of the repair loop is evaluated   *)
(* against fresh evidence, not against what the Fixer has dealt with.      *)
FreshEvidence == pc = "verify" => FreshFindings

(* docs/github-labels.md 38: df:cancel "cancels the running workflow": a   *)
(* cancellation that reached the run is not thrown away.                   *)
CancelIsNotDropped ==
    [][CancelRequested /\ approval_signal' = NoSignal => status' = "canceled"]_vars

-----------------------------------------------------------------------------
(* The run as a gated delivery.                                            *)

delivery_stage ==
    CASE pc = "setup" -> "starting"
      [] pc = "closed" -> "closed"
      [] pc = "design_gate" -> "brief_gate"
      [] pc = "merge_gate" -> "merge_gate"
      [] pc \in {"label_in_progress", "merge"} -> "merging"
      [] pc \in {"label_building", "build_cancel_check", "build", "label_verifying",
                 "verify", "fixer", "pr_creator", "label_reviewing", "reviewer",
                 "label_awaiting_merge", "label_fixing", "gate_fixer", "gate_verify",
                 "label_rebuilding", "gate_build"} -> "working"
      [] pc \in {"label_abandoned", "label_design_failed", "label_verify_failed",
                 "post_abandoned", "label_canceled", "quarantine", "mark_done",
                 "label_done", "teardown"} -> "releasing"
      [] OTHER -> "planning"

delivery_outcome ==
    IF status \in {"running", "merged"} THEN status ELSE "stopped"

Delivery == INSTANCE GatedDelivery WITH
                stage <- delivery_stage, outcome <- delivery_outcome,
                landed <- landed # 0

(* The issue run implements GatedDelivery, as the prompt run does.         *)
DeliverySpec == Delivery!Spec

=============================================================================
