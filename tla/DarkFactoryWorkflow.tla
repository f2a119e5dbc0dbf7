------------------------ MODULE DarkFactoryWorkflow ------------------------
(***************************************************************************)
(* The prompt-run workflow of runtime/workflow.py: provision a worker,     *)
(* plan until the Plan Critic approves, wait at the brief gate, build,     *)
(* verify and repair, open a pull request, wait at the merge gate (fix,    *)
(* rebuild, approve or reject), merge, and tear the worker down.           *)
(*                                                                         *)
(* pc names the await the run coroutine is suspended at.  One action is    *)
(* one resumption: the awaited activity's result (or the gate's condition  *)
(* becoming true) and everything the coroutine does until it awaits again. *)
(* Update handlers run between two resumptions and are given as the        *)
(* operators of section UPDATES; module GateClients sends them.            *)
(*                                                                         *)
(* A gate decision is the record [approved, gate, brief, code].  The code  *)
(* stores only `approved`; the other three are history: the pending gate,  *)
(* the brief revision and the code revision the client was shown by the    *)
(* query that made it act.  brief, pushed and landed are history too: the  *)
(* revision of the brief, and the code revisions that are the head of the  *)
(* pull request and that were merged (0 for none).                         *)
(***************************************************************************)
EXTENDS RepairState

CONSTANTS
    PLANNING_MAX_ATTEMPTS,  \* Plan Critic rounds per human revision
    MERGE_MAX_ATTEMPTS      \* Temporal attempts of merge_branch

ASSUME AttemptsAssumption ==
    /\ PLANNING_MAX_ATTEMPTS \in Nat \ {0}
    /\ MERGE_MAX_ATTEMPTS \in Nat \ {0}

VARIABLES
    pc, status, worker,
    brief_gate, brief_revise, merge_gate, merge_action,
    planning_attempts, brief,
    merge_attempts, pushed, landed

gateVars == <<brief_gate, brief_revise, merge_gate, merge_action>>
planVars == <<planning_attempts, brief>>
mergeVars == <<merge_attempts, pushed, landed>>
workflowVars == <<pc, status, worker, gateVars, planVars, repairVars, mergeVars>>

Gates == {"none", "brief", "merge"}
NoDecision == [approved |-> FALSE, gate |-> "no_decision", brief |-> 0, code |-> 0]
Decisions == [approved : BOOLEAN, gate : Gates, brief : Nat, code : Nat]
NoAction == [action |-> "none", decision |-> NoDecision]
MergeActions == [action : {"fix", "rebuild"}, decision : Decisions]

GateWaits == {"brief_gate", "merge_gate"}
StageActivities == {"discovery", "build", "verify", "fixer", "pr_creator",
                    "reviewer", "gate_fixer", "gate_build", "gate_verify"}
PCs == {"setup", "hydrate", "merge", "teardown", "closed"}
         \cup GateWaits \cup StageActivities

WorkflowInit ==
    /\ pc = "setup" /\ status = "running" /\ worker = "none"
    /\ brief_gate = NoDecision /\ brief_revise = NoDecision
    /\ merge_gate = NoDecision /\ merge_action = NoAction
    /\ planning_attempts = 0 /\ brief = 0
    /\ RepairInit
    /\ merge_attempts = 0 /\ pushed = 0 /\ landed = 0

-----------------------------------------------------------------------------
(* The query current_state_summary reports a gate as pending only while    *)
(* the coroutine waits at it and no decision for it has been accepted.     *)

\* Mutants of pending_gate: _pending_gate is not reset when the wait at the
\* brief gate, or at the merge gate, ends.
brief_gate_still_pending ==
    CASE pc = "brief_gate" \/ (pc = "discovery" /\ brief # 0) -> "brief"
      [] pc = "merge_gate" -> "merge"
      [] OTHER -> "none"

merge_gate_still_pending ==
    CASE pc = "brief_gate" -> "brief"
      [] pc \in {"merge_gate", "gate_fixer", "gate_build", "gate_verify"} -> "merge"
      [] OTHER -> "none"

pending_gate ==
    CASE pc = "brief_gate" -> "brief"
      [] pc = "merge_gate" -> "merge"
      [] OTHER -> "none"

\* Mutant of summary_pending_gate: a gate that has its decision still counts.
summary_of_any_wait == pending_gate

summary_pending_gate ==
    IF \/ /\ pending_gate = "brief"
          /\ brief_gate = NoDecision /\ brief_revise = NoDecision
       \/ /\ pending_gate = "merge"
          /\ merge_gate = NoDecision /\ merge_action = NoAction
    THEN pending_gate
    ELSE "none"

-----------------------------------------------------------------------------
(* UPDATES.  None of the handlers looks at the gate that is pending,       *)
(* except the compatibility alias approve_gate.                            *)

approve_brief(d) ==
    /\ brief_gate' = [d EXCEPT !.approved = TRUE]
    /\ UNCHANGED <<brief_revise, merge_gate, merge_action>>

reject_brief(d) ==
    /\ brief_gate' = [d EXCEPT !.approved = FALSE]
    /\ UNCHANGED <<brief_revise, merge_gate, merge_action>>

revise_brief(d) ==
    /\ brief_revise' = d
    /\ UNCHANGED <<brief_gate, merge_gate, merge_action>>

approve_merge(d) ==
    /\ merge_gate' = [d EXCEPT !.approved = TRUE]
    /\ UNCHANGED <<brief_gate, brief_revise, merge_action>>

reject_merge(d) ==
    /\ merge_gate' = [d EXCEPT !.approved = FALSE]
    /\ UNCHANGED <<brief_gate, brief_revise, merge_action>>

trigger_fix(d) ==
    /\ merge_action' = [action |-> "fix", decision |-> d]
    /\ UNCHANGED <<brief_gate, brief_revise, merge_gate>>

trigger_rebuild(d) ==
    /\ merge_action' = [action |-> "rebuild", decision |-> d]
    /\ UNCHANGED <<brief_gate, brief_revise, merge_gate>>

approve_gate(d) ==
    LET brief_is_next == \/ pending_gate = "brief"
                         \/ pending_gate = "none" /\ brief_gate = NoDecision
    IN /\ brief_gate' = IF brief_is_next THEN d ELSE brief_gate
       /\ merge_gate' = IF brief_is_next THEN merge_gate ELSE d
       /\ UNCHANGED <<brief_revise, merge_action>>

-----------------------------------------------------------------------------
(* Provisioning and planning.  setup_worker_activity and hydrate_stage     *)
(* have Temporal's default retry policy: they are retried for ever.        *)

SetupWorker ==
    /\ pc = "setup"
    /\ pc' = "hydrate" /\ worker' = "up"
    /\ UNCHANGED <<status, gateVars, planVars, repairVars, mergeVars>>

Hydrate ==
    /\ pc = "hydrate"
    /\ pc' = "discovery" /\ planning_attempts' = 1
    /\ UNCHANGED <<status, worker, gateVars, brief, repairVars, mergeVars>>

\* Mutant of Leave: a return without the finally block.
LeaveWithoutTeardown(result) == pc' = "closed" /\ status' = result

\* The run leaves the try block with a result or an exception; the finally
\* block awaits teardown_worker_activity.
Leave(result) == pc' = "teardown" /\ status' = result

DiscoveryApproved ==
    /\ pc = "discovery"
    /\ pc' = "brief_gate" /\ brief' = brief + 1
    /\ UNCHANGED <<status, worker, gateVars, planning_attempts, repairVars, mergeVars>>

\* Mutant of DiscoveryRejected: one planning attempt too many.
DiscoveryRejectedLate ==
    /\ pc = "discovery"
    /\ IF planning_attempts > PLANNING_MAX_ATTEMPTS
       THEN Leave("needs_human") /\ UNCHANGED planning_attempts
       ELSE planning_attempts' = planning_attempts + 1 /\ UNCHANGED <<pc, status>>
    /\ UNCHANGED <<worker, gateVars, brief, repairVars, mergeVars>>

DiscoveryRejected ==
    /\ pc = "discovery"
    /\ IF planning_attempts >= PLANNING_MAX_ATTEMPTS
       THEN Leave("needs_human") /\ UNCHANGED planning_attempts
       ELSE planning_attempts' = planning_attempts + 1 /\ UNCHANGED <<pc, status>>
    /\ UNCHANGED <<worker, gateVars, brief, repairVars, mergeVars>>

-----------------------------------------------------------------------------
(* The brief gate.  A revision is looked at first and discards the gate    *)
(* decision that may have arrived with it.                                 *)

BriefRevised ==
    /\ pc = "brief_gate" /\ brief_revise # NoDecision
    /\ pc' = "discovery" /\ planning_attempts' = 1
    /\ brief_gate' = NoDecision /\ brief_revise' = NoDecision
    /\ UNCHANGED <<status, worker, merge_gate, merge_action, brief, repairVars, mergeVars>>

BriefDecided ==
    /\ pc = "brief_gate" /\ brief_revise = NoDecision /\ brief_gate # NoDecision
    /\ IF brief_gate.approved
       THEN pc' = "build" /\ UNCHANGED status
       ELSE Leave("rejected")
    /\ UNCHANGED <<worker, gateVars, planVars, repairVars, mergeVars>>

-----------------------------------------------------------------------------
(* Build, then the verify/Fixer loop.  The findings of before the Fixer    *)
(* are dropped once it is done (_drop_stale_findings).                     *)

Build ==
    /\ pc = "build"
    /\ BuildResult(0, 0)
    /\ pc' = "verify"
    /\ UNCHANGED <<status, worker, gateVars, planVars, mergeVars>>

VerifyPassed(report) ==
    /\ pc = "verify"
    /\ VerifyResult(report) /\ verify_summary'.passed
    /\ pc' = "pr_creator"
    /\ UNCHANGED <<status, worker, gateVars, planVars, attemptVars, mergeVars>>

\* The Testers declared a predicate infeasible, or a target's budget is
\* spent: a human is needed.
VerifyEscalated(report) ==
    /\ pc = "verify"
    /\ VerifyResult(report) /\ ~verify_summary'.passed
    /\ InfeasiblePredicate(tester_findings) \/ BudgetExhausted(report.reported)
    /\ Leave("needs_human")
    /\ UNCHANGED <<worker, gateVars, planVars, attemptVars, mergeVars>>

VerifyFailed(report) ==
    /\ pc = "verify"
    /\ VerifyResult(report) /\ ~verify_summary'.passed
    /\ ~InfeasiblePredicate(tester_findings) /\ ~BudgetExhausted(report.reported)
    /\ RecordFixerAttempt(report.reported)
    /\ pc' = "fixer"
    /\ UNCHANGED <<status, worker, gateVars, planVars, mergeVars>>

Fixer(result) ==
    /\ pc = "fixer"
    /\ FixerResult(result, Len(tester_findings), Len(reconciliation_findings))
    /\ IF result.decision = "fixed"
       THEN pc' = "verify" /\ UNCHANGED status
       ELSE Leave("needs_human")
    /\ UNCHANGED <<worker, gateVars, planVars, mergeVars>>

-----------------------------------------------------------------------------
(* The pull request and the merge gate.  Only pr_creator_stage pushes the  *)
(* branch: the Fixer, Builder and Tester manifests deny `git push`.        *)

PrCreator ==
    /\ pc = "pr_creator"
    /\ pc' = "reviewer" /\ pushed' = code
    /\ UNCHANGED <<status, worker, gateVars, planVars, repairVars, merge_attempts, landed>>

Reviewer ==
    /\ pc = "reviewer"
    /\ pc' = "merge_gate"
    /\ UNCHANGED <<status, worker, gateVars, planVars, repairVars, mergeVars>>

ClearMergeGate ==
    /\ merge_gate' = NoDecision /\ merge_action' = NoAction
    /\ UNCHANGED <<brief_gate, brief_revise>>

\* A human fix is charged to the budget of the last verify_summary's targets
\* and runs whether or not that budget is spent.
MergeGateFix ==
    /\ pc = "merge_gate" /\ merge_action.action = "fix"
    /\ ClearMergeGate
    /\ RecordFixerAttempt(verify_summary.reported)
    /\ pc' = "gate_fixer"
    /\ UNCHANGED <<status, worker, planVars, findingVars, verify_summary,
                   code, verified, mergeVars>>

\* Mutant of GateFixer: the fix is pushed as soon as it is made.
GateFixerPushes(result) ==
    /\ pc = "gate_fixer"
    /\ FixerResult(result, Len(tester_findings), Len(reconciliation_findings))
    /\ pc' = "gate_verify" /\ pushed' = code'
    /\ UNCHANGED <<status, worker, gateVars, planVars, merge_attempts, landed>>

\* The Fixer's decision is not looked at here.
GateFixer(result) ==
    /\ pc = "gate_fixer"
    /\ FixerResult(result, Len(tester_findings), Len(reconciliation_findings))
    /\ pc' = "gate_verify"
    /\ UNCHANGED <<status, worker, gateVars, planVars, mergeVars>>

MergeGateRebuild ==
    /\ pc = "merge_gate" /\ merge_action.action = "rebuild"
    /\ ClearMergeGate
    /\ pc' = "gate_build"
    /\ UNCHANGED <<status, worker, planVars, repairVars, mergeVars>>

GateBuild ==
    /\ pc = "gate_build"
    /\ BuildResult(Len(tester_findings), Len(reconciliation_findings))
    /\ pc' = "gate_verify"
    /\ UNCHANGED <<status, worker, gateVars, planVars, mergeVars>>

\* The verdict is recorded and shown, it does not decide where the run goes.
GateVerify(report) ==
    /\ pc = "gate_verify"
    /\ VerifyResult(report)
    /\ pc' = "reviewer"
    /\ UNCHANGED <<status, worker, gateVars, planVars, attemptVars, mergeVars>>

MergeDecided ==
    /\ pc = "merge_gate" /\ merge_action = NoAction /\ merge_gate # NoDecision
    /\ IF merge_gate.approved
       THEN pc' = "merge" /\ UNCHANGED status
       ELSE Leave("rejected")
    /\ UNCHANGED <<worker, gateVars, planVars, repairVars, mergeVars>>

\* merge_branch asks GitHub for the state of the pull request before and
\* after `gh pr merge`, so an attempt after a landed merge succeeds.
MergeBranch ==
    /\ pc = "merge"
    /\ landed' = IF landed = 0 THEN pushed ELSE landed
    /\ Leave("merged")
    /\ UNCHANGED <<worker, gateVars, planVars, repairVars, merge_attempts, pushed>>

\* The attempt fails or times out, whether or not the merge landed.
MergeAttemptFails ==
    /\ pc = "merge"
    /\ merge_attempts' = merge_attempts + 1
    /\ landed' \in {landed, pushed}
    /\ IF merge_attempts' >= MERGE_MAX_ATTEMPTS
       THEN Leave("failed")
       ELSE UNCHANGED <<pc, status>>
    /\ UNCHANGED <<worker, gateVars, planVars, repairVars, pushed>>

-----------------------------------------------------------------------------
(* Failure and teardown.                                                   *)

\* The last attempt of a stage activity fails: the exception leaves the try
\* block.
StageFails ==
    /\ pc \in StageActivities
    /\ Leave("failed")
    /\ UNCHANGED <<worker, gateVars, planVars, repairVars, mergeVars>>

Teardown ==
    /\ pc = "teardown"
    /\ pc' = "closed" /\ worker' = "down"
    /\ UNCHANGED <<status, gateVars, planVars, repairVars, mergeVars>>

WorkflowStep ==
    \/ SetupWorker \/ Hydrate
    \/ DiscoveryApproved \/ DiscoveryRejected
    \/ BriefRevised \/ BriefDecided
    \/ Build
    \/ \E report \in VerifyReports : VerifyPassed(report) \/ VerifyEscalated(report)
                                       \/ VerifyFailed(report) \/ GateVerify(report)
    \/ \E result \in FixerReports : Fixer(result) \/ GateFixer(result)
    \/ PrCreator \/ Reviewer
    \/ MergeGateFix \/ MergeGateRebuild \/ GateBuild
    \/ MergeDecided \/ MergeBranch \/ MergeAttemptFails
    \/ StageFails \/ Teardown

-----------------------------------------------------------------------------
(* Every variable keeps to the values the code can store in it.            *)
TypeOK ==
    /\ pc \in PCs
    /\ status \in {"running", "merged", "rejected", "needs_human", "failed"}
    /\ worker \in {"none", "up", "down"}
    /\ brief_gate \in Decisions \cup {NoDecision}
    /\ brief_revise \in Decisions \cup {NoDecision}
    /\ merge_gate \in Decisions \cup {NoDecision}
    /\ merge_action \in MergeActions \cup {NoAction}
    /\ planning_attempts \in 0..PLANNING_MAX_ATTEMPTS
    /\ brief \in Nat
    /\ RepairTypeOK
    /\ merge_attempts \in 0..MERGE_MAX_ATTEMPTS
    /\ pushed \in Nat /\ landed \in Nat

=============================================================================
