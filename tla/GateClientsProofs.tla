------------------------- MODULE GateClientsProofs -------------------------
(***************************************************************************)
(* What holds of the prompt run and its clients for every number of        *)
(* clients, every set of work packages, predicates and agent reports and   *)
(* every bound: the type invariant, that what lands was verified, that     *)
(* the repair loop keeps to its budget and to fresh evidence, that the     *)
(* safety part of GatedDelivery is implemented, and that consent is        *)
(* informed as long as the clients take turns.                             *)
(***************************************************************************)
EXTENDS GateClients, RepairProofs

-----------------------------------------------------------------------------
(* The type invariant.                                                     *)

(* While the run is under way merge_branch has an attempt left: what keeps *)
(* merge_attempts in its range.                                            *)
AttemptsLeft ==
    pc \notin {"teardown", "closed"} => merge_attempts < MERGE_MAX_ATTEMPTS

(* The run starts well-typed.                                              *)
LEMMA InitType == WorkflowInit /\ ClientInit => SystemTypeOK /\ AttemptsLeft
<1> SUFFICES ASSUME WorkflowInit, ClientInit PROVE SystemTypeOK /\ AttemptsLeft
    OBVIOUS
<1>1. RepairTypeOK
    BY RepairInitType DEF WorkflowInit
<1>2. TypeOK
    BY <1>1, AttemptsAssumption
    DEF WorkflowInit, TypeOK, PCs, Decisions, MergeActions, NoAction, Gates
<1>3. ClientTypeOK
    BY CommandsAssumption DEF ClientInit, ClientTypeOK, NoView, Views, Gates
<1>4. AttemptsLeft
    BY AttemptsAssumption DEF WorkflowInit, AttemptsLeft
<1> QED BY <1>2, <1>3, <1>4 DEF SystemTypeOK

(* A step that leaves the repair state alone leaves it well-typed.         *)
LEMMA RepairUnchanged ==
    ASSUME RepairTypeOK, UNCHANGED repairVars
    PROVE  RepairTypeOK'
BY DEF RepairTypeOK, repairVars, findingVars, attemptVars

(* Every step of the run keeps the repair state well-typed: the lengths    *)
(* sliced off are natural numbers, the reports are ones the agents give.   *)
LEMMA WorkflowRepairType ==
    ASSUME RepairTypeOK, WorkflowStep
    PROVE  RepairTypeOK'
<1> DEFINE testers == Len(tester_findings)
           recons == Len(reconciliation_findings)
<1>1. testers \in Nat /\ recons \in Nat
    BY DEF RepairTypeOK
<1>2. ASSUME NEW report \in VerifyReports, VerifyPassed(report)
      PROVE  RepairTypeOK'
    BY <1>2, VerifyType DEF VerifyPassed, attemptVars, RepairTypeOK
<1>3. ASSUME NEW report \in VerifyReports, VerifyEscalated(report)
      PROVE  RepairTypeOK'
    BY <1>3, VerifyType DEF VerifyEscalated, attemptVars, RepairTypeOK
<1>4. ASSUME NEW report \in VerifyReports, VerifyFailed(report)
      PROVE  RepairTypeOK'
    BY <1>4, VerifyType, RecordType DEF VerifyFailed
<1>5. ASSUME NEW report \in VerifyReports, GateVerify(report)
      PROVE  RepairTypeOK'
    BY <1>5, VerifyType DEF GateVerify, attemptVars, RepairTypeOK
<1>6. ASSUME NEW result \in FixerReports, Fixer(result) \/ GateFixer(result)
      PROVE  RepairTypeOK'
    BY <1>1, <1>6, FixerType DEF Fixer, GateFixer
<1>7. CASE Build
    BY <1>7, BuildType DEF Build
<1>8. CASE GateBuild
    BY <1>1, <1>8, BuildType DEF GateBuild
<1>9. CASE MergeGateFix
    <2>1. RecordFixerAttempt(verify_summary.reported)
        BY <1>9 DEF MergeGateFix
    <2>2. /\ fixer_attempts_by_wp' \in [WPs -> Nat]
          /\ fixer_attempts_by_predicate' \in [Predicates -> Nat]
        BY <2>1, RecordType
    <2> QED BY <1>9, <2>2 DEF MergeGateFix, RepairTypeOK, findingVars
<1>10. CASE UNCHANGED repairVars
    BY <1>10, RepairUnchanged
<1> QED BY <1>2, <1>3, <1>4, <1>5, <1>6, <1>7, <1>8, <1>9, <1>10
        DEF WorkflowStep, SetupWorker, Hydrate, DiscoveryApproved, DiscoveryRejected,
            BriefRevised, BriefDecided, PrCreator, Reviewer, MergeGateRebuild,
            MergeDecided, MergeBranch, MergeAttemptFails, StageFails, Teardown

(* The control state of the run keeps to its values.                       *)
LEMMA WorkflowType ==
    ASSUME TypeOK, AttemptsLeft, WorkflowStep
    PROVE  TypeOK' /\ AttemptsLeft'
<1>1. RepairTypeOK'
    BY WorkflowRepairType DEF TypeOK
<1>2. code \in Nat
    BY DEF TypeOK, RepairTypeOK
<1> USE AttemptsAssumption DEF TypeOK, AttemptsLeft, Leave, gateVars, planVars, mergeVars
<1>3. CASE SetupWorker \/ Hydrate \/ StageFails \/ Teardown
    BY <1>1, <1>3 DEF SetupWorker, Hydrate, StageFails, Teardown, PCs, StageActivities
<1>4. CASE DiscoveryApproved \/ DiscoveryRejected
    BY <1>1, <1>4 DEF DiscoveryApproved, DiscoveryRejected, PCs, StageActivities, GateWaits
<1>5. CASE BriefRevised \/ BriefDecided
    BY <1>1, <1>5 DEF BriefRevised, BriefDecided, PCs, StageActivities
<1>6. CASE Build \/ GateBuild
    BY <1>1, <1>6 DEF Build, GateBuild, PCs, StageActivities
<1>7. ASSUME NEW report \in VerifyReports,
             \/ VerifyPassed(report) \/ VerifyEscalated(report)
             \/ VerifyFailed(report) \/ GateVerify(report)
      PROVE  TypeOK' /\ AttemptsLeft'
    BY <1>1, <1>7 DEF VerifyPassed, VerifyEscalated, VerifyFailed, GateVerify, PCs, StageActivities
<1>8. ASSUME NEW result \in FixerReports, Fixer(result) \/ GateFixer(result)
      PROVE  TypeOK' /\ AttemptsLeft'
    BY <1>1, <1>8 DEF Fixer, GateFixer, PCs, StageActivities
<1>9. CASE PrCreator \/ Reviewer
    BY <1>1, <1>2, <1>9 DEF PrCreator, Reviewer, PCs, StageActivities, GateWaits
<1>10. CASE MergeGateFix \/ MergeGateRebuild
    BY <1>1, <1>10 DEF MergeGateFix, MergeGateRebuild, ClearMergeGate, PCs, StageActivities
<1>11. CASE MergeDecided \/ MergeBranch \/ MergeAttemptFails
    BY <1>1, <1>11 DEF MergeDecided, MergeBranch, MergeAttemptFails, PCs
<1> QED BY <1>3, <1>4, <1>5, <1>6, <1>7, <1>8, <1>9, <1>10, <1>11 DEF WorkflowStep

(* A client changes the gate fields and nothing else of the run; what it   *)
(* stores there is well-typed.                                             *)
LEMMA ClientFrame ==
    ASSUME NEW c \in Clients, ClientStep(c)
    PROVE  UNCHANGED <<pc, status, worker, planVars, repairVars, mergeVars>>
<1>1. CASE Operate(c)
    BY <1>1 DEF Operate, Route, Send
<1>2. CASE AnswerBrief(c) \/ AnswerMerge(c) \/ LegacyDecide(c)
    BY <1>2 DEF AnswerBrief, AnswerMerge, LegacyDecide, Send
<1>3. CASE Inspect(c) \/ Refused(c) \/ Poll(c)
    BY <1>3 DEF Inspect, Refused, Poll, workflowVars
<1> QED BY <1>1, <1>2, <1>3 DEF ClientStep

(* A decision carries what its client was shown.                           *)
LEMMA DecisionType ==
    ASSUME ClientTypeOK, NEW c \in Clients, NEW approved \in BOOLEAN
    PROVE  Decision(c, approved) \in Decisions
BY DEF ClientTypeOK, Views, Decision, Decisions

GatesTypeOK ==
    /\ brief_gate \in Decisions \cup {NoDecision}
    /\ brief_revise \in Decisions \cup {NoDecision}
    /\ merge_gate \in Decisions \cup {NoDecision}
    /\ merge_action \in MergeActions \cup {NoAction}

(* Each update stores a well-typed decision where the handler says.        *)
LEMMA UpdateType ==
    ASSUME GatesTypeOK, NEW d \in Decisions,
           \/ approve_brief(d) \/ reject_brief(d) \/ revise_brief(d)
           \/ approve_merge(d) \/ reject_merge(d)
           \/ trigger_fix(d) \/ trigger_rebuild(d)
           \/ approve_gate(d)
    PROVE  GatesTypeOK'
<1>1. /\ [d EXCEPT !.approved = TRUE] \in Decisions
      /\ [d EXCEPT !.approved = FALSE] \in Decisions
    BY DEF Decisions
<1>2. CASE approve_brief(d) \/ reject_brief(d) \/ revise_brief(d)
    BY <1>1, <1>2 DEF GatesTypeOK, approve_brief, reject_brief, revise_brief
<1>3. CASE approve_merge(d) \/ reject_merge(d)
    BY <1>1, <1>3 DEF GatesTypeOK, approve_merge, reject_merge
<1>4. CASE trigger_fix(d) \/ trigger_rebuild(d)
    BY <1>4 DEF GatesTypeOK, trigger_fix, trigger_rebuild, MergeActions
<1>5. CASE approve_gate(d)
    BY <1>5 DEF GatesTypeOK, approve_gate
<1> QED BY <1>2, <1>3, <1>4, <1>5

(* A client's step keeps the run and the clients well-typed.               *)
LEMMA ClientType ==
    ASSUME SystemTypeOK, NEW c \in Clients, ClientStep(c)
    PROVE  SystemTypeOK'
<1>1. /\ TypeOK /\ ClientTypeOK
      /\ GatesTypeOK
    BY DEF SystemTypeOK, TypeOK, GatesTypeOK
<1>2. /\ Decision(c, TRUE) \in Decisions
      /\ Decision(c, FALSE) \in Decisions
    BY <1>1, DecisionType
<1>3. UNCHANGED gateVars => GatesTypeOK'
    BY <1>1 DEF gateVars, GatesTypeOK
<1>4. GatesTypeOK'
    <2>1. CASE Operate(c)
        BY <1>1, <1>2, <2>1, UpdateType DEF Operate, Route, Send
    <2>2. CASE AnswerBrief(c) \/ AnswerMerge(c)
        BY <1>1, <1>2, <2>2, UpdateType DEF AnswerBrief, AnswerMerge, Send
    <2>3. CASE LegacyDecide(c)
        BY <1>1, <2>3, DecisionType, UpdateType DEF LegacyDecide, Send
    <2>4. CASE Inspect(c) \/ Refused(c) \/ Poll(c)
        BY <1>3, <2>4 DEF Inspect, Refused, Poll, workflowVars
    <2> QED BY <2>1, <2>2, <2>3, <2>4 DEF ClientStep
<1>5. TypeOK'
    <2>1. UNCHANGED <<pc, status, worker, planVars, repairVars, mergeVars>>
        BY ClientFrame
    <2>2. RepairTypeOK'
        BY <1>1, <2>1, RepairUnchanged DEF TypeOK
    <2> QED BY <1>1, <1>4, <2>1, <2>2 DEF TypeOK, GatesTypeOK, planVars, mergeVars
<1>6. ClientTypeOK'
    <2> USE <1>1 DEF ClientTypeOK
    <2>1. NoView \in Views
        BY DEF NoView, Views, Gates
    <2>2. CASE Inspect(c) \/ Poll(c)
        <3>1. [gate |-> summary_pending_gate, brief |-> brief, code |-> code] \in Views
            BY DEF summary_pending_gate, pending_gate, Views, Gates, TypeOK, RepairTypeOK
        <3> QED BY <2>2, <3>1, CommandsAssumption DEF Inspect, Poll, Query
    <2>3. CASE Operate(c) \/ Refused(c)
        BY <2>1, <2>3 DEF Operate, Route, Send, Refused
    <2>4. CASE AnswerBrief(c) \/ AnswerMerge(c)
        BY <2>1, <2>4 DEF AnswerBrief, AnswerMerge, Send
    <2>5. CASE LegacyDecide(c)
        BY <2>1, <2>5, CommandsAssumption DEF LegacyDecide, Send
    <2> QED BY <2>2, <2>3, <2>4, <2>5 DEF ClientStep
<1> QED BY <1>5, <1>6 DEF SystemTypeOK

(* The type invariant, with the attempts left, is inductive.               *)
LEMMA TypeStep ==
    SystemTypeOK /\ AttemptsLeft /\ [Next]_vars => (SystemTypeOK /\ AttemptsLeft)'
<1> SUFFICES ASSUME SystemTypeOK, AttemptsLeft, [Next]_vars
             PROVE  (SystemTypeOK /\ AttemptsLeft)'
    OBVIOUS
<1>1. CASE WorkflowStep /\ UNCHANGED clientVars
    <2>1. TypeOK' /\ AttemptsLeft'
        BY <1>1, WorkflowType DEF SystemTypeOK
    <2>2. ClientTypeOK'
        BY <1>1 DEF SystemTypeOK, ClientTypeOK, clientVars
    <2> QED BY <2>1, <2>2 DEF SystemTypeOK
<1>2. CASE \E c \in Clients : ClientStep(c)
    BY <1>2, ClientType, ClientFrame DEF AttemptsLeft, mergeVars
<1>3. CASE UNCHANGED vars
    <2>1. RepairTypeOK'
        BY <1>3, RepairUnchanged DEF vars, workflowVars, SystemTypeOK, TypeOK
    <2> QED BY <1>3, <2>1
            DEF vars, workflowVars, clientVars, gateVars, planVars, mergeVars,
                SystemTypeOK, TypeOK, ClientTypeOK, AttemptsLeft
<1> QED BY <1>1, <1>2, <1>3 DEF Next

(* Every variable of the workflow and of its clients keeps to the values   *)
(* the code can store in it.                                               *)
THEOREM TypeCorrect == SafetySpec => []SystemTypeOK
<1>1. WorkflowInit /\ ClientInit => SystemTypeOK /\ AttemptsLeft
    BY InitType
<1> QED BY <1>1, TypeStep, PTL DEF SafetySpec, Init

-----------------------------------------------------------------------------
(* The safety invariant.                                                   *)

Planning == {"setup", "hydrate", "discovery", "brief_gate", "build"}
Repairing == {"verify", "fixer", "pr_creator"}
Published == {"reviewer", "merge_gate", "gate_fixer", "gate_build", "gate_verify", "merge"}

\* Before the build there is no code and nothing was found.
NothingBuilt ==
    pc \in Planning => code = 0 /\ tester_findings = <<>> /\ reconciliation_findings = <<>>

\* The pull request is opened once, from a revision that just passed.
NothingPushed ==
    /\ pc \in Planning \cup Repairing => pushed = 0 /\ landed = 0
    /\ pc \in Repairing => code # 0
    /\ pc = "pr_creator" => code \in verified

\* From then on its head is that revision, fixes and rebuilds do not move it.
PushedVerified ==
    /\ pc \in Published => pushed # 0
    /\ pushed # 0 => pushed \in verified
    /\ landed # 0 => landed = pushed

SafeInv == NothingBuilt /\ NothingPushed /\ PushedVerified

(* The run starts with nothing built and nothing pushed.                   *)
LEMMA SafeInit == WorkflowInit => SafeInv
BY DEF WorkflowInit, RepairInit, SafeInv, NothingBuilt, NothingPushed, PushedVerified,
       Planning, Repairing, Published

(* Each step of the run keeps the head of the pull request verified.       *)
LEMMA SafeWorkflow ==
    ASSUME TypeOK, SafeInv, WorkflowStep
    PROVE  SafeInv'
<1>1. code \in Nat
    BY DEF TypeOK, RepairTypeOK
<1> USE DEF SafeInv, NothingBuilt, NothingPushed, PushedVerified, Planning, Repairing,
            Published, Leave, repairVars, findingVars, mergeVars
<1>2. CASE SetupWorker \/ Hydrate \/ DiscoveryApproved \/ DiscoveryRejected
    BY <1>2 DEF SetupWorker, Hydrate, DiscoveryApproved, DiscoveryRejected
<1>3. CASE BriefRevised \/ BriefDecided
    BY <1>3 DEF BriefRevised, BriefDecided
<1>4. CASE Build \/ GateBuild
    <2>1. code' = code + 1 /\ verified' = verified
        BY <1>4 DEF Build, GateBuild, BuildResult
    <2> QED BY <1>1, <1>4, <2>1 DEF Build, GateBuild
<1>5. ASSUME NEW report \in VerifyReports, VerifyPassed(report)
      PROVE  SafeInv'
    <2>1. /\ code \in verified' /\ code' = code
          /\ verified \subseteq verified'
        BY <1>5, VerifyVerdict DEF VerifyPassed, VerifyResult
    <2> QED BY <1>5, <2>1 DEF VerifyPassed
<1>6. ASSUME NEW report \in VerifyReports,
             VerifyEscalated(report) \/ VerifyFailed(report) \/ GateVerify(report)
      PROVE  SafeInv'
    <2>1. verified \subseteq verified' /\ code' = code
        BY <1>6, VerifyVerdict DEF VerifyEscalated, VerifyFailed, GateVerify, VerifyResult
    <2> QED BY <1>6, <2>1 DEF VerifyEscalated, VerifyFailed, GateVerify
<1>7. ASSUME NEW result \in FixerReports, Fixer(result) \/ GateFixer(result)
      PROVE  SafeInv'
    <2>1. code' = code + 1 /\ verified' = verified
        BY <1>7 DEF Fixer, GateFixer, FixerResult
    <2> QED BY <1>1, <1>7, <2>1 DEF Fixer, GateFixer
<1>8. CASE PrCreator \/ Reviewer
    BY <1>8 DEF PrCreator, Reviewer
<1>9. CASE MergeGateFix \/ MergeGateRebuild \/ MergeDecided
    BY <1>9 DEF MergeGateFix, MergeGateRebuild, MergeDecided
<1>10. CASE MergeBranch \/ MergeAttemptFails
    BY <1>10 DEF MergeBranch, MergeAttemptFails
<1>11. CASE StageFails \/ Teardown
    BY <1>11 DEF StageFails, Teardown
<1> QED BY <1>2, <1>3, <1>4, <1>5, <1>6, <1>7, <1>8, <1>9, <1>10, <1>11
        DEF WorkflowStep

(* The safety invariant is inductive: no client can disturb it.            *)
LEMMA SafeStep == SystemTypeOK /\ SafeInv /\ [Next]_vars => SafeInv'
<1> SUFFICES ASSUME SystemTypeOK, SafeInv, [Next]_vars
             PROVE  SafeInv'
    OBVIOUS
<1>1. CASE WorkflowStep
    BY <1>1, SafeWorkflow DEF SystemTypeOK
<1>2. CASE UNCHANGED <<pc, status, worker, planVars, repairVars, mergeVars>>
    BY <1>2 DEF SafeInv, NothingBuilt, NothingPushed, PushedVerified, repairVars,
                findingVars, mergeVars
<1>3. CASE UNCHANGED vars
    BY <1>2, <1>3 DEF vars, workflowVars
<1> QED BY <1>1, <1>2, <1>3, ClientFrame DEF Next

(* Code that never passed a verification cannot land, whatever the clients *)
(* do at the merge gate: fixes and rebuilds there are not pushed, and the  *)
(* head of the pull request passed before it was opened.                   *)
THEOREM OnlyVerifiedLands == SafetySpec => []LandedWasVerified
<1>1. WorkflowInit /\ ClientInit => SafeInv
    BY SafeInit
<1>2. SafeInv => LandedWasVerified
    BY DEF SafeInv, PushedVerified, LandedWasVerified
<1> QED BY <1>1, <1>2, TypeCorrect, SafeStep, PTL DEF SafetySpec, Init

-----------------------------------------------------------------------------
(* The budget and the freshness of the repair loop.                        *)

(* A step of the run keeps the counters in the budget until something is   *)
(* pushed: only VerifyFailed charges them, after the budget was asked, and *)
(* MergeGateFix, when there is a pull request.                             *)
LEMMA BudgetWorkflow ==
    ASSUME TypeOK, SafeInv, AutoFixBudget, WorkflowStep
    PROVE  AutoFixBudget'
<1>1. SUFFICES ASSUME pushed' = 0
               PROVE  WithinBudget'
    BY DEF AutoFixBudget
<1>2. CASE UNCHANGED attemptVars /\ pushed' = pushed
    BY <1>1, <1>2 DEF AutoFixBudget, WithinBudget, attemptVars
<1>3. ASSUME NEW report \in VerifyReports, VerifyFailed(report)
      PROVE  WithinBudget'
    BY <1>1, <1>3, RecordType DEF VerifyFailed, AutoFixBudget, TypeOK, mergeVars
<1>4. CASE MergeGateFix
    BY <1>1, <1>4 DEF MergeGateFix, SafeInv, PushedVerified, Published, mergeVars
<1>5. CASE PrCreator
    BY <1>1, <1>5 DEF PrCreator, SafeInv, NothingPushed, Repairing
<1>6. ASSUME NEW report \in VerifyReports,
             VerifyPassed(report) \/ VerifyEscalated(report) \/ GateVerify(report)
      PROVE  UNCHANGED attemptVars /\ pushed' = pushed
    BY <1>6 DEF VerifyPassed, VerifyEscalated, GateVerify, mergeVars
<1>7. ASSUME NEW result \in FixerReports, Fixer(result) \/ GateFixer(result)
      PROVE  UNCHANGED attemptVars /\ pushed' = pushed
    BY <1>7 DEF Fixer, GateFixer, FixerResult, mergeVars
<1>8. CASE Build \/ GateBuild
    BY <1>2, <1>8 DEF Build, GateBuild, BuildResult, mergeVars
<1> QED BY <1>2, <1>3, <1>4, <1>5, <1>6, <1>7, <1>8
        DEF WorkflowStep, SetupWorker, Hydrate, DiscoveryApproved, DiscoveryRejected,
            BriefRevised, BriefDecided, Reviewer, MergeGateRebuild, MergeDecided,
            MergeBranch, MergeAttemptFails, StageFails, Teardown, repairVars, mergeVars

(* Until there is a pull request, no work package and no predicate is      *)
(* handed to the Fixer more often than FIXER_MAX_ATTEMPTS.                 *)
THEOREM BudgetHolds == SafetySpec => []AutoFixBudget
<1>1. WorkflowInit /\ ClientInit => SafeInv /\ AutoFixBudget
    <2>1. WorkflowInit => AutoFixBudget
        BY BudgetAssumption DEF WorkflowInit, RepairInit, AutoFixBudget, WithinBudget
    <2> QED BY <2>1, SafeInit
<1>2. SystemTypeOK /\ SafeInv /\ AutoFixBudget /\ [Next]_vars => AutoFixBudget'
    <2> SUFFICES ASSUME SystemTypeOK, SafeInv, AutoFixBudget, [Next]_vars
                 PROVE  AutoFixBudget'
        OBVIOUS
    <2>1. CASE WorkflowStep
        BY <2>1, BudgetWorkflow DEF SystemTypeOK
    <2>2. CASE UNCHANGED <<pc, status, worker, planVars, repairVars, mergeVars>>
        BY <2>2 DEF AutoFixBudget, WithinBudget, repairVars, attemptVars, mergeVars
    <2>3. CASE UNCHANGED vars
        BY <2>2, <2>3 DEF vars, workflowVars
    <2> QED BY <2>1, <2>2, <2>3, ClientFrame DEF Next
<1> QED BY <1>1, <1>2, TypeCorrect, SafeStep, PTL DEF SafetySpec, Init

(* A step of the run comes to a verification with fresh findings only: the *)
(* first build starts with none, the Fixer's predecessors' are dropped.    *)
LEMMA FreshWorkflow ==
    ASSUME TypeOK, SafeInv, FreshEvidence, WorkflowStep
    PROVE  FreshEvidence'
<1>1. SUFFICES ASSUME pc' = "verify"
               PROVE  FreshFindings'
    BY DEF FreshEvidence
<1>2. RepairTypeOK
    BY DEF TypeOK
<1>3. CASE Build
    BY <1>2, <1>3, BuildFresh DEF Build, SafeInv, NothingBuilt, Planning
<1>4. ASSUME NEW result \in FixerReports, Fixer(result)
      PROVE  FreshFindings'
    BY <1>2, <1>4, FixerFresh DEF Fixer
<1>5. ASSUME NEW report \in VerifyReports,
             \/ VerifyPassed(report) \/ VerifyEscalated(report)
             \/ VerifyFailed(report) \/ GateVerify(report)
      PROVE  pc' # "verify"
    BY <1>5 DEF VerifyPassed, VerifyEscalated, VerifyFailed, GateVerify, Leave
<1>6. ASSUME NEW result \in FixerReports, GateFixer(result)
      PROVE  pc' # "verify"
    BY <1>6 DEF GateFixer
<1> QED BY <1>1, <1>3, <1>4, <1>5, <1>6
        DEF WorkflowStep, SetupWorker, Hydrate, DiscoveryApproved, DiscoveryRejected,
            BriefRevised, BriefDecided, PrCreator, Reviewer, MergeGateFix,
            MergeGateRebuild, GateBuild, MergeDecided, MergeBranch, MergeAttemptFails,
            StageFails, Teardown, Leave

(* A verification of the repair loop is charged only with findings about   *)
(* the code it verifies.                                                   *)
THEOREM EvidenceIsFresh == SafetySpec => []FreshEvidence
<1>1. WorkflowInit /\ ClientInit => FreshEvidence
    BY DEF WorkflowInit, FreshEvidence
<1>2. SystemTypeOK /\ SafeInv /\ FreshEvidence /\ [Next]_vars => FreshEvidence'
    <2> SUFFICES ASSUME SystemTypeOK, SafeInv, FreshEvidence, [Next]_vars
                 PROVE  FreshEvidence'
        OBVIOUS
    <2>1. CASE WorkflowStep
        BY <2>1, FreshWorkflow DEF SystemTypeOK
    <2>2. CASE UNCHANGED <<pc, status, worker, planVars, repairVars, mergeVars>>
        BY <2>2 DEF FreshEvidence, FreshFindings, Fresh, repairVars, findingVars
    <2>3. CASE UNCHANGED vars
        BY <2>2, <2>3 DEF vars, workflowVars
    <2> QED BY <2>1, <2>2, <2>3, ClientFrame DEF Next
<1>3. WorkflowInit /\ ClientInit => SafeInv
    BY SafeInit
<1> QED BY <1>1, <1>2, <1>3, TypeCorrect, SafeStep, PTL DEF SafetySpec, Init

-----------------------------------------------------------------------------
(* Implementation.                                                         *)

(* The run starts as a gated delivery starts.                              *)
LEMMA DeliveryInit == WorkflowInit => Delivery!Init
<1> SUFFICES ASSUME WorkflowInit PROVE Delivery!Init
    OBVIOUS
<1>1. pc = "setup" /\ status = "running" /\ worker = "none" /\ landed = 0
    BY DEF WorkflowInit
<1>2. delivery_stage = "starting"
    BY <1>1 DEF delivery_stage, GateWaits, StageActivities
<1>3. delivery_outcome = "running"
    BY <1>1 DEF delivery_outcome
<1>4. (landed # 0) = FALSE
    BY <1>1
<1> QED BY <1>1, <1>2, <1>3, <1>4 DEF Delivery!Init

(* Every step of the run is a step of a gated delivery, or none.           *)
LEMMA DeliveryWorkflow ==
    ASSUME TypeOK, SafeInv, WorkflowStep
    PROVE  Delivery!Next \/ UNCHANGED Delivery!vars
<1> USE DEF delivery_stage, delivery_outcome, Delivery!vars, Delivery!Next, Delivery!Move,
            PCs, GateWaits, StageActivities, Leave, mergeVars
<1>1. CASE SetupWorker
    BY <1>1 DEF SetupWorker, Delivery!Provision
<1>2. CASE Hydrate \/ DiscoveryApproved
    BY <1>2 DEF Hydrate, DiscoveryApproved, Delivery!Propose
<1>3. CASE DiscoveryRejected
    BY <1>3 DEF DiscoveryRejected, Delivery!Stop
<1>4. CASE BriefRevised
    BY <1>4 DEF BriefRevised, Delivery!Revise
<1>5. CASE BriefDecided
    BY <1>5 DEF BriefDecided, Delivery!Accept, Delivery!Stop
<1>6. CASE Build \/ GateBuild \/ PrCreator
    BY <1>6 DEF Build, GateBuild, PrCreator
<1>7. ASSUME NEW report \in VerifyReports,
             \/ VerifyPassed(report) \/ VerifyEscalated(report)
             \/ VerifyFailed(report) \/ GateVerify(report)
      PROVE  Delivery!Next \/ UNCHANGED Delivery!vars
    BY <1>7 DEF VerifyPassed, VerifyEscalated, VerifyFailed, GateVerify, Delivery!Stop
<1>8. ASSUME NEW result \in FixerReports, Fixer(result) \/ GateFixer(result)
      PROVE  Delivery!Next \/ UNCHANGED Delivery!vars
    BY <1>8 DEF Fixer, GateFixer, Delivery!Stop
<1>9. CASE Reviewer
    BY <1>9 DEF Reviewer, Delivery!Deliver
<1>10. CASE MergeGateFix \/ MergeGateRebuild
    BY <1>10 DEF MergeGateFix, MergeGateRebuild, Delivery!Rework
<1>11. CASE MergeDecided
    BY <1>11 DEF MergeDecided, Delivery!Consent, Delivery!Stop
<1>12. ASSUME pc = "merge" PROVE pushed # 0
    BY <1>12 DEF SafeInv, PushedVerified, Published
<1>13. CASE MergeBranch
    BY <1>12, <1>13 DEF MergeBranch, Delivery!Finish
<1>14. CASE MergeAttemptFails
    BY <1>12, <1>14 DEF MergeAttemptFails, Delivery!Land, Delivery!Stop
<1>15. CASE StageFails
    BY <1>15 DEF StageFails, Delivery!Stop
<1>16. CASE Teardown
    BY <1>16 DEF Teardown, Delivery!Release
<1> QED BY <1>1, <1>2, <1>3, <1>4, <1>5, <1>6, <1>7, <1>8, <1>9, <1>10, <1>11,
           <1>13, <1>14, <1>15, <1>16 DEF WorkflowStep

(* The prompt run with any clients implements the safety part of           *)
(* GatedDelivery: no landing without consent at the merge gate, "merged"   *)
(* only when it landed, no way out but by the release of the worker.       *)
THEOREM ImplementsDelivery == SafetySpec => Delivery!SafetySpec
<1>1. WorkflowInit /\ ClientInit => Delivery!Init
    BY DeliveryInit
<1>2. SystemTypeOK /\ SafeInv /\ [Next]_vars => [Delivery!Next]_(Delivery!vars)
    <2> SUFFICES ASSUME SystemTypeOK, SafeInv, [Next]_vars
                 PROVE  Delivery!Next \/ UNCHANGED Delivery!vars
        OBVIOUS
    <2>1. CASE WorkflowStep
        BY <2>1, DeliveryWorkflow DEF SystemTypeOK
    <2>2. CASE UNCHANGED <<pc, status, worker, planVars, repairVars, mergeVars>>
        BY <2>2 DEF Delivery!vars, delivery_stage, delivery_outcome, mergeVars
    <2>3. CASE UNCHANGED vars
        BY <2>2, <2>3 DEF vars, workflowVars
    <2> QED BY <2>1, <2>2, <2>3, ClientFrame DEF Next
<1>3. WorkflowInit /\ ClientInit => SafeInv
    BY SafeInit
<1> QED BY <1>1, <1>2, <1>3, TypeCorrect, SafeStep, PTL DEF SafetySpec, Init, Delivery!SafetySpec

-----------------------------------------------------------------------------
(* Informed consent.  Clients take turns when a client that was shown a    *)
(* pending gate acts before another looks, and no caller of approve_gate   *)
(* is about; a client that is alone always does.                           *)

TakeTurns ==
    \A c, d \in Clients :
        view[c] # NoView /\ c # d => view[d] = NoView /\ kind[d] # "legacy"

\* The gate a client saw still waits, for the brief or the code it was shown.
ShownBrief(c) ==
    /\ view[c].gate = "brief" /\ view[c].brief = brief
    /\ pc = "brief_gate"
    /\ brief_gate = NoDecision /\ brief_revise = NoDecision

ShownMerge(c) ==
    /\ view[c].gate = "merge" /\ view[c].code = code
    /\ pc = "merge_gate"
    /\ merge_gate = NoDecision /\ merge_action = NoAction

ViewsAreCurrent ==
    \A c \in Clients :
        view[c] # NoView => kind[c] # "legacy" /\ (ShownBrief(c) \/ ShownMerge(c))

\* A routed decision was not there when the run came to its gate, and is
\* about the brief, or the code, that waits.
BriefConsent ==
    Routed(brief_gate) =>
        /\ pc \notin {"setup", "hydrate", "discovery"}
        /\ pc = "brief_gate" => brief_gate.gate = "brief" /\ brief_gate.brief = brief

MergeConsent ==
    Routed(merge_gate) =>
        /\ pc \in {"merge_gate", "merge", "teardown", "closed"}
        /\ pc = "merge_gate" => merge_gate.gate = "merge" /\ merge_gate.code = code

TurnInv == ViewsAreCurrent /\ BriefConsent /\ MergeConsent

(* The run starts with nothing shown and nothing decided.                  *)
LEMMA TurnInit == WorkflowInit /\ ClientInit => TurnInv
BY DEF WorkflowInit, ClientInit, NoDecision, Routed, TurnInv, ViewsAreCurrent,
       BriefConsent, MergeConsent

\* A step of the run past the gate with a decision that waits there.
Waiting ==
    \/ pc = "brief_gate" /\ brief_gate = NoDecision /\ brief_revise = NoDecision
    \/ pc = "merge_gate" /\ merge_gate = NoDecision /\ merge_action = NoAction

(* The run does not move while a gate waits for its decision.              *)
LEMMA WaitingRunStays ==
    ASSUME Waiting
    PROVE  ~WorkflowStep
<1> USE DEF Waiting
<1>1. pc \in {"brief_gate", "merge_gate"}
    OBVIOUS
<1>2. ~BriefRevised /\ ~BriefDecided
    BY DEF BriefRevised, BriefDecided
<1>3. ~MergeGateFix /\ ~MergeGateRebuild /\ ~MergeDecided
    BY DEF MergeGateFix, MergeGateRebuild, MergeDecided, NoAction
<1> QED BY <1>1, <1>2, <1>3
        DEF WorkflowStep, SetupWorker, Hydrate, DiscoveryApproved, DiscoveryRejected,
            Build, VerifyPassed, VerifyEscalated, VerifyFailed, GateVerify, Fixer,
            GateFixer, PrCreator, Reviewer, GateBuild, MergeBranch, MergeAttemptFails,
            StageFails, StageActivities, Teardown

(* A step of the run keeps the consents: what it discards is discarded on  *)
(* the way back to planning or to the code, what it keeps stays about the  *)
(* brief or the code that waits.                                           *)
LEMMA TurnWorkflow ==
    ASSUME TurnInv, WorkflowStep, UNCHANGED clientVars
    PROVE  TurnInv'
<1>1. ~Waiting
    BY WaitingRunStays
<1>2. ViewsAreCurrent'
    <2>1. \A c \in Clients : view[c] = NoView
        BY <1>1 DEF Waiting, TurnInv, ViewsAreCurrent, ShownBrief, ShownMerge
    <2> QED BY <2>1 DEF clientVars, ViewsAreCurrent
<1> DEFINE Consents == BriefConsent' /\ MergeConsent'
<1>3. SUFFICES Consents
    BY <1>2 DEF TurnInv
<1> USE DEF TurnInv, BriefConsent, MergeConsent, Leave, gateVars, planVars, repairVars,
            findingVars
<1>4. CASE SetupWorker \/ Hydrate \/ Teardown
    BY <1>4 DEF SetupWorker, Hydrate, Teardown
<1>5. CASE DiscoveryApproved \/ DiscoveryRejected
    BY <1>5 DEF DiscoveryApproved, DiscoveryRejected
<1>6. CASE BriefRevised \/ BriefDecided
    BY <1>6 DEF BriefRevised, BriefDecided, Routed, NoDecision
<1>7. CASE Build \/ GateBuild
    BY <1>7 DEF Build, GateBuild
<1>8. ASSUME NEW report \in VerifyReports,
             \/ VerifyPassed(report) \/ VerifyEscalated(report)
             \/ VerifyFailed(report) \/ GateVerify(report)
      PROVE  Consents
    BY <1>8 DEF VerifyPassed, VerifyEscalated, VerifyFailed, GateVerify
<1>9. ASSUME NEW result \in FixerReports, Fixer(result) \/ GateFixer(result)
      PROVE  Consents
    BY <1>9 DEF Fixer, GateFixer
<1>10. CASE PrCreator \/ Reviewer
    BY <1>10 DEF PrCreator, Reviewer
<1>11. CASE MergeGateFix \/ MergeGateRebuild
    BY <1>11 DEF MergeGateFix, MergeGateRebuild, ClearMergeGate, Routed, NoDecision
<1>12. CASE MergeDecided \/ MergeBranch \/ MergeAttemptFails
    BY <1>12 DEF MergeDecided, MergeBranch, MergeAttemptFails
<1>13. CASE StageFails
    BY <1>13 DEF StageFails, StageActivities
<1> QED BY <1>4, <1>5, <1>6, <1>7, <1>8, <1>9, <1>10, <1>11, <1>12, <1>13
        DEF WorkflowStep

\* A step gives each gate a routed decision only while that gate waits.
WaitingGateOnly ==
    /\ Routed(brief_gate') /\ brief_gate' # brief_gate => pc = "brief_gate"
    /\ Routed(brief_revise') /\ brief_revise' # brief_revise => pc = "brief_gate"
    /\ Routed(merge_gate') /\ merge_gate' # merge_gate => pc = "merge_gate"
    /\ Routed(merge_action'.decision) /\ merge_action' # merge_action
          => pc = "merge_gate"

(* A client that looks is shown the gate that waits.                       *)
LEMMA ClientLooks ==
    ASSUME ClientTypeOK, TurnInv, NEW c \in Clients, Inspect(c) \/ Poll(c)
    PROVE  TurnInv' /\ WaitingGateOnly
<1>1. /\ UNCHANGED <<workflowVars, kind>> /\ kind[c] # "legacy"
      /\ summary_pending_gate # "none"
      /\ view' = [view EXCEPT ![c] =
                     [gate |-> summary_pending_gate, brief |-> brief, code |-> code]]
    BY DEF Inspect, Poll, Query
<1>2. UNCHANGED <<pc, gateVars, brief, code>>
    BY <1>1 DEF workflowVars, planVars, repairVars
<1>3. (ShownBrief(c) \/ ShownMerge(c))'
    BY <1>1, <1>2 DEF ClientTypeOK, summary_pending_gate, pending_gate, ShownBrief,
                      ShownMerge, gateVars
<1>4. ASSUME NEW d \in Clients, d # c, view'[d] # NoView
      PROVE  kind'[d] # "legacy" /\ (ShownBrief(d) \/ ShownMerge(d))'
    <2>1. view'[d] = view[d] /\ kind'[d] = kind[d]
        BY <1>1, <1>4 DEF ClientTypeOK
    <2>2. kind[d] # "legacy" /\ (ShownBrief(d) \/ ShownMerge(d))
        BY <1>4, <2>1 DEF TurnInv, ViewsAreCurrent
    <2> QED BY <1>2, <2>1, <2>2 DEF ShownBrief, ShownMerge, gateVars
<1>5. ViewsAreCurrent'
    <2> SUFFICES ASSUME NEW d \in Clients, view'[d] # NoView
                 PROVE  kind'[d] # "legacy" /\ (ShownBrief(d) \/ ShownMerge(d))'
        BY Zenon DEF ViewsAreCurrent
    <2>1. CASE d = c
        BY <1>1, <1>3, <2>1
    <2> QED BY <1>4, <2>1
<1>6. BriefConsent' /\ MergeConsent'
    BY <1>2 DEF TurnInv, BriefConsent, MergeConsent, gateVars
<1> QED BY <1>2, <1>5, <1>6 DEF TurnInv, WaitingGateOnly, gateVars

(* A client whose turn it is sends its decision to the gate it was shown,  *)
(* which waits still; a caller of approve_gate has no gate to name.        *)
LEMMA ClientActs ==
    ASSUME ClientTypeOK, TurnInv, TakeTurns, NEW c \in Clients,
           Operate(c) \/ AnswerBrief(c) \/ AnswerMerge(c) \/ LegacyDecide(c)
    PROVE  TurnInv' /\ WaitingGateOnly
<1>1. /\ UNCHANGED <<pc, brief, code, kind>>
      /\ view' = [view EXCEPT ![c] = NoView]
    BY DEF Operate, Route, Send, AnswerBrief, AnswerMerge, LegacyDecide, planVars, repairVars
<1>2. ASSUME NEW d \in Clients PROVE view'[d] = NoView
    <2>1. kind[c] = "legacy" => view[c] = NoView
        BY DEF TurnInv, ViewsAreCurrent
    <2>2. kind[c] # "legacy" => view[c] # NoView
        <3>1. NoView.gate = "none"
            BY DEF NoView
        <3>2. LegacyDecide(c) \/ view[c].gate \in {"brief", "merge"}
            BY DEF Operate, Route, AnswerBrief, AnswerMerge
        <3> QED BY <3>1, <3>2 DEF LegacyDecide
    <2> QED BY <1>1, <2>2 DEF TakeTurns, ClientTypeOK
<1>3. ViewsAreCurrent'
    BY <1>2 DEF ViewsAreCurrent
<1>4. BriefConsent' /\ MergeConsent' /\ WaitingGateOnly
    <2> DEFINE d == Decision(c, TRUE)
               e == Decision(c, FALSE)
    <2>1. \A s \in {d, e, [d EXCEPT !.approved = TRUE], [e EXCEPT !.approved = FALSE]} :
              s.gate = view[c].gate /\ s.brief = view[c].brief /\ s.code = view[c].code
        BY DEF Decision
    <2> HIDE DEF d, e
    <2> USE DEF TurnInv, BriefConsent, MergeConsent, WaitingGateOnly
    <2>2. view[c].gate = "brief" => ShownBrief(c)
        BY DEF ViewsAreCurrent, ShownMerge, NoView
    <2>3. view[c].gate = "merge" => ShownMerge(c)
        BY DEF ViewsAreCurrent, ShownBrief, NoView
    <2>4. CASE /\ view[c].gate = "brief"
               /\ approve_brief(d) \/ reject_brief(e) \/ revise_brief(e)
        BY <1>1, <2>1, <2>2, <2>4 DEF ShownBrief, approve_brief, reject_brief, revise_brief
    <2>5. CASE /\ view[c].gate = "merge"
               /\ approve_merge(d) \/ reject_merge(e) \/ trigger_fix(d) \/ trigger_rebuild(d)
        BY <1>1, <2>1, <2>3, <2>5 DEF ShownMerge, approve_merge, reject_merge, trigger_fix,
                                      trigger_rebuild
    <2>6. CASE /\ kind[c] = "legacy"
               /\ \E approved \in BOOLEAN : approve_gate(Decision(c, approved))
        <3>1. view[c] = NoView
            BY <2>6 DEF ViewsAreCurrent
        <3>2. \A approved \in BOOLEAN : ~Routed(Decision(c, approved))
            BY <3>1 DEF Decision, Routed, NoView
        <3> QED BY <1>1, <2>6, <3>2 DEF approve_gate
    <2> QED BY <2>4, <2>5, <2>6 DEF Operate, Route, Send, AnswerBrief, AnswerMerge,
                                    LegacyDecide, d, e
<1> QED BY <1>3, <1>4 DEF TurnInv

(* A step of the run decides nothing at a gate: it only discards.          *)
LEMMA RunDecidesNothing ==
    ASSUME WorkflowStep
    PROVE  WaitingGateOnly
<1>1. /\ brief_gate' \in {brief_gate, NoDecision}
      /\ brief_revise' \in {brief_revise, NoDecision}
      /\ merge_gate' \in {merge_gate, NoDecision}
      /\ merge_action' \in {merge_action, NoAction}
    <2> USE DEF gateVars
    <2>1. CASE BriefRevised \/ BriefDecided
        BY <2>1 DEF BriefRevised, BriefDecided
    <2>2. CASE MergeGateFix \/ MergeGateRebuild
        BY <2>2 DEF MergeGateFix, MergeGateRebuild, ClearMergeGate
    <2>3. CASE UNCHANGED gateVars
        BY <2>3
    <2> QED BY <2>1, <2>2, <2>3
            DEF WorkflowStep, SetupWorker, Hydrate, DiscoveryApproved, DiscoveryRejected,
                Build, VerifyPassed, VerifyEscalated, VerifyFailed, GateVerify, Fixer,
                GateFixer, PrCreator, Reviewer, GateBuild, MergeDecided, MergeBranch,
                MergeAttemptFails, StageFails, Teardown
<1>2. ~Routed(NoDecision) /\ ~Routed(NoAction.decision)
    BY DEF Routed, NoDecision, NoAction
<1> QED BY <1>1, <1>2 DEF WaitingGateOnly

(* While clients take turns, each step keeps what was shown current and    *)
(* the consents about what waits, and decides at the waiting gate only.    *)
LEMMA TurnStep ==
    SystemTypeOK /\ TurnInv /\ TakeTurns /\ [Next]_vars
        => TurnInv' /\ (WaitingGateOnly \/ UNCHANGED vars)
<1> SUFFICES ASSUME SystemTypeOK, TurnInv, TakeTurns, [Next]_vars
             PROVE  TurnInv' /\ (WaitingGateOnly \/ UNCHANGED vars)
    OBVIOUS
<1>1. CASE WorkflowStep /\ UNCHANGED clientVars
    BY <1>1, TurnWorkflow, RunDecidesNothing
<1>2. ASSUME NEW c \in Clients, ClientStep(c)
      PROVE  TurnInv' /\ WaitingGateOnly
    <2>1. ~Refused(c)
        BY DEF TurnInv, ViewsAreCurrent, ShownBrief, ShownMerge, Refused
    <2>2. CASE Inspect(c) \/ Poll(c)
        BY <2>2, ClientLooks DEF SystemTypeOK
    <2>3. CASE Operate(c) \/ AnswerBrief(c) \/ AnswerMerge(c) \/ LegacyDecide(c)
        BY <2>3, ClientActs DEF SystemTypeOK
    <2> QED BY <1>2, <2>1, <2>2, <2>3 DEF ClientStep
<1>3. CASE UNCHANGED vars
    <2>1. TurnInv'
        BY <1>3 DEF TurnInv, ViewsAreCurrent, BriefConsent, MergeConsent, ShownBrief,
                    ShownMerge, vars, workflowVars, clientVars, gateVars, planVars, repairVars
    <2> QED BY <1>3, <2>1
<1> QED BY <1>1, <1>2, <1>3 DEF Next

(* An action reaches the gate it was meant for while that gate waits, as   *)
(* long as the clients take turns: the query and the update are two calls, *)
(* and nothing but another client can come in between.                     *)
THEOREM WaitingGateIsReached == SafetySpec /\ []TakeTurns => OnlyToTheWaitingGate
<1>1. SystemTypeOK /\ TurnInv /\ TakeTurns /\ [Next]_vars => [WaitingGateOnly]_vars
    BY TurnStep
<1> QED BY <1>1, TypeCorrect, TurnInit, TurnStep, PTL
        DEF SafetySpec, Init, OnlyToTheWaitingGate, WaitingGateOnly

(* The brief that is built is the one its approver was shown.              *)
THEOREM BuildIsInformed == SafetySpec /\ []TakeTurns => InformedBuild
<1> DEFINE Informed == pc = "brief_gate" /\ pc' = "build" /\ Routed(brief_gate)
                          => brief_gate.gate = "brief" /\ brief_gate.brief = brief
<1>1. TurnInv => [Informed]_vars
    BY DEF TurnInv, BriefConsent
<1> QED BY <1>1, TypeCorrect, TurnInit, TurnStep, PTL DEF SafetySpec, Init, InformedBuild

(* Consent to merge is about the code as it stands when the run goes on to *)
(* merge: a fix or a rebuild discards the consent of before.               *)
THEOREM MergeIsInformed == SafetySpec /\ []TakeTurns => InformedMerge
<1> DEFINE Informed == pc = "merge_gate" /\ pc' = "merge" /\ Routed(merge_gate)
                          => merge_gate.gate = "merge" /\ merge_gate.code = code
<1>1. TurnInv => [Informed]_vars
    BY DEF TurnInv, MergeConsent
<1> QED BY <1>1, TypeCorrect, TurnInit, TurnStep, PTL DEF SafetySpec, Init, InformedMerge

(* A client that is alone, of whatever kind, always takes turns, so that   *)
(* the three hold of the run it answers without further condition.         *)
COROLLARY AloneIsInformed ==
    ASSUME \A c, d \in Clients : c = d
    PROVE  SafetySpec => OnlyToTheWaitingGate /\ InformedBuild /\ InformedMerge
<1>1. TakeTurns
    BY DEF TakeTurns
<1> QED BY <1>1, WaitingGateIsReached, BuildIsInformed, MergeIsInformed, PTL

=============================================================================
