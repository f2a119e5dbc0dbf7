---------------------------- MODULE IssueProofs ----------------------------
(***************************************************************************)
(* What holds of the issue run for every set of work packages, predicates, *)
(* agent reports and signals and every bound: the type invariant, that the *)
(* gates use live signals only, that what lands was verified within the    *)
(* Fixer's budget, that the labels tell the state, and that the safety     *)
(* part of GatedDelivery is implemented.                                   *)
(***************************************************************************)
EXTENDS DarkFactoryIssueWorkflow, RepairProofs, FiniteSetTheorems

-----------------------------------------------------------------------------
(* The type invariant.                                                     *)

(* A swap adds a state label and goes on with an await of the run.         *)
LEMMA SwapRows ==
    ASSUME NEW l \in LabelAwaits
    PROVE  Swaps[l].next \in PCs /\ Swaps[l].add \in StateLabels
BY DEF LabelAwaits, Swaps, Swap, PCs, StateLabels, LifecycleLabels, OutcomeLabels,
       RestStates, StageActivities

\* The awaits before the first planning attempt of a spec revision.
Unplanned ==
    {"setup", "hydrate", "label_triaging", "triage_check", "triage", "post_question",
     "label_clarification", "clarification", "label_retriage", "label_designing",
     "label_redesign"}

(* Planning begins with an attempt left, and only then is one counted.     *)
PlanningLeft ==
    /\ pc \in Unplanned => planning_attempts = 0
    /\ pc = "planning" => planning_attempts < PLANNING_MAX_ATTEMPTS

(* The run starts well-typed.                                              *)
LEMMA InitType == Init => TypeOK /\ PlanningLeft
<1> SUFFICES ASSUME Init PROVE TypeOK /\ PlanningLeft
    OBVIOUS
<1>1. RepairTypeOK
    BY RepairInitType DEF Init
<1> QED BY <1>1, IssueAttemptsAssumption, IssueBoundsAssumption
        DEF Init, TypeOK, PlanningLeft, PCs, StateLabels

(* A step that leaves the repair state alone leaves it well-typed.         *)
LEMMA RepairUnchanged ==
    ASSUME RepairTypeOK, UNCHANGED repairVars
    PROVE  RepairTypeOK'
BY DEF RepairTypeOK, repairVars, findingVars, attemptVars

(* Every step keeps the repair state well-typed.                           *)
LEMMA WorkflowRepairType ==
    ASSUME RepairTypeOK, WorkflowStep
    PROVE  RepairTypeOK'
<1>1. ASSUME NEW report \in VerifyReports, VerifyPassed(report)
      PROVE  RepairTypeOK'
    BY <1>1, VerifyType DEF VerifyPassed, attemptVars, RepairTypeOK
<1>2. ASSUME NEW report \in VerifyReports, VerifyEscalated(report)
      PROVE  RepairTypeOK'
    BY <1>2, VerifyType DEF VerifyEscalated, attemptVars, RepairTypeOK
<1>3. ASSUME NEW report \in VerifyReports, VerifyFailed(report)
      PROVE  RepairTypeOK'
    BY <1>3, VerifyType, RecordType DEF VerifyFailed
<1>4. ASSUME NEW report \in VerifyReports, GateVerify(report)
      PROVE  RepairTypeOK'
    BY <1>4, VerifyType DEF GateVerify, attemptVars, RepairTypeOK
<1>5. ASSUME NEW result \in FixerReports, Fixer(result) \/ GateFixer(result)
      PROVE  RepairTypeOK'
    BY <1>5, FixerType DEF Fixer, GateFixer
<1>6. CASE Build \/ GateBuild
    BY <1>6, BuildType DEF Build, GateBuild
<1>7. CASE MergeFix
    <2>1. RecordFixerAttempt(verify_summary.reported)
        BY <1>7 DEF MergeFix
    <2>2. /\ fixer_attempts_by_wp' \in [WPs -> Nat]
          /\ fixer_attempts_by_predicate' \in [Predicates -> Nat]
        BY <2>1, RecordType
    <2> QED BY <1>7, <2>2 DEF MergeFix, RepairTypeOK, findingVars
<1>8. CASE UNCHANGED repairVars
    BY <1>8, RepairUnchanged
<1> QED BY <1>1, <1>2, <1>3, <1>4, <1>5, <1>6, <1>7, <1>8
        DEF WorkflowStep, SwapLabel, SetupWorker, Hydrate, CancelNoticed, LabelCanceled,
            Quarantine, TriageStarts, TriageReady, TriageUnclear, PostQuestion,
            PostAbandoned, ClarificationReply, PlanningAttempt, DiscoveryApproved,
            DiscoveryRejected, DesignRevised, DesignRejected, DesignApproved,
            BuildStarts, PrCreator, Reviewer, MergeRejected, MergeApproved,
            MergeRebuild, MergeIgnored, MergeBranch, MergeAttemptFails,
            MarkIssueDone, StageFails, Teardown

(* Each step of the run keeps its control state to its values.             *)
LEMMA WorkflowType ==
    ASSUME TypeOK, PlanningLeft, WorkflowStep
    PROVE  TypeOK' /\ PlanningLeft'
<1>1. RepairTypeOK'
    BY WorkflowRepairType DEF TypeOK
<1>2. code \in Nat
    BY DEF TypeOK, RepairTypeOK
<1> USE IssueAttemptsAssumption, IssueBoundsAssumption
    DEF TypeOK, PlanningLeft, Leave, Go, signalVars, issueVars, planVars, labelVars,
        landVars
<1>3. CASE SwapLabel
    <2>1. Swaps[pc].next \in PCs /\ Swaps[pc].add \in StateLabels
        BY <1>3, SwapRows DEF SwapLabel
    <2>2. PlanningLeft'
        BY <1>3 DEF SwapLabel, Swaps, Swap, LabelAwaits, Unplanned
    <2> QED BY <1>1, <1>3, <2>1, <2>2 DEF SwapLabel
<1>4. CASE SetupWorker \/ Hydrate \/ StageFails \/ Teardown
    BY <1>1, <1>4 DEF SetupWorker, Hydrate, StageFails, Teardown, PCs, StageActivities,
        LabelAwaits, Swaps, RestStates, Unplanned
<1>5. CASE CancelNoticed \/ LabelCanceled \/ Quarantine
    BY <1>1, <1>5 DEF CancelNoticed, LabelCanceled, Quarantine, PCs, StateLabels,
        OutcomeLabels, Unplanned
<1>6. CASE TriageStarts \/ TriageReady \/ TriageUnclear
    BY <1>1, <1>6 DEF TriageStarts, TriageReady, TriageUnclear, PCs, StageActivities,
        LabelAwaits, Swaps, Unplanned
<1>7. CASE PostAbandoned
    BY <1>1, <1>7 DEF PostAbandoned, PCs, LabelAwaits, Swaps, StateLabels, OutcomeLabels,
        Unplanned
<1>8. CASE PostQuestion \/ ClarificationReply
    BY <1>1, <1>8 DEF PostQuestion, ClarificationReply, PCs, LabelAwaits, Swaps, Unplanned
<1>9. CASE PlanningAttempt \/ DiscoveryApproved \/ DiscoveryRejected
    BY <1>1, <1>9 DEF PlanningAttempt, DiscoveryApproved, DiscoveryRejected, PCs,
        StageActivities, LabelAwaits, Swaps, Unplanned
<1>10. CASE DesignRevised \/ DesignRejected \/ DesignApproved
    BY <1>1, <1>10 DEF DesignRevised, DesignRejected, DesignApproved, PCs, LabelAwaits,
        Swaps, Unplanned
<1>11. CASE BuildStarts \/ Build \/ GateBuild
    BY <1>1, <1>11 DEF BuildStarts, Build, GateBuild, PCs, StageActivities, LabelAwaits,
        Swaps, Unplanned
<1>12. ASSUME NEW report \in VerifyReports,
              \/ VerifyPassed(report) \/ VerifyEscalated(report)
              \/ VerifyFailed(report) \/ GateVerify(report)
       PROVE  TypeOK' /\ PlanningLeft'
    BY <1>1, <1>12 DEF VerifyPassed, VerifyEscalated, VerifyFailed, GateVerify, PCs,
        StageActivities, LabelAwaits, Swaps, Unplanned
<1>13. ASSUME NEW result \in FixerReports, Fixer(result) \/ GateFixer(result)
       PROVE  TypeOK' /\ PlanningLeft'
    BY <1>1, <1>13 DEF Fixer, GateFixer, PCs, StageActivities, LabelAwaits, Swaps, Unplanned
<1>14. CASE PrCreator \/ Reviewer \/ MergeBranch \/ MergeAttemptFails
    BY <1>1, <1>2, <1>14 DEF PrCreator, Reviewer, MergeBranch, MergeAttemptFails, PCs,
        StageActivities, LabelAwaits, Swaps, Unplanned
<1>15. CASE MergeRejected \/ MergeApproved \/ MergeFix \/ MergeRebuild \/ MergeIgnored
    BY <1>1, <1>15 DEF MergeRejected, MergeApproved, MergeFix, MergeRebuild, MergeIgnored,
        PCs, LabelAwaits, Swaps, Unplanned
<1>16. CASE MarkIssueDone
    BY <1>1, <1>16 DEF MarkIssueDone, PCs, LabelAwaits, Swaps, StateLabels,
        LifecycleLabels, Unplanned
<1> QED BY <1>3, <1>4, <1>5, <1>6, <1>7, <1>8, <1>9, <1>10, <1>11, <1>12, <1>13,
           <1>14, <1>15, <1>16 DEF WorkflowStep

(* A signal or a comment leaves the run where it is.                       *)
LEMMA UpdateType ==
    ASSUME TypeOK, PlanningLeft, signal_approval \/ post_new_comments
    PROVE  TypeOK' /\ PlanningLeft'
<1>1. RepairTypeOK'
    BY RepairUnchanged DEF TypeOK, signal_approval, post_new_comments
<1>2. code \in Nat
    BY DEF TypeOK, RepairTypeOK
<1> USE IssueBoundsAssumption
    DEF TypeOK, PlanningLeft, signalVars, issueVars, planVars, labelVars, landVars
<1>3. CASE signal_approval
    <2>1. PICK kind \in SignalKinds :
            /\ approval_signal' = [kind |-> kind, at |-> pc,
                                   rev |-> latest_spec_rev, code |-> code]
            /\ labels' \in {labels} \cup
                CASE kind = "Approve" -> {labels \cup {"approved"}}
                  [] kind = "Cancel" -> {labels \cup {"cancel"}}
                  [] OTHER -> {}
        BY <1>3 DEF signal_approval
    <2>2. approval_signal' \in SignalViews
        BY <1>2, <2>1 DEF SignalViews
    <2>3. labels' \subseteq StateLabels \cup ActionLabels
        BY <2>1 DEF ActionLabels
    <2> QED BY <1>1, <1>3, <2>2, <2>3 DEF signal_approval
<1>4. CASE post_new_comments
    BY <1>1, <1>4 DEF post_new_comments
<1> QED BY <1>3, <1>4

(* The type invariant, with an attempt left, is inductive.                 *)
LEMMA TypeStep == TypeOK /\ PlanningLeft /\ [Next]_vars => (TypeOK /\ PlanningLeft)'
<1> SUFFICES ASSUME TypeOK, PlanningLeft, [Next]_vars
             PROVE  (TypeOK /\ PlanningLeft)'
    OBVIOUS
<1>1. CASE UNCHANGED vars
    <2>1. RepairTypeOK'
        BY <1>1, RepairUnchanged DEF vars, TypeOK
    <2> QED BY <1>1, <2>1 DEF vars, TypeOK, PlanningLeft, signalVars, issueVars, planVars,
                              labelVars, landVars
<1> QED BY <1>1, WorkflowType, UpdateType DEF Next

(* Every variable of the issue run keeps to the values the code can store. *)
THEOREM IssueTypeCorrect == SafetySpec => []TypeOK
BY InitType, TypeStep, PTL DEF SafetySpec

-----------------------------------------------------------------------------
(* What lands was verified, within the budget.                             *)

\* The awaits before the first build, those of the repair loop, and those the
\* run comes to with a pull request.
Planning ==
    Unplanned \cup {"planning", "discovery", "label_approval", "design_gate",
                    "label_building", "build_cancel_check", "build"}
Repairing == {"label_verifying", "verify", "fixer", "pr_creator"}
Published ==
    {"label_reviewing", "reviewer", "label_awaiting_merge", "merge_gate",
     "label_fixing", "gate_fixer", "label_rebuilding", "gate_build", "gate_verify",
     "label_in_progress", "merge"}

\* The pull request is opened once, from a revision that just passed.
NothingPushed ==
    /\ pc \in Planning \cup Repairing => pushed = 0
    /\ pc \in Repairing => code # 0
    /\ pc = "pr_creator" => code \in verified

\* From then on its head is that revision, fixes and rebuilds do not move it.
PushedVerified ==
    /\ pc \in Published => pushed # 0
    /\ pushed # 0 => pushed \in verified
    /\ landed # 0 => landed = pushed

SafeInv == NothingPushed /\ PushedVerified

(* Each step of the run keeps the head of the pull request verified.       *)
LEMMA SafeWorkflow ==
    ASSUME TypeOK, SafeInv, WorkflowStep
    PROVE  SafeInv'
<1>1. code \in Nat
    BY DEF TypeOK, RepairTypeOK
<1> USE DEF SafeInv, NothingPushed, PushedVerified, Planning, Unplanned, Repairing,
            Published, Leave, Go, repairVars, findingVars, landVars
<1>2. CASE SwapLabel
    BY <1>2 DEF SwapLabel, LabelAwaits, Swaps, Swap
<1>3. CASE \/ SetupWorker \/ Hydrate \/ CancelNoticed \/ LabelCanceled \/ Quarantine
           \/ StageFails \/ Teardown
    BY <1>3 DEF SetupWorker, Hydrate, CancelNoticed, LabelCanceled, Quarantine, StageFails,
        Teardown
<1>4. CASE \/ TriageStarts \/ TriageReady \/ TriageUnclear
           \/ PostQuestion \/ PostAbandoned \/ ClarificationReply
    BY <1>4 DEF TriageStarts, TriageReady, TriageUnclear, PostQuestion, PostAbandoned,
        ClarificationReply
<1>5. CASE \/ PlanningAttempt \/ DiscoveryApproved \/ DiscoveryRejected
           \/ DesignRevised \/ DesignRejected \/ DesignApproved \/ BuildStarts
    BY <1>5 DEF PlanningAttempt, DiscoveryApproved, DiscoveryRejected, DesignRevised,
        DesignRejected, DesignApproved, BuildStarts
<1>6. CASE Build \/ GateBuild
    <2>1. code' = code + 1 /\ verified' = verified
        BY <1>6 DEF Build, GateBuild, BuildResult
    <2> QED BY <1>1, <1>6, <2>1 DEF Build, GateBuild
<1>7. ASSUME NEW report \in VerifyReports, VerifyPassed(report)
      PROVE  SafeInv'
    <2>1. code \in verified' /\ code' = code /\ verified \subseteq verified'
        BY <1>7, VerifyVerdict DEF VerifyPassed, VerifyResult
    <2> QED BY <1>7, <2>1 DEF VerifyPassed
<1>8. ASSUME NEW report \in VerifyReports,
             VerifyEscalated(report) \/ VerifyFailed(report) \/ GateVerify(report)
      PROVE  SafeInv'
    <2>1. verified \subseteq verified' /\ code' = code
        BY <1>8, VerifyVerdict DEF VerifyEscalated, VerifyFailed, GateVerify, VerifyResult
    <2> QED BY <1>8, <2>1 DEF VerifyEscalated, VerifyFailed, GateVerify
<1>9. ASSUME NEW result \in FixerReports, Fixer(result) \/ GateFixer(result)
      PROVE  SafeInv'
    <2>1. code' = code + 1 /\ verified' = verified
        BY <1>9 DEF Fixer, GateFixer, FixerResult
    <2> QED BY <1>1, <1>9, <2>1 DEF Fixer, GateFixer
<1>10. CASE PrCreator \/ Reviewer
    BY <1>10 DEF PrCreator, Reviewer
<1>11. CASE MergeRejected \/ MergeApproved \/ MergeFix \/ MergeRebuild \/ MergeIgnored
    BY <1>11 DEF MergeRejected, MergeApproved, MergeFix, MergeRebuild, MergeIgnored
<1>12. CASE MergeBranch \/ MergeAttemptFails \/ MarkIssueDone
    BY <1>12 DEF MergeBranch, MergeAttemptFails, MarkIssueDone
<1> QED BY <1>2, <1>3, <1>4, <1>5, <1>6, <1>7, <1>8, <1>9, <1>10, <1>11, <1>12
        DEF WorkflowStep

(* A signal or a comment changes what a person sees of the run, not it.    *)
LEMMA UpdateFrame ==
    ASSUME signal_approval \/ post_new_comments \/ UNCHANGED vars
    PROVE  UNCHANGED <<pc, status, worker, planVars, landVars, repairVars>>
BY DEF signal_approval, post_new_comments, vars

(* The safety invariant is inductive.                                      *)
LEMMA SafeStep == TypeOK /\ SafeInv /\ [Next]_vars => SafeInv'
<1> SUFFICES ASSUME TypeOK, SafeInv, [Next]_vars
             PROVE  SafeInv'
    OBVIOUS
<1>1. CASE UNCHANGED <<pc, status, worker, planVars, landVars, repairVars>>
    BY <1>1 DEF SafeInv, NothingPushed, PushedVerified, landVars, repairVars
<1> QED BY <1>1, SafeWorkflow, UpdateFrame DEF Next

(* At the start nothing is pushed.                                         *)
LEMMA SafeInit == Init => SafeInv
BY DEF Init, RepairInit, SafeInv, NothingPushed, PushedVerified, Planning, Unplanned,
       Repairing, Published

(* Code that never passed a verification cannot land, whatever is fixed,   *)
(* rebuilt or signaled at the merge gate.                                  *)
THEOREM IssueOnlyVerifiedLands == SafetySpec => []LandedWasVerified
<1>1. SafeInv => LandedWasVerified
    BY DEF SafeInv, PushedVerified, LandedWasVerified
<1> QED BY <1>1, InitType, TypeStep, SafeInit, SafeStep, PTL DEF SafetySpec

(* A step of the run keeps the counters in the budget until something is   *)
(* pushed.                                                                 *)
LEMMA BudgetWorkflow ==
    ASSUME TypeOK, SafeInv, AutoFixBudget, WorkflowStep
    PROVE  AutoFixBudget'
<1>1. SUFFICES ASSUME pushed' = 0
               PROVE  WithinBudget'
    BY DEF AutoFixBudget
<1>2. CASE UNCHANGED attemptVars /\ pushed' = pushed
    BY <1>1, <1>2 DEF AutoFixBudget, WithinBudget, attemptVars
<1>3. ASSUME NEW report \in VerifyReports, VerifyFailed(report)
      PROVE  WithinBudget'
    BY <1>1, <1>3, RecordType DEF VerifyFailed, AutoFixBudget, TypeOK, landVars
<1>4. CASE MergeFix
    BY <1>1, <1>4 DEF MergeFix, Go, SafeInv, PushedVerified, Published, landVars
<1>5. CASE PrCreator
    BY <1>1, <1>5 DEF PrCreator, Go, SafeInv, NothingPushed, Repairing
<1>6. ASSUME NEW report \in VerifyReports,
             VerifyPassed(report) \/ VerifyEscalated(report) \/ GateVerify(report)
      PROVE  UNCHANGED attemptVars /\ pushed' = pushed
    BY <1>6 DEF VerifyPassed, VerifyEscalated, GateVerify, landVars
<1>7. ASSUME NEW result \in FixerReports, Fixer(result) \/ GateFixer(result)
      PROVE  UNCHANGED attemptVars /\ pushed' = pushed
    BY <1>7 DEF Fixer, GateFixer, FixerResult, landVars
<1>8. CASE Build \/ GateBuild
    BY <1>2, <1>8 DEF Build, GateBuild, BuildResult, landVars
<1> QED BY <1>2, <1>3, <1>4, <1>5, <1>6, <1>7, <1>8
        DEF WorkflowStep, SwapLabel, SetupWorker, Hydrate, CancelNoticed, LabelCanceled,
            Quarantine, TriageStarts, TriageReady, TriageUnclear, PostQuestion,
            PostAbandoned, ClarificationReply, PlanningAttempt, DiscoveryApproved,
            DiscoveryRejected, DesignRevised, DesignRejected, DesignApproved,
            BuildStarts, Reviewer, MergeRejected, MergeApproved, MergeRebuild,
            MergeIgnored, MergeBranch, MergeAttemptFails, MarkIssueDone, StageFails,
            Teardown, repairVars, landVars

(* Until there is a pull request, no work package and no predicate is      *)
(* handed to the Fixer more often than FIXER_MAX_ATTEMPTS.                 *)
THEOREM IssueBudgetHolds == SafetySpec => []AutoFixBudget
<1>1. Init => AutoFixBudget
    BY BudgetAssumption DEF Init, RepairInit, AutoFixBudget, WithinBudget
<1>2. TypeOK /\ SafeInv /\ AutoFixBudget /\ [Next]_vars => AutoFixBudget'
    <2> SUFFICES ASSUME TypeOK, SafeInv, AutoFixBudget, [Next]_vars
                 PROVE  AutoFixBudget'
        OBVIOUS
    <2>1. CASE UNCHANGED <<pc, status, worker, planVars, landVars, repairVars>>
        BY <2>1 DEF AutoFixBudget, WithinBudget, repairVars, attemptVars, landVars
    <2> QED BY <2>1, BudgetWorkflow, UpdateFrame DEF Next
<1> QED BY <1>1, <1>2, InitType, TypeStep, SafeInit, SafeStep, PTL DEF SafetySpec

-----------------------------------------------------------------------------
(* Live signals.                                                           *)

(* A gate goes by a signal that arrived there and about what it showed,    *)
(* however many signals arrive and when.                                   *)
THEOREM LiveSignalsOnly == SafetySpec => []OnlyLiveSignals
<1>1. Init => OnlyLiveSignals
    BY DEF Init, OnlyLiveSignals
<1>2. OnlyLiveSignals /\ [Next]_vars => OnlyLiveSignals'
    <2> SUFFICES ASSUME OnlyLiveSignals, [Next]_vars
                 PROVE  OnlyLiveSignals'
        OBVIOUS
    <2> USE DEF OnlyLiveSignals, Go, Leave, signalVars, planVars, repairVars
    <2>1. CASE SwapLabel
        BY <2>1 DEF SwapLabel, LabelAwaits, Swaps, Swap, ClearingSwaps
    <2>2. CASE signal_approval
        BY <2>2 DEF signal_approval, NoSignal
    <2>3. CASE post_new_comments \/ UNCHANGED vars
        BY <2>3 DEF post_new_comments, vars
    <2>4. CASE WorkflowStep /\ ~SwapLabel
        BY <2>4
        DEF WorkflowStep, SetupWorker, Hydrate, CancelNoticed, LabelCanceled,
            Quarantine, TriageStarts, TriageReady, TriageUnclear, PostQuestion,
            PostAbandoned, ClarificationReply, PlanningAttempt, DiscoveryApproved,
            DiscoveryRejected, DesignRevised, DesignRejected, DesignApproved,
            BuildStarts, Build, VerifyPassed, VerifyEscalated, VerifyFailed, Fixer,
            PrCreator, Reviewer, MergeRejected, MergeApproved, MergeFix, GateFixer,
            MergeRebuild, GateBuild, GateVerify, MergeIgnored, MergeBranch,
            MergeAttemptFails, MarkIssueDone, StageFails, Teardown
    <2> QED BY <2>1, <2>2, <2>3, <2>4 DEF Next
<1> QED BY <1>1, <1>2, PTL DEF SafetySpec

-----------------------------------------------------------------------------
(* The labels.                                                             *)

Shown == labels \cap StateLabels
Shows(label) == Shown = {label}

\* What the issue carries at each await.  A planning that was sent back by a
\* signal other than Revise goes on under the label of the gate.
Carried ==
    /\ pc \in {"setup", "hydrate", "label_triaging"} => Shows("ready")
    /\ pc \in {"triage_check", "triage", "post_question", "label_clarification",
               "label_designing", "post_abandoned"} => Shows("triaging")
    /\ pc \in {"clarification", "label_retriage"} => Shows("needs-clarification")
    /\ pc = "label_abandoned" => Shown = {"triaging", "needs-human"}
    /\ pc \in {"planning", "discovery", "label_approval", "label_design_failed"} =>
          Shows("designing") \/ Shows("awaiting-approval")
    /\ pc \in {"design_gate", "label_redesign", "label_building"} =>
          Shows("awaiting-approval")
    /\ pc \in {"build_cancel_check", "build", "label_verifying", "gate_build"} =>
          Shows("building")
    /\ pc \in {"verify", "fixer", "pr_creator", "label_verify_failed"} =>
          Shows("verifying")
    /\ pc = "gate_fixer" => Shows("fixing")
    /\ pc = "gate_verify" => Shows("fixing") \/ Shows("building")
    /\ pc = "label_reviewing" =>
          Shows("verifying") \/ Shows("fixing") \/ Shows("building")
              \/ Shows("awaiting-merge")
    /\ pc \in {"reviewer", "label_awaiting_merge"} => Shows("reviewing")
    /\ pc \in {"merge_gate", "label_fixing", "label_rebuilding", "label_in_progress"} =>
          Shows("awaiting-merge")
    /\ pc \in {"merge", "mark_done"} => Shows("in-progress")
    /\ pc = "label_done" => Shown = {"in-progress", "done"}

\* What a planning cap reached under the label of the gate leaves: nothing was
\* built then, as nothing is before the first build.
LeftAtTheGate == Shown = {"needs-human", "awaiting-approval"} /\ code = 0
Unbuilt == pc \in Planning \cup {"label_design_failed"} => code = 0

\* Which end the run is coming to, and what the issue carries then.
Ending ==
    /\ pc \in {"post_abandoned", "label_abandoned"} => status = "abandoned"
    /\ pc \in {"label_design_failed", "label_verify_failed"} => status = "needs_human"
    /\ pc \in {"label_canceled", "quarantine"} => status \in {"canceled", "rejected"}
    /\ pc \in {"mark_done", "label_done"} => status = "merged"
    /\ pc \in {"teardown", "closed"} =>
          /\ status = "merged" => Shows("done")
          /\ status = "canceled" => Shows("canceled")
          /\ status = "rejected" => Shows("failed")
          /\ status = "abandoned" => Shows("needs-human")
          /\ status = "needs_human" => Shows("needs-human") \/ LeftAtTheGate

\* At most one lifecycle label, but between mark_issue_done and the last swap.
Single ==
    pc # "label_done" => \E label \in StateLabels : labels \cap LifecycleLabels \subseteq {label}

LabelInv == Carried /\ Ending /\ Single

(* Only the builders and the Fixer change the code, and no step leads back *)
(* to the awaits before the first build.                                   *)
LEMMA UnbuiltStep == Unbuilt /\ [Next]_vars => Unbuilt'
<1> SUFFICES ASSUME Unbuilt, [Next]_vars
             PROVE  Unbuilt'
    OBVIOUS
<1> USE DEF Unbuilt, Planning, Unplanned, Go, Leave, repairVars, findingVars
<1>1. CASE SwapLabel
    BY <1>1 DEF SwapLabel, LabelAwaits, Swaps, Swap
<1>2. CASE UNCHANGED <<pc, status, worker, planVars, landVars, repairVars>>
    BY <1>2
<1>3. CASE WorkflowStep /\ ~SwapLabel
    BY <1>3
    DEF WorkflowStep, SetupWorker, Hydrate, CancelNoticed, LabelCanceled, Quarantine,
        TriageStarts, TriageReady, TriageUnclear, PostQuestion, PostAbandoned,
        ClarificationReply, PlanningAttempt, DiscoveryApproved, DiscoveryRejected,
        DesignRevised, DesignRejected, DesignApproved, BuildStarts, Build, VerifyPassed,
        VerifyEscalated, VerifyFailed, Fixer, PrCreator, Reviewer, MergeRejected,
        MergeApproved, MergeFix, GateFixer, MergeRebuild, GateBuild, GateVerify,
        MergeIgnored, MergeBranch, MergeAttemptFails, MarkIssueDone, StageFails, Teardown
<1> QED BY <1>1, <1>2, <1>3, UpdateFrame DEF Next

(* A swap whose labels are the only ones shown leaves the one it adds.     *)
LEMMA SwapShows ==
    ASSUME NEW remove, NEW add \in StateLabels, Shown \subseteq remove \cup {add},
           labels' = (labels \ remove) \cup {add}
    PROVE  Shown' = {add}
BY DEF Shown

(* Swaps keep what the issue carries in step with the run.                 *)
LEMMA LabelSwap ==
    ASSUME LabelInv, Unbuilt, SwapLabel
    PROVE  LabelInv'
<1> USE DEF LabelInv, Carried, Ending, Shows, LeftAtTheGate
<1> DEFINE row == Swaps[pc]
<1>1. /\ labels' = (labels \ row.remove) \cup {row.add}
      /\ pc' = row.next /\ status' = status /\ pc \in LabelAwaits
    BY DEF SwapLabel
<1>2. row.add \in StateLabels
    BY <1>1, SwapRows
<1>3. CASE pc # "label_design_failed"
    <2>1. Shown \subseteq row.remove \cup {row.add}
        BY <1>1, <1>3 DEF LabelAwaits, Swaps, Swap
    <2>2. Shown' = {row.add}
        BY <1>1, <1>2, <2>1, SwapShows
    <2>3. Carried' /\ Ending'
        BY <1>1, <1>3, <2>2 DEF LabelAwaits, Swaps, Swap, Shown
    <2>4. Single'
        BY <2>2, <1>2 DEF Single, Shown, StateLabels
    <2> QED BY <2>3, <2>4
<1>4. CASE pc = "label_design_failed"
    <2>1. /\ row.remove = {"designing"} /\ row.add = "needs-human"
          /\ pc' = "teardown" /\ status' = "needs_human"
        BY <1>1, <1>4 DEF Swaps, Swap
    <2>2. code' = 0
        BY <1>4 DEF SwapLabel, Unbuilt, repairVars
    <2>3. Shown' \in {{"needs-human"}, {"needs-human", "awaiting-approval"}}
        BY <1>1, <1>4, <2>1 DEF Shown, StateLabels, LifecycleLabels, OutcomeLabels
    <2>4. Carried' /\ Ending'
        BY <1>1, <2>1, <2>2, <2>3
    <2>5. Single'
        BY <1>1, <1>4, <2>1 DEF Single, StateLabels, LifecycleLabels
    <2> QED BY <2>4, <2>5
<1> QED BY <1>3, <1>4

(* Where the run writes labels on its way out they fit the end it comes to.*)
LEMMA LabelWrites ==
    ASSUME LabelInv, LabelCanceled \/ Quarantine \/ PostAbandoned \/ MarkIssueDone
    PROVE  LabelInv'
<1> USE DEF LabelInv, Carried, Ending, Shows, Shown, Go
<1>1. CASE LabelCanceled
    <2>1. Carried' /\ Ending'
        BY <1>1 DEF LabelCanceled
    <2>2. Single'
        BY <1>1 DEF LabelCanceled, Single, LifecycleLabels
    <2> QED BY <2>1, <2>2
<1>2. CASE Quarantine
    <2>1. PICK label \in {"failed", "canceled"} :
            /\ labels' = (labels \ (StateLabels \ {label})) \cup {label}
            /\ label = IF status = "rejected" THEN "failed" ELSE "canceled"
        BY <1>2 DEF Quarantine
    <2>2. Shown' = {label}
        BY <2>1 DEF StateLabels, OutcomeLabels
    <2>3. Carried' /\ Ending'
        BY <1>2, <2>1, <2>2 DEF Quarantine
    <2>4. Single'
        BY <2>1, <2>2 DEF Single, StateLabels, LifecycleLabels, OutcomeLabels
    <2> QED BY <2>3, <2>4
<1>3. CASE PostAbandoned
    <2>1. Shown' = {"triaging", "needs-human"}
        BY <1>3 DEF PostAbandoned, StateLabels, OutcomeLabels
    <2>2. Carried' /\ Ending'
        BY <1>3, <2>1 DEF PostAbandoned
    <2>3. Single'
        BY <1>3 DEF PostAbandoned, Single, LifecycleLabels
    <2> QED BY <2>2, <2>3
<1>4. CASE MarkIssueDone
    <2>1. Shown' = {"in-progress", "done"}
        BY <1>4 DEF MarkIssueDone, StateLabels, LifecycleLabels
    <2> QED BY <1>4, <2>1 DEF MarkIssueDone, Single
<1> QED BY <1>1, <1>2, <1>3, <1>4

(* The other steps of the run leave the labels and go where they fit.      *)
LEMMA LabelMoves ==
    ASSUME LabelInv, Unbuilt, WorkflowStep, UNCHANGED labels, pc \notin {"mark_done", "label_done"}
    PROVE  LabelInv'
<1>1. /\ Shown' = Shown
      /\ labels' = labels
    BY DEF Shown
<1>2. Single'
    BY <1>1 DEF LabelInv, Single
<1>3. SUFFICES Carried' /\ Ending'
    BY <1>2 DEF LabelInv
<1> USE <1>1 DEF LabelInv, Carried, Ending, Shows, Go, Leave
<1>4. CASE SwapLabel \/ LabelCanceled \/ Quarantine \/ PostAbandoned \/ MarkIssueDone
    BY <1>4, LabelSwap, LabelWrites
<1>5. CASE \/ SetupWorker \/ Hydrate \/ CancelNoticed \/ TriageStarts \/ TriageReady
           \/ TriageUnclear \/ PostQuestion \/ ClarificationReply
    BY <1>5 DEF SetupWorker, Hydrate, CancelNoticed, TriageStarts, TriageReady,
        TriageUnclear, PostQuestion, ClarificationReply
<1>6. CASE \/ PlanningAttempt \/ DiscoveryApproved \/ DiscoveryRejected
           \/ DesignRevised \/ DesignRejected \/ DesignApproved
    BY <1>6 DEF PlanningAttempt, DiscoveryApproved, DiscoveryRejected, DesignRevised,
        DesignRejected, DesignApproved
<1>7. CASE BuildStarts \/ Build \/ GateBuild \/ PrCreator \/ Reviewer
    BY <1>7 DEF BuildStarts, Build, GateBuild, PrCreator, Reviewer
<1>8. ASSUME NEW report \in VerifyReports,
             \/ VerifyPassed(report) \/ VerifyEscalated(report)
             \/ VerifyFailed(report) \/ GateVerify(report)
      PROVE  Carried' /\ Ending'
    BY <1>8 DEF VerifyPassed, VerifyEscalated, VerifyFailed, GateVerify
<1>9. ASSUME NEW result \in FixerReports, Fixer(result) \/ GateFixer(result)
      PROVE  Carried' /\ Ending'
    BY <1>9 DEF Fixer, GateFixer
<1>10. CASE MergeRejected \/ MergeApproved \/ MergeFix \/ MergeRebuild \/ MergeIgnored
    BY <1>10 DEF MergeRejected, MergeApproved, MergeFix, MergeRebuild, MergeIgnored
<1>11. CASE MergeBranch \/ MergeAttemptFails \/ StageFails
    BY <1>11 DEF MergeBranch, MergeAttemptFails, StageFails, StageActivities
<1>12. CASE Teardown
    BY <1>12 DEF Teardown, repairVars, LeftAtTheGate
<1> QED BY <1>4, <1>5, <1>6, <1>7, <1>8, <1>9, <1>10, <1>11, <1>12 DEF WorkflowStep

(* Every step keeps what the issue carries in step with the run: a signal  *)
(* adds action labels only.                                                *)
LEMMA LabelStep == LabelInv /\ Unbuilt /\ [Next]_vars => LabelInv'
<1> SUFFICES ASSUME LabelInv, Unbuilt, [Next]_vars
             PROVE  LabelInv'
    OBVIOUS
<1>1. CASE SwapLabel
    BY <1>1, LabelSwap
<1>2. CASE LabelCanceled \/ Quarantine \/ PostAbandoned \/ MarkIssueDone
    BY <1>2, LabelWrites
<1>3. CASE WorkflowStep /\ UNCHANGED labels /\ pc \notin {"mark_done", "label_done"}
    BY <1>3, LabelMoves
<1>4. CASE signal_approval \/ post_new_comments \/ UNCHANGED vars
    <2>1. /\ pc' = pc /\ status' = status /\ code' = code
          /\ labels' \ ActionLabels = labels \ ActionLabels
        BY <1>4 DEF signal_approval, post_new_comments, vars, labelVars, repairVars,
            ActionLabels
    <2>2. /\ Shown' = Shown
          /\ labels' \cap LifecycleLabels = labels \cap LifecycleLabels
        BY <2>1 DEF Shown, StateLabels, LifecycleLabels, OutcomeLabels, ActionLabels
    <2> QED BY <2>1, <2>2 DEF LabelInv, Carried, Ending, Shows, LeftAtTheGate, Single
<1>5. WorkflowStep =>
        \/ SwapLabel \/ LabelCanceled \/ Quarantine \/ PostAbandoned \/ MarkIssueDone
        \/ UNCHANGED labels /\ pc \notin {"mark_done", "label_done"}
    BY DEF WorkflowStep, SetupWorker, Hydrate, CancelNoticed, TriageStarts, TriageReady,
        TriageUnclear, PostQuestion, ClarificationReply, PlanningAttempt,
        DiscoveryApproved, DiscoveryRejected, DesignRevised, DesignRejected,
        DesignApproved, BuildStarts, Build, VerifyPassed, VerifyEscalated, VerifyFailed,
        GateVerify, Fixer, GateFixer, PrCreator, Reviewer, MergeRejected, MergeApproved,
        MergeFix, MergeRebuild, MergeIgnored, GateBuild, MergeBranch, MergeAttemptFails,
        StageFails, Teardown, StageActivities, Go, Leave, labelVars
<1> QED BY <1>1, <1>2, <1>3, <1>4, <1>5 DEF Next

(* The run starts with an issue that is df:ready.                          *)
LEMMA LabelInit == Init => LabelInv /\ Unbuilt
<1> SUFFICES ASSUME Init PROVE LabelInv /\ Unbuilt
    OBVIOUS
<1>1. Shown = {"ready"}
    BY DEF Init, Shown, StateLabels
<1>2. Single
    BY DEF Init, Single, StateLabels, LifecycleLabels
<1>3. Unbuilt
    BY DEF Init, RepairInit, Unbuilt
<1> QED BY <1>1, <1>2, <1>3 DEF Init, LabelInv, Carried, Ending, Shows

(* Where the run rests, at a human wait or after an end it chose itself,   *)
(* the issue carries the one state label that says so, for any signals; a  *)
(* planning cap alone may leave df:awaiting-approval there, and only with  *)
(* nothing built.                                                          *)
THEOREM LabelsTell == SafetySpec => []LabelsTellTheState
<1>1. LabelInv => LabelsTellTheState
    <2> SUFFICES ASSUME LabelInv PROVE LabelsTellTheState
        OBVIOUS
    <2>1. CASE pc # "closed"
        BY <2>1 DEF LabelInv, Carried, Shows, Shown, LabelsTellTheState
    <2>2. CASE pc = "closed"
        <3>1. EndLabels(Shown)
            BY <2>2 DEF LabelInv, Ending, Shows, LeftAtTheGate, EndLabels
        <3> QED BY <2>2, <3>1 DEF LabelsTellTheState, Shown
    <2> QED BY <2>1, <2>2
<1> QED BY <1>1, LabelInit, LabelStep, UnbuiltStep, PTL DEF SafetySpec

(* Never two lifecycle labels at once while the run works on the issue.    *)
THEOREM OneLabelAtATime == SafetySpec => []OneLifecycleLabel
<1>1. LabelInv => OneLifecycleLabel
    <2> SUFFICES ASSUME LabelInv, pc # "label_done"
                 PROVE  Cardinality(labels \cap LifecycleLabels) <= 1
        BY DEF OneLifecycleLabel
    <2>1. PICK label \in StateLabels : labels \cap LifecycleLabels \subseteq {label}
        BY DEF LabelInv, Single
    <2>2. IsFiniteSet({label}) /\ Cardinality({label}) = 1
        BY FS_Singleton
    <2> QED BY <2>1, <2>2, FS_Subset
<1> QED BY <1>1, LabelInit, LabelStep, UnbuiltStep, PTL DEF SafetySpec

-----------------------------------------------------------------------------
(* Implementation.                                                         *)

(* The run starts as a gated delivery starts.                              *)
LEMMA DeliveryInit == Init => Delivery!Init
<1> SUFFICES ASSUME Init PROVE Delivery!Init
    OBVIOUS
<1>1. pc = "setup" /\ status = "running" /\ worker = "none" /\ landed = 0
    BY DEF Init
<1>2. delivery_stage = "starting" /\ delivery_outcome = "running"
    BY <1>1 DEF delivery_stage, delivery_outcome
<1>3. (landed # 0) = FALSE
    BY <1>1
<1> QED BY <1>1, <1>2, <1>3 DEF Delivery!Init

(* Every step of the run is a step of a gated delivery, or none.           *)
LEMMA DeliveryWorkflow ==
    ASSUME TypeOK, SafeInv, WorkflowStep
    PROVE  Delivery!Next \/ UNCHANGED Delivery!vars
<1> USE DEF delivery_stage, delivery_outcome, Delivery!vars, Delivery!Next, Delivery!Move,
            Go, Leave, landVars
<1>1. CASE SetupWorker
    BY <1>1 DEF SetupWorker, Delivery!Provision
<1>2. CASE SwapLabel
    BY <1>2 DEF SwapLabel, LabelAwaits, Swaps, Swap, Delivery!Propose, Delivery!Deliver
<1>3. CASE Hydrate \/ TriageStarts \/ TriageReady \/ PostQuestion \/ ClarificationReply
    BY <1>3 DEF Hydrate, TriageStarts, TriageReady, PostQuestion, ClarificationReply
<1>4. CASE CancelNoticed \/ TriageUnclear
    BY <1>4 DEF CancelNoticed, TriageUnclear, Delivery!Stop
<1>5. CASE LabelCanceled \/ Quarantine \/ PostAbandoned \/ MarkIssueDone
    BY <1>5 DEF LabelCanceled, Quarantine, PostAbandoned, MarkIssueDone
<1>6. CASE PlanningAttempt \/ DiscoveryApproved \/ DiscoveryRejected
    BY <1>6 DEF PlanningAttempt, DiscoveryApproved, DiscoveryRejected, Delivery!Stop
<1>7. CASE DesignRevised \/ DesignRejected \/ DesignApproved
    BY <1>7 DEF DesignRevised, DesignRejected, DesignApproved, Delivery!Revise,
        Delivery!Stop, Delivery!Accept
<1>8. CASE BuildStarts \/ Build \/ GateBuild \/ PrCreator \/ Reviewer
    BY <1>8 DEF BuildStarts, Build, GateBuild, PrCreator, Reviewer
<1>9. ASSUME NEW report \in VerifyReports,
             \/ VerifyPassed(report) \/ VerifyEscalated(report)
             \/ VerifyFailed(report) \/ GateVerify(report)
      PROVE  Delivery!Next \/ UNCHANGED Delivery!vars
    BY <1>9 DEF VerifyPassed, VerifyEscalated, VerifyFailed, GateVerify, Delivery!Stop
<1>10. ASSUME NEW result \in FixerReports, Fixer(result) \/ GateFixer(result)
       PROVE  Delivery!Next \/ UNCHANGED Delivery!vars
    BY <1>10 DEF Fixer, GateFixer, Delivery!Stop
<1>11. CASE MergeFix \/ MergeRebuild \/ MergeIgnored
    BY <1>11 DEF MergeFix, MergeRebuild, MergeIgnored, Delivery!Rework
<1>12. CASE MergeRejected \/ MergeApproved
    BY <1>12 DEF MergeRejected, MergeApproved, Delivery!Stop, Delivery!Consent
<1>13. ASSUME pc = "merge" PROVE pushed # 0
    BY <1>13 DEF SafeInv, PushedVerified, Published
<1>14. CASE MergeBranch
    BY <1>13, <1>14 DEF MergeBranch, Delivery!Finish
<1>15. CASE MergeAttemptFails
    BY <1>13, <1>15 DEF MergeAttemptFails, Delivery!Land
<1>16. CASE StageFails
    BY <1>16 DEF StageFails, StageActivities, Delivery!Stop
<1>17. CASE Teardown
    BY <1>17 DEF Teardown, Delivery!Release
<1> QED BY <1>1, <1>2, <1>3, <1>4, <1>5, <1>6, <1>7, <1>8, <1>9, <1>10, <1>11, <1>12,
           <1>14, <1>15, <1>16, <1>17 DEF WorkflowStep

(* The issue run implements the safety part of GatedDelivery, as the       *)
(* prompt run does: no landing without consent at the merge gate.          *)
THEOREM IssueImplementsDelivery == SafetySpec => Delivery!SafetySpec
<1>1. TypeOK /\ SafeInv /\ [Next]_vars => [Delivery!Next]_(Delivery!vars)
    <2> SUFFICES ASSUME TypeOK, SafeInv, [Next]_vars
                 PROVE  Delivery!Next \/ UNCHANGED Delivery!vars
        OBVIOUS
    <2>1. CASE UNCHANGED <<pc, status, worker, planVars, landVars, repairVars>>
        BY <2>1 DEF Delivery!vars, delivery_stage, delivery_outcome, landVars
    <2> QED BY <2>1, DeliveryWorkflow, UpdateFrame DEF Next
<1> QED BY <1>1, DeliveryInit, InitType, TypeStep, SafeInit, SafeStep, PTL
        DEF SafetySpec, Delivery!SafetySpec

=============================================================================
