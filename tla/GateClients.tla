---------------------------- MODULE GateClients ----------------------------
(***************************************************************************)
(* The prompt-run workflow together with the clients that answer its       *)
(* gates: operators running `darkfactory gate` (cli.gate_command over      *)
(* runtime/gate_admin.py), the waiters `darkfactory run` starts with       *)
(* --auto-approve-gates or for an evaluation, and callers of the           *)
(* compatibility update approve_gate.                                      *)
(*                                                                         *)
(* An operator command and a waiter's turn are two remote calls: a query   *)
(* of current_state_summary, then the update it was routed to.  view holds *)
(* what the query returned, until the update is sent.                      *)
(***************************************************************************)
EXTENDS DarkFactoryWorkflow

CONSTANTS
    Clients,        \* processes that talk to the workflow
    Kinds,          \* what a client may be: a subset of ClientKinds
    MAX_COMMANDS    \* bound: operator and legacy commands in a behaviour

ClientKinds == {"operator", "auto", "eval", "legacy"}

ASSUME KindsAssumption == Kinds \subseteq ClientKinds
ASSUME CommandsAssumption == MAX_COMMANDS \in Nat

VARIABLES
    kind,             \* what each client is
    view,             \* the answer of its query, until it acts on it
    answered_brief,   \* a waiter's approved_brief flag
    answered_merge,   \* a waiter's approved_merge or rejected_merge flag
    commands          \* operator and legacy commands so far

clientVars == <<kind, view, answered_brief, answered_merge, commands>>
vars == <<workflowVars, clientVars>>

NoView == [gate |-> "none", brief |-> 0, code |-> 0]
Views == [gate : Gates, brief : Nat, code : Nat]

ClientInit ==
    /\ kind \in [Clients -> Kinds]
    /\ view = [c \in Clients |-> NoView]
    /\ answered_brief = [c \in Clients |-> FALSE]
    /\ answered_merge = [c \in Clients |-> FALSE]
    /\ commands = 0

Decision(c, approved) ==
    [approved |-> approved, gate |-> view[c].gate,
     brief |-> view[c].brief, code |-> view[c].code]

-----------------------------------------------------------------------------
\* The query, of a client that goes on only when a gate is pending.  When
\* none is, route_action raises and nothing is sent; a waiter sleeps.
Query(c) ==
    /\ view[c] = NoView /\ summary_pending_gate # "none"
    /\ view' = [view EXCEPT ![c] =
                   [gate |-> summary_pending_gate, brief |-> brief, code |-> code]]

Inspect(c) ==
    /\ kind[c] = "operator" /\ commands < MAX_COMMANDS
    /\ Query(c)
    /\ commands' = commands + 1
    /\ UNCHANGED <<workflowVars, kind, answered_brief, answered_merge>>

\* An update reaches the coroutine's fields only while the run is open.
Send(c, update) ==
    /\ pc # "closed"
    /\ update
    /\ view' = [view EXCEPT ![c] = NoView]
    /\ UNCHANGED <<pc, status, worker, planVars, repairVars, mergeVars>>

\* gate_admin.route_action: the update is chosen by the gate the query saw.
Route(c) ==
    \/ /\ view[c].gate = "brief"
       /\ \/ Send(c, approve_brief(Decision(c, TRUE)))
          \/ Send(c, reject_brief(Decision(c, FALSE)))
          \/ Send(c, revise_brief(Decision(c, FALSE)))
    \/ /\ view[c].gate = "merge"
       /\ \/ Send(c, approve_merge(Decision(c, TRUE)))
          \/ Send(c, reject_merge(Decision(c, FALSE)))
          \/ Send(c, trigger_fix(Decision(c, TRUE)))
          \/ Send(c, trigger_rebuild(Decision(c, TRUE)))

Operate(c) ==
    /\ kind[c] = "operator"
    /\ Route(c)
    /\ UNCHANGED <<kind, answered_brief, answered_merge, commands>>

\* The run closed between the query and the update: the update is refused.
Refused(c) ==
    /\ view[c] # NoView /\ pc = "closed"
    /\ view' = [view EXCEPT ![c] = NoView]
    /\ UNCHANGED <<workflowVars, kind, answered_brief, answered_merge, commands>>

-----------------------------------------------------------------------------
\* Mutant of Poll: one flag for both gates.
PollOnce(c) ==
    /\ kind[c] \in {"auto", "eval"}
    /\ ~answered_brief[c]
    /\ Query(c)
    /\ UNCHANGED <<workflowVars, kind, answered_brief, answered_merge, commands>>

\* _wait_for_result_auto_approving_gates and _wait_for_result_with_eval_gates
\* poll until the result is there and answer each gate once.
Poll(c) ==
    /\ kind[c] \in {"auto", "eval"}
    /\ \/ summary_pending_gate = "brief" /\ ~answered_brief[c]
       \/ summary_pending_gate = "merge" /\ ~answered_merge[c]
    /\ Query(c)
    /\ UNCHANGED <<workflowVars, kind, answered_brief, answered_merge, commands>>

AnswerBrief(c) ==
    /\ kind[c] \in {"auto", "eval"} /\ view[c].gate = "brief"
    /\ Send(c, approve_brief(Decision(c, TRUE)))
    /\ answered_brief' = [answered_brief EXCEPT ![c] = TRUE]
    /\ UNCHANGED <<kind, answered_merge, commands>>

AnswerMerge(c) ==
    /\ kind[c] \in {"auto", "eval"} /\ view[c].gate = "merge"
    /\ IF kind[c] = "auto"
       THEN Send(c, approve_merge(Decision(c, TRUE)))
       ELSE Send(c, reject_merge(Decision(c, FALSE)))
    /\ answered_merge' = [answered_merge EXCEPT ![c] = TRUE]
    /\ UNCHANGED <<kind, answered_brief, commands>>

-----------------------------------------------------------------------------
\* A caller of approve_gate asks nothing first.
LegacyDecide(c) ==
    /\ kind[c] = "legacy" /\ commands < MAX_COMMANDS
    /\ \E approved \in BOOLEAN : Send(c, approve_gate(Decision(c, approved)))
    /\ commands' = commands + 1
    /\ UNCHANGED <<kind, answered_brief, answered_merge>>

-----------------------------------------------------------------------------
ClientStep(c) ==
    \/ Inspect(c) \/ Operate(c) \/ Refused(c)
    \/ Poll(c) \/ AnswerBrief(c) \/ AnswerMerge(c)
    \/ LegacyDecide(c)

Next ==
    \/ WorkflowStep /\ UNCHANGED clientVars
    \/ \E c \in Clients : ClientStep(c)

\* Activities return and the Temporal worker runs what is ready; a waiter's
\* loop goes round.  Nobody makes an operator act.
Fairness ==
    /\ WF_vars(WorkflowStep /\ UNCHANGED clientVars)
    /\ \A c \in Clients : WF_vars(Poll(c) \/ AnswerBrief(c) \/ AnswerMerge(c))

Init == WorkflowInit /\ ClientInit
SafetySpec == Init /\ [][Next]_vars
Spec == SafetySpec /\ Fairness

-----------------------------------------------------------------------------
(* PROPERTIES.                                                             *)

\* A decision some client was routed to by its query, unlike one sent
\* through the alias.
Routed(d) == d.gate \in {"brief", "merge"}

ClientTypeOK ==
    /\ kind \in [Clients -> Kinds]
    /\ view \in [Clients -> Views]
    /\ answered_brief \in [Clients -> BOOLEAN]
    /\ answered_merge \in [Clients -> BOOLEAN]
    /\ commands \in 0..MAX_COMMANDS

(* Every variable of the workflow and of its clients keeps to the values   *)
(* the code can store in it.                                               *)
SystemTypeOK == TypeOK /\ ClientTypeOK

(* README "gate approve/reject": an action reaches the gate it was meant   *)
(* for while that gate waits; nothing is sent otherwise.                   *)
OnlyToTheWaitingGate ==
    [][/\ Routed(brief_gate') /\ brief_gate' # brief_gate => pc = "brief_gate"
       /\ Routed(brief_revise') /\ brief_revise' # brief_revise => pc = "brief_gate"
       /\ Routed(merge_gate') /\ merge_gate' # merge_gate => pc = "merge_gate"
       /\ Routed(merge_action'.decision) /\ merge_action' # merge_action
             => pc = "merge_gate"]_vars

(* The brief that is built is the one its approver was shown, not the one  *)
(* a replanning replaced it with in between (workflow.py 499-549).         *)
InformedBuild ==
    [][pc = "brief_gate" /\ pc' = "build" /\ Routed(brief_gate)
          => brief_gate.gate = "brief" /\ brief_gate.brief = brief]_vars

(* Consent to merge is about the code as it stands when the run goes on to *)
(* merge: no fix or rebuild came after the look (workflow.py 679-833).     *)
InformedMerge ==
    [][pc = "merge_gate" /\ pc' = "merge" /\ Routed(merge_gate)
          => merge_gate.gate = "merge" /\ merge_gate.code = code]_vars

(* What lands is the code the approver of the merge gate was shown         *)
(* (merge_branch: "Merge the approved pull request").                      *)
LandsWhatWasApproved ==
    landed # 0 /\ Routed(merge_gate) => landed = merge_gate.code

(* Code that never passed a verification cannot land, whatever the clients *)
(* do at the merge gate and however its verdicts there come out.           *)
LandedWasVerified == landed # 0 => landed \in verified

(* Until there is a pull request, no work package and no predicate is      *)
(* handed to the Fixer more often than FIXER_MAX_ATTEMPTS (workflow.py 23).*)
AutoFixBudget == pushed = 0 => WithinBudget

(* A verification of the repair loop is charged only with findings about   *)
(* the code it verifies: none survives the Fixer (_drop_stale_findings).   *)
FreshEvidence == pc = "verify" => FreshFindings

(* A run nobody but its own waiter answers closes: its planning and repair *)
(* loops are bounded and the waiter answers each gate it comes to.         *)
UnattendedRunCloses ==
    (\A c \in Clients : kind[c] \in {"auto", "eval"}) => <>(pc = "closed")

-----------------------------------------------------------------------------
(* The run as a gated delivery.                                            *)

delivery_stage ==
    CASE pc = "setup" -> "starting"
      [] pc \in {"hydrate", "discovery"} -> "planning"
      [] pc \in GateWaits -> pc
      [] pc \in StageActivities \ {"discovery"} -> "working"
      [] pc = "merge" -> "merging"
      [] pc = "teardown" -> "releasing"
      [] pc = "closed" -> "closed"

delivery_outcome ==
    IF status \in {"running", "merged"} THEN status ELSE "stopped"

Delivery == INSTANCE GatedDelivery WITH
                stage <- delivery_stage, outcome <- delivery_outcome,
                landed <- landed # 0

(* The prompt run with its clients implements GatedDelivery: no landing    *)
(* without consent, no way out without releasing the worker.               *)
DeliverySpec == Delivery!Spec

=============================================================================
