--------------------------- MODULE GatedDelivery ---------------------------
(***************************************************************************)
(* What a Dark Factory run promises, whichever workflow drives it: work    *)
(* starts on a provisioned worker and only after the plan was accepted at  *)
(* the brief gate; a change lands only after consent at the merge gate; a  *)
(* run that reports "merged" has landed its change; and a run closes by    *)
(* releasing its worker, on every way out.                                 *)
(***************************************************************************)
VARIABLES
    stage,     \* where the run is
    worker,    \* "none", "up" or "down"
    outcome,   \* "running", "merged" or "stopped"
    landed     \* the change is in the base branch

vars == <<stage, worker, outcome, landed>>

Init ==
    /\ stage = "starting" /\ worker = "none"
    /\ outcome = "running" /\ landed = FALSE

Move(from, to) == stage = from /\ stage' = to /\ UNCHANGED <<worker, outcome, landed>>

Provision ==
    /\ stage = "starting"
    /\ stage' = "planning" /\ worker' = "up"
    /\ UNCHANGED <<outcome, landed>>

Propose == Move("planning", "brief_gate")
Revise == Move("brief_gate", "planning")
Accept == Move("brief_gate", "working")
Deliver == Move("working", "merge_gate")
Rework == Move("merge_gate", "working")
Consent == Move("merge_gate", "merging")

Land ==
    /\ stage = "merging" /\ landed' = TRUE
    /\ UNCHANGED <<stage, worker, outcome>>

\* The run learns that its change is in: with this step at the latest.
Finish ==
    /\ stage = "merging" /\ landed' = TRUE
    /\ stage' = "releasing" /\ outcome' = "merged"
    /\ UNCHANGED worker

\* Rejected, given up or failed.  A merge may land without the run learning.
Stop ==
    /\ stage \in {"planning", "brief_gate", "working", "merge_gate", "merging"}
    /\ stage' = "releasing" /\ outcome' = "stopped"
    /\ landed' \in IF stage = "merging" THEN {landed, TRUE} ELSE {landed}
    /\ UNCHANGED worker

Release ==
    /\ stage = "releasing"
    /\ stage' = "closed" /\ worker' = "down"
    /\ UNCHANGED <<outcome, landed>>

Next ==
    \/ Provision \/ Propose \/ Revise \/ Accept \/ Deliver \/ Rework \/ Consent
    \/ Land \/ Finish \/ Stop \/ Release

SafetySpec == Init /\ [][Next]_vars

\* A run on its way out does close and release its worker.
Spec == SafetySpec /\ WF_vars(Release)

=============================================================================
