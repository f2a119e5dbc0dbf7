--------------------------- MODULE WorkerCheckout ---------------------------
(***************************************************************************)
(* One run's worker container and the checkout in it: setup and teardown   *)
(* (runtime/activities.py), the feature branch every repo-touching         *)
(* activity asks for, and the ground-truth diff of an agent's turn         *)
(* (tools/git_diff.py).                                                    *)
(*                                                                         *)
(* A checkout is kept to the paths that differ from HEAD.  A turn          *)
(* snapshots HEAD first, so its diff shows what the turn changed, whether  *)
(* it was committed or not, and what the turn found uncommitted.  Git      *)
(* succeeds if and only if /workspace holds a repository; the agents stay  *)
(* on the branch they are put on and do not undo each other's changes.     *)
(***************************************************************************)
EXTENDS Naturals, FiniteSets

CONSTANTS
    Paths,          \* files of the repository
    Hunkless,       \* those a diff shows without a hunk: binary, or empty
    SETUP_FAILURES  \* bound: attempts of setup_worker that fail

ASSUME SetupAssumption == Hunkless \subseteq Paths /\ SETUP_FAILURES \in Nat

VARIABLES
    container,      \* the worker container, found by its name
    repo,           \* /workspace holds the repository
    branch,         \* what is checked out there
    dirty,          \* paths that differ from HEAD
    setupFailures   \* attempts of setup_worker that failed so far

containerVars == <<container, repo, branch, setupFailures>>
checkoutVars == <<containerVars, dirty>>

CheckoutInit ==
    /\ container = "absent" /\ repo = FALSE /\ branch = "none"
    /\ dirty = {} /\ setupFailures = 0

CheckoutTypeOK ==
    /\ container \in {"absent", "running", "exited"}
    /\ repo \in BOOLEAN /\ branch \in {"none", "base", "agent"}
    /\ dirty \subseteq Paths
    /\ setupFailures \in 0 .. SETUP_FAILURES

Alive == container = "running"

-----------------------------------------------------------------------------
(* setup_worker_activity.  It is retried until an attempt returns.         *)

\* git checkout of the feature branch, or its creation; errors are ignored.
CheckedOut(hasRepo, from) == IF hasRepo THEN "agent" ELSE from

\* An earlier attempt left its container: it is taken as it is.
ReuseContainer ==
    /\ Alive
    /\ branch' = CheckedOut(repo, branch)
    /\ setupFailures' = 0
    /\ UNCHANGED <<container, repo, dirty>>

\* The container is run, the repository mounted or cloned.
StartContainer ==
    /\ container = "absent"
    /\ container' = "running" /\ repo' = TRUE
    /\ branch' = CheckedOut(TRUE, "base")
    /\ setupFailures' = 0
    /\ UNCHANGED dirty

\* An attempt fails before its container runs, in the clone, or after it.
SetupFails ==
    /\ container = "absent"
    /\ setupFailures < SETUP_FAILURES
    /\ setupFailures' = setupFailures + 1
    /\ \E ran, cloned \in BOOLEAN :
        /\ cloned => ran
        /\ container' = IF ran THEN "running" ELSE "absent"
        /\ repo' = cloned
        /\ branch' = IF cloned THEN "base" ELSE "none"
    /\ UNCHANGED dirty

\* with_repo_state, before every activity that touches the repository.
WithRepoState == branch' = CheckedOut(repo, branch)

\* The container dies, out of memory for one; nothing starts it again.
ContainerExits == Alive /\ container' = "exited"

\* teardown_worker_activity.
RemoveContainer ==
    /\ container' = "absent" /\ repo' = FALSE /\ branch' = "none"
    /\ dirty' = {}
    /\ UNCHANGED setupFailures

-----------------------------------------------------------------------------
(* One turn of an agent.                                                   *)

\* Mutant of GroundTruth: files nobody staged are not seen.
StagedOnly(edits) == IF repo THEN edits \ Hunkless ELSE {}

\* compute_wp_diff against the HEAD of before the turn, one patch a path;
\* without a repository there is no HEAD and no patch.
GroundTruth(edits) == IF repo THEN (dirty \cup edits) \ Hunkless ELSE {}

\* What differs from HEAD after a turn that made these edits.
TurnLeaves(edits, committed) ==
    IF repo /\ committed THEN {} ELSE dirty \cup edits

=============================================================================
