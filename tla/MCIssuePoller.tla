--------------------------- MODULE MCIssuePoller ---------------------------
(***************************************************************************)
(* Instances of IssuePoller for TLC.                                       *)
(***************************************************************************)
EXTENDS IssuePoller

CONSTANTS i1, t1
=============================================================================
