--------------------------- MODULE MCIssueComments ---------------------------
(* Instances of IssueComments for TLC.  The notices differ by name only.   *)
EXTENDS IssueComments, TLC

MCSymmetry == Permutations(Notices)
=============================================================================
