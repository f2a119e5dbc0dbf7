-------------------------- MODULE MCIssueWorkflow --------------------------
(***************************************************************************)
(* Instances of DarkFactoryIssueWorkflow for TLC.                          *)
(***************************************************************************)
EXTENDS DarkFactoryIssueWorkflow

CONSTANTS w1, p1

Report(clean, reported, uncovered) ==
    [clean |-> clean, reported |-> reported, uncovered |-> uncovered]

\* Everything passes, or the predicate is listed as not covered.
IssueReports ==
    {Report(TRUE, {}, FALSE), Report(TRUE, {[wp |-> w1, predicate |-> p1]}, TRUE)}

IssueTesterReports == {[wp |-> w1, kind |-> "test"]}

IssueFixerReports ==
    {[decision |-> d, target |-> w1, discrepancy |-> "none"] : d \in {"fixed", "cannot_fix"}}
=============================================================================
