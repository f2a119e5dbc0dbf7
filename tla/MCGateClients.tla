--------------------------- MODULE MCGateClients ---------------------------
(***************************************************************************)
(* Instances of GateClients for TLC: what the agents may report in a run.  *)
(***************************************************************************)
EXTENDS GateClients

CONSTANTS w1, w2, p1, c1, c2

OneWP == {w1}
TwoWPs == {w1, w2}

Report(clean, reported, uncovered) ==
    [clean |-> clean, reported |-> reported, uncovered |-> uncovered]

\* Everything passes, or a test fails that names no work package.
GateReports == {Report(TRUE, {}, FALSE), Report(FALSE, {}, FALSE)}

\* Also a predicate listed as not covered, and one the list leaves out.
RepairReports ==
    GateReports \cup
        {Report(TRUE, {[wp |-> w1, predicate |-> p1]}, TRUE),
         Report(TRUE, {}, TRUE)}

OneTestReport == {[wp |-> w1, kind |-> "test"]}
RepairTesterReports == {[wp |-> w1, kind |-> "test"], [wp |-> w2, kind |-> "infeasible"]}

Fixed(target, discrepancy) ==
    [decision |-> "fixed", target |-> target, discrepancy |-> discrepancy]

GateFixerReports ==
    {Fixed(w1, "none"), [decision |-> "cannot_fix", target |-> w1, discrepancy |-> "none"]}
RepairFixerReports == FixerResults
=============================================================================
