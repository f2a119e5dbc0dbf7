----------------------------- MODULE MCWorkerRun -----------------------------
(* Instances of WorkerRun for TLC: two slices, one predicate.              *)
EXTENDS WorkerRun

CONSTANTS w1, w2, p1, main, empty

MCWPs == {w1, w2}
MCSpec == <<w1, w2>>
MCPaths == {main, empty}
MCHunkless == {empty}

Turn(edits, committed, claimed, status_) ==
    [edits |-> edits, committed |-> committed, claimed |-> claimed, status |-> status_]

MCBuilderTurns ==
    {Turn({main}, TRUE, {main}, "done"), Turn({}, FALSE, {main}, "done"),
     Turn({empty}, FALSE, {empty}, "done"), Turn({main}, FALSE, {}, "no_changes_needed"),
     Turn({}, FALSE, {}, "blocked")}

MCRaisedTurns == {[edits |-> {main}, committed |-> c] : c \in BOOLEAN}

Answer(edits, committed, answer) ==
    [edits |-> edits, committed |-> committed, answer |-> answer]

MCTesterTurns ==
    {Answer({main}, TRUE, "covered"), Answer({}, FALSE, "test"),
     Answer({}, FALSE, "infeasible"), Answer({}, FALSE, "none")}

Fix(edits, committed, claimed, decision) ==
    [edits |-> edits, committed |-> committed, claimed |-> claimed,
     decision |-> decision]

MCFixerTurns ==
    {Fix({main}, TRUE, {main}, "fixed"), Fix({}, FALSE, {main}, "fixed"),
     Fix({main}, FALSE, {}, "fixed"), Fix({}, FALSE, {}, "cannot_fix"),
     Fix({}, FALSE, {}, "none")}

Step(kind, report, required) ==
    [kind |-> kind, report |-> report, required |-> required]
Tested == {Step("test", TRUE, TRUE), Step("compile", FALSE, TRUE)}
Linted == {Step("test", FALSE, TRUE), Step("lint", TRUE, FALSE)}

Item1 == [wp |-> w1, predicate |-> p1]
Item2 == [wp |-> w2, predicate |-> p1]
MCCoverages ==
    {[i \in Items |-> "covered"], [i \in Items |-> "unlisted"],
     [i \in Items |-> IF i = Item1 THEN "weakly_covered" ELSE "covered"]}

Depends(s, d) == [w \in MCWPs |-> IF w = s THEN d ELSE {}]
MCScenarios ==
    {[depends_on |-> Depends(w1, {w2}), expected |-> {Item1},
      plans |-> {Tested}],
     [depends_on |-> [w \in MCWPs |-> MCWPs \ {w}], expected |-> {},
      plans |-> {Linted}]}
=============================================================================
