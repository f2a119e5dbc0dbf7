----------------------------- MODULE WorkerProofs -----------------------------
(***************************************************************************)
(* What holds of a run's worker for every brief, every plan, every agent   *)
(* and any number of attempts: a verification passes exactly on the        *)
(* evidence of its own attempt, a failed verdict is counted once, a plan's *)
(* slices are built and tested in their order, the patches of a finished   *)
(* build account for the tree, and what the stages return is what          *)
(* RepairState takes them to return.                                       *)
(***************************************************************************)
EXTENDS WorkerRun, BuildProofs, SequenceTheorems

-----------------------------------------------------------------------------
(* The inductive invariant of the verify subgraph.                         *)

(* The mechanical part of the verdict.                                     *)
Clean == ~found.failed_tests /\ ~found.hard_findings

(* What each node finds in the state of the attempt.                       *)
NodeKnows ==
    /\ pc # "verify" => node = "ensure_plan"
    /\ node \in {"run_plan", "aggregate"} => found.verify_retries = verify_retries
    /\ node = "run_plan" => found.hard_findings = (found.plan = NoPlan)
    /\ node \in {"aggregate", "run_semantic_coverage", "end"} => Clean = StepsConvince
    /\ node # "end" => found.uncovered = FALSE
    /\ node = "run_semantic_coverage" => found.passed = (Clean /\ ~AnyBlocking)
    /\ node = "end" => found.passed = (Clean /\ ~AnyBlocking /\ ~found.uncovered)
    /\ node \in {"run_semantic_coverage", "end"} =>
          found.verify_retries = IF found.passed THEN verify_retries ELSE verify_retries + 1

VerdictInv ==
    /\ VerifyTypeOK
    /\ NodeKnows
    /\ OneRetryPerVerdict

(* What StepsConvince asks of one step.                                    *)
Convinces(r) ==
    IF r.step.kind = "test"
    THEN r.ok /\ (r.step.report => r.file \in {"absent", "clean"})
    ELSE IF r.step.report /\ r.file # "absent"
         THEN r.file # "bad"
         ELSE r.ok \/ ~r.step.required

(* A plan that ran says through its steps what the two flags say.          *)
LEMMA PlanShows ==
    ASSUME VerifyTypeOK, node = "run_plan",
           found.hard_findings = (found.plan = NoPlan), RunPlan
    PROVE  VerifyTypeOK' /\ Clean' = StepsConvince'
<1> DEFINE plan == found.plan
           file(o, s) == Seen(s, o[s])
<1>1. /\ plan \subseteq Steps /\ files \in [Steps -> ReportFiles]
      /\ found \in [plan : SUBSET Steps, failed_tests : BOOLEAN,
                    hard_findings : BOOLEAN, passed : BOOLEAN, verify_retries : Nat,
                    reported : SUBSET Items, uncovered : BOOLEAN]
    BY DEF VerifyTypeOK
<1>2. PICK o \in Outcomes(plan) :
         /\ files' = [s \in Steps |-> IF s \in plan THEN file(o, s) ELSE files[s]]
         /\ ran' = {[step |-> s, ok |-> o[s].ok, file |-> file(o, s)] : s \in plan}
         /\ found' = [found EXCEPT
                !.failed_tests =
                    \E s \in {x \in plan : x.kind = "test"} :
                        TestFails(s, o[s].ok, file(o, s)),
                !.hard_findings = @ \/
                    \E s \in plan \ {x \in plan : x.kind = "test"} :
                        StepErrs(s, o[s].ok, file(o, s))]
    BY DEF RunPlan
<1>3. ASSUME NEW s \in plan
      PROVE  /\ s \in Steps /\ o[s].ok \in BOOLEAN /\ file(o, s) \in ReportFiles
    <2>1. o \in [plan -> [ok : BOOLEAN, wrote : ReportFiles]]
        BY DEF Outcomes
    <2> QED BY <1>1, <2>1 DEF Seen
<1>4. /\ found'.plan = plan
      /\ found'.failed_tests =
             (\E s \in plan : s.kind = "test" /\ TestFails(s, o[s].ok, file(o, s)))
      /\ found'.hard_findings =
             (plan = NoPlan \/ \E s \in plan :
                  s.kind # "test" /\ StepErrs(s, o[s].ok, file(o, s)))
      /\ found' \in [plan : SUBSET Steps, failed_tests : BOOLEAN,
                     hard_findings : BOOLEAN, passed : BOOLEAN, verify_retries : Nat,
                     reported : SUBSET Items, uncovered : BOOLEAN]
    <2> DEFINE tests == \E s \in {x \in plan : x.kind = "test"} :
                            TestFails(s, o[s].ok, file(o, s))
               steps == \E s \in plan \ {x \in plan : x.kind = "test"} :
                            StepErrs(s, o[s].ok, file(o, s))
    <2>1. found' = [found EXCEPT !.failed_tests = tests,
                                 !.hard_findings = found.hard_findings \/ steps]
        BY <1>2
    <2>2. tests \in BOOLEAN /\ (found.hard_findings \/ steps) \in BOOLEAN
        OBVIOUS
    <2> HIDE DEF tests, steps
    <2>3. /\ found'.plan = plan /\ found'.failed_tests = tests
          /\ found'.hard_findings = (found.hard_findings \/ steps)
          /\ found' \in [plan : SUBSET Steps, failed_tests : BOOLEAN,
                     hard_findings : BOOLEAN, passed : BOOLEAN, verify_retries : Nat,
                     reported : SUBSET Items, uncovered : BOOLEAN]
        BY <1>1, <2>1, <2>2
    <2>4. tests = \E s \in plan : s.kind = "test" /\ TestFails(s, o[s].ok, file(o, s))
        BY DEF tests
    <2>5. steps = \E s \in plan : s.kind # "test" /\ StepErrs(s, o[s].ok, file(o, s))
        BY DEF steps
    <2> QED BY <2>3, <2>4, <2>5
<1>5. /\ ran' = {[step |-> s, ok |-> o[s].ok, file |-> file(o, s)] : s \in plan}
      /\ files' \in [Steps -> ReportFiles]
      /\ ran' \subseteq [step : Steps, ok : BOOLEAN, file : ReportFiles]
    <2> HIDE DEF file
    <2> QED BY <1>1, <1>2, <1>3
<1>6. VerifyTypeOK'
    BY <1>4, <1>5 DEF VerifyTypeOK, RunPlan, resultVars
<1> DEFINE result(s) == [step |-> s, ok |-> o[s].ok, file |-> file(o, s)]
<1>7. StepsConvince' = (plan # {} /\ \A s \in plan : Convinces(result(s)))
    <2>0. ran' = {result(s) : s \in plan} /\ \A s \in plan : result(s).step = s
        BY <1>5
    <2> HIDE DEF file, result
    <2>1. {r.step : r \in ran'} = plan
        BY <2>0
    <2>2. ran' # {} <=> plan # {}
        BY <2>0
    <2>3. (\A r \in ran' : Convinces(r)) <=> \A s \in plan : Convinces(result(s))
        BY <2>0
    <2>4. StepsConvince' = (/\ ran' # {} /\ {r.step : r \in ran'} = found'.plan
                            /\ \A r \in ran' : Convinces(r))
        BY DEF StepsConvince, Convinces
    <2> QED BY <1>4, <2>1, <2>2, <2>3, <2>4
<1>8. ASSUME NEW s \in plan
      PROVE  Convinces(result(s)) <=>
                 /\ ~(s.kind = "test" /\ TestFails(s, o[s].ok, file(o, s)))
                 /\ ~(s.kind # "test" /\ StepErrs(s, o[s].ok, file(o, s)))
    <2>1. s \in Steps /\ o[s].ok \in BOOLEAN /\ file(o, s) \in ReportFiles
        BY <1>3
    <2>2. result(s).step = s /\ result(s).ok = o[s].ok /\ result(s).file = file(o, s)
        OBVIOUS
    <2> HIDE DEF file, result
    <2> QED BY <2>1, <2>2 DEF Steps, ReportFiles, TestFails, StepErrs, Convinces
<1>9. Clean' = (plan # {} /\ \A s \in plan : Convinces(result(s)))
    <2> HIDE DEF file, result
    <2> QED BY <1>4, <1>8 DEF Clean, NoPlan
<1> QED BY <1>6, <1>7, <1>9

(* What the state of an attempt is taken from.                             *)
verdictVars == <<plans, expected, coverage_entries, verification_plan, verify_retries,
                 failed_verdicts, files, node, found, ran, tester_findings,
                 reconciliation_findings>>

LEMMA VerdictKept ==
    ASSUME VerdictInv, UNCHANGED verdictVars, pc' = pc \/ node = "ensure_plan"
    PROVE  VerdictInv'
<1>1. VerifyTypeOK' /\ OneRetryPerVerdict'
    BY DEF VerdictInv, verdictVars, VerifyTypeOK, OneRetryPerVerdict
<1>2. Clean' = Clean /\ StepsConvince' = StepsConvince /\ AnyBlocking' = AnyBlocking
    BY DEF verdictVars, Clean, StepsConvince, AnyBlocking
<1>3. NodeKnows'
    BY <1>2 DEF VerdictInv, verdictVars, NodeKnows
<1> QED BY <1>1, <1>3 DEF VerdictInv

(* An attempt that begins anew knows nothing.                              *)
LEMMA Forgotten ==
    ASSUME ForgetAttempt
    PROVE  NodeKnows' /\ node' = "ensure_plan" /\ ran' = {} /\
           found' \in [plan : SUBSET Steps, failed_tests : BOOLEAN,
                       hard_findings : BOOLEAN, passed : BOOLEAN, verify_retries : Nat,
                       reported : SUBSET Items, uncovered : BOOLEAN]
BY DEF ForgetAttempt, NodeKnows, Nothing, NoPlan

(* The node functions of the subgraph, for the findings the workflow holds.*)
LEMMA NodesHold ==
    ASSUME VerdictInv, UNCHANGED <<pc, tester_findings, reconciliation_findings>>,
           pc = "verify",
           \/ RunPlan \/ EnsurePlan \/ Aggregate(AnyBlocking) \/ NothingToCover
           \/ \E coverage \in Coverages : SemanticCoverage(coverage, AnyBlocking)
    PROVE  VerdictInv'
<1> DEFINE FoundType ==
        [plan : SUBSET Steps, failed_tests : BOOLEAN, hard_findings : BOOLEAN,
         passed : BOOLEAN, verify_retries : Nat, reported : SUBSET Items,
         uncovered : BOOLEAN]
<1>1. /\ VerifyTypeOK /\ NodeKnows /\ OneRetryPerVerdict
      /\ found \in FoundType /\ verify_retries \in Nat /\ failed_verdicts \in Nat
      /\ AnyBlocking' = AnyBlocking /\ AnyBlocking \in BOOLEAN
    BY DEF VerdictInv, VerifyTypeOK, AnyBlocking
<1>2. CASE RunPlan
    <2>1. node = "run_plan" /\ found.hard_findings = (found.plan = NoPlan)
        BY <1>1, <1>2 DEF RunPlan, NodeKnows
    <2>2. VerifyTypeOK' /\ Clean' = StepsConvince'
        BY <1>1, <1>2, <2>1, PlanShows
    <2>3. /\ node' = "aggregate" /\ UNCHANGED resultVars
          /\ found'.verify_retries = found.verify_retries
          /\ found'.uncovered = found.uncovered
        BY <1>1, <1>2 DEF RunPlan
    <2>4. OneRetryPerVerdict' /\ verify_retries' = verify_retries
        BY <1>1, <2>3 DEF OneRetryPerVerdict, resultVars
    <2>5. NodeKnows'
        BY <1>1, <2>1, <2>2, <2>3, <2>4 DEF NodeKnows
    <2> QED BY <2>2, <2>4, <2>5 DEF VerdictInv
<1>3. CASE EnsurePlan
    <2>1. /\ node' = "run_plan" /\ UNCHANGED <<resultVars, files, ran>>
          /\ verification_plan \in SUBSET Steps /\ plans \subseteq SUBSET Steps
        BY <1>1, <1>3 DEF EnsurePlan, VerifyTypeOK
    <2>2. PICK plan \in SUBSET Steps, hard \in BOOLEAN :
             /\ hard = (plan = NoPlan)
             /\ found' = [plan |-> plan, failed_tests |-> FALSE, hard_findings |-> hard,
                          passed |-> FALSE, verify_retries |-> verify_retries,
                          reported |-> {}, uncovered |-> FALSE]
        <3>1. CASE IsCached(verification_plan)
            <4>1. found' = [Nothing EXCEPT !.plan = verification_plan,
                                           !.verify_retries = verify_retries]
                BY <1>3, <3>1 DEF EnsurePlan
            <4>2. found' = [plan |-> verification_plan, failed_tests |-> FALSE,
                            hard_findings |-> FALSE, passed |-> FALSE,
                            verify_retries |-> verify_retries, reported |-> {},
                            uncovered |-> FALSE]
                BY <4>1 DEF Nothing
            <4>3. FALSE = (verification_plan = NoPlan)
                BY <3>1 DEF IsCached
            <4> QED BY <2>1, <4>2, <4>3
        <3>2. CASE ~IsCached(verification_plan)
            <4>1. PICK plan \in plans \cup {NoPlan} :
                     found' = [Nothing EXCEPT !.plan = plan,
                                  !.hard_findings = (plan = NoPlan),
                                  !.verify_retries = verify_retries]
                BY <1>3, <3>2 DEF EnsurePlan
            <4>2. plan \in SUBSET Steps
                BY <2>1, <4>1 DEF NoPlan
            <4> DEFINE hard == (plan = NoPlan)
            <4>3. hard \in BOOLEAN /\ hard = (plan = NoPlan)
                OBVIOUS
            <4>4. found' = [Nothing EXCEPT !.plan = plan, !.hard_findings = hard,
                                           !.verify_retries = verify_retries]
                BY <4>1
            <4> HIDE DEF hard
            <4>5. found' = [plan |-> plan, failed_tests |-> FALSE, hard_findings |-> hard,
                            passed |-> FALSE, verify_retries |-> verify_retries,
                            reported |-> {}, uncovered |-> FALSE]
                BY <4>4 DEF Nothing
            <4> QED BY <4>2, <4>3, <4>5
        <3> QED BY <3>1, <3>2
    <2>3. /\ found' \in FoundType /\ found'.plan = plan /\ found'.hard_findings = hard
          /\ found'.verify_retries = verify_retries /\ found'.uncovered = FALSE
        BY <1>1, <2>2 DEF Nothing
    <2>4. VerifyTypeOK' /\ OneRetryPerVerdict' /\ verify_retries' = verify_retries
        BY <1>1, <2>1, <2>3 DEF VerifyTypeOK, OneRetryPerVerdict, resultVars
    <2>5. NodeKnows'
        BY <1>1, <2>1, <2>2, <2>3, <2>4 DEF NodeKnows
    <2> QED BY <2>4, <2>5 DEF VerdictInv
<1>4. CASE Aggregate(AnyBlocking)
    <2>1. /\ node = "aggregate" /\ node' = "run_semantic_coverage"
          /\ UNCHANGED <<resultVars, files, ran>>
        BY <1>4 DEF Aggregate
    <2>2. Verdict(AnyBlocking) = (Clean /\ ~AnyBlocking)
        BY <1>1 DEF Verdict, Clean
    <2>3. /\ found' \in FoundType /\ found'.plan = found.plan
          /\ found'.failed_tests = found.failed_tests
          /\ found'.hard_findings = found.hard_findings
          /\ found'.passed = (Clean /\ ~AnyBlocking)
          /\ found'.uncovered = found.uncovered
          /\ found'.verify_retries = IF Clean /\ ~AnyBlocking THEN found.verify_retries
                                     ELSE found.verify_retries + 1
        <3> DEFINE passed == Clean /\ ~AnyBlocking
                   retries == IF passed THEN found.verify_retries
                              ELSE found.verify_retries + 1
        <3>1. found' = [found EXCEPT !.passed = passed, !.verify_retries = retries]
            BY <1>4, <2>2 DEF Aggregate
        <3>2. passed \in BOOLEAN
            OBVIOUS
        <3>3. retries \in Nat
            <4>1. found.verify_retries \in Nat
                BY <1>1
            <4> HIDE DEF passed
            <4> QED BY <4>1
        <3> HIDE DEF passed, retries
        <3>4. /\ found' \in FoundType /\ found'.plan = found.plan
              /\ found'.failed_tests = found.failed_tests
              /\ found'.hard_findings = found.hard_findings
              /\ found'.uncovered = found.uncovered
              /\ found'.passed = passed /\ found'.verify_retries = retries
            BY <1>1, <3>1, <3>2, <3>3
        <3> QED BY <3>4 DEF passed, retries
    <2>4. /\ VerifyTypeOK' /\ OneRetryPerVerdict' /\ verify_retries' = verify_retries
          /\ Clean' = Clean /\ StepsConvince' = StepsConvince
        BY <1>1, <2>1, <2>3 DEF VerifyTypeOK, OneRetryPerVerdict, resultVars, Clean,
            StepsConvince
    <2>5. NodeKnows'
        BY <1>1, <2>1, <2>3, <2>4 DEF NodeKnows
    <2> QED BY <2>4, <2>5 DEF VerdictInv
<1>5. CASE NothingToCover
    <2>1. /\ node = "run_semantic_coverage" /\ node' = "end"
          /\ UNCHANGED <<resultVars, files, found, ran>>
        BY <1>5 DEF NothingToCover
    <2>2. /\ VerifyTypeOK' /\ OneRetryPerVerdict' /\ verify_retries' = verify_retries
          /\ Clean' = Clean /\ StepsConvince' = StepsConvince
        BY <1>1, <2>1 DEF VerifyTypeOK, OneRetryPerVerdict, resultVars, Clean,
            StepsConvince
    <2>3. NodeKnows'
        BY <1>1, <2>1, <2>2 DEF NodeKnows
    <2> QED BY <2>2, <2>3 DEF VerdictInv
<1>6. ASSUME NEW coverage \in Coverages, SemanticCoverage(coverage, AnyBlocking)
      PROVE  VerdictInv'
    <2> DEFINE uncovered ==
            \/ \E item \in expected : coverage[item] # "covered"
            \/ expected = {} /\ \E item \in Items : coverage[item] = "weakly_covered"
        passed == Clean /\ ~AnyBlocking /\ ~uncovered
        weak == {item \in Items : coverage[item] = "weakly_covered"}
        retries == RetriesAfter(passed)
    <2>1. /\ node = "run_semantic_coverage" /\ node' = "end"
          /\ UNCHANGED <<resultVars, files, ran>>
        BY <1>6 DEF SemanticCoverage
    <2>2. found' = [found EXCEPT !.passed = passed, !.reported = weak,
                                 !.uncovered = uncovered, !.verify_retries = retries]
        <3>1. Verdict(AnyBlocking) = (Clean /\ ~AnyBlocking)
            BY <1>1 DEF Verdict, Clean
        <3> QED BY <1>6, <3>1 DEF SemanticCoverage
    <2>3. passed \in BOOLEAN /\ uncovered \in BOOLEAN /\ weak \in SUBSET Items
        OBVIOUS
    <2>4. retries \in Nat
        BY <1>1 DEF RetriesAfter
    <2>5. passed = (Clean /\ ~AnyBlocking /\ ~uncovered)
        OBVIOUS
    <2>6. retries = IF ~passed /\ found.passed
                    THEN found.verify_retries + 1 ELSE found.verify_retries
        BY DEF RetriesAfter
    <2> HIDE DEF uncovered, passed, weak, retries
    <2>7. /\ found' \in FoundType /\ found'.plan = found.plan
          /\ found'.failed_tests = found.failed_tests
          /\ found'.hard_findings = found.hard_findings
          /\ found'.passed = passed /\ found'.uncovered = uncovered
          /\ found'.verify_retries = retries
        BY <1>1, <2>2, <2>3, <2>4
    <2>8. /\ VerifyTypeOK' /\ OneRetryPerVerdict' /\ verify_retries' = verify_retries
          /\ Clean' = Clean /\ StepsConvince' = StepsConvince
        BY <1>1, <2>1, <2>7 DEF VerifyTypeOK, OneRetryPerVerdict, resultVars, Clean,
            StepsConvince
    <2>9. found'.verify_retries
              = IF found'.passed THEN verify_retries ELSE verify_retries + 1
        <3>1. /\ found.passed = (Clean /\ ~AnyBlocking)
              /\ found.verify_retries =
                     IF found.passed THEN verify_retries ELSE verify_retries + 1
            BY <1>1, <2>1 DEF NodeKnows
        <3>2. passed => found.passed
            BY <2>5, <3>1
        <3> QED BY <2>3, <2>6, <2>7, <3>1, <3>2
    <2>10. NodeKnows'
        BY <1>1, <2>1, <2>5, <2>7, <2>8, <2>9 DEF NodeKnows
    <2> QED BY <2>8, <2>10 DEF VerdictInv
<1> QED BY <1>2, <1>3, <1>4, <1>5, <1>6

LEMMA VerdictStarts == Init => VerdictInv
<1> SUFFICES ASSUME Init PROVE VerdictInv
    OBVIOUS
<1>1. PICK s \in Scenarios : depends_on = s.depends_on /\ expected = s.expected /\ plans = s.plans
    BY DEF Init
<1>2. s.expected \subseteq Items /\ s.plans \subseteq SUBSET Steps
    BY WorkerRunAssumption
<1>3. VerifyTypeOK
    BY <1>1, <1>2 DEF Init, VerifyInit, VerifyTypeOK, Nothing, NoPlan, ReportFiles
<1>4. NodeKnows /\ OneRetryPerVerdict
    BY DEF Init, VerifyInit, NodeKnows, OneRetryPerVerdict, Nothing
<1> QED BY <1>3, <1>4 DEF VerdictInv

(* The result is merged: the counts move together.                         *)
LEMMA ReturnsHold ==
    ASSUME VerdictInv, VerifyReturns
    PROVE  VerdictInv'
<1>1. /\ VerifyTypeOK /\ NodeKnows /\ OneRetryPerVerdict /\ node = "end"
      /\ ForgetAttempt /\ verification_plan' = found.plan
      /\ verify_retries' = found.verify_retries
      /\ failed_verdicts' = IF found.passed THEN failed_verdicts ELSE failed_verdicts + 1
      /\ UNCHANGED <<plans, expected, coverage_entries, files>>
    BY DEF VerdictInv, VerifyReturns, VerifyStageReturns
<1>2. /\ NodeKnows' /\ node' = "ensure_plan" /\ ran' = {}
      /\ found' \in [plan : SUBSET Steps, failed_tests : BOOLEAN,
                     hard_findings : BOOLEAN, passed : BOOLEAN, verify_retries : Nat,
                     reported : SUBSET Items, uncovered : BOOLEAN]
    BY <1>1, Forgotten
<1>3. /\ found.plan \in SUBSET Steps /\ found.verify_retries \in Nat
      /\ verify_retries \in Nat /\ failed_verdicts \in Nat
    BY <1>1 DEF VerifyTypeOK
<1>4. failed_verdicts' \in Nat
    BY <1>1, <1>3
<1>5. VerifyTypeOK'
    BY <1>1, <1>2, <1>3, <1>4 DEF VerifyTypeOK
<1>6. OneRetryPerVerdict'
    BY <1>1, <1>3 DEF NodeKnows, OneRetryPerVerdict
<1> QED BY <1>2, <1>5, <1>6 DEF VerdictInv

LEMMA LostHolds ==
    ASSUME VerdictInv, AttemptLost
    PROVE  VerdictInv'
<1>1. ForgetAttempt /\ UNCHANGED <<resultVars, files>> /\ VerifyTypeOK /\ OneRetryPerVerdict
    BY DEF VerdictInv, AttemptLost, VerifyAttemptDiscarded
<1>2. /\ NodeKnows' /\ node' = "ensure_plan" /\ ran' = {}
      /\ found' \in [plan : SUBSET Steps, failed_tests : BOOLEAN,
                     hard_findings : BOOLEAN, passed : BOOLEAN, verify_retries : Nat,
                     reported : SUBSET Items, uncovered : BOOLEAN]
    BY <1>1, Forgotten
<1>3. VerifyTypeOK' /\ OneRetryPerVerdict'
    BY <1>1, <1>2 DEF VerifyTypeOK, OneRetryPerVerdict, resultVars
<1> QED BY <1>2, <1>3 DEF VerdictInv

LEMMA VerdictStep == VerdictInv /\ [Next]_vars => VerdictInv'
<1> SUFFICES ASSUME VerdictInv, [Next]_vars PROVE VerdictInv'
    OBVIOUS
<1> USE DEF vars, verdictVars, stateVars, findingVars, verifyVars, resultVars, attemptResult,
            runVars
<1>0. pc # "verify" => node = "ensure_plan"
    BY DEF VerdictInv, NodeKnows
<1>1. CASE SetupWorker
    <2>1. UNCHANGED verdictVars /\ pc = "setup"
        BY <1>1 DEF SetupWorker
    <2> QED BY <1>0, <2>1, VerdictKept
<1>2. CASE SetupAttemptFails
    <2>1. UNCHANGED verdictVars /\ pc' = pc
        BY <1>2 DEF SetupAttemptFails
    <2> QED BY <2>1, VerdictKept
<1>3. CASE Hydrate
    <2>1. UNCHANGED verdictVars /\ pc = "hydrate"
        BY <1>3 DEF Hydrate
    <2> QED BY <1>0, <2>1, VerdictKept
<1>4. CASE BuildStep
    <2>1. UNCHANGED verdictVars /\ pc' = pc
        BY <1>4 DEF BuildStep
    <2> QED BY <2>1, VerdictKept
<1>5. CASE BuildReturns
    <2>1. /\ pc = "build" /\ node = "ensure_plan" /\ coverage_entries' \in BOOLEAN
          /\ UNCHANGED <<plans, expected, verification_plan, verify_retries,
                         failed_verdicts, files, node, found, ran>>
        BY <1>0, <1>5 DEF BuildReturns, Works
    <2>2. VerifyTypeOK' /\ OneRetryPerVerdict'
        BY <2>1 DEF VerdictInv, VerifyTypeOK, OneRetryPerVerdict
    <2>3. NodeKnows'
        BY <2>1 DEF VerdictInv, NodeKnows
    <2> QED BY <2>2, <2>3 DEF VerdictInv
<1>6. CASE VerifyStep
    <2>1. UNCHANGED <<pc, tester_findings, reconciliation_findings>> /\ pc = "verify"
        BY <1>6 DEF VerifyStep, Works
    <2>2. \/ RunPlan \/ EnsurePlan \/ Aggregate(AnyBlocking) \/ NothingToCover
          \/ \E coverage \in Coverages : SemanticCoverage(coverage, AnyBlocking)
        BY <1>6 DEF VerifyStep
    <2> QED BY <2>1, <2>2, NodesHold
<1>7. CASE VerifyPassed \/ VerifyEscalated \/ VerifyFailed
    BY <1>7, ReturnsHold DEF VerifyPassed, VerifyEscalated, VerifyFailed
<1>8. ASSUME NEW turn \in FixerTurns, NEW target \in WPs, FixerStage(turn, target)
      PROVE  VerdictInv'
    <2>1. /\ pc = "fixer" /\ node = "ensure_plan"
          /\ UNCHANGED <<plans, expected, coverage_entries, verification_plan,
                         verify_retries, failed_verdicts, files, node, found, ran>>
        BY <1>0, <1>8 DEF FixerStage, Works
    <2>2. VerifyTypeOK' /\ OneRetryPerVerdict'
        BY <2>1 DEF VerdictInv, VerifyTypeOK, OneRetryPerVerdict
    <2>3. NodeKnows'
        BY <2>1 DEF VerdictInv, NodeKnows
    <2> QED BY <2>2, <2>3 DEF VerdictInv
<1>9. CASE StageAttemptFails
    BY <1>9, LostHolds DEF StageAttemptFails
<1>10. CASE Teardown
    <2>1. UNCHANGED verdictVars /\ pc = "teardown"
        BY <1>10 DEF Teardown
    <2> QED BY <1>0, <2>1, VerdictKept
<1>11. CASE WorkerDies
    <2>1. CASE AttemptLost
        BY <2>1, LostHolds
    <2>2. CASE UNCHANGED <<runVars, stateVars, build_blocking, buildVars, verifyVars>>
        <3>1. UNCHANGED verdictVars /\ pc' = pc
            BY <2>2
        <3> QED BY <3>1, VerdictKept
    <2> QED BY <1>11, <2>1, <2>2 DEF WorkerDies
<1>12. CASE UNCHANGED vars
    <2>1. UNCHANGED verdictVars /\ pc' = pc
        BY <1>12
    <2> QED BY <2>1, VerdictKept
<1> QED BY <1>1, <1>2, <1>3, <1>4, <1>5, <1>6, <1>7, <1>8, <1>9, <1>10, <1>11, <1>12
        DEF Next, ActivitySteps

(* A merged verdict says what its evidence says.                           *)
LEMMA EvidenceShown ==
    ASSUME VerdictInv, VerifyReturns
    PROVE  verify_summary'.passed <=>
              /\ StepsConvince
              /\ tester_findings = <<>>
              /\ \A i \in DOMAIN reconciliation_findings :
                    ~reconciliation_findings[i].blocking
              /\ ~found.uncovered
<1>1. /\ VerifyTypeOK /\ NodeKnows /\ node = "end"
      /\ verify_summary' = [passed |-> found.passed, reported |-> found.reported]
    BY DEF VerdictInv, VerifyReturns, VerifyStageReturns
<1>2. verify_summary'.passed = found.passed
    BY <1>1
<1>3. found.passed = (Clean /\ ~AnyBlocking /\ ~found.uncovered) /\ Clean = StepsConvince
    BY <1>1 DEF NodeKnows
<1>4. AnyBlocking <=> \/ tester_findings # <<>>
                      \/ \E i \in DOMAIN reconciliation_findings :
                            reconciliation_findings[i].blocking
    BY DEF AnyBlocking, Blocking
<1> QED BY <1>2, <1>3, <1>4

-----------------------------------------------------------------------------
(* The inductive invariant of the tree.                                    *)

(* Every change of the stage is in a patch, was lost, shows no hunk, or is *)
(* in the tree still, and then no record is complete; only a build, and a  *)
(* run that gave one up, has changes at all.                               *)
TreeInv ==
    /\ repo => changed \subseteq patches \cup lost \cup Hunkless \cup dirty
    /\ PatchesAccountForTree
    /\ pc \notin {"build", "teardown", "closed"} => changed = {}

(* Without records, some slice has work.                                   *)
LEMMA NoRecordsYet == ForgetRecords => ~AllRun'
<1> SUFFICES ASSUME ForgetRecords PROVE ~AllRun'
    OBVIOUS
<1>1. 1 \in DOMAIN spec
    BY SpecAssumption
<1>2. spec[1] \in Slices
    BY <1>1 DEF Slices, ToSet
<1>3. builder_outputs' = <<>> /\ spec[1] \notin ToSet(builder_outputs')
    BY DEF ForgetRecords, ToSet
<1> QED BY <1>2, <1>3 DEF AllRun, NeedsWork, HasRun

(* A turn that leaves a record has patches of all that it found uncommitted.*)
LEMMA TurnAccounts ==
    ASSUME TreeInv, NEW turn, TurnMarks(turn, GroundTruth(turn.edits))
    PROVE  /\ repo' = repo
           /\ repo => changed' \subseteq patches' \cup lost' \cup Hunkless
<1>1. /\ repo' = repo /\ patches' = patches \cup GroundTruth(turn.edits)
      /\ changed' = changed \cup turn.edits
      /\ lost' = IF turn.committed THEN lost \cup (changed' \ patches') ELSE lost
    BY DEF TurnMarks, containerVars
<1>2. ASSUME repo PROVE (dirty \cup turn.edits) \ Hunkless \subseteq patches'
    BY <1>1, <1>2 DEF GroundTruth
<1>3. lost \subseteq lost'
    BY <1>1
<1> QED BY <1>1, <1>2, <1>3 DEF TreeInv

(* What leaves the account and the tree leaves the invariant.              *)
LEMMA TreeKept ==
    ASSUME TreeInv, UNCHANGED <<repo, buildVars>>, dirty \subseteq dirty',
           \/ pc' = pc
           \/ changed = {}
           \/ pc' \in {"build", "teardown", "closed"}
    PROVE  TreeInv'
<1>1. UNCHANGED <<repo, changed, patches, lost, builder_outputs, tester_outputs>>
    BY DEF buildVars, recordVars
<1>2. PatchesAccountForTree'
    BY <1>1 DEF TreeInv, PatchesAccountForTree, AllRun, NeedsWork, HasRun
<1> QED BY <1>1, <1>2 DEF TreeInv

(* With no change to account for, nothing is missed.                       *)
LEMMA NothingChanged == changed' = {} => TreeInv'
BY DEF TreeInv, PatchesAccountForTree

(* What an attempt leaves uncommitted is in the tree; the rest is lost.    *)
LEMMA TreeLost ==
    ASSUME TreeInv, AttemptLost, UNCHANGED repo,
           dirty \subseteq dirty' \/ changed = {}
    PROVE  TreeInv'
<1>1. /\ ForgetRecords /\ lost' = lost \cup (changed \ dirty) /\ changed' = changed
      /\ pc' = pc \/ pc' = "teardown"
    BY DEF AttemptLost, AttemptDiscarded, Leave
<1>2. ~AllRun'
    BY <1>1, NoRecordsYet
<1>3. changed' \subseteq lost' \cup dirty'
    BY <1>1
<1> QED BY <1>1, <1>2, <1>3 DEF TreeInv, PatchesAccountForTree

LEMMA TurnsHold ==
    ASSUME TreeInv, pc = "build", UNCHANGED pc,
           \/ \E turn \in BuilderTurns : BuilderTurn(turn)
           \/ \E turn \in TesterTurns : TesterTurn(turn, code + 1)
           \/ \E turn \in RaisedTurns : RaisedTurn(turn)
    PROVE  TreeInv'
<1>1. ASSUME NEW turn, TurnMarks(turn, GroundTruth(turn.edits))
      PROVE  TreeInv'
    <2>1. /\ repo' = repo
          /\ repo => changed' \subseteq patches' \cup lost' \cup Hunkless
        BY <1>1, TurnAccounts
    <2> QED BY <2>1 DEF TreeInv, PatchesAccountForTree
<1>2. ASSUME NEW turn \in RaisedTurns, RaisedTurn(turn)
      PROVE  TreeInv'
    <2>1. /\ repo' = repo /\ patches' = patches /\ changed' = changed \cup turn.edits
          /\ dirty' = TurnLeaves(turn.edits, turn.committed)
          /\ lost' = IF turn.committed THEN lost \cup (changed' \ patches') ELSE lost
        BY <1>2 DEF RaisedTurn, TurnMarks, containerVars
    <2>2. repo => changed' \subseteq patches' \cup lost' \cup Hunkless \cup dirty'
        <3>1. CASE turn.committed
            BY <2>1, <3>1
        <3>2. CASE ~turn.committed
            BY <2>1, <3>2 DEF TurnLeaves, TreeInv
        <3> QED BY <3>1, <3>2
    <2>3. ~AllRun /\ UNCHANGED <<builder_outputs, tester_outputs>>
        BY <1>2 DEF RaisedTurn, NextWorker
    <2>4. ~AllRun'
        BY <2>3 DEF AllRun, NeedsWork, HasRun
    <2>5. repo' = repo /\ pc' = "build"
        BY <2>1
    <2> QED BY <2>2, <2>4, <2>5 DEF TreeInv, PatchesAccountForTree
<1> QED BY <1>1, <1>2 DEF BuilderTurn, TesterTurn

LEMMA TreeStep == TreeInv /\ [Next]_vars => TreeInv'
<1> SUFFICES ASSUME TreeInv, [Next]_vars PROVE TreeInv'
    OBVIOUS
<1>0. pc \notin {"build", "teardown", "closed"} => changed = {}
    BY DEF TreeInv
<1>1. CASE SetupWorker \/ SetupAttemptFails
    <2>1. changed' = {}
        BY <1>0, <1>1 DEF SetupWorker, SetupAttemptFails, buildVars
    <2> QED BY <2>1, NothingChanged
<1>2. CASE Hydrate
    <2>1. changed' = {}
        BY <1>0, <1>2 DEF Hydrate, buildVars
    <2> QED BY <2>1, NothingChanged
<1>3. CASE BuildStep
    BY <1>3, TurnsHold DEF BuildStep, Works, runVars
<1>4. CASE BuildReturns
    BY <1>4, NothingChanged DEF BuildReturns, StageAccounted
<1>5. CASE VerifyStep
    <2>1. changed' = {}
        BY <1>0, <1>5 DEF VerifyStep, Works, buildVars
    <2> QED BY <2>1, NothingChanged
<1>6. CASE VerifyPassed \/ VerifyEscalated \/ VerifyFailed
    <2>1. changed' = {}
        BY <1>0, <1>6 DEF VerifyPassed, VerifyEscalated, VerifyFailed, VerifyReturns, Works,
            buildVars
    <2> QED BY <2>1, NothingChanged
<1>7. ASSUME NEW turn \in FixerTurns, NEW target \in WPs, FixerStage(turn, target)
      PROVE  TreeInv'
    BY <1>7, NothingChanged DEF FixerStage, StageAccounted
<1>8. CASE StageAttemptFails
    <2>1. AttemptLost /\ UNCHANGED repo /\ (dirty' = dirty \/ pc = "fixer")
        BY <1>8 DEF StageAttemptFails, containerVars
    <2> QED BY <1>0, <2>1, TreeLost
<1>9. CASE WorkerDies
    <2>1. UNCHANGED <<repo, dirty>>
        BY <1>9 DEF WorkerDies
    <2>2. CASE AttemptLost
        BY <2>1, <2>2, TreeLost
    <2>3. CASE UNCHANGED <<runVars, buildVars>>
        BY <2>1, <2>3, TreeKept DEF runVars
    <2> QED BY <1>9, <2>2, <2>3 DEF WorkerDies
<1>10. CASE Teardown
    <2>1. repo' = FALSE /\ pc' = "closed"
        BY <1>10 DEF Teardown, RemoveContainer
    <2> QED BY <2>1 DEF TreeInv, PatchesAccountForTree
<1>11. CASE UNCHANGED vars
    <2>1. UNCHANGED <<pc, repo, buildVars, dirty>>
        BY <1>11 DEF vars, runVars, checkoutVars, containerVars
    <2> QED BY <2>1, TreeKept
<1> QED BY <1>1, <1>2, <1>3, <1>4, <1>5, <1>6, <1>7, <1>8, <1>9, <1>10, <1>11
        DEF Next, ActivitySteps

-----------------------------------------------------------------------------
(* The inductive invariant of the supervisor.                              *)

(* The records are those of the first slices in order, and the slice built *)
(* last is the one that may lack a test.                                   *)
InTurn ==
    /\ builder_outputs \in Seq(Slices) /\ tester_outputs \in Seq(Slices)
    /\ Len(builder_outputs) <= Len(build_order)
    /\ Len(tester_outputs) <= Len(builder_outputs)
    /\ Len(builder_outputs) <= Len(tester_outputs) + 1
    /\ \A i \in DOMAIN builder_outputs : builder_outputs[i] = build_order[i]
    /\ \A i \in DOMAIN tester_outputs : tester_outputs[i] = build_order[i]

LEMMA OrderSorted ==
    /\ build_order \in Seq(Slices) /\ ToSet(build_order) = Slices /\ Distinct(build_order)
    /\ DOMAIN build_order = 1 .. Len(build_order) /\ Len(build_order) \in Nat \ {0}
    /\ Acyclic =>
          \A i \in DOMAIN build_order : \A d \in depends_on[build_order[i]] \cap Slices :
              \E j \in DOMAIN build_order : j < i /\ build_order[j] = d
<1>1. Sorted(depends_on, build_order, Slices)
    BY TopoSortSorts DEF build_order
<1>2. build_order \in Seq(Slices) /\ ToSet(build_order) = Slices /\ Distinct(build_order)
    BY <1>1 DEF Sorted
<1>3. build_order # <<>>
    BY <1>2, SlicesFinite DEF ToSet
<1>4. DOMAIN build_order = 1 .. Len(build_order) /\ Len(build_order) \in Nat \ {0}
    <2> HIDE DEF build_order
    <2> QED BY <1>2, <1>3
<1>5. Acyclic <=> Ranked(depends_on)
    BY DEF Acyclic, Ranked
<1>6. Acyclic =>
          \A i \in DOMAIN build_order : \A d \in depends_on[build_order[i]] \cap Slices :
              \E j \in DOMAIN build_order : j < i /\ build_order[j] = d
    <2> HIDE DEF build_order
    <2> QED BY <1>1, <1>5 DEF Sorted
<1> QED BY <1>2, <1>4, <1>6

(* The first slice that lacks a record is the one after those tested.      *)
LEMMA NextInTurn ==
    ASSUME InTurn, ~AllRun
    PROVE  LET n == Len(tester_outputs) + 1
           IN /\ n \in DOMAIN build_order /\ Dispatched = build_order[n]
              /\ HasRun(builder_outputs, Dispatched) <=> Len(builder_outputs) = n
<1> DEFINE o == build_order
           n == Len(tester_outputs) + 1
<1>0. /\ o \in Seq(Slices) /\ ToSet(o) = Slices /\ Distinct(o)
      /\ DOMAIN o = 1 .. Len(o) /\ Len(o) \in Nat
    BY OrderSorted
<1>1. /\ DOMAIN builder_outputs = 1 .. Len(builder_outputs)
      /\ Len(builder_outputs) \in Nat
      /\ DOMAIN tester_outputs = 1 .. Len(tester_outputs)
      /\ Len(tester_outputs) \in Nat
      /\ Len(builder_outputs) <= Len(o)
      /\ Len(tester_outputs) <= Len(builder_outputs)
      /\ Len(builder_outputs) <= Len(tester_outputs) + 1
      /\ \A i \in DOMAIN builder_outputs : builder_outputs[i] = o[i]
      /\ \A i \in DOMAIN tester_outputs : tester_outputs[i] = o[i]
    BY DEF InTurn
<1>2. Dispatched = o[CHOOSE i \in DOMAIN o :
          NeedsWork(o[i]) /\ \A j \in 1 .. i - 1 : ~NeedsWork(o[j])]
    BY DEF Dispatched
<1> HIDE DEF o
<1>3. ASSUME NEW i \in DOMAIN o
      PROVE  /\ HasRun(builder_outputs, o[i]) <=> i <= Len(builder_outputs)
             /\ HasRun(tester_outputs, o[i]) <=> i <= Len(tester_outputs)
    <2>1. HasRun(builder_outputs, o[i]) <=> \E j \in DOMAIN builder_outputs : o[j] = o[i]
        BY <1>1 DEF HasRun, ToSet
    <2>2. HasRun(tester_outputs, o[i]) <=> \E j \in DOMAIN tester_outputs : o[j] = o[i]
        BY <1>1 DEF HasRun, ToSet
    <2>3. \A j \in DOMAIN o : o[j] = o[i] <=> j = i
        BY <1>0 DEF Distinct
    <2>4. i \in Nat /\ i >= 1
        BY <1>0
    <2> QED BY <1>0, <1>1, <2>1, <2>2, <2>3, <2>4
<1>4. \A i \in DOMAIN o : NeedsWork(o[i]) <=> i >= n
    <2> SUFFICES ASSUME NEW i \in DOMAIN o PROVE NeedsWork(o[i]) <=> i >= n
        OBVIOUS
    <2>1. i \in Nat
        BY <1>0
    <2> QED BY <1>1, <1>3, <2>1 DEF NeedsWork
<1>5. n \in DOMAIN o
    <2>1. PICK s \in Slices : NeedsWork(s)
        BY DEF AllRun
    <2>2. PICK i \in DOMAIN o : o[i] = s
        BY <1>0 DEF ToSet
    <2>3. i >= n /\ i \in 1 .. Len(o)
        BY <1>0, <1>4, <2>1, <2>2
    <2> QED BY <1>0, <1>1, <2>3
<1>6. NeedsWork(o[n]) /\ \A j \in 1 .. n - 1 : ~NeedsWork(o[j])
    <2>1. \A j \in 1 .. n - 1 : j \in DOMAIN o /\ ~(j >= n)
        BY <1>0, <1>1, <1>5
    <2>2. n >= n
        BY <1>1
    <2> QED BY <1>4, <1>5, <2>1, <2>2
<1>7. ASSUME NEW i \in DOMAIN o, NeedsWork(o[i]), \A j \in 1 .. i - 1 : ~NeedsWork(o[j])
      PROVE  i = n
    <2>1. i >= n /\ i \in Nat /\ n \in Nat /\ n >= 1
        BY <1>0, <1>1, <1>4, <1>7
    <2>2. ~(n \in 1 .. i - 1)
        BY <1>6, <1>7
    <2> QED BY <2>1, <2>2
<1>8. Dispatched = o[n]
    <2> HIDE DEF n
    <2>1. (CHOOSE i \in DOMAIN o :
              NeedsWork(o[i]) /\ \A j \in 1 .. i - 1 : ~NeedsWork(o[j])) = n
        BY <1>5, <1>6, <1>7
    <2> QED BY <1>2, <2>1
<1>9. HasRun(builder_outputs, Dispatched) <=> Len(builder_outputs) = n
    <2>1. HasRun(builder_outputs, o[n]) <=> n <= Len(builder_outputs)
        BY <1>3, <1>5
    <2>2. n \in Nat /\ Len(builder_outputs) \in Nat /\ Len(builder_outputs) <= n
        BY <1>1
    <2> HIDE DEF n
    <2>3. n <= Len(builder_outputs) <=> Len(builder_outputs) = n
        BY <2>2
    <2> QED BY <1>8, <2>1, <2>3
<1> QED BY <1>5, <1>8, <1>9 DEF o

(* A record more, of the next slice in order.                              *)
LEMMA RecordAdded ==
    ASSUME NEW r \in Seq(Slices), NEW o \in Seq(Slices), NEW n \in DOMAIN o,
           n = Len(r) + 1, \A i \in DOMAIN r : r[i] = o[i]
    PROVE  /\ Append(r, o[n]) \in Seq(Slices) /\ Len(Append(r, o[n])) = n
           /\ \A i \in DOMAIN Append(r, o[n]) : Append(r, o[n])[i] = o[i]
<1>1. o[n] \in Slices
    OBVIOUS
<1> QED BY <1>1

LEMMA TurnsInOrder ==
    ASSUME InTurn, UNCHANGED depends_on,
           \/ \E turn \in BuilderTurns : BuilderTurn(turn)
           \/ \E turn \in TesterTurns : TesterTurn(turn, code + 1)
           \/ \E turn \in RaisedTurns : RaisedTurn(turn)
    PROVE  InTurn'
<1>0. build_order' = build_order
    BY DEF build_order
<1>1. /\ build_order \in Seq(Slices) /\ Len(build_order) \in Nat
      /\ DOMAIN build_order = 1 .. Len(build_order)
    BY OrderSorted
<1>2. ASSUME NEW turn \in BuilderTurns, BuilderTurn(turn)
      PROVE  InTurn'
    <2>1. /\ ~AllRun /\ ~HasRun(builder_outputs, Dispatched)
          /\ builder_outputs' = Append(builder_outputs, Dispatched)
          /\ tester_outputs' = tester_outputs
        BY <1>2 DEF BuilderTurn, NextWorker
    <2> DEFINE n == Len(tester_outputs) + 1
    <2>2. /\ n \in DOMAIN build_order /\ Dispatched = build_order[n]
          /\ Len(builder_outputs) # n
        BY <2>1, NextInTurn
    <2>3. Len(builder_outputs) = Len(tester_outputs) /\ Len(tester_outputs) \in Nat
        BY <2>2 DEF InTurn
    <2>4. n = Len(builder_outputs) + 1
        BY <2>3
    <2>5. /\ builder_outputs' \in Seq(Slices) /\ Len(builder_outputs') = n
          /\ \A i \in DOMAIN builder_outputs' : builder_outputs'[i] = build_order[i]
        <3> HIDE DEF n, build_order
        <3> QED BY <1>1, <2>1, <2>2, <2>4, RecordAdded DEF InTurn
    <2>6. Len(builder_outputs') <= Len(build_order)
        BY <1>1, <2>2, <2>5
    <2> QED BY <1>0, <2>1, <2>3, <2>5, <2>6 DEF InTurn
<1>3. ASSUME NEW turn \in TesterTurns, TesterTurn(turn, code + 1)
      PROVE  InTurn'
    <2>1. /\ ~AllRun /\ HasRun(builder_outputs, Dispatched)
          /\ tester_outputs' = Append(tester_outputs, Dispatched)
          /\ builder_outputs' = builder_outputs
        BY <1>3 DEF TesterTurn, NextWorker
    <2> DEFINE n == Len(tester_outputs) + 1
    <2>2. /\ n \in DOMAIN build_order /\ Dispatched = build_order[n]
          /\ Len(builder_outputs) = n
        BY <2>1, NextInTurn
    <2>3. /\ tester_outputs' \in Seq(Slices) /\ Len(tester_outputs') = n
          /\ \A i \in DOMAIN tester_outputs' : tester_outputs'[i] = build_order[i]
        <3>1. n = Len(tester_outputs) + 1
            OBVIOUS
        <3> HIDE DEF n, build_order
        <3> QED BY <1>1, <2>1, <2>2, <3>1, RecordAdded DEF InTurn
    <2>4. n \in Nat
        BY <1>1, <2>2
    <2> QED BY <1>0, <2>1, <2>2, <2>3, <2>4 DEF InTurn
<1>4. ASSUME NEW turn \in RaisedTurns, RaisedTurn(turn)
      PROVE  InTurn'
    BY <1>0, <1>4 DEF RaisedTurn, InTurn
<1> QED BY <1>2, <1>3, <1>4

(* With no record there is none out of turn.                               *)
LEMMA NoneOutOfTurn == builder_outputs = <<>> /\ tester_outputs = <<>> => InTurn
<1> SUFFICES ASSUME builder_outputs = <<>>, tester_outputs = <<>> PROVE InTurn
    OBVIOUS
<1>1. Len(build_order) \in Nat
    BY OrderSorted
<1>2. /\ builder_outputs \in Seq(Slices) /\ Len(builder_outputs) = 0
      /\ tester_outputs \in Seq(Slices) /\ Len(tester_outputs) = 0
      /\ DOMAIN builder_outputs = {} /\ DOMAIN tester_outputs = {}
    OBVIOUS
<1> QED BY <1>1, <1>2 DEF InTurn

LEMMA InTurnStep == InTurn /\ [Next]_vars => InTurn'
<1> SUFFICES ASSUME InTurn, [Next]_vars PROVE InTurn'
    OBVIOUS
<1>1. CASE UNCHANGED <<depends_on, builder_outputs, tester_outputs>>
    BY <1>1 DEF InTurn, build_order
<1>2. CASE ForgetRecords
    <2>1. builder_outputs' = <<>> /\ tester_outputs' = <<>>
        BY <1>2 DEF ForgetRecords
    <2>2. (builder_outputs = <<>> /\ tester_outputs = <<>> => InTurn)'
        BY NoneOutOfTurn, PTL
    <2> QED BY <2>1, <2>2
<1>3. CASE BuildStep
    <2>1. UNCHANGED depends_on
        BY <1>3 DEF BuildStep, BuilderTurn, TesterTurn, RaisedTurn, TurnMarks
    <2> QED BY <1>3, <2>1, TurnsInOrder DEF BuildStep
<1> QED BY <1>1, <1>2, <1>3 DEF Next, ActivitySteps, vars, buildVars, recordVars, verifyVars,
        SetupWorker, SetupAttemptFails, Hydrate, BuildReturns, StageAccounted, VerifyStep,
        VerifyPassed, VerifyEscalated, VerifyFailed, VerifyReturns, FixerStage,
        StageAttemptFails, AttemptLost, AttemptDiscarded, WorkerDies, Teardown

LEMMA InTurnOrdered == InTurn => BuildInOrder
<1> SUFFICES ASSUME InTurn, NEW i \in DOMAIN builder_outputs
             PROVE  /\ \A j \in 1 .. i - 1 :
                          /\ builder_outputs[j] # builder_outputs[i]
                          /\ j \in DOMAIN tester_outputs
                    /\ Acyclic =>
                          \A d \in depends_on[builder_outputs[i]] \cap Slices :
                              \E j \in 1 .. i - 1 :
                                  d = builder_outputs[j] /\ d = tester_outputs[j]
    BY DEF BuildInOrder
<1> DEFINE o == build_order
<1>1. /\ Distinct(o) /\ DOMAIN o = 1 .. Len(o) /\ Len(o) \in Nat
      /\ Acyclic =>
            \A k \in DOMAIN o : \A d \in depends_on[o[k]] \cap Slices :
                \E j \in DOMAIN o : j < k /\ o[j] = d
    BY OrderSorted
<1>2. /\ DOMAIN builder_outputs = 1 .. Len(builder_outputs)
      /\ Len(builder_outputs) \in Nat
      /\ DOMAIN tester_outputs = 1 .. Len(tester_outputs)
      /\ Len(tester_outputs) \in Nat
      /\ Len(builder_outputs) <= Len(o)
      /\ Len(builder_outputs) <= Len(tester_outputs) + 1
      /\ \A k \in DOMAIN builder_outputs : builder_outputs[k] = o[k]
      /\ \A k \in DOMAIN tester_outputs : tester_outputs[k] = o[k]
    BY DEF InTurn
<1> HIDE DEF o
<1>3. i \in DOMAIN o /\ i \in Nat
    BY <1>1, <1>2
<1>4. ASSUME NEW j \in DOMAIN o, j < i
      PROVE  /\ j \in 1 .. i - 1
             /\ j \in DOMAIN builder_outputs /\ j \in DOMAIN tester_outputs
    BY <1>1, <1>2, <1>3, <1>4
<1>5. ASSUME NEW j \in 1 .. i - 1
      PROVE  builder_outputs[j] # builder_outputs[i] /\ j \in DOMAIN tester_outputs
    <2>1. j \in DOMAIN o /\ j < i
        BY <1>1, <1>3
    <2> QED BY <1>1, <1>2, <1>3, <1>4, <2>1 DEF Distinct
<1>6. ASSUME Acyclic, NEW d \in depends_on[builder_outputs[i]] \cap Slices
      PROVE  \E j \in 1 .. i - 1 : d = builder_outputs[j] /\ d = tester_outputs[j]
    <2>1. PICK j \in DOMAIN o : j < i /\ o[j] = d
        BY <1>1, <1>2, <1>3, <1>6
    <2> QED BY <1>2, <1>4, <2>1
<1> QED BY <1>5, <1>6

-----------------------------------------------------------------------------
(* Type correctness.                                                       *)

RunTypeOK ==
    /\ pc \in Stage \cup {"setup", "hydrate", "teardown", "closed"}
    /\ attempt \in 1 .. STAGE_ATTEMPTS
    /\ status \in {"running", "passed", "needs_human", "failed"}
    /\ tester_findings \in Seq(TesterFindings)
    /\ reconciliation_findings \in Seq(ReconciliationFindings)
    /\ current_slice \in WPs
    /\ verify_summary \in [passed : BOOLEAN, reported : SUBSET Items]
    /\ fixer_attempts_by_wp \in [WPs -> 0 .. FIXER_MAX_ATTEMPTS]
    /\ fixer_attempts_by_predicate \in [Predicates -> 0 .. FIXER_MAX_ATTEMPTS]
    /\ code \in Nat /\ verified \subseteq 0 .. code
    /\ build_blocking \in BOOLEAN

LEMMA WorkerTypeParts ==
    WorkerTypeOK <=> CheckoutTypeOK /\ BuildTypeOK /\ VerifyTypeOK /\ RunTypeOK
BY DEF WorkerTypeOK, RunTypeOK

(* A turn leaves in the checkout what was there and what it did.           *)
LEMMA TurnLeavesPaths ==
    ASSUME CheckoutTypeOK, NEW edits \in SUBSET Paths, NEW committed
    PROVE  TurnLeaves(edits, committed) \subseteq Paths /\ GroundTruth(edits) \subseteq Paths
BY DEF CheckoutTypeOK, TurnLeaves, GroundTruth

LEMMA CheckoutTypes == CheckoutTypeOK /\ [Next]_vars => CheckoutTypeOK'
<1> SUFFICES ASSUME CheckoutTypeOK, [Next]_vars PROVE CheckoutTypeOK'
    OBVIOUS
<1> USE DEF CheckoutTypeOK, checkoutVars, containerVars
<1>1. CASE SetupWorker
    <2>1. 0 \in 0 .. SETUP_FAILURES
        BY SetupAssumption
    <2>2. CASE ReuseContainer
        BY <2>1, <2>2 DEF ReuseContainer, CheckedOut
    <2>3. CASE StartContainer
        BY <2>1, <2>3 DEF StartContainer, CheckedOut
    <2> QED BY <1>1, <2>2, <2>3 DEF SetupWorker
<1>2. CASE SetupAttemptFails
    BY <1>2, SetupAssumption DEF SetupAttemptFails, SetupFails
<1>3. CASE Hydrate
    BY <1>3 DEF Hydrate, WithRepoState, CheckedOut
<1>4. ASSUME NEW turn, turn.edits \subseteq Paths, NEW seen, TurnMarks(turn, seen)
      PROVE  CheckoutTypeOK'
    BY <1>4, TurnLeavesPaths DEF TurnMarks
<1>5. CASE BuildStep
    <2>1. /\ \A turn \in BuilderTurns : turn.edits \subseteq Paths
          /\ \A turn \in TesterTurns : turn.edits \subseteq Paths
          /\ \A turn \in RaisedTurns : turn.edits \subseteq Paths
        BY TurnsAssumption
    <2> QED BY <1>4, <1>5, <2>1 DEF BuildStep, BuilderTurn, TesterTurn, RaisedTurn
<1>6. CASE VerifyStep
    BY <1>6, WorkerRunAssumption DEF VerifyStep
<1>fix. \A turn \in FixerTurns : turn.edits \in SUBSET Paths
    BY WorkerRunAssumption
<1>7. ASSUME NEW turn \in FixerTurns, NEW target \in WPs, FixerStage(turn, target)
      PROVE  CheckoutTypeOK'
    BY <1>7, <1>fix, TurnLeavesPaths DEF FixerStage, WithRepoState, CheckedOut
<1>8. CASE StageAttemptFails
    BY <1>8, <1>fix, TurnLeavesPaths DEF StageAttemptFails
<1>9. CASE WorkerDies
    BY <1>9 DEF WorkerDies, ContainerExits
<1>10. CASE Teardown
    BY <1>10 DEF Teardown, RemoveContainer
<1>11. CASE BuildReturns \/ VerifyPassed \/ VerifyEscalated \/ VerifyFailed
            \/ UNCHANGED vars
    BY <1>11 DEF BuildReturns, VerifyPassed, VerifyEscalated, VerifyFailed, VerifyReturns, vars
<1> QED BY <1>1, <1>2, <1>3, <1>5, <1>6, <1>7, <1>8, <1>9, <1>10, <1>11
        DEF Next, ActivitySteps

(* A slice that is sent is one of the plan's.                              *)
LEMMA DispatchedType == InTurn /\ ~AllRun => Dispatched \in Slices /\ Dispatched \in WPs
<1> SUFFICES ASSUME InTurn, ~AllRun PROVE Dispatched \in Slices /\ Dispatched \in WPs
    OBVIOUS
<1>1. PICK n \in DOMAIN build_order : Dispatched = build_order[n]
    BY NextInTurn
<1>2. build_order \in Seq(Slices)
    BY OrderSorted
<1>3. build_order[n] \in Slices
    <2> HIDE DEF build_order
    <2> QED BY <1>2
<1> QED BY <1>1, <1>3, SlicesFinite

LEMMA TurnMarksTypes ==
    ASSUME BuildTypeOK, NEW turn, turn.edits \subseteq Paths,
           NEW seen \in SUBSET Paths, TurnMarks(turn, seen)
    PROVE  /\ depends_on' = depends_on /\ patches' \subseteq Paths /\ turns' \in 0 .. TURNS
           /\ changed' \subseteq Paths /\ lost' \subseteq Paths
BY SpecAssumption DEF BuildTypeOK, TurnMarks

LEMMA BuildTurnTypes ==
    ASSUME BuildTypeOK, CheckoutTypeOK, InTurn, code \in Nat, BuildStep
    PROVE  BuildTypeOK'
<1>0. /\ \A turn \in BuilderTurns :
            turn.edits \in SUBSET Paths /\ turn.claimed \in SUBSET Paths
      /\ \A turn \in TesterTurns : turn.edits \in SUBSET Paths
      /\ \A turn \in RaisedTurns : turn.edits \in SUBSET Paths
    BY TurnsAssumption
<1>1. ASSUME NEW turn \in BuilderTurns, BuilderTurn(turn)
      PROVE  BuildTypeOK'
    <2>1. ~AllRun /\ Dispatched \in WPs
        BY <1>1, DispatchedType DEF BuilderTurn, NextWorker
    <2>2. builder_outputs' \in Seq(WPs)
        BY <1>1, <2>1 DEF BuilderTurn, BuildTypeOK
    <2>3. discrepancies' \subseteq BlockingKinds \cup {"undeclared_edits"}
        <3>1. Reconciled(turn.status, turn.claimed, GroundTruth(turn.edits))
                  \subseteq BlockingKinds \cup {"undeclared_edits"}
            BY DEF Reconciled, BlockingKinds
        <3> QED BY <1>1, <3>1 DEF BuilderTurn, BuildTypeOK
    <2>4. /\ depends_on' = depends_on /\ patches' \subseteq Paths /\ turns' \in 0 .. TURNS
          /\ changed' \subseteq Paths /\ lost' \subseteq Paths
        BY <1>0, <1>1, TurnMarksTypes, TurnLeavesPaths DEF BuilderTurn
    <2>5. UNCHANGED <<tester_outputs, new_findings, new_coverage>>
        BY <1>1 DEF BuilderTurn
    <2> QED BY <2>2, <2>3, <2>4, <2>5 DEF BuildTypeOK
<1>2. ASSUME NEW turn \in TesterTurns, TesterTurn(turn, code + 1)
      PROVE  BuildTypeOK'
    <2>1. ~AllRun /\ Dispatched \in WPs
        BY <1>2, DispatchedType DEF TesterTurn, NextWorker
    <2>2. tester_outputs' \in Seq(WPs)
        BY <1>2, <2>1 DEF TesterTurn, BuildTypeOK
    <2>3. new_findings' \in Seq(TesterFindings)
        <3>1. CASE turn.answer \in {"test", "infeasible"}
            <4> DEFINE finding == [wp |-> Dispatched, kind |-> turn.answer, gen |-> code + 1]
            <4>1. new_findings' = Append(new_findings, finding)
                BY <1>2, <3>1 DEF TesterTurn
            <4>2. finding \in TesterFindings
                BY <2>1, <3>1 DEF TesterFindings
            <4>3. new_findings \in Seq(TesterFindings)
                BY DEF BuildTypeOK
            <4> HIDE DEF finding
            <4> QED BY <4>1, <4>2, <4>3
        <3>2. CASE turn.answer \notin {"test", "infeasible"}
            BY <1>2, <3>2 DEF TesterTurn, BuildTypeOK
        <3> QED BY <3>1, <3>2
    <2>4. new_coverage' \in BOOLEAN
        BY <1>2 DEF TesterTurn
    <2>5. discrepancies' \subseteq BlockingKinds \cup {"undeclared_edits"}
        BY <1>2 DEF TesterTurn, BuildTypeOK, BlockingKinds
    <2>6. /\ depends_on' = depends_on /\ patches' \subseteq Paths /\ turns' \in 0 .. TURNS
          /\ changed' \subseteq Paths /\ lost' \subseteq Paths
        BY <1>0, <1>2, TurnMarksTypes, TurnLeavesPaths DEF TesterTurn
    <2>7. UNCHANGED builder_outputs
        BY <1>2 DEF TesterTurn
    <2> QED BY <2>2, <2>3, <2>4, <2>5, <2>6, <2>7 DEF BuildTypeOK
<1>3. ASSUME NEW turn \in RaisedTurns, RaisedTurn(turn)
      PROVE  BuildTypeOK'
    <2>1. /\ depends_on' = depends_on /\ patches' \subseteq Paths /\ turns' \in 0 .. TURNS
          /\ changed' \subseteq Paths /\ lost' \subseteq Paths
        BY <1>0, <1>3, TurnMarksTypes DEF RaisedTurn
    <2> QED BY <1>3, <2>1 DEF RaisedTurn, BuildTypeOK
<1> QED BY <1>1, <1>2, <1>3 DEF BuildStep

LEMMA ForgottenTypes ==
    ASSUME BuildTypeOK, ForgetRecords, UNCHANGED depends_on,
           changed' \subseteq Paths, lost' \subseteq Paths
    PROVE  BuildTypeOK'
<1>1. /\ builder_outputs' \in Seq(WPs) /\ tester_outputs' \in Seq(WPs)
      /\ new_findings' \in Seq(TesterFindings)
    BY DEF ForgetRecords
<1>2. turns' \in 0 .. TURNS
    BY SpecAssumption DEF ForgetRecords
<1> QED BY <1>1, <1>2 DEF BuildTypeOK, ForgetRecords

LEMMA BuildTypes ==
    BuildTypeOK /\ CheckoutTypeOK /\ InTurn /\ code \in Nat /\ [Next]_vars => BuildTypeOK'
<1> SUFFICES ASSUME BuildTypeOK, CheckoutTypeOK, InTurn, code \in Nat, [Next]_vars
             PROVE  BuildTypeOK'
    OBVIOUS
<1>1. CASE UNCHANGED buildVars
    BY <1>1 DEF buildVars, recordVars, BuildTypeOK
<1>2. CASE BuildStep
    BY <1>2, BuildTurnTypes
<1>3. CASE AttemptDiscarded
    BY <1>3, ForgottenTypes DEF AttemptDiscarded, BuildTypeOK
<1>4. CASE StageAccounted
    BY <1>4, ForgottenTypes DEF StageAccounted
<1> QED BY <1>1, <1>2, <1>3, <1>4 DEF Next, ActivitySteps, vars, SetupWorker,
        SetupAttemptFails, Hydrate, BuildReturns, VerifyStep, VerifyPassed, VerifyEscalated,
        VerifyFailed, VerifyReturns, FixerStage, StageAttemptFails, AttemptLost, WorkerDies,
        Teardown

(* What the stages return to the workflow.                                 *)
LEMMA DropsOld ==
    ASSUME NEW E, NEW s \in Seq(E), NEW t \in Seq(E)
    PROVE  DropStale(s \o t, Len(s)) = t
<1> DEFINE u == s \o t
           d == SubSeq(u, Len(s) + 1, Len(u))
<1>1. /\ u \in Seq(E) /\ Len(u) = Len(s) + Len(t)
      /\ Len(s) \in Nat /\ Len(t) \in Nat
      /\ DOMAIN t = 1 .. Len(t)
      /\ \A i \in DOMAIN t : u[Len(s) + i] = t[i]
    BY Joined
<1> HIDE DEF u
<1>2. d \in Seq(E) /\ Len(d) = Len(t)
    BY <1>1
<1>3. \A i \in 1 .. Len(t) : d[i] = t[i]
    <2> SUFFICES ASSUME NEW i \in 1 .. Len(t) PROVE d[i] = t[i]
        OBVIOUS
    <2>1. d[i] = u[(Len(s) + 1) + i - 1]
        BY <1>1
    <2>2. (Len(s) + 1) + i - 1 = Len(s) + i
        BY <1>1
    <2> QED BY <1>1, <2>1, <2>2
<1> HIDE DEF d
<1>4. d = t
    BY <1>1, <1>2, <1>3
<1> QED BY <1>4 DEF DropStale, d, u

LEMMA DropsAll ==
    ASSUME NEW E, NEW s \in Seq(E)
    PROVE  DropStale(s, Len(s)) = <<>>
<1>1. Len(s) \in Nat /\ Len(s) + 1 > Len(s)
    OBVIOUS
<1> QED BY <1>1 DEF DropStale

LEMMA OneEntry ==
    ASSUME NEW E, NEW e \in E
    PROVE  <<e>> \in Seq(E)
OBVIOUS

LEMMA EntriesJoined ==
    ASSUME NEW E, NEW s \in Seq(E), NEW t \in Seq(E), NEW a \in BOOLEAN, NEW b \in BOOLEAN
    PROVE  (IF a THEN s ELSE <<>>) \o (IF b THEN t ELSE <<>>) \in Seq(E)
<1> DEFINE first == IF a THEN s ELSE <<>>
           second == IF b THEN t ELSE <<>>
<1>1. <<>> \in Seq(E)
    OBVIOUS
<1>2. first \in Seq(E)
    BY <1>1, Zenon
<1>3. second \in Seq(E)
    BY <1>1, Zenon
<1> HIDE DEF first, second
<1>4. first \o second \in Seq(E)
    BY <1>2, <1>3
<1> QED BY <1>4 DEF first, second

LEMMA DiscrepancyTypes ==
    ASSUME NEW turn, NEW target \in WPs, code \in Nat
    PROVE  FixerDiscrepancies(turn, target) \in Seq(ReconciliationFindings)
<1> DEFINE blocks == [wp |-> target, blocking |-> TRUE, gen |-> code + 1]
           warns == [wp |-> target, blocking |-> FALSE, gen |-> code + 1]
           actual == GroundTruth(turn.edits)
           claims == IF turn.decision = "none" THEN {} ELSE turn.claimed
           a == turn.decision = "none" \/ claims \ actual # {}
           b == actual \ claims # {}
           joined == (IF a THEN <<blocks>> ELSE <<>>) \o (IF b THEN <<warns>> ELSE <<>>)
<1>1. blocks \in ReconciliationFindings /\ warns \in ReconciliationFindings
    BY DEF ReconciliationFindings
<1>2. FixerDiscrepancies(turn, target) = IF ~repo THEN <<>> ELSE joined
    BY DEF FixerDiscrepancies
<1>3. a \in BOOLEAN /\ b \in BOOLEAN
    OBVIOUS
<1>4. <<>> \in Seq(ReconciliationFindings)
    OBVIOUS
<1> HIDE DEF blocks, warns, a, b
<1>5. <<blocks>> \in Seq(ReconciliationFindings) /\ <<warns>> \in Seq(ReconciliationFindings)
    BY <1>1, OneEntry
<1>6. joined \in Seq(ReconciliationFindings)
    BY <1>3, <1>5, EntriesJoined
<1> HIDE DEF joined
<1> QED BY <1>2, <1>4, <1>6, Zenon

LEMMA CountersType ==
    ASSUME NEW S, NEW attempts \in [S -> 0 .. FIXER_MAX_ATTEMPTS], NEW targets,
           ~Exhausted(attempts, targets)
    PROVE  Bump(attempts, targets) \in [S -> 0 .. FIXER_MAX_ATTEMPTS]
<1>1. \A t \in S : t \in targets => attempts[t] + 1 \in 0 .. FIXER_MAX_ATTEMPTS
    BY BudgetAssumption DEF Exhausted
<1> QED BY <1>1 DEF Bump

LEMMA RunTypes ==
    ASSUME RunTypeOK, BuildTypeOK, VerifyTypeOK, [Next]_vars
    PROVE  RunTypeOK'
<1> USE DEF Stage
<1>0. 1 \in 1 .. STAGE_ATTEMPTS
    BY WorkerRunAssumption
<1>1. CASE UNCHANGED <<runVars, stateVars, build_blocking>>
    BY <1>1 DEF RunTypeOK, runVars, stateVars, findingVars, attemptVars
<1>2. CASE SetupWorker \/ Hydrate
    BY <1>0, <1>2 DEF SetupWorker, Hydrate, GoesOn, RunTypeOK, stateVars, findingVars,
        attemptVars
<1>3. CASE BuildReturns
    <2>1. tester_findings' \in Seq(TesterFindings)
        BY <1>3 DEF BuildReturns, BuildMerge, RunTypeOK, BuildTypeOK
    <2>2. current_slice' \in WPs
        <3>1. /\ build_order \in Seq(Slices) /\ Len(build_order) \in Nat \ {0}
              /\ DOMAIN build_order = 1 .. Len(build_order)
            BY OrderSorted
        <3>2. build_order[Len(build_order)] \in Slices
            <4> HIDE DEF build_order
            <4> QED BY <3>1
        <3> QED BY <1>3, <3>2, SlicesFinite DEF BuildReturns, Last
    <2>3. code' \in Nat /\ verified' \subseteq 0 .. code'
        BY <1>3 DEF BuildReturns, RunTypeOK
    <2>4. build_blocking' \in BOOLEAN
        BY <1>3 DEF BuildReturns
    <2> QED BY <1>0, <1>3, <2>1, <2>2, <2>3, <2>4 DEF BuildReturns, GoesOn, RunTypeOK,
            attemptVars
<1>4. ASSUME VerifyReturns
      PROVE  /\ verify_summary' \in [passed : BOOLEAN, reported : SUBSET Items]
             /\ code' \in Nat /\ verified' \subseteq 0 .. code'
             /\ UNCHANGED <<findingVars, build_blocking>>
    <2>1. found.passed \in BOOLEAN /\ found.reported \in SUBSET Items
        BY DEF VerifyTypeOK
    <2> QED BY <1>4, <2>1 DEF VerifyReturns, RunTypeOK
<1>5. CASE VerifyPassed \/ VerifyEscalated
    BY <1>0, <1>4, <1>5 DEF VerifyPassed, VerifyEscalated, Leave, RunTypeOK, findingVars,
        attemptVars
<1>6. CASE VerifyFailed
    <2>1. /\ fixer_attempts_by_wp' \in [WPs -> 0 .. FIXER_MAX_ATTEMPTS]
          /\ fixer_attempts_by_predicate' \in [Predicates -> 0 .. FIXER_MAX_ATTEMPTS]
        BY <1>6, CountersType DEF VerifyFailed, BudgetSpent, RunTypeOK
    <2> QED BY <1>0, <1>4, <1>6, <2>1 DEF VerifyFailed, GoesOn, RunTypeOK, findingVars
<1>7. ASSUME NEW turn \in FixerTurns, NEW target \in WPs, FixerStage(turn, target)
      PROVE  RunTypeOK'
    <2>1. tester_findings' \in Seq(TesterFindings)
        <3>1. tester_findings' = <<>>
            BY <1>7, DropsAll DEF FixerStage, RunTypeOK
        <3> QED BY <3>1
    <2>2. reconciliation_findings' \in Seq(ReconciliationFindings)
        <3>1. FixerDiscrepancies(turn, target) \in Seq(ReconciliationFindings)
            BY DiscrepancyTypes DEF RunTypeOK
        <3>2. reconciliation_findings \in Seq(ReconciliationFindings)
            BY DEF RunTypeOK
        <3>3. reconciliation_findings' = FixerDiscrepancies(turn, target)
            BY <1>7, <3>1, <3>2, DropsOld DEF FixerStage
        <3> QED BY <3>1, <3>3
    <2>3. code' \in Nat /\ verified' \subseteq 0 .. code'
        BY <1>7 DEF FixerStage, RunTypeOK
    <2>4. /\ pc' \in Stage \cup {"setup", "hydrate", "teardown", "closed"}
          /\ attempt' \in 1 .. STAGE_ATTEMPTS
          /\ status' \in {"running", "passed", "needs_human", "failed"}
        BY <1>0, <1>7 DEF FixerStage, GoesOn, Leave, RunTypeOK
    <2> QED BY <1>7, <2>1, <2>2, <2>3, <2>4 DEF FixerStage, RunTypeOK, attemptVars
<1>8. CASE AttemptLost
    <2>1. /\ pc' \in Stage \cup {"setup", "hydrate", "teardown", "closed"}
          /\ attempt' \in 1 .. STAGE_ATTEMPTS
          /\ status' \in {"running", "passed", "needs_human", "failed"}
        BY <1>0, <1>8, WorkerRunAssumption DEF AttemptLost, Leave, RunTypeOK
    <2> QED BY <1>8, <2>1 DEF AttemptLost, RunTypeOK, stateVars, findingVars, attemptVars
<1>9. CASE Teardown
    BY <1>9 DEF Teardown, RunTypeOK, stateVars, findingVars, attemptVars
<1> QED BY <1>1, <1>2, <1>3, <1>5, <1>6, <1>7, <1>8, <1>9 DEF Next, ActivitySteps, vars,
        SetupAttemptFails, BuildStep, VerifyStep, StageAttemptFails, WorkerDies

-----------------------------------------------------------------------------
(* The stages against RepairState.                                         *)

BlockingOnes == [wp : WPs, blocking : {TRUE}, gen : Nat]

(* What a sequence of at most two keeps of its elements.                   *)
LEMMA AmongShort ==
    ASSUME NEW E, NEW S, NEW e \in E, NEW f \in E, e \in S, f \notin S
    PROVE  /\ Among(<<>>, S) = <<>>
           /\ Among(<<e>>, S) = <<e>>
           /\ Among(<<f>>, S) = <<>>
           /\ Among(<<e, f>>, S) = <<e>>
<1>1. ASSUME NEW s \in Seq(E)
      PROVE  /\ Kept(s, S)[0] = <<>>
             /\ \A n \in 1 .. Len(s) :
                   Kept(s, S)[n] =
                       IF s[n] \in S THEN Append(Kept(s, S)[n - 1], s[n])
                       ELSE Kept(s, S)[n - 1]
             /\ Among(s, S) = Kept(s, S)[Len(s)]
    <2> DEFINE kept == Kept(s, S)
    <2>1. kept = [n \in 0 .. Len(s) |->
              IF n = 0 THEN <<>>
              ELSE IF s[n] \in S THEN Append(kept[n - 1], s[n])
              ELSE kept[n - 1]]
        BY KeptDefined
    <2>2. 0 \in 0 .. Len(s) /\ \A n \in 1 .. Len(s) : n \in 0 .. Len(s) /\ n # 0
        OBVIOUS
    <2>3. Among(s, S) = kept[Len(s)]
        BY KeptDefined
    <2> HIDE DEF kept
    <2>4. /\ kept[0] = <<>>
          /\ \A n \in 1 .. Len(s) :
                kept[n] = IF s[n] \in S THEN Append(kept[n - 1], s[n]) ELSE kept[n - 1]
        BY <2>1, <2>2
    <2> QED BY <2>3, <2>4 DEF kept
<1>2. Among(<<>>, S) = <<>>
    <2>1. <<>> \in Seq(E) /\ Len(<<>>) = 0
        OBVIOUS
    <2> QED BY <1>1, <2>1
<1>3. ASSUME NEW x \in E
      PROVE  Among(<<x>>, S) = IF x \in S THEN <<x>> ELSE <<>>
    <2> DEFINE s == <<x>>
    <2>1. s \in Seq(E) /\ Len(s) = 1 /\ s[1] = x /\ 1 \in 1 .. Len(s) /\ 1 - 1 = 0
          /\ Append(<<>>, x) = s
        OBVIOUS
    <2> HIDE DEF s
    <2>2. Kept(s, S)[0] = <<>> /\ Among(s, S) = Kept(s, S)[1]
        BY <1>1, <2>1
    <2>3. Kept(s, S)[1] = IF x \in S THEN Append(Kept(s, S)[0], x) ELSE Kept(s, S)[0]
        BY <1>1, <2>1
    <2> QED BY <2>1, <2>2, <2>3 DEF s
<1>4. Among(<<e, f>>, S) = <<e>>
    <2> DEFINE s == <<e, f>>
    <2>1. /\ s \in Seq(E) /\ Len(s) = 2 /\ s[1] = e /\ s[2] = f
          /\ 1 \in 1 .. Len(s) /\ 2 \in 1 .. Len(s) /\ 1 - 1 = 0 /\ 2 - 1 = 1
          /\ Append(<<>>, e) = <<e>>
        OBVIOUS
    <2> HIDE DEF s
    <2>2. Kept(s, S)[1] = <<e>>
        BY <1>1, <2>1
    <2>3. Among(s, S) = Kept(s, S)[1]
        BY <1>1, <2>1
    <2> QED BY <2>2, <2>3 DEF s
<1> QED BY <1>2, <1>3, <1>4

(* The discrepancies that block are those the verdict and the budget read. *)
LEMMA BlockingRead ==
    ASSUME RunTypeOK
    PROVE  /\ blocking_findings \in Seq(ReconciliationFindings)
           /\ Blocking(blocking_findings) = {} <=> Blocking(reconciliation_findings) = {}
           /\ \A reported : NamedWPs(reported, tester_findings, blocking_findings)
                  = NamedWPs(reported, tester_findings, reconciliation_findings)
<1> DEFINE s == reconciliation_findings
           t == blocking_findings
<1>1. s \in Seq(ReconciliationFindings)
    BY DEF RunTypeOK
<1>2. t \in Seq(ReconciliationFindings) /\ ToSet(t) = ToSet(s) \cap BlockingOnes
    BY <1>1, AmongHas DEF blocking_findings, BlockingOnes
<1>3. \A i \in DOMAIN s : s[i] \in BlockingOnes <=> s[i].blocking
    <2>1. \A i \in DOMAIN s : s[i] \in ReconciliationFindings
        BY <1>1
    <2> QED BY <2>1 DEF ReconciliationFindings, BlockingOnes
<1> HIDE DEF t
<1>4. \A f : (\E i \in Blocking(t) : t[i] = f) <=> (\E i \in Blocking(s) : s[i] = f)
    <2>1. \A i \in DOMAIN t : t[i].blocking /\ \E j \in DOMAIN s : s[j] = t[i] /\ s[j].blocking
        <3> SUFFICES ASSUME NEW i \in DOMAIN t
                     PROVE  t[i].blocking /\ \E j \in DOMAIN s : s[j] = t[i] /\ s[j].blocking
            OBVIOUS
        <3>1. t[i] \in ToSet(t)
            BY DEF ToSet
        <3>2. PICK j \in DOMAIN s : s[j] = t[i] /\ s[j] \in BlockingOnes
            BY <1>2, <3>1 DEF ToSet
        <3> QED BY <1>3, <3>2
    <2>2. \A j \in DOMAIN s : s[j].blocking => \E i \in DOMAIN t : t[i] = s[j]
        <3> SUFFICES ASSUME NEW j \in DOMAIN s, s[j].blocking
                     PROVE  \E i \in DOMAIN t : t[i] = s[j]
            OBVIOUS
        <3>1. s[j] \in ToSet(t)
            BY <1>2, <1>3 DEF ToSet
        <3> QED BY <3>1 DEF ToSet
    <2> QED BY <2>1, <2>2 DEF Blocking
<1> HIDE DEF s
<1>5. Blocking(t) = {} <=> Blocking(s) = {}
    BY <1>4
<1>6. {t[i].wp : i \in Blocking(t)} = {s[i].wp : i \in Blocking(s)}
    BY <1>4
<1> QED BY <1>2, <1>5, <1>6 DEF NamedWPs, s, t

(* At most one entry followed by at most one.                              *)
LEMMA ShortJoins ==
    ASSUME NEW E, NEW e \in E, NEW f \in E
    PROVE  /\ <<>> \o <<>> = <<>> /\ <<e>> \o <<>> = <<e>>
           /\ <<>> \o <<f>> = <<f>> /\ <<e>> \o <<f>> = <<e, f>>
<1>1. <<>> \o <<>> = <<>>
    OBVIOUS
<1>2. <<e>> \o <<>> = <<e>>
    OBVIOUS
<1>3. <<>> \o <<f>> = <<f>>
    OBVIOUS
<1>4. <<e>> \o <<f>> = <<e, f>>
    <2> DEFINE s == <<e>> \o <<f>>
               t == <<e, f>>
    <2>1. s \in Seq(E) /\ Len(s) = 2 /\ s[1] = e /\ s[2] = f
        OBVIOUS
    <2>2. t \in Seq(E) /\ Len(t) = 2 /\ t[1] = e /\ t[2] = f
        OBVIOUS
    <2> HIDE DEF s, t
    <2>3. \A i \in 1 .. Len(t) : s[i] = t[i]
        BY <2>1, <2>2
    <2>4. s = t
        BY <2>1, <2>2, <2>3
    <2> QED BY <2>4 DEF s, t
<1> QED BY <1>1, <1>2, <1>3, <1>4

(* What a Fixer's reconciliation leaves that blocks.                       *)
LEMMA FixerBlocks ==
    ASSUME NEW turn, NEW target \in WPs, code \in Nat
    PROVE  \E result \in RS!FixerResults :
              /\ result.target = target
              /\ Among(FixerDiscrepancies(turn, target), BlockingOnes)
                     = RS!NewDiscrepancies(result, code + 1)
<1> DEFINE blocks == [wp |-> target, blocking |-> TRUE, gen |-> code + 1]
           warns == [wp |-> target, blocking |-> FALSE, gen |-> code + 1]
           actual == GroundTruth(turn.edits)
           claims == IF turn.decision = "none" THEN {} ELSE turn.claimed
           a == turn.decision = "none" \/ claims \ actual # {}
           b == actual \ claims # {}
           joined == (IF a THEN <<blocks>> ELSE <<>>) \o (IF b THEN <<warns>> ELSE <<>>)
           found_blocking == repo /\ a
           result == [decision |-> "fixed", target |-> target,
                      discrepancy |-> IF found_blocking THEN "blocking" ELSE "none"]
<1>1. /\ blocks \in ReconciliationFindings /\ warns \in ReconciliationFindings
      /\ blocks \in BlockingOnes /\ warns \notin BlockingOnes
    BY DEF ReconciliationFindings, BlockingOnes
<1>2. FixerDiscrepancies(turn, target) = IF ~repo THEN <<>> ELSE joined
    BY DEF FixerDiscrepancies
<1>3. /\ result \in RS!FixerResults /\ result.target = target
      /\ RS!NewDiscrepancies(result, code + 1) = IF found_blocking THEN <<blocks>> ELSE <<>>
    BY DEF RS!FixerResults, RS!NewDiscrepancies
<1> HIDE DEF blocks, warns, a, b, result
<1>4. joined = IF a THEN IF b THEN <<blocks, warns>> ELSE <<blocks>>
               ELSE IF b THEN <<warns>> ELSE <<>>
    <2>1. /\ <<>> \o <<>> = <<>> /\ <<blocks>> \o <<>> = <<blocks>>
          /\ <<>> \o <<warns>> = <<warns>> /\ <<blocks>> \o <<warns>> = <<blocks, warns>>
        BY <1>1, ShortJoins, Zenon
    <2>2. CASE a /\ b
        BY <2>1, <2>2, Zenon
    <2>3. CASE a /\ ~b
        BY <2>1, <2>3, Zenon
    <2>4. CASE ~a /\ b
        BY <2>1, <2>4, Zenon
    <2>5. CASE ~a /\ ~b
        BY <2>1, <2>5, Zenon
    <2> QED BY <2>2, <2>3, <2>4, <2>5, Zenon
<1> HIDE DEF joined
<1>5. Among(FixerDiscrepancies(turn, target), BlockingOnes)
          = IF found_blocking THEN <<blocks>> ELSE <<>>
    <2>1. /\ Among(<<>>, BlockingOnes) = <<>>
          /\ Among(<<blocks>>, BlockingOnes) = <<blocks>>
          /\ Among(<<warns>>, BlockingOnes) = <<>>
          /\ Among(<<blocks, warns>>, BlockingOnes) = <<blocks>>
        BY <1>1, AmongShort
    <2> QED BY <1>2, <1>4, <2>1
<1> QED BY <1>3, <1>5

(* The Testers' findings of an attempt are those of one build.             *)
OneBuild == code \in Nat /\ new_findings \in RS!NewTesterFindings(code + 1)

(* One finding more is still one build's, within the bound.                *)
LEMMA OneFindingMore ==
    ASSUME NEW gen \in Nat, NEW new \in RS!NewTesterFindings(gen),
           Len(new) < FINDINGS,
           NEW t \in [wp : WPs, kind : {"test", "infeasible"}]
    PROVE  Append(new, [wp |-> t.wp, kind |-> t.kind, gen |-> gen])
               \in RS!NewTesterFindings(gen)
<1> DEFINE ones == {[wp |-> u.wp, kind |-> u.kind, gen |-> gen] :
                       u \in [wp : WPs, kind : {"test", "infeasible"}]}
           finding == [wp |-> t.wp, kind |-> t.kind, gen |-> gen]
<1>1. finding \in ones
    OBVIOUS
<1>2. RS!NewTesterFindings(gen) = UNION {[1 .. n -> ones] : n \in 0 .. FINDINGS}
    BY DEF RS!NewTesterFindings
<1>3. PICK n \in 0 .. FINDINGS : new \in [1 .. n -> ones]
    BY <1>2
<1> HIDE DEF ones, finding
<1>4. n \in Nat /\ n < FINDINGS /\ Len(new) = n /\ new \in Seq(ones)
    BY <1>3, FindingsAssumption
<1>5. n + 1 \in 0 .. FINDINGS /\ Append(new, finding) \in [1 .. n + 1 -> ones]
    <2>1. n + 1 \in 0 .. FINDINGS
        BY <1>4, FindingsAssumption
    <2>2. Append(new, finding) \in Seq(ones) /\ Len(Append(new, finding)) = n + 1
        BY <1>1, <1>4
    <2>3. Append(new, finding) \in [1 .. Len(Append(new, finding)) -> ones]
        BY <2>2, LenProperties
    <2> QED BY <2>1, <2>2, <2>3
<1>6. Append(new, finding) \in RS!NewTesterFindings(gen)
    BY <1>2, <1>5
<1> QED BY <1>6 DEF finding

(* A build that has ones nothing is one build's.                          *)
LEMMA NothingFound ==
    ASSUME NEW gen \in Nat
    PROVE  <<>> \in RS!NewTesterFindings(gen)
<1> DEFINE ones == {[wp |-> u.wp, kind |-> u.kind, gen |-> gen] :
                       u \in [wp : WPs, kind : {"test", "infeasible"}]}
<1>1. RS!NewTesterFindings(gen) = UNION {[1 .. n -> ones] : n \in 0 .. FINDINGS}
    BY DEF RS!NewTesterFindings
<1> HIDE DEF ones
<1>2. 0 \in 0 .. FINDINGS /\ <<>> \in [1 .. 0 -> ones]
    BY FindingsAssumption
<1> QED BY <1>1, <1>2

LEMMA OneBuildStep == OneBuild /\ InTurn /\ [Next]_vars => OneBuild'
<1> SUFFICES ASSUME OneBuild, InTurn, [Next]_vars PROVE OneBuild'
    OBVIOUS
<1> USE DEF OneBuild
<1>1. CASE UNCHANGED <<code, new_findings>>
    BY <1>1
<1>2. CASE ForgetRecords /\ code' \in {code, code + 1}
    <2>1. new_findings' = <<>> /\ code' \in Nat
        BY <1>2 DEF ForgetRecords
    <2> QED BY <2>1, NothingFound
<1>3. ASSUME NEW turn \in TesterTurns, TesterTurn(turn, code + 1), UNCHANGED code
      PROVE  OneBuild'
    <2>1. Dispatched \in WPs
        BY <1>3, DispatchedType DEF TesterTurn, NextWorker
    <2>2. CASE turn.answer \in {"test", "infeasible"}
        <3> DEFINE t == [wp |-> Dispatched, kind |-> turn.answer]
        <3>1. /\ Len(new_findings) < FINDINGS
              /\ new_findings' = Append(new_findings,
                    [wp |-> Dispatched, kind |-> turn.answer, gen |-> code + 1])
            BY <1>3, <2>2 DEF TesterTurn
        <3>2. /\ t \in [wp : WPs, kind : {"test", "infeasible"}]
              /\ t.wp = Dispatched /\ t.kind = turn.answer
            BY <2>1, <2>2
        <3> HIDE DEF t
        <3>3. new_findings' = Append(new_findings,
                    [wp |-> t.wp, kind |-> t.kind, gen |-> code + 1])
            BY <3>1, <3>2
        <3> QED BY <1>3, <3>1, <3>2, <3>3, OneFindingMore
    <2>3. CASE turn.answer \notin {"test", "infeasible"}
        BY <1>3, <2>3 DEF TesterTurn
    <2> QED BY <2>2, <2>3
<1>4. CASE BuildStep
    <2>1. UNCHANGED code
        BY <1>4 DEF BuildStep, stateVars
    <2>2. CASE \E turn \in TesterTurns : TesterTurn(turn, code + 1)
        BY <1>3, <2>1, <2>2
    <2>3. CASE \/ \E turn \in BuilderTurns : BuilderTurn(turn)
               \/ \E turn \in RaisedTurns : RaisedTurn(turn)
        BY <1>1, <2>1, <2>3 DEF BuilderTurn, RaisedTurn
    <2> QED BY <1>4, <2>2, <2>3 DEF BuildStep
<1> HIDE DEF OneBuild
<1>5. CASE BuildReturns \/ \E turn \in FixerTurns, target \in WPs : FixerStage(turn, target)
    BY <1>2, <1>5 DEF BuildReturns, FixerStage, StageAccounted
<1>6. CASE AttemptLost
    BY <1>2, <1>6 DEF AttemptLost, AttemptDiscarded, stateVars
<1>7. CASE Teardown \/ SetupWorker \/ SetupAttemptFails \/ Hydrate \/ VerifyStep \/ UNCHANGED vars
    BY <1>1, <1>7 DEF Teardown, SetupWorker, SetupAttemptFails, Hydrate, VerifyStep, vars,
        stateVars, buildVars, recordVars
<1>8. CASE VerifyPassed \/ VerifyEscalated \/ VerifyFailed
    BY <1>1, <1>8 DEF VerifyPassed, VerifyEscalated, VerifyFailed, VerifyReturns, buildVars,
        recordVars
<1> QED BY <1>1, <1>4, <1>5, <1>6, <1>7, <1>8 DEF Next, ActivitySteps, StageAttemptFails,
        WorkerDies, stateVars, buildVars, recordVars

(* Nothing is dropped of a channel without findings of before.             *)
LEMMA DropsNone ==
    ASSUME NEW E, NEW s \in Seq(E)
    PROVE  DropStale(s, 0) = s
<1>1. <<>> \in Seq(E) /\ <<>> \o s = s /\ Len(<<>>) = 0
    OBVIOUS
<1>2. DropStale(<<>> \o s, Len(<<>>)) = s
    BY <1>1, DropsOld
<1> QED BY <1>1, <1>2

(* A build_stage that returns.                                             *)
LEMMA BuildIsOneResult ==
    ASSUME RunTypeOK, RunTypeOK', OneBuild, BuildReturns
    PROVE  RS!BuildResult(0, 0)
<1>1. /\ new_findings \in RS!NewTesterFindings(code + 1) /\ current_slice' \in WPs
      /\ code' = code + 1
      /\ UNCHANGED <<verify_summary, fixer_attempts_by_wp, fixer_attempts_by_predicate, verified>>
    BY DEF OneBuild, RunTypeOK, BuildReturns, attemptVars
<1>2. tester_findings' = RS!DropStale(RS!BuildMerge(tester_findings, new_findings), 0)
    <2>1. tester_findings' = BuildMerge(tester_findings, new_findings)
        BY DEF BuildReturns
    <2>2. DropStale(tester_findings', 0) = tester_findings'
        BY DropsNone DEF RunTypeOK
    <2> QED BY <2>1, <2>2 DEF RS!DropStale, RS!BuildMerge, DropStale, BuildMerge
<1>3. blocking_findings' = RS!DropStale(blocking_findings, 0)
    <2>1. blocking_findings' = blocking_findings
        BY DEF BuildReturns, blocking_findings
    <2>2. DropStale(blocking_findings, 0) = blocking_findings
        BY BlockingRead, DropsNone
    <2> QED BY <2>1, <2>2 DEF RS!DropStale, DropStale
<1> QED BY <1>1, <1>2, <1>3 DEF RS!BuildResult, RS!attemptVars

(* A verify_stage that returns, and what a failure charges.                *)
LEMMA VerifyIsOneResult ==
    ASSUME RunTypeOK, VerdictInv, VerifyPassed \/ VerifyEscalated \/ VerifyFailed
    PROVE  \E report \in Reports :
              /\ RS!VerifyResult(report)
              /\ UNCHANGED attemptVars \/ RS!RecordFixerAttempt(report.reported)
<1> DEFINE report == [clean |-> Clean, reported |-> found.reported,
                      uncovered |-> found.uncovered]
<1>0. VerifyReturns /\ node = "end"
    BY DEF VerifyPassed, VerifyEscalated, VerifyFailed, VerifyReturns, VerifyStageReturns
<1>1. report \in Reports
    <2>1. found.reported \in SUBSET Items /\ found.uncovered \in BOOLEAN
        BY DEF VerdictInv, VerifyTypeOK
    <2> QED BY <2>1 DEF Clean, Reports
<1>2. /\ report.clean = Clean /\ report.reported = found.reported
      /\ report.uncovered = found.uncovered
    OBVIOUS
<1> HIDE DEF report
<1>3. found.passed = RS!Passed(report, tester_findings, blocking_findings)
    <2>1. found.passed = (Clean /\ ~AnyBlocking /\ ~found.uncovered)
        BY <1>0 DEF VerdictInv, NodeKnows
    <2>2. RS!Blocking(blocking_findings) = {} <=> Blocking(reconciliation_findings) = {}
        BY BlockingRead DEF RS!Blocking, Blocking
    <2> QED BY <1>2, <2>1, <2>2 DEF RS!Passed, AnyBlocking
<1>4. UNCHANGED blocking_findings
    BY <1>0 DEF VerifyReturns, findingVars, blocking_findings
<1>5. RS!VerifyResult(report)
    BY <1>0, <1>2, <1>3, <1>4 DEF RS!VerifyResult, RS!findingVars, VerifyReturns, findingVars
<1>6. UNCHANGED attemptVars \/ RS!RecordFixerAttempt(report.reported)
    <2>1. CASE VerifyFailed
        <3>1. Targets = RS!TargetWPs(found.reported, tester_findings, blocking_findings,
                                     current_slice)
            <4>1. RS!NamedWPs(found.reported, tester_findings, blocking_findings)
                      = NamedWPs(found.reported, tester_findings, reconciliation_findings)
                BY BlockingRead DEF RS!NamedWPs, NamedWPs, RS!Blocking, Blocking
            <4> QED BY <4>1 DEF Targets, TargetWPs, RS!TargetWPs
        <3>2. TargetPredicates(found.reported) = RS!TargetPredicates(found.reported)
            BY DEF TargetPredicates, RS!TargetPredicates
        <3> QED BY <1>2, <2>1, <3>1, <3>2 DEF VerifyFailed, RS!RecordFixerAttempt, Bump, RS!Bump
    <2>2. CASE VerifyPassed \/ VerifyEscalated
        BY <2>2 DEF VerifyPassed, VerifyEscalated
    <2> QED BY <2>1, <2>2
<1> QED BY <1>1, <1>5, <1>6

(* A fixer_stage that returns.                                             *)
LEMMA FixerIsOneResult ==
    ASSUME RunTypeOK, NEW turn \in FixerTurns, NEW target \in WPs, FixerStage(turn, target)
    PROVE  \E result \in RS!FixerResults :
              RS!FixerResult(result, Len(tester_findings), Len(blocking_findings))
<1>1. code \in Nat
    BY DEF RunTypeOK
<1>2. PICK result \in RS!FixerResults :
         /\ result.target = target
         /\ Among(FixerDiscrepancies(turn, target), BlockingOnes)
                = RS!NewDiscrepancies(result, code + 1)
    BY <1>1, FixerBlocks
<1> DEFINE new == FixerDiscrepancies(turn, target)
<1>3. reconciliation_findings' = new /\ new \in Seq(ReconciliationFindings)
    BY <1>1, DiscrepancyTypes, DropsOld DEF RunTypeOK, FixerStage
<1> HIDE DEF new
<1>4. /\ blocking_findings' = RS!NewDiscrepancies(result, code + 1)
      /\ blocking_findings' \in Seq(ReconciliationFindings)
    <2>1. blocking_findings' = Among(new, BlockingOnes)
        BY <1>3 DEF blocking_findings, BlockingOnes
    <2> QED BY <1>2, <1>3, <2>1, AmongHas DEF new
<1>5. blocking_findings \in Seq(ReconciliationFindings)
    BY BlockingRead
<1>6. blocking_findings' =
          RS!DropStale(blocking_findings \o RS!NewDiscrepancies(result, code + 1),
                       Len(blocking_findings))
    <2>1. DropStale(blocking_findings \o blocking_findings', Len(blocking_findings))
              = blocking_findings'
        BY <1>4, <1>5, DropsOld
    <2> QED BY <1>4, <2>1 DEF RS!DropStale, DropStale
<1>7. /\ code' = code + 1 /\ current_slice' = result.target
      /\ tester_findings' = RS!DropStale(tester_findings, Len(tester_findings))
      /\ UNCHANGED <<verify_summary, fixer_attempts_by_wp, fixer_attempts_by_predicate, verified>>
    BY <1>2 DEF FixerStage, RS!DropStale, DropStale, attemptVars
<1> QED BY <1>6, <1>7 DEF RS!FixerResult, RS!attemptVars

-----------------------------------------------------------------------------
(* The theorems.                                                           *)

(* The verify subgraph's nodes hand on what they know: with it the state   *)
(* of the subgraph keeps to its type.                                      *)
THEOREM VerdictInvHolds == Spec => []VerdictInv
<1>1. Init => VerdictInv
    BY VerdictStarts
<1>2. VerdictInv /\ [Next]_vars => VerdictInv'
    BY VerdictStep
<1> QED BY <1>1, <1>2, PTL DEF Spec, SafetySpec

(* A failed verdict is counted in verify_retries once, although aggregate  *)
(* and run_semantic_coverage_node may both fail it.                        *)
THEOREM OneRetryPerVerdictHolds == Spec => []OneRetryPerVerdict
<1>1. VerdictInv => OneRetryPerVerdict
    BY DEF VerdictInv
<1> QED BY <1>1, VerdictInvHolds, PTL

(* verify_stage passes if and only if the steps of its own attempt, the    *)
(* predicates and the findings held by the workflow all say so.            *)
THEOREM VerdictIsEvidenceHolds == Spec => VerdictIsEvidence
<1>1. VerdictInv /\ [Next]_vars =>
        [VerifyReturns =>
            (verify_summary'.passed <=>
                /\ StepsConvince
                /\ tester_findings = <<>>
                /\ \A i \in DOMAIN reconciliation_findings :
                      ~reconciliation_findings[i].blocking
                /\ ~found.uncovered)]_vars
    BY EvidenceShown
<1> QED BY <1>1, VerdictInvHolds, PTL DEF Spec, SafetySpec, VerdictIsEvidence

(* A build that returns has a patch for every change of its turns that git *)
(* can show, unless the change was committed by a turn that raised or in   *)
(* an attempt that failed.                                                 *)
THEOREM PatchesAccountForTreeHolds == Spec => []PatchesAccountForTree
<1>1. Init => TreeInv
    BY DEF Init, TreeInv, PatchesAccountForTree
<1>2. TreeInv /\ [Next]_vars => TreeInv'
    BY TreeStep
<1>3. TreeInv => PatchesAccountForTree
    BY DEF TreeInv
<1> QED BY <1>1, <1>2, <1>3, PTL DEF Spec, SafetySpec

(* Whatever a plan's slices depend on, the supervisor builds each once, in *)
(* the order of topo_sort, and has it tested before the next is built.     *)
THEOREM BuildInOrderHolds == Spec => []BuildInOrder
<1>1. Init => InTurn
    BY NoneOutOfTurn DEF Init, NoRecords
<1>2. InTurn /\ [Next]_vars => InTurn'
    BY InTurnStep
<1>3. InTurn => BuildInOrder
    BY InTurnOrdered
<1> QED BY <1>1, <1>2, <1>3, PTL DEF Spec, SafetySpec

(* What all of it rests on: the values of the state, the supervisor's turn *)
(* and what the nodes know.                                                *)
WorkerInv ==
    CheckoutTypeOK /\ BuildTypeOK /\ RunTypeOK /\ InTurn /\ VerdictInv /\ OneBuild

LEMMA WorkerInvHolds == Spec => []WorkerInv
<1>1. Init => WorkerInv
    <2> SUFFICES ASSUME Init PROVE WorkerInv
        OBVIOUS
    <2>1. CheckoutTypeOK
        <3>1. 0 \in 0 .. SETUP_FAILURES
            BY SetupAssumption
        <3> QED BY <3>1 DEF Init, CheckoutInit, CheckoutTypeOK
    <2>2. BuildTypeOK
        <3>1. depends_on \in [WPs -> SUBSET WPs]
            BY WorkerRunAssumption DEF Init
        <3>2. /\ builder_outputs \in Seq(WPs) /\ tester_outputs \in Seq(WPs)
              /\ new_findings \in Seq(TesterFindings)
            BY DEF Init, NoRecords
        <3>3. 0 \in 0 .. TURNS
            BY SpecAssumption
        <3> QED BY <3>1, <3>2, <3>3 DEF Init, NoRecords, BuildTypeOK
    <2>3. RunTypeOK
        <3>1. 1 \in 1 .. STAGE_ATTEMPTS /\ 0 \in 0 .. FIXER_MAX_ATTEMPTS
            BY WorkerRunAssumption, BudgetAssumption
        <3>2. /\ tester_findings \in Seq(TesterFindings)
              /\ reconciliation_findings \in Seq(ReconciliationFindings)
            BY DEF Init
        <3> QED BY <3>1, <3>2, WPsAssumption DEF Init, RunTypeOK
    <2>4. InTurn
        BY NoneOutOfTurn DEF Init, NoRecords
    <2>5. OneBuild
        BY NothingFound DEF Init, NoRecords, OneBuild
    <2> QED BY <2>1, <2>2, <2>3, <2>4, <2>5, VerdictStarts DEF WorkerInv
<1>2. WorkerInv /\ [Next]_vars => WorkerInv'
    <2> SUFFICES ASSUME WorkerInv, [Next]_vars PROVE WorkerInv'
        OBVIOUS
    <2>1. CheckoutTypeOK' /\ InTurn' /\ VerdictInv' /\ OneBuild'
        BY CheckoutTypes, InTurnStep, VerdictStep, OneBuildStep DEF WorkerInv
    <2>2. code \in Nat /\ VerifyTypeOK
        BY DEF WorkerInv, RunTypeOK, VerdictInv
    <2>3. BuildTypeOK' /\ RunTypeOK'
        BY <2>2, BuildTypes, RunTypes DEF WorkerInv
    <2> QED BY <2>1, <2>3 DEF WorkerInv
<1> QED BY <1>1, <1>2, PTL DEF Spec, SafetySpec

(* The state of the worker's run keeps to the values the code can give it: *)
(* among them the budgets, the attempts and the slices sent.               *)
THEOREM WorkerTypeCorrect == Spec => []WorkerTypeOK
<1>1. WorkerInv => WorkerTypeOK
    BY WorkerTypeParts DEF WorkerInv, VerdictInv
<1> QED BY <1>1, WorkerInvHolds, PTL

(* Whatever the attempts, nodes and turns inside build_stage, verify_stage *)
(* and fixer_stage do, what the three return is what RepairState says.     *)
THEOREM StageResultsHold == Spec => StageResults
<1>1. WorkerInv /\ WorkerInv' /\ [Next]_vars =>
         [\/ RS!BuildResult(0, 0)
          \/ \E report \in Reports :
              /\ RS!VerifyResult(report)
              /\ UNCHANGED attemptVars \/ RS!RecordFixerAttempt(report.reported)
          \/ \E result \in RS!FixerResults :
              RS!FixerResult(result, Len(tester_findings), Len(blocking_findings))
         ]_(RS!repairVars)
    <2> SUFFICES ASSUME WorkerInv, WorkerInv', [Next]_vars, ~UNCHANGED RS!repairVars
                 PROVE  \/ RS!BuildResult(0, 0)
                        \/ \E report \in Reports :
                            /\ RS!VerifyResult(report)
                            /\ \/ UNCHANGED attemptVars
                               \/ RS!RecordFixerAttempt(report.reported)
                        \/ \E result \in RS!FixerResults :
                            RS!FixerResult(result, Len(tester_findings),
                                           Len(blocking_findings))
        OBVIOUS
    <2>1. ~UNCHANGED stateVars
        BY DEF stateVars, findingVars, attemptVars, blocking_findings, RS!repairVars,
            RS!findingVars, RS!attemptVars
    <2>2. \/ BuildReturns
          \/ VerifyPassed \/ VerifyEscalated \/ VerifyFailed
          \/ \E turn \in FixerTurns, target \in WPs : FixerStage(turn, target)
        BY <2>1 DEF Next, ActivitySteps, vars, SetupWorker, SetupAttemptFails, Hydrate,
            BuildStep, VerifyStep, StageAttemptFails, AttemptLost, WorkerDies, Teardown
    <2>3. RunTypeOK /\ RunTypeOK' /\ OneBuild /\ VerdictInv
        BY DEF WorkerInv
    <2> QED BY <2>2, <2>3, BuildIsOneResult, VerifyIsOneResult, FixerIsOneResult
<1> QED BY <1>1, WorkerInvHolds, PTL DEF Spec, SafetySpec, StageResults

=============================================================================
