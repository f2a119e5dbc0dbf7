---------------------------- MODULE RepairProofs ----------------------------
(***************************************************************************)
(* Facts about the operators of RepairLoop and about what the activities   *)
(* of RepairState return, for every set of work packages, predicates and   *)
(* reports.  The proofs about both workflows rest on them.                 *)
(***************************************************************************)
EXTENDS RepairState, SequenceTheorems, TLAPS

-----------------------------------------------------------------------------
(* Slicing the first pre entries off a channel leaves findings of the same *)
(* kind (_drop_stale_findings).                                            *)
LEMMA DropStaleType ==
    ASSUME NEW S, NEW s \in Seq(S), NEW pre \in Nat
    PROVE  DropStale(s, pre) \in Seq(S)
<1>1. /\ pre + 1 \in Int
      /\ Len(s) \in Int
    OBVIOUS
<1>2. \A i \in pre + 1 .. Len(s) : s[i] \in S
    OBVIOUS
<1> QED BY <1>1, <1>2, SubSeqProperties DEF DropStale

(* Slicing off all of a channel leaves nothing.                            *)
LEMMA DropAll ==
    ASSUME NEW S, NEW s \in Seq(S)
    PROVE  DropStale(s, Len(s)) = <<>>
<1>1. /\ Len(s) + 1 \in Int
      /\ Len(s) \in Int
      /\ Len(s) < Len(s) + 1
    OBVIOUS
<1> QED BY <1>1, SubSeqEmpty DEF DropStale

(* What a producer appended is what is left when the entries of before it  *)
(* ran are sliced off: every entry left is one of the new ones.            *)
LEMMA DropOld ==
    ASSUME NEW S, NEW s \in Seq(S), NEW t \in Seq(S),
           NEW i \in DOMAIN DropStale(s \o t, Len(s))
    PROVE  i \in DOMAIN t /\ DropStale(s \o t, Len(s))[i] = t[i]
<1> DEFINE u == s \o t
           m == Len(s) + 1
<1>1. /\ u \in Seq(S)
      /\ Len(u) = Len(s) + Len(t)
      /\ \A k \in 1 .. Len(s) + Len(t) :
            u[k] = IF k <= Len(s) THEN s[k] ELSE t[k - Len(s)]
    BY ConcatProperties
<1>2. \A k \in m .. Len(u) : u[k] \in S
    BY <1>1
<1>3. /\ Len(SubSeq(u, m, Len(u))) = IF m <= Len(u) THEN Len(u) - m + 1 ELSE 0
      /\ \A k \in 1 .. Len(u) - m + 1 : SubSeq(u, m, Len(u))[k] = u[m + k - 1]
      /\ SubSeq(u, m, Len(u)) \in Seq(S)
    <2> HIDE DEF u
    <2> QED BY <1>1, <1>2, SubSeqProperties
<1>4. DropStale(s \o t, Len(s)) = SubSeq(u, m, Len(u))
    BY DEF DropStale
<1>5. i \in 1 .. Len(SubSeq(u, m, Len(u)))
    BY <1>3, <1>4
<1>6. i \in 1 .. Len(t)
    BY <1>1, <1>3, <1>5
<1> QED BY <1>1, <1>3, <1>4, <1>6

-----------------------------------------------------------------------------
(* Recording an attempt keeps the counters counters.                       *)
LEMMA BumpType ==
    ASSUME NEW S, NEW attempts \in [S -> Nat], NEW targets
    PROVE  Bump(attempts, targets) \in [S -> Nat]
BY DEF Bump

(* An attempt recorded for targets none of which is exhausted leaves every *)
(* counter within the budget (_fixer_budget_exhaustion comes first).       *)
LEMMA BumpWithinBudget ==
    ASSUME NEW S, NEW attempts \in [S -> Nat], NEW targets,
           \A t \in S : attempts[t] <= FIXER_MAX_ATTEMPTS,
           ~Exhausted(attempts, targets)
    PROVE  \A t \in S : Bump(attempts, targets)[t] <= FIXER_MAX_ATTEMPTS
<1>1. FIXER_MAX_ATTEMPTS \in Nat
    BY BudgetAssumption
<1>2. SUFFICES ASSUME NEW t \in S
               PROVE  Bump(attempts, targets)[t] <= FIXER_MAX_ATTEMPTS
    OBVIOUS
<1>3. CASE t \in targets
    <2>1. attempts[t] < FIXER_MAX_ATTEMPTS
        BY <1>1, <1>3 DEF Exhausted
    <2> QED BY <1>1, <1>3, <2>1 DEF Bump
<1>4. CASE t \notin targets
    BY <1>4 DEF Bump
<1> QED BY <1>3, <1>4

-----------------------------------------------------------------------------
(* The repair state starts well-typed.                                     *)
LEMMA RepairInitType == RepairInit => RepairTypeOK
BY WPsAssumption DEF RepairInit, RepairTypeOK

(* One finding is a channel of findings.                                   *)
LEMMA SingletonSeq ==
    ASSUME NEW S, NEW x \in S
    PROVE  <<x>> \in Seq(S)
OBVIOUS

(* What a build's Testers found can be merged.                             *)
LEMMA NewTesterFindingsType ==
    ASSUME NEW gen \in Nat, NEW new \in NewTesterFindings(gen)
    PROVE  new \in Seq(TesterFindings)
<1> DEFINE found == {[wp |-> t.wp, kind |-> t.kind, gen |-> gen] : t \in TesterReports}
<1>1. found \subseteq TesterFindings
    <2> SUFFICES ASSUME NEW t \in TesterReports
                 PROVE  [wp |-> t.wp, kind |-> t.kind, gen |-> gen] \in TesterFindings
        OBVIOUS
    <2>1. t \in [wp : WPs, kind : {"test", "infeasible"}]
        BY ReportsAssumption
    <2> QED BY <2>1 DEF TesterFindings
<1>2. PICK n \in 0 .. FINDINGS : new \in [1 .. n -> found]
    BY DEF NewTesterFindings
<1> HIDE DEF found
<1>3. n \in Nat /\ new \in [1 .. n -> TesterFindings]
    BY <1>1, <1>2, FindingsAssumption
<1> QED BY <1>3

(* What a fixer_stage finds when it reconciles can be merged.              *)
LEMMA NewDiscrepanciesType ==
    ASSUME NEW gen \in Nat, NEW result \in FixerReports
    PROVE  NewDiscrepancies(result, gen) \in Seq(ReconciliationFindings)
<1>1. CASE result.discrepancy = "none"
    BY <1>1 DEF NewDiscrepancies
<1>2. CASE result.discrepancy # "none"
    <2> DEFINE found == [wp |-> result.target,
                         blocking |-> result.discrepancy = "blocking", gen |-> gen]
    <2>1. found \in ReconciliationFindings
        <3>1. result.target \in WPs
            BY ReportsAssumption DEF FixerResults
        <3>2. (result.discrepancy = "blocking") \in BOOLEAN
            OBVIOUS
        <3> QED BY <3>1, <3>2 DEF ReconciliationFindings
    <2>2. NewDiscrepancies(result, gen) = <<found>>
        BY <1>2 DEF NewDiscrepancies
    <2> HIDE DEF found
    <2> QED BY <2>1, <2>2, SingletonSeq
<1> QED BY <1>1, <1>2

(* What a build returns can be merged, whatever is dropped afterwards.     *)
LEMMA BuildType ==
    ASSUME RepairTypeOK, NEW pre_tester \in Nat, NEW pre_recon \in Nat,
           BuildResult(pre_tester, pre_recon)
    PROVE  RepairTypeOK' /\ code' = code + 1
<1> PICK new \in NewTesterFindings(code + 1), slice \in WPs :
        /\ tester_findings' = DropStale(BuildMerge(tester_findings, new), pre_tester)
        /\ current_slice' = slice
    BY DEF BuildResult
<1>0. code + 1 \in Nat
    BY DEF RepairTypeOK
<1>1. new \in Seq(TesterFindings)
    BY <1>0, NewTesterFindingsType
<1>2. BuildMerge(tester_findings, new) \in Seq(TesterFindings)
    BY <1>1, ConcatProperties DEF BuildMerge, RepairTypeOK
<1>3. /\ tester_findings' \in Seq(TesterFindings)
      /\ reconciliation_findings' \in Seq(ReconciliationFindings)
    BY <1>2, DropStaleType DEF BuildResult, RepairTypeOK
<1> QED BY <1>3 DEF BuildResult, RepairTypeOK, attemptVars

(* What a fixer_stage returns can be merged, whatever is dropped then.     *)
LEMMA FixerType ==
    ASSUME RepairTypeOK, NEW pre_tester \in Nat, NEW pre_recon \in Nat,
           NEW result \in FixerReports, FixerResult(result, pre_tester, pre_recon)
    PROVE  RepairTypeOK' /\ code' = code + 1
<1>1. result \in FixerResults
    BY ReportsAssumption
<1>2. NewDiscrepancies(result, code + 1) \in Seq(ReconciliationFindings)
    BY NewDiscrepanciesType DEF RepairTypeOK
<1>3. reconciliation_findings \o NewDiscrepancies(result, code + 1)
          \in Seq(ReconciliationFindings)
    BY <1>2, ConcatProperties DEF RepairTypeOK
<1>4. /\ tester_findings' \in Seq(TesterFindings)
      /\ reconciliation_findings' \in Seq(ReconciliationFindings)
    BY <1>3, DropStaleType DEF FixerResult, RepairTypeOK
<1> QED BY <1>1, <1>4 DEF FixerResult, FixerResults, RepairTypeOK, attemptVars

(* A verification leaves everything but its verdict as it was.             *)
LEMMA VerifyType ==
    ASSUME RepairTypeOK, NEW report \in VerifyReports, VerifyResult(report),
           fixer_attempts_by_wp' \in [WPs -> Nat],
           fixer_attempts_by_predicate' \in [Predicates -> Nat]
    PROVE  RepairTypeOK' /\ code' = code
<1>1. report.reported \in SUBSET Items
    BY ReportsAssumption DEF Reports
<1>2. Passed(report, tester_findings, reconciliation_findings) \in BOOLEAN
    BY DEF Passed
<1> QED BY <1>1, <1>2 DEF VerifyResult, RepairTypeOK, findingVars

(* A verification marks the code it looked at and no other, and only when  *)
(* it passed.                                                              *)
LEMMA VerifyVerdict ==
    ASSUME NEW report, VerifyResult(report)
    PROVE  /\ verified \subseteq verified'
           /\ verify_summary'.passed => code \in verified'
BY DEF VerifyResult

(* Recording an attempt keeps the counters counters, and within the budget *)
(* when no target was exhausted.                                           *)
LEMMA RecordType ==
    ASSUME RepairTypeOK, NEW reported, RecordFixerAttempt(reported)
    PROVE  /\ fixer_attempts_by_wp' \in [WPs -> Nat]
           /\ fixer_attempts_by_predicate' \in [Predicates -> Nat]
           /\ WithinBudget /\ ~BudgetExhausted(reported) => WithinBudget'
<1> DEFINE wps == TargetWPs(reported, tester_findings, reconciliation_findings,
                            current_slice)
           preds == TargetPredicates(reported)
<1>1. /\ fixer_attempts_by_wp' = Bump(fixer_attempts_by_wp, wps)
      /\ fixer_attempts_by_predicate' = Bump(fixer_attempts_by_predicate, preds)
    BY DEF RecordFixerAttempt
<1>2. /\ fixer_attempts_by_wp \in [WPs -> Nat]
      /\ fixer_attempts_by_predicate \in [Predicates -> Nat]
    BY DEF RepairTypeOK
<1>3. ASSUME WithinBudget, ~BudgetExhausted(reported)
      PROVE  WithinBudget'
    <2>1. /\ ~Exhausted(fixer_attempts_by_wp, wps)
          /\ ~Exhausted(fixer_attempts_by_predicate, preds)
        BY <1>3 DEF BudgetExhausted
    <2> HIDE DEF wps, preds
    <2>2. \A w \in WPs : fixer_attempts_by_wp'[w] <= FIXER_MAX_ATTEMPTS
        BY <1>1, <1>2, <1>3, <2>1, BumpWithinBudget DEF WithinBudget
    <2>3. \A p \in Predicates : fixer_attempts_by_predicate'[p] <= FIXER_MAX_ATTEMPTS
        BY <1>1, <1>2, <1>3, <2>1, BumpWithinBudget DEF WithinBudget
    <2> QED BY <2>2, <2>3 DEF WithinBudget
<1> HIDE DEF wps, preds
<1> QED BY <1>1, <1>2, <1>3, BumpType

-----------------------------------------------------------------------------
(* Freshness: which findings are about the code as it is.                  *)

(* What a build's Testers report is about the code just built.             *)
LEMMA NewTesterFindingsGen ==
    ASSUME NEW gen, NEW new \in NewTesterFindings(gen), NEW i \in DOMAIN new
    PROVE  new[i].gen = gen
<1> DEFINE found == {[wp |-> t.wp, kind |-> t.kind, gen |-> gen] : t \in TesterReports}
<1>1. PICK n \in 0 .. FINDINGS : new \in [1 .. n -> found]
    BY DEF NewTesterFindings
<1>2. new[i] \in found
    BY <1>1
<1> QED BY <1>2

(* What a fixer_stage's reconciliation reports is about what it left.      *)
LEMMA NewDiscrepanciesGen ==
    ASSUME NEW gen, NEW result, NEW i \in DOMAIN NewDiscrepancies(result, gen)
    PROVE  NewDiscrepancies(result, gen)[i].gen = gen
<1>1. result.discrepancy # "none"
    BY DEF NewDiscrepancies
<1> QED BY <1>1 DEF NewDiscrepancies

(* A Fixer whose predecessors' findings are dropped leaves fresh ones only.*)
LEMMA FixerFresh ==
    ASSUME RepairTypeOK, NEW result \in FixerReports,
           FixerResult(result, Len(tester_findings), Len(reconciliation_findings))
    PROVE  FreshFindings'
<1> DEFINE new == NewDiscrepancies(result, code + 1)
<1>1. /\ tester_findings \in Seq(TesterFindings)
      /\ reconciliation_findings \in Seq(ReconciliationFindings)
      /\ code + 1 \in Nat
    BY DEF RepairTypeOK
<1>2. new \in Seq(ReconciliationFindings)
    BY <1>1, NewDiscrepanciesType
<1>3. tester_findings' = <<>>
    BY <1>1, DropAll DEF FixerResult
<1>4. ASSUME NEW i \in DOMAIN reconciliation_findings'
      PROVE  reconciliation_findings'[i].gen = code'
    <2>1. /\ reconciliation_findings' =
               DropStale(reconciliation_findings \o new, Len(reconciliation_findings))
          /\ code' = code + 1
        BY DEF FixerResult
    <2>2. \A k \in DOMAIN new : new[k].gen = code + 1
        BY NewDiscrepanciesGen
    <2> HIDE DEF new
    <2>3. i \in DOMAIN new /\ reconciliation_findings'[i] = new[i]
        BY <1>1, <1>2, <1>4, <2>1, DropOld
    <2> QED BY <2>1, <2>2, <2>3
<1> QED BY <1>3, <1>4 DEF FreshFindings, Fresh

(* The first build starts from no findings and leaves fresh ones only.     *)
LEMMA BuildFresh ==
    ASSUME RepairTypeOK, BuildResult(0, 0),
           tester_findings = <<>>, reconciliation_findings = <<>>
    PROVE  FreshFindings'
<1> PICK new \in NewTesterFindings(code + 1), slice \in WPs :
        /\ tester_findings' = DropStale(BuildMerge(tester_findings, new), 0)
        /\ reconciliation_findings' = DropStale(reconciliation_findings, 0)
        /\ code' = code + 1
    BY DEF BuildResult
<1>1. /\ new \in Seq(TesterFindings)
      /\ tester_findings \in Seq(TesterFindings)
      /\ reconciliation_findings \in Seq(ReconciliationFindings)
    BY NewTesterFindingsType DEF RepairTypeOK
<1>2. /\ Len(tester_findings) = 0
      /\ Len(reconciliation_findings) = 0
    OBVIOUS
<1>3. BuildMerge(tester_findings, new) = tester_findings \o new
    BY <1>1, ConcatEmptySeq DEF BuildMerge
<1>4. tester_findings' = DropStale(tester_findings \o new, Len(tester_findings))
    BY <1>2, <1>3
<1>5. reconciliation_findings' = <<>>
    <2>1. reconciliation_findings' =
              DropStale(reconciliation_findings, Len(reconciliation_findings))
        BY <1>2
    <2> QED BY <1>1, <2>1, DropAll
<1>6. ASSUME NEW i \in DOMAIN tester_findings'
      PROVE  tester_findings'[i].gen = code'
    <2>1. i \in DOMAIN DropStale(tester_findings \o new, Len(tester_findings))
        BY <1>4, <1>6
    <2>2. /\ i \in DOMAIN new
          /\ DropStale(tester_findings \o new, Len(tester_findings))[i] = new[i]
        BY ONLY <1>1, <2>1, DropOld
    <2>3. tester_findings'[i] = new[i] /\ code' = code + 1
        BY <1>4, <2>2
    <2> QED BY <2>2, <2>3, NewTesterFindingsGen
<1> QED BY <1>5, <1>6 DEF FreshFindings, Fresh

=============================================================================
