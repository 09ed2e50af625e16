--------------------------- MODULE RunSuiteProofs ---------------------------
(***************************************************************************)
(* Proofs about RunSuite: what a retry is told, that a run implements the  *)
(* repair policy (its safety part), that the auditor accepts what is       *)
(* written and that it adds up, for any number of cases, any attempt       *)
(* budget, any usage objects and reports of any length.                    *)
(***************************************************************************)
EXTENDS RunSuite, FiniteSetTheorems, WellFoundedInduction, NaturalsInduction, TLAPS

(* A sequence, of whatever it holds.                                        *)
IsSeq(s) == s \in Seq({s[k] : k \in DOMAIN s})

(* The context a prompt carries tells about the latest answered attempt     *)
(* before attempt k, and about nothing else.                                *)
Told(c, tried, context, k) ==
    /\ {context[i].attempt : i \in DOMAIN context} = LastAnswered(tried, k)
    /\ \A i \in DOMAIN context :
           /\ context[i].case = c
           /\ context[i].stage = tried[context[i].attempt].failure_stage
           /\ QuotesStage(context[i])

(* All attempts are of case c, and each was told what it should.            *)
Own(c, tried) == \A k \in DOMAIN tried : ToldAbout(c, tried, k)

NoPass(tried) == \A k \in DOMAIN tried : tried[k].status # "pass"

(* A trajectory as the attempt loop leaves it: no attempt after a pass, and *)
(* without a pass all attempts used.                                        *)
Finished(tried) ==
    /\ IsSeq(tried)
    /\ Len(tried) \in 1..args.budget.repair_attempts
    /\ \A k \in DOMAIN tried : tried[k].status = "pass" => k = Len(tried)
    /\ tried[Len(tried)].status = "pass" \/ Len(tried) = args.budget.repair_attempts

Typed ==
    /\ args \in [budget: Budgets, kind: Kinds]
    /\ pc \in {"case", "attempt", "extract", "oracle", "finish", "done"}
    /\ attempt \in 0..args.budget.repair_attempts
    /\ api_usage \in RawUsages \union {NoApiUsage}
    /\ IsSeq(attempts) /\ Len(attempts) <= args.budget.repair_attempts
    /\ IsSeq(summary) /\ Len(summary) <= args.budget.cases
    /\ IsSeq(retry_context) /\ Len(retry_context) <= 1
    /\ IsSeq(written) /\ Len(written) <= 1
    /\ exit \in {Unreported, 0, 1}

(* Within the attempt loop.                                                 *)
Trying ==
    /\ attempt = Len(attempts) + 1
    /\ NoPass(attempts)
    /\ Own(case, attempts)
    /\ Told(case, attempts, retry_context, attempt)

(* Between cases, the attempts left over are of the case before.            *)
LeftOver == \A k \in DOMAIN attempts : attempts[k].prompt.case = Len(summary)

(* Where the run is in its loops.                                           *)
Phase ==
    /\ pc \in {"attempt", "extract", "oracle", "finish"} => Len(summary) < args.budget.cases
    /\ pc \in {"attempt", "extract", "finish"} => args.kind = "model"
    /\ pc = "oracle" => args.kind \in {"model", "candidate"}
    /\ pc \in {"attempt", "extract", "oracle"} /\ args.kind = "model" => Trying
    /\ pc = "finish" => Own(case, attempts) /\ Finished(attempts)
    /\ pc = "case" => LeftOver
    /\ pc = "done" => LeftOver \/ Own(case, attempts)
    /\ pc # "done" => written = <<>>
    /\ args.kind # "model" => attempts = <<>>

(* What a finished case has on record.                                      *)
Recorded ==
    \A r \in DOMAIN summary :
        /\ args.kind # "model" => summary[r].attempts = <<>>
        /\ args.kind = "model" =>
               /\ Own(r, summary[r].attempts)
               /\ Finished(summary[r].attempts)
               /\ summary[r].status = summary[r].attempts[Len(summary[r].attempts)].status

Inv == Typed /\ Phase /\ Recorded

-----------------------------------------------------------------------------
(* Sequences of anything.                                                   *)

(* Append keeps a sequence a sequence, and adds one element at its end.     *)
LEMMA AppendSeq ==
    ASSUME NEW s, NEW x, IsSeq(s)
    PROVE  /\ IsSeq(Append(s, x))
           /\ Len(s) \in Nat
           /\ DOMAIN s = 1..Len(s)
           /\ Len(Append(s, x)) = Len(s) + 1
           /\ DOMAIN Append(s, x) = 1..(Len(s) + 1)
           /\ \A k \in 1..Len(s) : Append(s, x)[k] = s[k]
           /\ Append(s, x)[Len(s) + 1] = x
<1> DEFINE S == {s[k] : k \in DOMAIN s}
           T == S \cup {x}
           t == Append(s, x)
<1>1. s \in Seq(S)
  BY DEF IsSeq
<1>2. s \in Seq(T)
  BY <1>1
<1>3. /\ Len(s) \in Nat
      /\ DOMAIN s = 1..Len(s)
  BY <1>1
<1>x. x \in T
  OBVIOUS
<1> HIDE DEF S, T
<1>4. /\ t \in Seq(T)
      /\ Len(t) = Len(s) + 1
      /\ DOMAIN t = 1..(Len(s) + 1)
      /\ \A k \in 1..Len(s) : t[k] = s[k]
      /\ t[Len(s) + 1] = x
  BY <1>2, <1>3, <1>x
<1> DEFINE U == {t[k] : k \in DOMAIN t}
<1>5. \A k \in 1..Len(t) : t[k] \in U
  BY <1>4
<1> HIDE DEF U
<1>6. t \in Seq(U)
  BY <1>3, <1>4, <1>5
<1>7. IsSeq(t)
  BY <1>6 DEF IsSeq, U
<1> QED
  BY <1>3, <1>4, <1>7

(* A sequence of length at most one.                                        *)
LEMMA ShortSeqs ==
    /\ IsSeq(<<>>) /\ Len(<<>>) = 0 /\ DOMAIN <<>> = {}
    /\ \A x : IsSeq(<<x>>) /\ Len(<<x>>) = 1 /\ DOMAIN <<x>> = {1} /\ <<x>>[1] = x
<1>1. IsSeq(<<>>) /\ Len(<<>>) = 0 /\ DOMAIN <<>> = {}
  BY DEF IsSeq
<1>2. ASSUME NEW x
      PROVE  IsSeq(<<x>>) /\ Len(<<x>>) = 1 /\ DOMAIN <<x>> = {1} /\ <<x>>[1] = x
  <2> DEFINE S == {<<x>>[k] : k \in DOMAIN <<x>>}
  <2>1. Len(<<x>>) = 1 /\ DOMAIN <<x>> = {1} /\ <<x>>[1] = x
    OBVIOUS
  <2>2. x \in S
    BY <2>1
  <2> HIDE DEF S
  <2>3. <<x>> \in Seq(S)
    BY <2>2
  <2> QED
    BY <2>1, <2>3 DEF IsSeq, S
<1> QED
  BY <1>1, <1>2

(* A sequence's domain is the numbers up to its length; without elements it *)
(* is the empty one.                                                        *)
LEMMA SeqDomain ==
    ASSUME NEW s, IsSeq(s)
    PROVE  /\ Len(s) \in Nat
           /\ DOMAIN s = 1..Len(s)
           /\ s = <<>> <=> Len(s) = 0
<1> DEFINE S == {s[k] : k \in DOMAIN s}
<1>1. s \in Seq(S)
  BY DEF IsSeq
<1> HIDE DEF S
<1> QED
  BY <1>1

(* A set of numbers that is not empty has a least element.                  *)
LEMMA Least ==
    ASSUME NEW S \in SUBSET Nat, S # {}
    PROVE  \E m \in S : \A y \in S : m <= y
<1> DEFINE less == OpToRel(<, Nat)
<1>1. \A x, y \in Nat : x < y => <<x, y>> \in less
  BY DEF OpToRel
<1>2. IsWellFoundedOn(less, Nat)
  BY NatLessThanWellFounded
<1> HIDE DEF less
<1>3. PICK m \in S : \A y \in S : ~(<<y, m>> \in less)
  BY <1>2, WFMin
<1>4. ASSUME NEW y \in S
      PROVE  m <= y
  <2>1. y \in Nat /\ m \in Nat
    OBVIOUS
  <2>2. ~(y < m)
    BY <1>1, <1>3, <2>1
  <2> QED
    BY <2>1, <2>2
<1> QED
  BY <1>4

-----------------------------------------------------------------------------
(* What the runner quotes of an outcome that keeps the oracle's contract is *)
(* the output of the step it blames.                                        *)

LEMMA QuotesBlamed ==
    ASSUME NEW verdict \in Verdicts
    PROVE  /\ verdict.failure_stage = "compile" => verdict.evidence = {"compile"}
           /\ verdict.failure_stage = "verifier_load" => verdict.evidence = {"load"}
           /\ verdict.failure_stage = "functional_oracle" => verdict.evidence = {"checks"}
<1>1. PICK completed \in Outcomes : verdict = Verdict(completed)
  BY DEF Verdicts
<1>2. IsOutcome(completed)
  BY DEF Outcomes
<1>3. /\ verdict.failure_stage = oracle_failure_stage(completed)
      /\ verdict.evidence = retry_evidence(completed)
  BY <1>1 DEF Verdict
<1>4. CASE completed.returncode = 0 \/ completed.stdout = <<>>
  BY <1>3, <1>4 DEF oracle_failure_stage
<1>5. CASE completed.returncode # 0 /\ completed.stdout # <<>>
  <2> DEFINE report == completed.stdout[1]
             failed_checks == \/ ~AllTrue(report.success_log_checks)
                              \/ \E k \in DOMAIN report.functional : ~report.functional[k].passed
  <2>1. InOrder(report)
    BY <1>2, <1>5 DEF IsOutcome
  <2>2. verdict.failure_stage = BlamedStage(report)
    BY <1>3, <1>5 DEF oracle_failure_stage
  <2>3. verdict.evidence = {e \in {"compile", "load", "checks"} :
            \/ e = "compile" /\ ~AllTrue(report.compile)
            \/ e = "load" /\ ~AllTrue(report.load)
            \/ e = "checks" /\ failed_checks}
    BY <1>3, <1>5 DEF retry_evidence
  <2>4. AllTrue(<<>>) /\ AllTrue(<<TRUE>>)
    BY ShortSeqs DEF AllTrue
  <2>5. report.success_log_checks = <<>> /\ report.functional = <<>> => ~failed_checks
    BY <2>4, ShortSeqs
  <2>6. CASE BlamedStage(report) = "compile"
    <3>1. ~AllTrue(report.compile)
      BY <2>6 DEF BlamedStage, FunctionalStage
    <3>2. report.load = <<>>
      BY <2>1, <3>1 DEF InOrder
    <3>3. report.success_log_checks = <<>> /\ report.functional = <<>>
      BY <2>1, <3>1 DEF InOrder
    <3> QED
      BY <2>2, <2>3, <2>4, <2>5, <2>6, <3>1, <3>2, <3>3
  <2>7. CASE BlamedStage(report) = "verifier_load"
    <3>1. AllTrue(report.compile) /\ ~AllTrue(report.load)
      BY <2>7 DEF BlamedStage, FunctionalStage
    <3>2. report.load # <<TRUE>>
      BY <3>1, <2>4
    <3>3. report.success_log_checks = <<>> /\ report.functional = <<>>
      BY <2>1, <3>2 DEF InOrder
    <3> QED
      BY <2>2, <2>3, <2>5, <2>7, <3>1, <3>3
  <2>8. CASE BlamedStage(report) = "functional_oracle"
    <3>1. /\ AllTrue(report.compile) /\ AllTrue(report.load)
          /\ FailedTests(report) # {}
      BY <2>8 DEF BlamedStage
    <3>2. PICK k \in DOMAIN report.functional :
              ~AllTrue(report.functional[k].map_updates) \/ ~report.functional[k].passed
      BY <3>1 DEF FailedTests
    <3>3. ~report.functional[k].passed
      BY <2>1, <3>2 DEF InOrder
    <3>4. failed_checks
      BY <3>3
    <3> HIDE DEF failed_checks
    <3> QED
      BY <2>2, <2>3, <2>8, <3>1, <3>4
  <2> QED
    BY <2>2, <2>6, <2>7, <2>8
<1> QED
  BY <1>4, <1>5

(* The runner gives no outcome of the oracle the stages of the model call.  *)
LEMMA OracleStages ==
    ASSUME NEW verdict \in Verdicts
    PROVE  verdict.failure_stage # "model_call"
<1>1. PICK completed \in Outcomes : verdict = Verdict(completed)
  BY DEF Verdicts
<1>2. verdict.failure_stage = oracle_failure_stage(completed)
  BY <1>1 DEF Verdict
<1> QED
  BY <1>2 DEF oracle_failure_stage, BlamedStage, FunctionalStage

-----------------------------------------------------------------------------
(* What an attempt was told does not change when later attempts go on       *)
(* record.                                                                  *)

LEMMA AboutIsTold ==
    ASSUME NEW c, NEW tried, NEW k
    PROVE  ToldAbout(c, tried, k) <=>
               /\ tried[k].prompt.case = c
               /\ Told(c, tried, tried[k].prompt.context, k)
  BY DEF ToldAbout, Told

LEMMA ToldBefore ==
    ASSUME NEW c, NEW tried, IsSeq(tried), NEW a, NEW context,
           NEW k \in 1..(Len(tried) + 1), Told(c, tried, context, k)
    PROVE  Told(c, Append(tried, a), context, k)
<1> DEFINE longer == Append(tried, a)
<1>1. /\ Len(tried) \in Nat
      /\ \A j \in 1..Len(tried) : longer[j] = tried[j]
  BY AppendSeq
<1> HIDE DEF longer
<1>2. \A j \in 1..(k - 1) : j \in 1..Len(tried)
  BY <1>1
<1>3. LastAnswered(longer, k) = LastAnswered(tried, k)
  <2>1. \A j \in 1..(k - 1) : longer[j].failure_stage = tried[j].failure_stage
    BY <1>1, <1>2
  <2>2. \A j \in 1..(k - 1) : \A i \in (j + 1)..(k - 1) : i \in 1..(k - 1)
    BY <1>1
  <2> QED
    BY <2>1, <2>2 DEF LastAnswered
<1>4. \A i \in DOMAIN context : context[i].attempt \in 1..(k - 1)
  BY DEF Told, LastAnswered
<1>5. \A i \in DOMAIN context : longer[context[i].attempt] = tried[context[i].attempt]
  BY <1>1, <1>2, <1>4
<1> QED
  BY <1>3, <1>5 DEF Told, longer

LEMMA OwnGrows ==
    ASSUME NEW c, NEW tried, IsSeq(tried), Own(c, tried), NEW a, a.prompt.case = c,
           Told(c, tried, a.prompt.context, Len(tried) + 1)
    PROVE  Own(c, Append(tried, a))
<1> DEFINE longer == Append(tried, a)
           n == Len(tried) + 1
<1>1. /\ Len(tried) \in Nat
      /\ DOMAIN tried = 1..Len(tried)
      /\ DOMAIN longer = 1..(Len(tried) + 1)
      /\ \A j \in 1..Len(tried) : longer[j] = tried[j]
      /\ longer[Len(tried) + 1] = a
  BY AppendSeq
<1> SUFFICES ASSUME NEW k \in DOMAIN longer PROVE ToldAbout(c, longer, k)
  BY DEF Own
<1>2. CASE k \in 1..Len(tried)
  <2>1. ToldAbout(c, tried, k)
    BY <1>1, <1>2 DEF Own
  <2>2. tried[k].prompt.case = c /\ Told(c, tried, tried[k].prompt.context, k)
    BY <2>1, AboutIsTold
  <2>3. k \in 1..(Len(tried) + 1)
    BY <1>1, <1>2
  <2>4. Told(c, longer, tried[k].prompt.context, k)
    BY <2>2, <2>3, ToldBefore
  <2>5. longer[k] = tried[k]
    BY <1>1, <1>2
  <2> QED
    BY <2>2, <2>4, <2>5, AboutIsTold
<1>3. CASE k = n
  <2>1. n \in 1..(Len(tried) + 1)
    BY <1>1
  <2>2. Told(c, longer, a.prompt.context, n)
    BY <2>1, ToldBefore
  <2> QED
    BY <1>1, <1>3, <2>2, AboutIsTold
<1> QED
  BY <1>1, <1>2, <1>3

(* An attempt without an answer: the next one is told the same.             *)
LEMMA ToldAgain ==
    ASSUME NEW c, NEW tried, IsSeq(tried), NEW a, a.failure_stage = "model_call",
           NEW context, Told(c, tried, context, Len(tried) + 1)
    PROVE  Told(c, Append(tried, a), context, Len(tried) + 2)
<1> DEFINE longer == Append(tried, a)
<1>1. Len(tried) \in Nat /\ longer[Len(tried) + 1] = a
  BY AppendSeq
<1>2. Told(c, longer, context, Len(tried) + 1)
  BY <1>1, ToldBefore
<1> HIDE DEF longer
<1> DEFINE n == Len(tried)
<1>3. n \in Nat
  BY <1>1
<1>4. longer[n + 1].failure_stage = "model_call"
  BY <1>1
<1> HIDE DEF n
<1>5. LastAnswered(longer, n + 2) = LastAnswered(longer, n + 1)
  <2>1. \A j : j \in 1..(n + 1) <=> j \in 1..n \/ j = n + 1
    BY <1>3
  <2>2. \A j \in 1..n : \A i : i \in (j + 1)..(n + 1) <=> i \in (j + 1)..n \/ i = n + 1
    BY <1>3
  <2>3. (n + 2) - 1 = n + 1 /\ (n + 1) - 1 = n
    BY <1>3
  <2>4. LastAnswered(longer, n + 2) = {j \in 1..(n + 1) :
            /\ longer[j].failure_stage # "model_call"
            /\ \A i \in (j + 1)..(n + 1) : longer[i].failure_stage = "model_call"}
    BY <2>3 DEF LastAnswered
  <2>5. LastAnswered(longer, n + 1) = {j \in 1..n :
            /\ longer[j].failure_stage # "model_call"
            /\ \A i \in (j + 1)..n : longer[i].failure_stage = "model_call"}
    BY <2>3 DEF LastAnswered
  <2> QED
    BY <1>4, <2>1, <2>2, <2>4, <2>5
<1> QED
  BY <1>2, <1>5 DEF Told, n, longer

(* An answered attempt: the next one is told of it.                         *)
LEMMA ToldOfThis ==
    ASSUME NEW c, NEW tried, IsSeq(tried), NEW a, a.failure_stage # "model_call",
           NEW x, x.case = c, x.attempt = Len(tried) + 1, x.stage = a.failure_stage,
           QuotesStage(x)
    PROVE  Told(c, Append(tried, a), <<x>>, Len(tried) + 2)
<1> DEFINE longer == Append(tried, a)
           n == Len(tried)
<1>1. n \in Nat /\ longer[n + 1] = a
  BY AppendSeq
<1> HIDE DEF longer, n
<1>2. LastAnswered(longer, n + 2) = {n + 1}
  <2>3. (n + 2) - 1 = n + 1
    BY <1>1
  <2>4. LastAnswered(longer, n + 2) = {j \in 1..(n + 1) :
            /\ longer[j].failure_stage # "model_call"
            /\ \A i \in (j + 1)..(n + 1) : longer[i].failure_stage = "model_call"}
    BY <2>3 DEF LastAnswered
  <2>5. \A j \in 1..(n + 1) : j # n + 1 => n + 1 \in (j + 1)..(n + 1)
    BY <1>1
  <2>6. n + 1 \in 1..(n + 1) /\ \A i : i \notin ((n + 1) + 1)..(n + 1)
    BY <1>1
  <2> QED
    BY <1>1, <2>4, <2>5, <2>6
<1>3. DOMAIN <<x>> = {1} /\ <<x>>[1] = x
  OBVIOUS
<1>4. x.attempt = n + 1
  BY DEF n
<1>5. {<<x>>[i].attempt : i \in DOMAIN <<x>>} = {n + 1}
  BY <1>3, <1>4
<1> QED
  BY <1>1, <1>2, <1>3, <1>4, <1>5 DEF Told, n, longer

-----------------------------------------------------------------------------
(* The invariant.                                                           *)

LEMMA BudgetTypes ==
    ASSUME args \in [budget: Budgets, kind: Kinds]
    PROVE  /\ args.budget.cases \in Nat
           /\ args.budget.repair_attempts \in Nat \ {0}
           /\ args.budget.usages \subseteq RawUsages
           /\ args.kind \in Kinds
  BY BudgetsAssumption

LEMMA InitInv == Init => Inv
<1> SUFFICES ASSUME Init PROVE Inv
  OBVIOUS
<1>1. /\ args.budget.cases \in Nat
      /\ args.budget.repair_attempts \in Nat \ {0}
  BY BudgetTypes DEF Init
<1>2. Typed
  BY <1>1, ShortSeqs DEF Init, Typed
<1>3. LeftOver
  BY ShortSeqs DEF Init, LeftOver
<1>4. Phase
  BY <1>3 DEF Init, Phase
<1>5. Recorded
  BY ShortSeqs DEF Init, Recorded
<1> QED
  BY <1>2, <1>4, <1>5 DEF Inv

(* A step that leaves the rows alone leaves what they have on record.       *)
LEMMA RecordedKept ==
    ASSUME Recorded, UNCHANGED <<args, summary>>
    PROVE  Recorded'
  BY DEF Recorded, Finished

(* One more row.                                                            *)
LEMMA RecordedGrows ==
    ASSUME Inv, UNCHANGED args, NEW row, summary' = Append(summary, row),
           args.kind # "model" => row.attempts = <<>>,
           args.kind = "model" =>
               /\ Own(case, row.attempts)
               /\ Finished(row.attempts)
               /\ row.status = row.attempts[Len(row.attempts)].status
    PROVE  /\ Recorded'
           /\ IsSeq(summary') /\ Len(summary') = Len(summary) + 1
<1>1. /\ IsSeq(summary')
      /\ Len(summary) \in Nat
      /\ DOMAIN summary = 1..Len(summary)
      /\ Len(summary') = Len(summary) + 1
      /\ DOMAIN summary' = 1..(Len(summary) + 1)
      /\ \A k \in 1..Len(summary) : summary'[k] = summary[k]
      /\ summary'[Len(summary) + 1] = row
  BY AppendSeq DEF Inv, Typed
<1>2. ASSUME NEW r \in DOMAIN summary'
      PROVE  /\ args.kind # "model" => summary'[r].attempts = <<>>
             /\ args.kind = "model" =>
                    /\ Own(r, summary'[r].attempts)
                    /\ Finished(summary'[r].attempts)
                    /\ summary'[r].status =
                           summary'[r].attempts[Len(summary'[r].attempts)].status
  <2>1. CASE r \in 1..Len(summary)
    BY <1>1, <2>1 DEF Inv, Recorded
  <2>2. CASE r = Len(summary) + 1
    BY <1>1, <2>2 DEF case
  <2> QED
    BY <1>1, <2>1, <2>2
<1>3. Recorded'
  BY <1>2 DEF Recorded, Finished
<1> QED
  BY <1>1, <1>3

(* An attempt goes on record: its prompt told what it should, and the next  *)
(* attempt, if there is one, will be told what it should.                   *)
LEMMA RecordAttemptInv ==
    ASSUME Inv, args.kind = "model", pc \in {"attempt", "extract", "oracle"},
           NEW status, NEW stage, NEW usage, NEW context,
           RecordAttempt(status, stage, usage, context),
           UNCHANGED <<args, summary, written, exit>>,
           \/ stage = "model_call" /\ context = retry_context
           \/ /\ stage # "model_call"
              /\ \E x : /\ context = <<x>>
                        /\ x.case = case /\ x.attempt = attempt /\ x.stage = stage
                        /\ QuotesStage(x)
    PROVE  Inv'
<1> DEFINE a == AttemptResult(status, stage, usage)
           n == Len(attempts)
           limit == args.budget.repair_attempts
<1>1. Typed /\ Phase /\ Recorded /\ Trying
  BY DEF Inv, Phase
<1>2. a.status = status /\ a.failure_stage = stage
      /\ a.prompt.case = case /\ a.prompt.context = retry_context
  BY DEF AttemptResult, append_retry_context
<1>3. /\ attempts' = Append(attempts, a)
      /\ api_usage' = NoApiUsage
  BY DEF RecordAttempt
<1> HIDE DEF a
<1>4. /\ IsSeq(attempts')
      /\ n \in Nat
      /\ DOMAIN attempts = 1..n
      /\ Len(attempts') = n + 1
      /\ DOMAIN attempts' = 1..(n + 1)
      /\ \A k \in 1..n : attempts'[k] = attempts[k]
      /\ attempts'[n + 1] = a
  BY <1>1, <1>3, AppendSeq DEF Typed
<1>5. /\ attempt = n + 1
      /\ attempt \in 0..limit
      /\ limit \in Nat \ {0}
  BY <1>1, BudgetTypes DEF Trying, Typed
<1>6. Own(case, attempts') /\ case' = case
  BY <1>1, <1>2, <1>3, <1>5, OwnGrows DEF Trying, Typed, case
<1>7. \A k \in 1..n : attempts'[k].status # "pass"
  BY <1>1, <1>4 DEF Trying, NoPass
<1>8. Recorded'
  BY <1>1, RecordedKept
<1>9. CASE LoopEnds(status)
  <2>1. pc' = "finish" /\ UNCHANGED <<attempt, retry_context>>
    BY <1>9 DEF RecordAttempt
  <2>2. Typed'
    BY <1>1, <1>3, <1>4, <1>5, <2>1 DEF Typed
  <2>3. Finished(attempts)'
    <3>1. Len(attempts') \in 1..limit
      BY <1>4, <1>5
    <3>2. status = "pass" \/ n + 1 = limit
      BY <1>5, <1>9 DEF LoopEnds
    <3>3. attempts'[Len(attempts')].status = "pass" \/ Len(attempts') = limit
      BY <1>2, <1>4, <3>2
    <3>4. \A k \in DOMAIN attempts' : attempts'[k].status = "pass" => k = Len(attempts')
      BY <1>4, <1>7
    <3> QED
      BY <1>4, <3>1, <3>3, <3>4 DEF Finished
  <2>4. Phase'
    BY <1>1, <1>6, <2>1, <2>3 DEF Phase
  <2> QED
    BY <1>8, <2>2, <2>4 DEF Inv
<1>10. CASE ~LoopEnds(status)
  <2>1. pc' = "attempt" /\ attempt' = attempt + 1 /\ retry_context' = context
    BY <1>10 DEF RecordAttempt
  <2>2. status # "pass" /\ attempt # limit
    BY <1>10 DEF LoopEnds
  <2>3. IsSeq(context) /\ Len(context) <= 1
    <3>1. CASE context = retry_context
      BY <1>1, <3>1 DEF Typed
    <3>2. ASSUME NEW x, context = <<x>>
          PROVE  IsSeq(context) /\ Len(context) <= 1
      <4>1. IsSeq(<<x>>) /\ Len(<<x>>) = 1
        BY ShortSeqs
      <4> QED
        BY <3>2, <4>1
    <3> QED
      BY <3>1, <3>2
  <2>4. Typed'
    BY <1>1, <1>3, <1>4, <1>5, <2>1, <2>2, <2>3 DEF Typed
  <2>5. NoPass(attempts')
    BY <1>2, <1>4, <1>7, <2>2 DEF NoPass
  <2>6. Told(case, attempts', context, n + 2)
    <3>1. IsSeq(attempts) /\ Told(case, attempts, retry_context, n + 1)
      BY <1>1, <1>5 DEF Typed, Trying
    <3>2. CASE stage = "model_call" /\ context = retry_context
      BY <1>2, <1>3, <3>1, <3>2, ToldAgain
    <3>3. CASE /\ stage # "model_call"
               /\ \E x : /\ context = <<x>>
                         /\ x.case = case /\ x.attempt = attempt /\ x.stage = stage
                         /\ QuotesStage(x)
      BY <1>2, <1>3, <1>5, <3>1, <3>3, ToldOfThis
    <3> QED
      BY <3>2, <3>3
  <2>7. attempt' = Len(attempts') + 1 /\ attempt' = n + 2
    BY <1>4, <1>5, <2>1
  <2>8. Trying'
    BY <1>6, <2>1, <2>5, <2>6, <2>7 DEF Trying
  <2>9. Phase'
    BY <1>1, <2>1, <2>8 DEF Phase
  <2> QED
    BY <1>8, <2>4, <2>9 DEF Inv
<1> QED
  BY <1>9, <1>10

(* A step within the loop that only moves on.                               *)
LEMMA StillTrying ==
    ASSUME Trying, UNCHANGED <<attempt, retry_context, attempts, summary>>
    PROVE  Trying'
  BY DEF Trying, case

LEMMA StartCaseInv ==
    ASSUME Inv, start_case
    PROVE  Inv'
<1>1. Typed /\ Phase /\ Recorded
  BY DEF Inv
<1>2. /\ pc = "case" /\ Len(summary) < args.budget.cases
      /\ UNCHANGED <<args, api_usage, written, exit>>
  BY DEF start_case
<1>3. /\ args.budget.cases \in Nat
      /\ args.budget.repair_attempts \in Nat \ {0}
      /\ Len(summary) \in Nat
  BY <1>1, BudgetTypes, SeqDomain DEF Typed
<1>4. LeftOver /\ written' = <<>>
  BY <1>1, <1>2 DEF Phase
<1>5. CASE args.kind = "model" /\ BeginAttempts
  <2>1. /\ pc' = "attempt" /\ attempt' = 1 /\ attempts' = <<>> /\ retry_context' = <<>>
        /\ UNCHANGED summary
    BY <1>5 DEF BeginAttempts
  <2>2. Recorded'
    BY <1>1, <1>2, <2>1, RecordedKept
  <2>3. IsSeq(<<>>) /\ Len(<<>>) = 0 /\ DOMAIN <<>> = {}
    BY ShortSeqs
  <2>4. Typed'
    BY <1>1, <1>2, <1>3, <2>1, <2>3 DEF Typed
  <2>5. LastAnswered(<<>>, 1) = {}
    BY DEF LastAnswered
  <2>6. Trying'
    BY <2>1, <2>3, <2>5 DEF Trying, NoPass, Own, Told
  <2>7. Phase'
    BY <1>2, <1>4, <1>5, <2>1, <2>6 DEF Phase
  <2> QED
    BY <2>2, <2>4, <2>7 DEF Inv
<1>6. CASE /\ args.kind = "candidate"
           /\ pc' = "oracle"
           /\ UNCHANGED <<attempt, retry_context, attempts, summary>>
  <2>1. Recorded'
    BY <1>1, <1>2, <1>6, RecordedKept
  <2>2. Typed'
    BY <1>1, <1>2, <1>6 DEF Typed
  <2>3. Phase'
    BY <1>1, <1>2, <1>4, <1>6 DEF Phase
  <2> QED
    BY <2>1, <2>2, <2>3 DEF Inv
<1>7. CASE /\ args.kind = "prompt_only"
           /\ summary' = Append(summary, Row("prompt_written", "prompt_only", <<>>))
           /\ UNCHANGED <<pc, attempt, retry_context, attempts>>
  <2>1. Row("prompt_written", "prompt_only", <<>>).attempts = <<>>
    BY DEF Row
  <2>2. Recorded' /\ IsSeq(summary') /\ Len(summary') = Len(summary) + 1
    BY <1>2, <1>7, <2>1, RecordedGrows
  <2>3. Typed'
    BY <1>1, <1>2, <1>3, <1>7, <2>2 DEF Typed
  <2>4. attempts = <<>>
    BY <1>1, <1>7 DEF Phase
  <2>5. LeftOver'
    BY <1>7, <2>4, ShortSeqs DEF LeftOver
  <2>6. Phase'
    BY <1>1, <1>2, <1>4, <1>7, <2>4, <2>5 DEF Phase
  <2> QED
    BY <2>2, <2>3, <2>6 DEF Inv
<1> QED
  BY <1>5, <1>6, <1>7 DEF start_case

LEMMA CallModelInv ==
    ASSUME Inv, call_openai_compatible
    PROVE  Inv'
<1>1. Typed /\ Phase /\ Recorded
  BY DEF Inv
<1>2. pc = "attempt" /\ UNCHANGED <<args, summary, written, exit>>
  BY DEF call_openai_compatible
<1>3. args.kind = "model" /\ Trying /\ Len(summary) < args.budget.cases /\ written = <<>>
  BY <1>1, <1>2 DEF Phase
<1>4. ASSUME NEW usage, ModelFailure(usage)
      PROVE  Inv'
  BY <1>2, <1>3, <1>4, RecordAttemptInv DEF ModelFailure
<1>5. ASSUME NEW usage \in args.budget.usages, api_usage' = usage, pc' = "extract",
             UNCHANGED <<attempt, retry_context, attempts>>
      PROVE  Inv'
  <2>1. Recorded' /\ Trying'
    BY <1>1, <1>2, <1>3, <1>5, RecordedKept, StillTrying
  <2>2. usage \in RawUsages
    BY <1>1, BudgetTypes DEF Typed
  <2>3. Typed'
    BY <1>1, <1>2, <1>5, <2>2 DEF Typed
  <2>4. Phase'
    BY <1>2, <1>3, <1>5, <2>1 DEF Phase
  <2> QED
    BY <2>1, <2>3, <2>4 DEF Inv
<1> QED
  BY <1>4, <1>5 DEF call_openai_compatible

LEMMA ExtractInv ==
    ASSUME Inv, extract_source
    PROVE  Inv'
<1>1. Typed /\ Phase /\ Recorded
  BY DEF Inv
<1>2. pc = "extract" /\ UNCHANGED <<args, summary, written, exit>>
  BY DEF extract_source
<1>3. args.kind = "model" /\ Trying /\ Len(summary) < args.budget.cases /\ written = <<>>
  BY <1>1, <1>2 DEF Phase
<1>4. CASE /\ pc' = "oracle"
           /\ UNCHANGED <<attempt, retry_context, attempts, api_usage>>
  <2>1. Recorded' /\ Trying'
    BY <1>1, <1>2, <1>3, <1>4, RecordedKept, StillTrying
  <2>2. Typed'
    BY <1>1, <1>2, <1>4 DEF Typed
  <2>3. Phase'
    BY <1>2, <1>3, <1>4, <2>1 DEF Phase
  <2> QED
    BY <2>1, <2>2, <2>3 DEF Inv
<1>5. CASE RecordAttempt("model_error", "extract_source", api_usage,
                         <<Context("extract_source", {"response"})>>)
  <2> DEFINE x == Context("extract_source", {"response"})
  <2>1. /\ x.case = case /\ x.attempt = attempt /\ x.stage = "extract_source"
        /\ QuotesStage(x)
    BY DEF Context, QuotesStage
  <2> HIDE DEF x
  <2>2. \E y : /\ <<x>> = <<y>>
               /\ y.case = case /\ y.attempt = attempt /\ y.stage = "extract_source"
               /\ QuotesStage(y)
    BY <2>1
  <2>3. RecordAttempt("model_error", "extract_source", api_usage, <<x>>)
    BY <1>5 DEF x
  <2> QED
    BY <1>2, <1>3, <2>2, <2>3, RecordAttemptInv
<1> QED
  BY <1>4, <1>5 DEF extract_source

LEMMA RunOracleInv ==
    ASSUME Inv, run_oracle
    PROVE  Inv'
<1>1. Typed /\ Phase /\ Recorded
  BY DEF Inv
<1>2. pc = "oracle" /\ UNCHANGED <<args, written, exit>>
  BY DEF run_oracle
<1>3. Len(summary) < args.budget.cases /\ written = <<>>
  BY <1>1, <1>2 DEF Phase
<1>4. PICK verdict \in Verdicts :
          \/ /\ args.kind = "model"
             /\ RecordAttempt(Status(verdict), verdict.failure_stage, api_usage,
                    <<Context(verdict.failure_stage, verdict.evidence)>>)
             /\ UNCHANGED summary
          \/ /\ args.kind = "candidate"
             /\ summary' = Append(summary, Row(Status(verdict), verdict.failure_stage, <<>>))
             /\ pc' = "case"
             /\ UNCHANGED <<attempt, retry_context, attempts, api_usage>>
  BY DEF run_oracle
<1>5. CASE /\ args.kind = "model"
           /\ RecordAttempt(Status(verdict), verdict.failure_stage, api_usage,
                  <<Context(verdict.failure_stage, verdict.evidence)>>)
           /\ UNCHANGED summary
  <2> DEFINE stage == verdict.failure_stage
             x == Context(stage, verdict.evidence)
  <2>1. /\ x.case = case /\ x.attempt = attempt /\ x.stage = stage
        /\ x.evidence = verdict.evidence
    BY DEF Context
  <2> HIDE DEF x
  <2>2. QuotesStage(x)
    BY <2>1, QuotesBlamed DEF QuotesStage
  <2>3. \E y : /\ <<x>> = <<y>>
               /\ y.case = case /\ y.attempt = attempt /\ y.stage = stage
               /\ QuotesStage(y)
    BY <2>1, <2>2
  <2>4. RecordAttempt(Status(verdict), stage, api_usage, <<x>>)
    BY <1>5 DEF x
  <2>5. stage # "model_call"
    BY OracleStages
  <2> QED
    BY <1>2, <1>5, <2>3, <2>4, <2>5, RecordAttemptInv
<1>6. CASE /\ args.kind = "candidate"
           /\ summary' = Append(summary, Row(Status(verdict), verdict.failure_stage, <<>>))
           /\ pc' = "case"
           /\ UNCHANGED <<attempt, retry_context, attempts, api_usage>>
  <2>1. Row(Status(verdict), verdict.failure_stage, <<>>).attempts = <<>>
    BY DEF Row
  <2>2. Recorded' /\ IsSeq(summary') /\ Len(summary') = Len(summary) + 1
    BY <1>2, <1>6, <2>1, RecordedGrows
  <2>3. args.budget.cases \in Nat /\ Len(summary) \in Nat
    BY <1>1, BudgetTypes, SeqDomain DEF Typed
  <2>4. Typed'
    BY <1>1, <1>2, <1>3, <1>6, <2>2, <2>3 DEF Typed
  <2>5. attempts = <<>>
    BY <1>1, <1>6 DEF Phase
  <2>6. LeftOver'
    BY <1>6, <2>5, ShortSeqs DEF LeftOver
  <2>7. Phase'
    BY <1>2, <1>3, <1>6, <2>5, <2>6 DEF Phase
  <2> QED
    BY <2>2, <2>4, <2>7 DEF Inv
<1> QED
  BY <1>4, <1>5, <1>6

LEMMA FinishCaseInv ==
    ASSUME Inv, finish_case
    PROVE  Inv'
<1> DEFINE row == Row(Last(attempts).status, Last(attempts).failure_stage, attempts)
<1>1. Typed /\ Phase /\ Recorded
  BY DEF Inv
<1>2. /\ pc = "finish" /\ pc' = "case"
      /\ summary' = Append(summary, row)
      /\ UNCHANGED <<args, attempt, retry_context, api_usage, attempts, written, exit>>
  BY DEF finish_case
<1>3. /\ args.kind = "model" /\ Len(summary) < args.budget.cases /\ written = <<>>
      /\ Own(case, attempts) /\ Finished(attempts)
  BY <1>1, <1>2 DEF Phase
<1>4. row.attempts = attempts /\ row.status = attempts[Len(attempts)].status
  BY DEF Row, Last
<1> HIDE DEF row
<1>5. Recorded' /\ IsSeq(summary') /\ Len(summary') = Len(summary) + 1
  BY <1>2, <1>3, <1>4, RecordedGrows
<1>6. args.budget.cases \in Nat /\ Len(summary) \in Nat
  BY <1>1, BudgetTypes, SeqDomain DEF Typed
<1>7. Typed'
  BY <1>1, <1>2, <1>3, <1>5, <1>6 DEF Typed
<1>8. LeftOver'
  BY <1>2, <1>3, <1>5, AboutIsTold DEF Own, LeftOver, case
<1>9. Phase'
  BY <1>2, <1>3, <1>8 DEF Phase
<1> QED
  BY <1>5, <1>7, <1>9 DEF Inv

(* The run ends, with a summary or without.                                 *)
LEMMA EndInv ==
    ASSUME Inv, write_summary \/ uncaught_exception
    PROVE  Inv'
<1>1. Typed /\ Phase /\ Recorded
  BY DEF Inv
<1>2. /\ pc' = "done" /\ exit' \in {0, 1}
      /\ UNCHANGED <<args, attempt, retry_context, api_usage, attempts, summary>>
  BY DEF write_summary, uncaught_exception, ExitStatus
<1>3. IsSeq(written') /\ Len(written') <= 1
  <2>1. CASE write_summary
    <3> DEFINE x == ResultSummary
    <3>1. written' = <<x>>
      BY <2>1 DEF write_summary
    <3> HIDE DEF x
    <3>2. IsSeq(<<x>>) /\ Len(<<x>>) = 1
      BY ShortSeqs
    <3> QED
      BY <3>1, <3>2
  <2>2. CASE uncaught_exception
    BY <1>1, <2>2 DEF uncaught_exception, Typed
  <2> QED
    BY <2>1, <2>2
<1>4. Typed'
  BY <1>1, <1>2, <1>3 DEF Typed
<1>5. LeftOver \/ Own(case, attempts)
  <2>1. CASE pc = "case"
    BY <1>1, <2>1 DEF Phase
  <2>2. CASE pc = "attempt"
    BY <1>1, <2>2 DEF Phase, Trying
  <2> QED
    BY <2>1, <2>2 DEF write_summary, uncaught_exception
<1>6. (LeftOver \/ Own(case, attempts))'
  BY <1>2, <1>5 DEF LeftOver, case
<1>7. Phase'
  BY <1>1, <1>2, <1>6 DEF Phase
<1>8. Recorded'
  BY <1>1, <1>2, RecordedKept
<1> QED
  BY <1>4, <1>7, <1>8 DEF Inv

LEMMA StutterInv ==
    ASSUME Inv, UNCHANGED vars
    PROVE  Inv'
<1>1. /\ UNCHANGED <<args, pc, attempt, retry_context>>
      /\ UNCHANGED <<api_usage, attempts, summary, written, exit>>
  BY DEF vars
<1>2. Recorded'
  BY <1>1, RecordedKept DEF Inv
<1>3. Typed'
  BY <1>1 DEF Inv, Typed
<1>4. Phase'
  BY <1>1 DEF Inv, Phase, Trying, LeftOver, Finished, case
<1> QED
  BY <1>2, <1>3, <1>4 DEF Inv

LEMMA NextInv == Inv /\ [Next]_vars => Inv'
  BY StartCaseInv, CallModelInv, ExtractInv, RunOracleInv, FinishCaseInv, EndInv, StutterInv
     DEF Next, Exited

(* The runner's loops keep what is on record and what is about to be asked  *)
(* in step, in every run.                                                   *)
THEOREM InvHolds == Spec => []Inv
<1>1. Init => Inv
  BY InitInv
<1>2. Inv /\ [Next]_vars => Inv'
  BY NextInv
<1> QED
  BY <1>1, <1>2, PTL DEF Spec

(* main's variables keep their types, and no case uses more attempts than   *)
(* the run's budget allows.                                                 *)
THEOREM TypeCorrect == Spec => []TypeOK
<1>1. Inv => TypeOK
  BY DEF Inv, Typed, TypeOK
<1> QED
  BY <1>1, InvHolds, PTL

(* Whatever mixture of transport errors, malformed replies and oracle       *)
(* failures came, every prompt tells of the latest answered attempt of its  *)
(* own case and of nothing else, and quotes the step that failed.           *)
THEOREM RetriesAreTold == Spec => []RetriesToldLatestFailure
<1>1. ASSUME Inv PROVE RetriesToldLatestFailure
  <2>1. Typed /\ Phase /\ Recorded
    BY <1>1 DEF Inv
  <2>2. Len(summary) \in Nat
    BY <2>1, SeqDomain DEF Typed
  <2>3. ASSUME NEW k \in DOMAIN attempts, attempts[k].prompt.case = case
        PROVE  ToldAbout(case, attempts, k)
    <3>1. ~LeftOver
      BY <2>2, <2>3 DEF LeftOver, case
    <3>2. attempts # <<>>
      BY ShortSeqs
    <3>3. args.kind = "model" /\ pc # "case"
      BY <2>1, <3>1, <3>2 DEF Phase
    <3>4. Own(case, attempts)
      BY <2>1, <3>1, <3>3 DEF Typed, Phase, Trying
    <3> QED
      BY <3>4 DEF Own
  <2>4. ASSUME NEW r \in DOMAIN summary, NEW k \in DOMAIN summary[r].attempts
        PROVE  ToldAbout(r, summary[r].attempts, k)
    <3>1. summary[r].attempts # <<>>
      BY ShortSeqs
    <3>2. Own(r, summary[r].attempts)
      BY <2>1, <3>1 DEF Recorded
    <3> QED
      BY <3>2 DEF Own
  <2> QED
    BY <2>3, <2>4 DEF RetriesToldLatestFailure
<1> QED
  BY <1>1, InvHolds, PTL

-----------------------------------------------------------------------------
(* The refinement of the repair policy, safety part.                        *)

(* AttemptsOf of any rows and attempts.                                     *)
OfCase(rows, tried, c) ==
    IF c \in DOMAIN rows THEN rows[c].attempts
    ELSE IF \E k \in DOMAIN tried : tried[k].prompt.case = c THEN tried
    ELSE <<>>

LEMMA OfCaseIs ==
    /\ \A c : AttemptsOf(c) = OfCase(summary, attempts, c)
    /\ \A c : AttemptsOf(c)' = OfCase(summary', attempts', c)
  BY DEF AttemptsOf, OfCase

(* While a case is under way, its attempts count for it and for no other.   *)
LEMMA UnderWay ==
    ASSUME NEW rows, IsSeq(rows), NEW tried, IsSeq(tried), Own(Len(rows) + 1, tried),
           NEW c \in Nat \ {0}
    PROVE  /\ c <= Len(rows) => OfCase(rows, tried, c) = rows[c].attempts
           /\ c = Len(rows) + 1 => OfCase(rows, tried, c) = tried
           /\ c > Len(rows) + 1 => OfCase(rows, tried, c) = <<>>
<1>1. Len(rows) \in Nat /\ DOMAIN rows = 1..Len(rows)
  BY SeqDomain
<1>2. \A k \in DOMAIN tried : tried[k].prompt.case = Len(rows) + 1
  BY AboutIsTold DEF Own
<1>3. DOMAIN tried = {} => tried = <<>>
  BY SeqDomain
<1>4. CASE c <= Len(rows)
  BY <1>1, <1>4 DEF OfCase
<1>5. CASE c = Len(rows) + 1
  <2>1. c \notin DOMAIN rows
    BY <1>1, <1>5
  <2>2. ~ (\E k \in DOMAIN tried : tried[k].prompt.case = c) => tried = <<>>
    BY <1>2, <1>3, <1>5
  <2>3. OfCase(rows, tried, c) = tried
    BY ONLY <2>1, <2>2 DEF OfCase
  <2> QED
    BY <1>1, <1>5, <2>3
<1>6. CASE c > Len(rows) + 1
  <2>1. c \notin DOMAIN rows /\ c # Len(rows) + 1
    BY <1>1, <1>6
  <2>2. ~ \E k \in DOMAIN tried : tried[k].prompt.case = c
    BY <1>2, <2>1
  <2>3. OfCase(rows, tried, c) = <<>>
    BY ONLY <2>1, <2>2 DEF OfCase
  <2> QED
    BY <1>1, <1>6, <2>3
<1> QED
  BY <1>1, <1>4, <1>5, <1>6

(* Between cases, those to come have no attempts.                           *)
LEMMA ToCome ==
    ASSUME NEW rows, IsSeq(rows), NEW tried,
           \A k \in DOMAIN tried : tried[k].prompt.case = Len(rows),
           NEW c \in Nat \ {0}
    PROVE  /\ c <= Len(rows) => OfCase(rows, tried, c) = rows[c].attempts
           /\ c > Len(rows) => OfCase(rows, tried, c) = <<>>
<1>1. Len(rows) \in Nat /\ DOMAIN rows = 1..Len(rows)
  BY SeqDomain
<1>2. CASE c <= Len(rows)
  BY <1>1, <1>2 DEF OfCase
<1>3. CASE c > Len(rows)
  <2>1. c \notin DOMAIN rows /\ c # Len(rows)
    <3>1. \A n \in Nat : c > n => c \notin 1..n /\ c # n
      BY ONLY c \in Nat \ {0}
    <3> QED
      BY <1>1, <1>3, <3>1
  <2>2. ~ \E k \in DOMAIN tried : tried[k].prompt.case = c
    BY <2>1
  <2>3. OfCase(rows, tried, c) = <<>>
    BY ONLY <2>1, <2>2 DEF OfCase
  <2> QED
    BY <1>1, <1>3, <2>3
<1> QED
  BY <1>1, <1>2, <1>3

(* A run that asks no model makes no calls.                                 *)
LEMMA NoCalls ==
    /\ Inv /\ args.kind # "model" => \A c : AttemptsOf(c) = <<>>
    /\ Inv' /\ args'.kind # "model" => \A c : AttemptsOf(c)' = <<>>
<1>1. ASSUME NEW rows, NEW c, \A r \in DOMAIN rows : rows[r].attempts = <<>>
      PROVE  OfCase(rows, <<>>, c) = <<>>
  BY <1>1, ShortSeqs DEF OfCase
<1>2. Inv /\ args.kind # "model" => \A c : AttemptsOf(c) = <<>>
  BY <1>1, OfCaseIs DEF Inv, Phase, Recorded
<1>3. Inv' /\ args'.kind # "model" => \A c : AttemptsOf(c)' = <<>>
  BY <1>1, OfCaseIs DEF Inv, Phase, Recorded
<1> QED
  BY <1>2, <1>3

(* What RepairPolicy's variables stand for.                                 *)
CallsMade == [c \in 1..args.budget.cases |-> Len(AttemptsOf(c))]

PassedCases == {c \in 1..args.budget.cases : HasPass(AttemptsOf(c))}

CallBudget == IF args.kind = "model" THEN args.budget.repair_attempts ELSE 0

Reported == IF written = <<>> THEN <<>>
            ELSE <<{r \in DOMAIN summary : summary[r].status = "pass" /\ args.kind = "model"}>>

(* A case is settled when it has passed or used up its calls.               *)
SettledCase(c) == c \in PassedCases \/ CallsMade[c] = CallBudget

LEMMA PolicyVars ==
    /\ Policy!vars = <<args.budget.cases, CallBudget, CallsMade, PassedCases, pc = "done", Reported>>
    /\ \A c : Policy!Settled(c) <=> SettledCase(c)
  BY DEF Policy!vars, Policy!Settled, CallBudget, CallsMade, PassedCases, Reported, SettledCase

(* Steps that make no call.                                                 *)
LEMMA PolicyStutter ==
    ASSUME Inv, UNCHANGED args, pc # "done", pc' # "done", written = <<>>, written' = <<>>,
           \A c \in 1..args.budget.cases : AttemptsOf(c)' = AttemptsOf(c)
    PROVE  UNCHANGED Policy!vars
<1>1. CallsMade' = CallsMade
  BY DEF CallsMade
<1>2. PassedCases' = PassedCases
  BY DEF PassedCases
<1>3. UNCHANGED <<CallBudget, Reported, pc = "done">>
  BY DEF CallBudget, Reported
<1> QED
  BY <1>1, <1>2, <1>3
     DEF Policy!vars, CallBudget, CallsMade, PassedCases, Reported

(* Cases on record are settled.                                             *)
LEMMA RowsSettled ==
    ASSUME Inv, NEW c \in 1..Len(summary)
    PROVE  SettledCase(c)
<1>1. /\ Typed /\ Recorded
      /\ Len(summary) \in Nat /\ DOMAIN summary = 1..Len(summary)
      /\ args.budget.cases \in Nat
  BY SeqDomain, BudgetTypes DEF Inv, Typed
<1>2. c \in 1..args.budget.cases
  BY <1>1 DEF Typed
<1>3. CASE args.kind # "model"
  <2>1. AttemptsOf(c) = <<>>
    BY <1>3, NoCalls
  <2>2. CallsMade[c] = 0
    BY <1>2, <2>1 DEF CallsMade
  <2> QED
    BY <1>3, <2>2 DEF SettledCase, CallBudget
<1>4. CASE args.kind = "model"
  <2> DEFINE tried == summary[c].attempts
  <2>1. AttemptsOf(c) = tried
    BY <1>1 DEF AttemptsOf
  <2>2. Finished(tried)
    BY <1>1, <1>4 DEF Recorded
  <2> HIDE DEF tried
  <2>3. CASE tried[Len(tried)].status = "pass"
    <3>1. Len(tried) \in DOMAIN tried
      BY <2>2, SeqDomain DEF Finished
    <3>2. HasPass(AttemptsOf(c))
      BY <2>1, <2>3, <3>1 DEF HasPass
    <3> QED
      BY <1>2, <3>2 DEF SettledCase, PassedCases
  <2>4. CASE Len(tried) = args.budget.repair_attempts
    BY <1>2, <1>4, <2>1, <2>4 DEF SettledCase, CallsMade, CallBudget
  <2> QED
    BY <2>2, <2>3, <2>4 DEF Finished
<1> QED
  BY <1>3, <1>4

(* Every attempt on record is one call of the policy.                       *)
LEMMA PolicyCall ==
    ASSUME Inv, Inv', args.kind = "model", pc \in {"attempt", "extract", "oracle"},
           NEW status, NEW stage, NEW usage, NEW context,
           RecordAttempt(status, stage, usage, context),
           UNCHANGED <<args, summary, written>>
    PROVE  Policy!Next
<1> DEFINE a == AttemptResult(status, stage, usage)
           n == Len(attempts)
           cases == args.budget.cases
<1>1. Typed /\ Phase /\ Trying /\ Len(summary) < cases /\ written = <<>>
  BY DEF Inv, Phase
<1>2. attempts' = Append(attempts, a) /\ a.status = status
      /\ a.prompt.case = case /\ a.prompt.context = retry_context
  BY DEF RecordAttempt, AttemptResult, append_retry_context
<1> HIDE DEF a
<1>3. /\ IsSeq(attempts')
      /\ n \in Nat
      /\ DOMAIN attempts = 1..n
      /\ Len(attempts') = n + 1
      /\ DOMAIN attempts' = 1..(n + 1)
      /\ \A k \in 1..n : attempts'[k] = attempts[k]
      /\ attempts'[n + 1] = a
  BY <1>1, <1>2, AppendSeq DEF Typed
<1>4. /\ Len(summary) \in Nat /\ DOMAIN summary = 1..Len(summary)
      /\ cases \in Nat
      /\ case = Len(summary) + 1
  BY <1>1, SeqDomain, BudgetTypes DEF Typed, case
<1>5. case \in 1..cases
  BY <1>1, <1>4
<1>6. pc' \in {"finish", "attempt"}
  BY DEF RecordAttempt
<1>7. Own(case, attempts) /\ Own(case, attempts')
  <2>1. Told(case, attempts, retry_context, n + 1)
    BY <1>1 DEF Trying
  <2> QED
    BY <1>1, <1>2, <2>1, OwnGrows DEF Trying, Typed
<1>8. \A c \in 1..cases :
          /\ c = case => AttemptsOf(c) = attempts /\ AttemptsOf(c)' = attempts'
          /\ c # case => AttemptsOf(c)' = AttemptsOf(c)
  <2> DEFINE before(c) == OfCase(summary, attempts, c)
             after(c) == OfCase(summary, attempts', c)
  <2>1. ASSUME NEW c \in 1..cases
        PROVE  /\ c = case => before(c) = attempts /\ after(c) = attempts'
               /\ c # case => before(c) = after(c)
    <3>1. c \in Nat \ {0} /\ (c <= Len(summary) \/ c = Len(summary) + 1 \/ c > Len(summary) + 1)
      BY <1>4
    <3>2. /\ c <= Len(summary) => before(c) = summary[c].attempts
          /\ c = Len(summary) + 1 => before(c) = attempts
          /\ c > Len(summary) + 1 => before(c) = <<>>
      BY <1>1, <1>4, <1>7, <3>1, UnderWay DEF Typed
    <3>3. /\ c <= Len(summary) => after(c) = summary[c].attempts
          /\ c = Len(summary) + 1 => after(c) = attempts'
          /\ c > Len(summary) + 1 => after(c) = <<>>
      BY <1>1, <1>3, <1>4, <1>7, <3>1, UnderWay DEF Typed
    <3> HIDE DEF before, after
    <3> QED
      BY <1>4, <3>1, <3>2, <3>3
  <2>2. \A c : AttemptsOf(c) = before(c) /\ AttemptsOf(c)' = after(c)
    BY OfCaseIs
  <2> HIDE DEF before, after
  <2> QED
    BY <1>5, <2>1, <2>2
<1>9. CallsMade' = [CallsMade EXCEPT ![case] = @ + 1]
  <2>1. CallsMade' = [c \in 1..cases |-> Len(AttemptsOf(c)')]
    BY DEF CallsMade
  <2>2. \A c \in 1..cases : Len(AttemptsOf(c)') =
            IF c = case THEN Len(AttemptsOf(c)) + 1 ELSE Len(AttemptsOf(c))
    BY <1>3, <1>8
  <2> HIDE DEF cases
  <2>3. CallsMade = [c \in 1..cases |-> Len(AttemptsOf(c))]
    BY DEF CallsMade, cases
  <2>4. \A c \in 1..cases : CallsMade'[c] = [CallsMade EXCEPT ![case] = @ + 1][c]
    BY <1>5, <2>1, <2>2, <2>3
  <2> QED
    BY <1>5, <2>1, <2>3, <2>4
<1>10. PassedCases' \in {PassedCases, PassedCases \union {case}}
  <2>1. ~HasPass(attempts)
    BY <1>1 DEF Trying, NoPass, HasPass
  <2>2. \A c : c \in PassedCases' <=> c \in 1..cases /\ HasPass(AttemptsOf(c)')
    BY DEF PassedCases
  <2>3. \A c : c \in PassedCases <=> c \in 1..cases /\ HasPass(AttemptsOf(c))
    BY DEF PassedCases
  <2>4. \A c : c # case => (c \in PassedCases' <=> c \in PassedCases)
    BY <1>8, <2>2, <2>3
  <2>5. case \notin PassedCases
    BY <1>5, <1>8, <2>1, <2>3
  <2> QED
    BY <2>4, <2>5
<1>11. ~SettledCase(case)
  <2>1. CallsMade[case] = n
    BY <1>5, <1>8 DEF CallsMade
  <2>2. n # args.budget.repair_attempts
    BY <1>1, <1>3, BudgetTypes DEF Trying, Typed
  <2>3. case \notin PassedCases
    BY <1>1, <1>5, <1>8 DEF Trying, NoPass, HasPass, PassedCases
  <2> QED
    BY <2>1, <2>2, <2>3 DEF SettledCase, CallBudget
<1>12. \A d \in 1..(case - 1) : SettledCase(d)
  BY <1>4, RowsSettled
<1>13. UNCHANGED <<CallBudget, pc = "done", Reported>> /\ (pc = "done") = FALSE
  <2>1. CallBudget' = CallBudget
    BY DEF CallBudget
  <2>2. (pc = "done") = FALSE /\ (pc' = "done") = FALSE
    BY <1>6
  <2>3. Reported' = Reported
    BY <1>1 DEF Reported
  <2> QED
    BY <2>1, <2>2, <2>3
<1>14. Policy!Call(case)
  <2>1. ~Policy!Settled(case) /\ \A d \in 1..(case - 1) : Policy!Settled(d)
    BY <1>11, <1>12, PolicyVars
  <2> QED
    BY <1>9, <1>10, <1>13, <2>1
       DEF Policy!Call, CallBudget, CallsMade, PassedCases, Reported
<1> QED
  BY <1>5, <1>14 DEF Policy!Next

(* The run's end is the policy's, with the report of the passed cases or    *)
(* without one.                                                             *)
LEMMA PolicyEnd ==
    ASSUME Inv, write_summary \/ uncaught_exception
    PROVE  Policy!Next
<1>1. Typed /\ Phase /\ Recorded
  BY DEF Inv
<1>2. /\ pc # "done" /\ pc' = "done"
      /\ UNCHANGED <<args, attempts, summary>>
      /\ written = <<>>
  BY <1>1 DEF write_summary, uncaught_exception, Phase
<1>3. UNCHANGED <<CallBudget, CallsMade, PassedCases>>
  <2>1. \A c : AttemptsOf(c)' = AttemptsOf(c)
    BY <1>2, OfCaseIs
  <2> QED
    BY <1>2, <2>1 DEF CallBudget, CallsMade, PassedCases
<1>4. (pc = "done") = FALSE /\ (pc' = "done") = TRUE
  BY <1>2
<1>5. CASE uncaught_exception
  <2>1. Reported' = <<>>
    BY <1>2, <1>5 DEF uncaught_exception, Reported
  <2>2. Policy!End
    BY <1>2, <1>3, <1>4, <2>1
       DEF Policy!End, CallBudget, CallsMade, PassedCases, Reported
  <2> QED
    BY <2>2 DEF Policy!Next
<1>6. CASE write_summary
  <2>1. /\ Len(summary) = args.budget.cases
        /\ DOMAIN summary = 1..args.budget.cases
    BY <1>1, <1>6, SeqDomain DEF write_summary, Typed
  <2>2. \A c \in 1..args.budget.cases : SettledCase(c)
    BY <2>1, RowsSettled
  <2> DEFINE passing == {r \in DOMAIN summary : summary[r].status = "pass" /\ args.kind = "model"}
  <2>3. written' # <<>>
    <3> DEFINE x == ResultSummary
    <3>1. written' = <<x>>
      BY <1>6 DEF write_summary
    <3> HIDE DEF x
    <3> QED
      BY <3>1
  <2>4. Reported' = <<passing>>
    BY <1>2, <2>3 DEF Reported
  <2>5. ASSUME NEW c \in 1..args.budget.cases
        PROVE  c \in passing <=> HasPass(AttemptsOf(c))
    <3>1. CASE args.kind # "model"
      <4>1. AttemptsOf(c) = <<>>
        BY <3>1, NoCalls
      <4>2. ~HasPass(AttemptsOf(c))
        BY <4>1, ShortSeqs DEF HasPass
      <4> QED
        BY <3>1, <4>2
    <3>2. CASE args.kind = "model"
      <4> DEFINE tried == summary[c].attempts
      <4>1. AttemptsOf(c) = tried
        BY <2>1 DEF AttemptsOf
      <4>2. Finished(tried) /\ summary[c].status = tried[Len(tried)].status
        BY <1>1, <2>1, <3>2 DEF Recorded
      <4>3. c \in passing <=> summary[c].status = "pass"
        BY <2>1, <3>2
      <4> HIDE DEF tried
      <4>4. Len(tried) \in DOMAIN tried
        BY <4>2, SeqDomain DEF Finished
      <4>5. HasPass(tried) <=> tried[Len(tried)].status = "pass"
        BY <4>2, <4>4 DEF HasPass, Finished
      <4> QED
        BY <4>1, <4>2, <4>3, <4>5
    <3> QED
      BY <3>1, <3>2
  <2>6. passing = PassedCases
    <3>1. \A c \in passing : c \in 1..args.budget.cases
      BY <2>1
    <3> HIDE DEF passing
    <3> QED
      BY <2>5, <3>1 DEF PassedCases
  <2>7. Reported' = <<PassedCases>>
    BY <2>4, <2>6
  <2>8. \A c \in 1..args.budget.cases : Policy!Settled(c)
    BY <2>2, PolicyVars
  <2>9. Policy!End
    BY <1>2, <1>3, <1>4, <2>7, <2>8
       DEF Policy!End, CallBudget, CallsMade, PassedCases, Reported
  <2> QED
    BY <2>9 DEF Policy!Next
<1> QED
  BY <1>5, <1>6

LEMMA StartCasePolicy ==
    ASSUME Inv, Inv', start_case
    PROVE  UNCHANGED Policy!vars
<1>1. Typed /\ Phase /\ Recorded
  BY DEF Inv
<1>2. pc = "case" /\ UNCHANGED <<args, written>> /\ written = <<>> /\ LeftOver
  BY <1>1 DEF start_case, Phase
<1>3. pc' # "done"
  BY <1>2 DEF start_case, BeginAttempts
<1>4. \A c \in 1..args.budget.cases : AttemptsOf(c)' = AttemptsOf(c)
  <2>1. CASE args.kind # "model"
    BY <1>2, <2>1, NoCalls
  <2>2. CASE args.kind = "model"
    <3>1. attempts' = <<>> /\ summary' = summary
      BY <2>2 DEF start_case, BeginAttempts
    <3>2. ASSUME NEW c \in 1..args.budget.cases
          PROVE  OfCase(summary, attempts, c) = OfCase(summary, <<>>, c)
      <4>1. c \in Nat \ {0} /\ Len(summary) \in Nat
        BY <1>1, BudgetTypes, SeqDomain DEF Typed
      <4>2. /\ c <= Len(summary) => OfCase(summary, attempts, c) = summary[c].attempts
            /\ c > Len(summary) => OfCase(summary, attempts, c) = <<>>
        BY <1>1, <1>2, <4>1, ToCome DEF Typed, LeftOver
      <4>3. \A k \in DOMAIN <<>> : <<>>[k].prompt.case = Len(summary)
        BY ShortSeqs
      <4>4. /\ c <= Len(summary) => OfCase(summary, <<>>, c) = summary[c].attempts
            /\ c > Len(summary) => OfCase(summary, <<>>, c) = <<>>
        BY <1>1, <4>1, <4>3, ToCome DEF Typed
      <4>5. c <= Len(summary) \/ c > Len(summary)
        BY <4>1
      <4> QED
        BY <4>2, <4>4, <4>5
    <3> QED
      BY <3>1, <3>2, OfCaseIs
  <2> QED
    BY <2>1, <2>2
<1> QED
  BY <1>2, <1>3, <1>4, PolicyStutter

LEMMA FinishCasePolicy ==
    ASSUME Inv, Inv', finish_case
    PROVE  UNCHANGED Policy!vars
<1> DEFINE row == Row(Last(attempts).status, Last(attempts).failure_stage, attempts)
<1>1. Typed /\ Phase /\ Recorded
  BY DEF Inv
<1>2. /\ pc = "finish" /\ pc' = "case"
      /\ summary' = Append(summary, row)
      /\ UNCHANGED <<args, attempts, written>>
      /\ row.attempts = attempts
  BY DEF finish_case, Row
<1> HIDE DEF row
<1>3. written = <<>> /\ Own(case, attempts) /\ IsSeq(attempts)
  BY <1>1, <1>2 DEF Phase, Typed
<1>4. /\ IsSeq(summary')
      /\ Len(summary) \in Nat
      /\ Len(summary') = Len(summary) + 1
      /\ \A k \in 1..Len(summary) : summary'[k] = summary[k]
      /\ summary'[Len(summary) + 1] = row
  BY <1>1, <1>2, AppendSeq DEF Typed
<1>5. \A k \in DOMAIN attempts : attempts[k].prompt.case = Len(summary')
  BY <1>3, <1>4, AboutIsTold DEF Own, case
<1>6. ASSUME NEW c \in 1..args.budget.cases
      PROVE  OfCase(summary, attempts, c) = OfCase(summary', attempts, c)
  <2>1. /\ c \in Nat \ {0}
        /\ (c <= Len(summary) \/ c = Len(summary) + 1 \/ c > Len(summary) + 1)
    BY <1>1, <1>4, BudgetTypes DEF Typed
  <2>2. /\ c <= Len(summary) => OfCase(summary, attempts, c) = summary[c].attempts
        /\ c = Len(summary) + 1 => OfCase(summary, attempts, c) = attempts
        /\ c > Len(summary) + 1 => OfCase(summary, attempts, c) = <<>>
    BY <1>1, <1>3, <2>1, UnderWay DEF Typed, case
  <2>3. /\ c <= Len(summary') => OfCase(summary', attempts, c) = summary'[c].attempts
        /\ c > Len(summary') => OfCase(summary', attempts, c) = <<>>
    BY <1>4, <1>5, <2>1, ToCome
  <2>4. CASE c <= Len(summary)
    <3>1. c \in 1..Len(summary) /\ c <= Len(summary')
      BY <1>4, <2>1, <2>4
    <3> QED
      BY <1>4, <2>2, <2>3, <3>1
  <2>5. CASE c = Len(summary) + 1
    <3>1. c <= Len(summary')
      BY <1>4, <2>5
    <3> QED
      BY <1>2, <1>4, <2>2, <2>3, <2>5, <3>1
  <2>6. CASE c > Len(summary) + 1
    BY <1>4, <2>2, <2>3, <2>6
  <2> QED
    BY <2>1, <2>4, <2>5, <2>6
<1>7. \A c \in 1..args.budget.cases : AttemptsOf(c)' = AttemptsOf(c)
  BY <1>2, <1>6, OfCaseIs
<1> QED
  BY <1>2, <1>3, <1>7, PolicyStutter

(* Every step of a run is a step of the policy, or invisible to it.         *)
LEMMA PolicyStep ==
    ASSUME Inv, Inv', [Next]_vars
    PROVE  [Policy!Next]_(Policy!vars)
<1>1. CASE start_case
  BY <1>1, StartCasePolicy
<1>2. CASE call_openai_compatible
  <2>1. pc = "attempt" /\ args.kind = "model" /\ UNCHANGED <<args, summary, written>>
        /\ written = <<>>
    BY <1>2 DEF call_openai_compatible, Inv, Phase
  <2>2. ASSUME NEW usage, ModelFailure(usage)
        PROVE  Policy!Next
    BY <2>1, <2>2, PolicyCall DEF ModelFailure
  <2>3. CASE pc' = "extract" /\ UNCHANGED attempts
    <3>1. \A c : AttemptsOf(c)' = AttemptsOf(c)
      BY <2>1, <2>3, OfCaseIs
    <3> QED
      BY <2>1, <2>3, <3>1, PolicyStutter
  <2> QED
    BY <1>2, <2>2, <2>3 DEF call_openai_compatible
<1>3. CASE extract_source
  <2>1. pc = "extract" /\ args.kind = "model" /\ UNCHANGED <<args, summary, written>>
        /\ written = <<>>
    BY <1>3 DEF extract_source, Inv, Phase
  <2>2. CASE pc' = "oracle" /\ UNCHANGED attempts
    <3>1. \A c : AttemptsOf(c)' = AttemptsOf(c)
      BY <2>1, <2>2, OfCaseIs
    <3> QED
      BY <2>1, <2>2, <3>1, PolicyStutter
  <2>3. ASSUME NEW context, RecordAttempt("model_error", "extract_source", api_usage, context)
        PROVE  Policy!Next
    BY <2>1, <2>3, PolicyCall
  <2> QED
    BY <1>3, <2>2, <2>3 DEF extract_source
<1>4. CASE run_oracle
  <2>1. pc = "oracle" /\ UNCHANGED <<args, written>> /\ written = <<>>
    BY <1>4 DEF run_oracle, Inv, Phase
  <2>2. ASSUME NEW status, NEW stage, NEW context, args.kind = "model", UNCHANGED summary,
               RecordAttempt(status, stage, api_usage, context)
        PROVE  Policy!Next
    BY <2>1, <2>2, PolicyCall
  <2>3. CASE args.kind = "candidate" /\ pc' = "case"
    <3>1. \A c : AttemptsOf(c)' = AttemptsOf(c)
      BY <2>1, <2>3, NoCalls
    <3> QED
      BY <2>1, <2>3, <3>1, PolicyStutter
  <2> QED
    BY <1>4, <2>2, <2>3 DEF run_oracle
<1>5. CASE finish_case
  BY <1>5, FinishCasePolicy
<1>6. CASE write_summary \/ uncaught_exception
  BY <1>6, PolicyEnd
<1>7. CASE UNCHANGED vars
  BY <1>7 DEF vars, Policy!vars, AttemptsOf
<1> QED
  BY <1>1, <1>2, <1>3, <1>4, <1>5, <1>6, <1>7 DEF Next, Exited

(* A run implements the repair policy the evaluation reads off its summary: *)
(* no call beyond the budget or after a pass, cases in order, and a report  *)
(* of exactly the cases that passed.  That a run ends is left to TLC.       *)
THEOREM PolicyImplemented == Spec => Policy!Init /\ [][Policy!Next]_(Policy!vars)
<1>1. Init => Policy!Init
  <2> SUFFICES ASSUME Init PROVE Policy!Init
    OBVIOUS
  <2>1. /\ args.budget.cases \in Nat
        /\ args.budget.repair_attempts \in Nat
    BY BudgetTypes DEF Init
  <2>2. \A c : AttemptsOf(c) = <<>>
    BY ShortSeqs DEF Init, AttemptsOf
  <2>3. /\ CallsMade = [c \in 1..args.budget.cases |-> 0]
        /\ PassedCases = {}
    BY <2>2, ShortSeqs DEF CallsMade, PassedCases, HasPass
  <2>4. CallBudget \in Nat /\ Reported = <<>> /\ (pc = "done") = FALSE
    BY <2>1 DEF CallBudget, Reported, Init
  <2> QED
    BY <2>1, <2>3, <2>4
       DEF Policy!Init, CallBudget, CallsMade, PassedCases, Reported
<1>2. Inv /\ Inv' /\ [Next]_vars => [Policy!Next]_(Policy!vars)
  BY PolicyStep
<1> QED
  BY <1>1, <1>2, InvHolds, PTL DEF Spec

-----------------------------------------------------------------------------
(* What the auditor looks at.                                               *)

(* A status and a stage the runner puts together: compatible, or one of the *)
(* two stages the auditor does not know.                                    *)
Fits(status, stage) ==
    \/ stage \in ALLOWED_FAILURE_STAGES /\ Compatible(status, stage)
    \/ stage \in {"oracle_parse", "oracle"}

(* Usage after normalisation: a number, or None.                            *)
TokenCounts == [TOKEN_USAGE_FIELDS -> Nat \union {Unreported}]

AttemptFits(a, k) ==
    /\ a.attempt = k
    /\ a.token_usage = normalize_token_usage(a.api_usage)
    /\ a.token_usage \in TokenCounts
    /\ Fits(a.status, a.failure_stage)

AttemptsFit(tried) == \A k \in DOMAIN tried : AttemptFits(tried[k], k)

(* A row, by the kind of run it comes from.                                 *)
RowFits(row, r, kind) ==
    /\ row.case = r
    /\ row.prompt = base_prompt(r)
    /\ row.cost = aggregate_attempt_cost(row.attempts)
    /\ Fits(row.status, row.failure_stage)
    /\ AttemptsFit(row.attempts)
    /\ kind = "model" =>
           /\ row.status \in {"pass", "fail", "model_error"}
           /\ row.failure_stage = row.attempts[Len(row.attempts)].failure_stage
    /\ kind = "candidate" => row.status \in {"pass", "fail"}
    /\ kind = "prompt_only" => row.status = "prompt_written" /\ row.failure_stage = "prompt_only"

(* What is on record passes the auditor's checks, and the summary written   *)
(* is that of the record.                                                   *)
Auditable ==
    /\ AttemptsFit(attempts)
    /\ \A k \in DOMAIN attempts : attempts[k].status \in {"pass", "fail", "model_error"}
    /\ \A r \in DOMAIN summary : RowFits(summary[r], r, args.kind)
    /\ written # <<>> => written = <<ResultSummary>>

LEMMA VerdictFits ==
    ASSUME NEW verdict \in Verdicts
    PROVE  /\ Fits(Status(verdict), verdict.failure_stage)
           /\ Status(verdict) \in {"pass", "fail"}
<1>1. PICK completed \in Outcomes : verdict = Verdict(completed)
  BY DEF Verdicts
<1>2. /\ verdict.failure_stage = oracle_failure_stage(completed)
      /\ verdict.returncode = completed.returncode
  BY <1>1 DEF Verdict
<1>3. CASE completed.returncode = 0
  BY <1>2, <1>3 DEF oracle_failure_stage, Status, Fits, Compatible, ALLOWED_FAILURE_STAGES
<1>4. CASE completed.returncode # 0
  <2>1. Status(verdict) = "fail"
    BY <1>2, <1>4 DEF Status
  <2>2. verdict.failure_stage \in {"oracle_parse", "oracle", "compile", "map_setup",
            "verifier_load", "auxiliary_proof_predicate", "functional_oracle"}
    BY <1>2, <1>4 DEF oracle_failure_stage, BlamedStage, FunctionalStage
  <2> QED
    BY <2>1, <2>2 DEF Fits, Compatible, ALLOWED_FAILURE_STAGES
<1> QED
  BY <1>3, <1>4

(* Whatever the provider sends, a field ends as a natural number or None.   *)
LEMMA NormalizedUsage ==
    ASSUME NEW usage \in RawUsages \union {NoApiUsage}
    PROVE  normalize_token_usage(usage) \in TokenCounts
<1>1. \A f \in TOKEN_USAGE_FIELDS : usage[f] \in Seq(Int)
  <2>1. CASE usage \in RawUsages
    BY <2>1, RawUsagesAssumption
  <2>2. CASE usage = NoApiUsage
    <3>1. <<>> \in Seq(Int)
      OBVIOUS
    <3> QED
      BY <2>2, <3>1, Zenon DEF NoApiUsage
  <2> QED
    BY <2>1, <2>2
<1>2. ASSUME NEW values \in Seq(Int)
      PROVE  first_reported_int(values) \in Nat \union {Unreported}
  <2> DEFINE usable == {i \in DOMAIN values : values[i] >= 0}
  <2>1. usable \in SUBSET Nat
    OBVIOUS
  <2>2. first_reported_int(values) = IF usable = {} THEN Unreported ELSE values[Min(usable)]
    BY DEF first_reported_int
  <2>3. \A i \in usable : values[i] \in Nat
    OBVIOUS
  <2> HIDE DEF usable
  <2>4. CASE usable = {}
    BY <2>2, <2>4
  <2>5. CASE usable # {}
    <3>1. PICK m \in usable : \A y \in usable : m <= y
      BY <2>1, <2>5, Least
    <3>2. Min(usable) \in usable
      BY <3>1 DEF Min
    <3> QED
      BY <2>2, <2>3, <2>5, <3>2
  <2> QED
    BY <2>4, <2>5
<1> QED
  BY <1>1, <1>2 DEF normalize_token_usage, TokenCounts

(* One more attempt on record.                                              *)
LEMMA RecordFits ==
    ASSUME Inv, Inv', Auditable, args.kind = "model", pc \in {"attempt", "extract", "oracle"},
           NEW status \in {"pass", "fail", "model_error"}, NEW stage, Fits(status, stage),
           NEW usage \in RawUsages \union {NoApiUsage},
           NEW context, RecordAttempt(status, stage, usage, context),
           UNCHANGED <<args, summary, written>>
    PROVE  Auditable'
<1> DEFINE a == AttemptResult(status, stage, usage)
           n == Len(attempts)
<1>1. IsSeq(attempts) /\ attempt = n + 1 /\ written = <<>>
  BY DEF Inv, Typed, Phase, Trying
<1>2. attempts' = Append(attempts, a)
  BY DEF RecordAttempt
<1>3. AttemptFits(a, n + 1) /\ a.status = status
  BY <1>1, NormalizedUsage DEF AttemptFits, AttemptResult
<1> HIDE DEF a
<1>4. /\ n \in Nat
      /\ DOMAIN attempts = 1..n
      /\ DOMAIN attempts' = 1..(n + 1)
      /\ \A k \in 1..n : attempts'[k] = attempts[k]
      /\ attempts'[n + 1] = a
  BY <1>1, <1>2, AppendSeq
<1> HIDE DEF n
<1>5. \A k \in DOMAIN attempts' : k \in DOMAIN attempts \/ k = n + 1
  BY <1>4
<1>6. AttemptsFit(attempts')
  BY <1>3, <1>4, <1>5 DEF Auditable, AttemptsFit
<1>7. \A k \in DOMAIN attempts' : attempts'[k].status \in {"pass", "fail", "model_error"}
  BY <1>3, <1>4, <1>5 DEF Auditable
<1> QED
  BY <1>1, <1>6, <1>7 DEF Auditable

(* One more row.                                                            *)
LEMMA RowsFit ==
    ASSUME Inv, Auditable, UNCHANGED <<args, attempts, written>>, written = <<>>,
           NEW row, RowFits(row, case, args.kind), summary' = Append(summary, row)
    PROVE  Auditable'
<1>1. /\ Len(summary) \in Nat
      /\ DOMAIN summary = 1..Len(summary)
      /\ DOMAIN summary' = 1..(Len(summary) + 1)
      /\ \A k \in 1..Len(summary) : summary'[k] = summary[k]
      /\ summary'[Len(summary) + 1] = row
  BY AppendSeq DEF Inv, Typed
<1>2. \A r \in DOMAIN summary' : r \in DOMAIN summary \/ r = case
  BY <1>1 DEF case
<1>3. \A r \in DOMAIN summary' : RowFits(summary'[r], r, args.kind)
  BY <1>1, <1>2 DEF Auditable, case
<1> QED
  BY <1>3 DEF Auditable

LEMMA AuditableKept ==
    ASSUME Auditable, UNCHANGED <<args, attempts, summary, written>>
    PROVE  Auditable'
<1>1. ResultSummary' = ResultSummary
  BY DEF ResultSummary, Passed, MaxAttempts
<1> QED
  BY <1>1 DEF Auditable

LEMMA AuditableStep ==
    ASSUME Inv, Inv', Auditable, [Next]_vars
    PROVE  Auditable'
<1> USE DEF Kinds
<1>0. api_usage \in RawUsages \union {NoApiUsage}
  BY DEF Inv, Typed
<1>1. CASE start_case
  <2>1. pc = "case" /\ UNCHANGED <<args, written>> /\ written = <<>>
    BY <1>1 DEF start_case, Inv, Phase
  <2>2. CASE BeginAttempts
    <3>1. attempts' = <<>> /\ UNCHANGED summary
      BY <2>2 DEF BeginAttempts
    <3>2. DOMAIN attempts' = {}
      BY <3>1, ShortSeqs
    <3> QED
      BY <2>1, <3>1, <3>2 DEF Auditable, AttemptsFit
  <2>3. CASE UNCHANGED <<attempts, summary>>
    BY <2>1, <2>3, AuditableKept
  <2>4. CASE /\ args.kind = "prompt_only"
             /\ summary' = Append(summary, Row("prompt_written", "prompt_only", <<>>))
             /\ UNCHANGED attempts
    <3> DEFINE row == Row("prompt_written", "prompt_only", <<>>)
    <3>1. /\ row.case = case /\ row.prompt = base_prompt(case) /\ row.attempts = <<>>
          /\ row.status = "prompt_written" /\ row.failure_stage = "prompt_only"
          /\ row.cost = aggregate_attempt_cost(row.attempts)
      BY DEF Row
    <3> HIDE DEF row
    <3>2. AttemptsFit(row.attempts)
      BY <3>1, ShortSeqs DEF AttemptsFit
    <3>3. Fits(row.status, row.failure_stage)
      BY <3>1 DEF Fits, Compatible, ALLOWED_FAILURE_STAGES
    <3>4. RowFits(row, case, args.kind)
      BY <2>4, <3>1, <3>2, <3>3 DEF RowFits
    <3>5. summary' = Append(summary, row)
      BY <2>4 DEF row
    <3> QED
      BY <2>1, <2>4, <3>4, <3>5, RowsFit
  <2> QED
    BY <1>1, <2>2, <2>3, <2>4 DEF start_case
<1>2. CASE call_openai_compatible
  <2>1. pc = "attempt" /\ args.kind = "model" /\ UNCHANGED <<args, summary, written>>
    BY <1>2 DEF call_openai_compatible, Inv, Phase
  <2>2. Fits("model_error", "model_call")
    BY DEF Fits, Compatible, ALLOWED_FAILURE_STAGES
  <2>u. args.budget.usages \subseteq RawUsages
    BY BudgetTypes DEF Inv, Typed
  <2>3. ASSUME NEW usage \in RawUsages \union {NoApiUsage}, ModelFailure(usage)
        PROVE  Auditable'
    BY <2>1, <2>2, <2>3, RecordFits DEF ModelFailure
  <2>4. CASE UNCHANGED attempts
    BY <2>1, <2>4, AuditableKept
  <2> QED
    BY <1>2, <2>u, <2>3, <2>4 DEF call_openai_compatible
<1>3. CASE extract_source
  <2>1. pc = "extract" /\ args.kind = "model" /\ UNCHANGED <<args, summary, written>>
    BY <1>3 DEF extract_source, Inv, Phase
  <2>2. Fits("model_error", "extract_source")
    BY DEF Fits, Compatible, ALLOWED_FAILURE_STAGES
  <2>3. ASSUME NEW context, RecordAttempt("model_error", "extract_source", api_usage, context)
        PROVE  Auditable'
    BY <1>0, <2>1, <2>2, <2>3, RecordFits
  <2>4. CASE UNCHANGED attempts
    BY <2>1, <2>4, AuditableKept
  <2> QED
    BY <1>3, <2>3, <2>4 DEF extract_source
<1>4. CASE run_oracle
  <2>1. pc = "oracle" /\ UNCHANGED <<args, written>> /\ written = <<>>
    BY <1>4 DEF run_oracle, Inv, Phase
  <2>2. ASSUME NEW verdict \in Verdicts, NEW context, args.kind = "model", UNCHANGED summary,
               RecordAttempt(Status(verdict), verdict.failure_stage, api_usage, context)
        PROVE  Auditable'
    <3>1. Status(verdict) \in {"pass", "fail", "model_error"}
      BY VerdictFits
    <3> QED
      BY <1>0, <2>1, <2>2, <3>1, VerdictFits, RecordFits
  <2>3. ASSUME NEW verdict \in Verdicts, args.kind = "candidate", UNCHANGED attempts,
               summary' = Append(summary, Row(Status(verdict), verdict.failure_stage, <<>>))
        PROVE  Auditable'
    <3> DEFINE row == Row(Status(verdict), verdict.failure_stage, <<>>)
    <3>1. /\ row.case = case /\ row.prompt = base_prompt(case) /\ row.attempts = <<>>
          /\ row.status = Status(verdict) /\ row.failure_stage = verdict.failure_stage
          /\ row.cost = aggregate_attempt_cost(row.attempts)
      BY DEF Row
    <3> HIDE DEF row
    <3>2. AttemptsFit(row.attempts)
      BY <3>1, ShortSeqs DEF AttemptsFit
    <3>3. RowFits(row, case, args.kind)
      BY <2>3, <3>1, <3>2, VerdictFits DEF RowFits
    <3>4. summary' = Append(summary, row)
      BY <2>3 DEF row
    <3> QED
      BY <2>1, <2>3, <3>3, <3>4, RowsFit
  <2> QED
    BY <1>4, <2>2, <2>3 DEF run_oracle
<1>5. CASE finish_case
  <2> DEFINE row == Row(Last(attempts).status, Last(attempts).failure_stage, attempts)
             n == Len(attempts)
  <2>1. /\ pc = "finish" /\ UNCHANGED <<args, attempts, written>> /\ written = <<>>
        /\ args.kind = "model" /\ Finished(attempts)
    BY <1>5 DEF finish_case, Inv, Phase
  <2>2. /\ row.case = case /\ row.prompt = base_prompt(case) /\ row.attempts = attempts
        /\ row.status = attempts[n].status /\ row.failure_stage = attempts[n].failure_stage
        /\ row.cost = aggregate_attempt_cost(row.attempts)
    BY DEF Row, Last
  <2>3. summary' = Append(summary, row)
    BY <1>5 DEF finish_case
  <2> HIDE DEF row
  <2>4. n \in DOMAIN attempts
    BY <2>1, SeqDomain DEF Finished
  <2> HIDE DEF n
  <2>5. AttemptFits(attempts[n], n) /\ attempts[n].status \in {"pass", "fail", "model_error"}
    BY <2>4 DEF Auditable, AttemptsFit
  <2>6. RowFits(row, case, args.kind)
    BY <2>1, <2>2, <2>5 DEF RowFits, AttemptFits, Auditable, n
  <2> QED
    BY <2>1, <2>3, <2>6, RowsFit
<1>6. CASE write_summary
  <2>1. written' = <<ResultSummary>> /\ UNCHANGED <<args, attempts, summary>>
    BY <1>6 DEF write_summary
  <2>2. ResultSummary' = ResultSummary
    BY <2>1 DEF ResultSummary, Passed, MaxAttempts
  <2> QED
    BY <2>1, <2>2 DEF Auditable
<1>7. CASE uncaught_exception \/ UNCHANGED vars
  <2>1. UNCHANGED <<args, attempts, summary, written>>
    BY <1>7 DEF uncaught_exception, vars
  <2> QED
    BY <2>1, AuditableKept
<1> QED
  BY <1>1, <1>2, <1>3, <1>4, <1>5, <1>6, <1>7 DEF Next, Exited

(* At every moment of a run what main has on record passes the auditor's    *)
(* checks of attempts and rows, and a summary written is that of the record. *)
THEOREM AuditableHolds == Spec => [](Inv /\ Auditable)
<1>1. Init => Auditable
  BY ShortSeqs DEF Init, Auditable, AttemptsFit
<1>2. Inv /\ Inv' /\ Auditable /\ [Next]_vars => Auditable'
  BY AuditableStep
<1> QED
  BY <1>1, <1>2, InvHolds, PTL DEF Spec

(* The errors the auditor finds in the rows.                                *)
LEMMA RowErrorsAre ==
    ASSUME Inv, Auditable, NEW r \in DOMAIN summary, NEW allow \in BOOLEAN
    PROVE  \A e : e \in RowErrors(summary[r], Prompts, allow) <=>
               \/ /\ e = "prompt-only row" /\ ~allow
                  /\ summary[r].status = "prompt_written"
               \/ /\ e = "invalid failure_stage"
                  /\ summary[r].failure_stage \in {"oracle_parse", "oracle"}
<1> DEFINE row == summary[r]
<1>1. RowFits(row, r, args.kind)
  BY DEF Auditable
<1>2. r \in 1..args.budget.cases
  BY SeqDomain, BudgetTypes DEF Inv, Typed
<1>3. row.prompt = Prompts[row.case]
  BY <1>1, <1>2 DEF Prompts, RowFits
<1>4. Fits(row.status, row.failure_stage)
  BY <1>1 DEF RowFits
<1> HIDE DEF row
<1>5. row.failure_stage \notin ALLOWED_FAILURE_STAGES
         <=> row.failure_stage \in {"oracle_parse", "oracle"}
  BY <1>4 DEF Fits, ALLOWED_FAILURE_STAGES
<1>6. row.failure_stage \in ALLOWED_FAILURE_STAGES => Compatible(row.status, row.failure_stage)
  BY <1>4, <1>5 DEF Fits
<1>7. \A e : e \in RowErrors(row, Prompts, allow) <=>
               \/ e = "prompt-only row" /\ ~allow /\ row.status = "prompt_written"
               \/ e = "invalid failure_stage" /\ row.failure_stage \in {"oracle_parse", "oracle"}
  BY <1>3, <1>5, <1>6 DEF RowErrors
<1> QED
  BY <1>7 DEF row

(* Attempts on record before the last.                                      *)
LEMMA FrontIs ==
    ASSUME NEW tried, IsSeq(tried), Len(tried) >= 1
    PROVE  /\ DOMAIN Front(tried) = 1..(Len(tried) - 1)
           /\ \A k \in 1..(Len(tried) - 1) : Front(tried)[k] = tried[k]
<1> DEFINE S == {tried[k] : k \in DOMAIN tried}
<1>1. tried \in Seq(S)
  BY DEF IsSeq
<1> HIDE DEF S
<1> QED
  BY <1>1 DEF Front

LEMMA NoAttemptErrors ==
    ASSUME Inv, Auditable, args.kind = "model", NEW r \in DOMAIN summary
    PROVE  AttemptErrors(summary[r], args.budget.repair_attempts) = {}
<1> DEFINE row == summary[r]
           tried == row.attempts
           limit == args.budget.repair_attempts
<1>1. RowFits(row, r, args.kind)
  BY DEF Auditable
<1>2. Finished(tried) /\ row.status = tried[Len(tried)].status
  BY DEF Inv, Recorded
<1>3. /\ row.failure_stage = tried[Len(tried)].failure_stage
      /\ row.cost = aggregate_attempt_cost(tried)
      /\ AttemptsFit(tried)
  BY <1>1 DEF RowFits
<1>4. limit \in Nat \ {0}
  BY BudgetTypes DEF Inv, Typed
<1>5. /\ IsSeq(tried) /\ Len(tried) \in 1..limit /\ DOMAIN tried = 1..Len(tried)
      /\ tried[Len(tried)].status = "pass" \/ Len(tried) = limit
      /\ \A k \in DOMAIN tried : tried[k].status = "pass" => k = Len(tried)
  BY <1>2, SeqDomain DEF Finished
<1> HIDE DEF tried, limit
<1>6. ~HasPass(Front(tried))
  <2>1. Len(tried) >= 1 /\ Len(tried) \in Nat
    <3>1. \A m \in 1..limit : m >= 1 /\ m \in Nat
      BY ONLY <1>4
    <3> QED
      BY ONLY <1>5, <3>1
  <2>2. /\ DOMAIN Front(tried) = 1..(Len(tried) - 1)
        /\ \A k \in 1..(Len(tried) - 1) : Front(tried)[k] = tried[k]
    BY <1>5, <2>1, FrontIs
  <2>3. \A k \in 1..(Len(tried) - 1) : k \in DOMAIN tried /\ k # Len(tried)
    <3>1. \A m \in Nat : \A k \in 1..(m - 1) : k \in 1..m /\ k # m
      BY ONLY TRUE
    <3> QED
      BY ONLY <1>5, <2>1, <3>1
  <2> QED
    BY <1>5, <2>2, <2>3 DEF HasPass
<1>7. \A k \in DOMAIN tried : tried[k].attempt = k
          /\ normalize_token_usage(tried[k].api_usage) = tried[k].token_usage
  BY <1>3 DEF AttemptsFit, AttemptFits
<1>8. ~(Len(tried) > limit) /\ ~(Len(tried) < limit /\ tried[Len(tried)].status # "pass")
  <2>1. \A m \in 1..limit : ~(m > limit) /\ (m = limit => ~(m < limit))
    BY ONLY <1>4
  <2> QED
    BY ONLY <1>5, <2>1
<1>9. AttemptErrors(row, limit) = {}
  BY <1>2, <1>3, <1>6, <1>7, <1>8 DEF AttemptErrors, Last, tried
<1> QED
  BY <1>9 DEF limit

(* The counts of the summary are those of its rows.                         *)
LEMMA NoCountErrors ==
    ASSUME Inv, Auditable, NEW prompts, NEW allow, NEW require
    PROVE  audit_one_summary(ResultSummary, prompts, allow, require) =
               (UNION {RowErrors(summary[r], prompts, allow) : r \in DOMAIN summary})
                 \union audit_cost_metrics(ResultSummary, require)
<1> DEFINE S == ResultSummary
<1>1. S.results = summary /\ S.total = Len(summary) /\ S.passed = Passed
  BY DEF ResultSummary
<1>2. Len(summary) \in Nat /\ DOMAIN summary = 1..Len(summary)
  BY SeqDomain DEF Inv, Typed
<1>3. {summary[r].case : r \in DOMAIN summary} = 1..Len(summary)
  <2>1. \A r \in DOMAIN summary : summary[r].case = r
    BY DEF Auditable, RowFits
  <2> QED
    BY <1>2, <2>1
<1>4. Cardinality(1..Len(summary)) = Len(summary)
  <2>1. \A n \in Nat : Cardinality(1..n) = n
    <3> SUFFICES ASSUME NEW n \in Nat PROVE Cardinality(1..n) = n
      OBVIOUS
    <3>1. Cardinality(1..n) = IF 1 > n THEN 0 ELSE n - 1 + 1
      BY ONLY FS_Interval, 1 \in Int, n \in Int
    <3> QED
      BY ONLY <3>1, n \in Nat
  <2> QED
    BY <1>2, <2>1
<1> HIDE DEF S
<1>5. {e \in {"total", "passed", "duplicate cases"} :
            \/ e = "total" /\ S.total # Len(S.results)
            \/ /\ e = "passed"
               /\ S.passed #
                      Cardinality({r \in DOMAIN S.results : S.results[r].status = "pass"})
            \/ /\ e = "duplicate cases"
               /\ Cardinality({S.results[r].case : r \in DOMAIN S.results}) # Len(S.results)} = {}
  BY <1>1, <1>3, <1>4 DEF Passed
<1>6. audit_one_summary(S, prompts, allow, require) =
          (UNION {RowErrors(S.results[r], prompts, allow) : r \in DOMAIN S.results})
            \union audit_cost_metrics(S, require)
  BY <1>5 DEF audit_one_summary
<1> QED
  BY <1>1, <1>6 DEF S

(* A model run's costs and checkpoints pass with cost metrics required.     *)
LEMMA ModelCosts ==
    ASSUME Inv, Auditable, args.kind = "model"
    PROVE  audit_cost_metrics(ResultSummary, TRUE) = {}
<1> DEFINE S == ResultSummary
           limit == args.budget.repair_attempts
<1>1. limit \in Nat \ {0}
  BY BudgetTypes DEF Inv, Typed
<1>2. limit # Unreported
  BY <1>1 DEF Unreported
<1>3. /\ S.results = summary /\ S.max_attempts = limit
      /\ S.cost = aggregate_attempt_cost(AllAttempts(summary))
      /\ S.policy_checkpoints = repair_policy_checkpoints(summary, limit)
  BY DEF ResultSummary, MaxAttempts
<1>4. Len(repair_policy_checkpoints(summary, limit)) = limit
  <2> HIDE DEF limit
  <2>1. repair_policy_checkpoints(summary, limit) = [k \in 1..limit |-> Checkpoint(summary, k)]
    BY <1>2 DEF repair_policy_checkpoints
  <2> QED
    BY <1>1, <2>1
<1>5. \A r \in DOMAIN summary : summary[r].attempts # <<>>
  <2> SUFFICES ASSUME NEW r \in DOMAIN summary PROVE summary[r].attempts # <<>>
    OBVIOUS
  <2>1. IsSeq(summary[r].attempts) /\ Len(summary[r].attempts) \in 1..limit
    BY DEF Inv, Recorded, Finished
  <2>2. \A m \in 1..limit : m # 0
    BY ONLY <1>1
  <2> QED
    BY ONLY <2>1, <2>2, SeqDomain
<1>6. \A r \in DOMAIN summary : AttemptErrors(summary[r], limit) = {}
  BY NoAttemptErrors
<1> HIDE DEF S, limit
<1>7. audit_cost_metrics(S, TRUE) =
          (UNION {AttemptErrors(summary[r], limit) :
                     r \in {i \in DOMAIN summary : summary[i].attempts # <<>>}})
          \union
          {e \in {"max_attempts required", "attempts required", "summary cost",
                  "checkpoint count", "checkpoints"} :
              \/ e = "max_attempts required" /\ limit = Unreported
              \/ /\ e = "attempts required"
                 /\ \E r \in DOMAIN summary :
                        summary[r].attempts = <<>> /\ summary[r].status # "prompt_written"
              \/ e = "summary cost" /\ S.cost # aggregate_attempt_cost(AllAttempts(summary))
              \/ e = "checkpoint count" /\ Len(S.policy_checkpoints) # limit
              \/ e = "checkpoints" /\ S.policy_checkpoints # repair_policy_checkpoints(summary, limit)}
  BY <1>2, <1>3 DEF audit_cost_metrics
<1>8. UNION {AttemptErrors(summary[r], limit) :
                r \in {i \in DOMAIN summary : summary[i].attempts # <<>>}} = {}
  BY <1>6
<1>9. audit_cost_metrics(S, TRUE) = {}
  BY <1>2, <1>3, <1>4, <1>5, <1>7, <1>8
<1> QED
  BY <1>9 DEF S

(* Without a model there is nothing to audit, and cost metrics cannot be    *)
(* required.                                                                *)
LEMMA OtherCosts ==
    ASSUME Inv, Auditable, args.kind # "model"
    PROVE  /\ audit_cost_metrics(ResultSummary, FALSE) = {}
           /\ "max_attempts required" \in audit_cost_metrics(ResultSummary, TRUE)
<1> DEFINE S == ResultSummary
           checkpoints == repair_policy_checkpoints(summary, Unreported)
<1>1. /\ S.results = summary /\ S.max_attempts = Unreported
      /\ S.cost = aggregate_attempt_cost(AllAttempts(summary))
      /\ S.policy_checkpoints = checkpoints
  BY DEF ResultSummary, MaxAttempts
<1>2. \A r \in DOMAIN summary : summary[r].attempts = <<>>
  BY DEF Inv, Recorded
<1>3. checkpoints = <<>> /\ repair_policy_checkpoints(summary, 0) = <<>>
  <2> DEFINE observed == {0} \union {Len(summary[r].attempts) : r \in DOMAIN summary}
  <2>1. observed = {0}
    BY <1>2, ShortSeqs
  <2> HIDE DEF observed
  <2>2. Max(observed) = 0
    <3>1. \E x \in {0} : \A y \in {0} : x >= y
      OBVIOUS
    <3>2. Max({0}) \in {0}
      BY <3>1 DEF Max
    <3> QED
      BY <2>1, <3>2
  <2>3. checkpoints = [k \in 1..Max(observed) |-> Checkpoint(summary, k)]
    BY DEF repair_policy_checkpoints, observed
  <2>4. repair_policy_checkpoints(summary, 0) = [k \in 1..0 |-> Checkpoint(summary, k)]
    BY DEF repair_policy_checkpoints, Unreported
  <2>5. 1..0 = {}
    OBVIOUS
  <2>6. [k \in 1..0 |-> Checkpoint(summary, k)] = <<>>
    BY ONLY <2>5
  <2> QED
    BY <2>2, <2>3, <2>4, <2>6
<1>4. Len(checkpoints) = 0
  BY <1>3
<1> HIDE DEF S, checkpoints
<1>5. ASSUME NEW require \in BOOLEAN
      PROVE  audit_cost_metrics(S, require) =
          (UNION {AttemptErrors(summary[r], Unreported) :
                     r \in {i \in DOMAIN summary : summary[i].attempts # <<>>}})
          \union
          {e \in {"max_attempts required", "attempts required", "summary cost",
                  "checkpoint count", "checkpoints"} :
              \/ e = "max_attempts required" /\ require
              \/ /\ e = "attempts required" /\ require
                 /\ \E r \in DOMAIN summary :
                        summary[r].attempts = <<>> /\ summary[r].status # "prompt_written"
              \/ e = "summary cost" /\ S.cost # aggregate_attempt_cost(AllAttempts(summary))
              \/ e = "checkpoint count" /\ Len(checkpoints) # Len(checkpoints)
              \/ e = "checkpoints" /\ checkpoints # repair_policy_checkpoints(summary, Len(checkpoints))}
  BY <1>1 DEF audit_cost_metrics
<1>6. {i \in DOMAIN summary : summary[i].attempts # <<>>} = {}
  BY <1>2
<1>7. audit_cost_metrics(S, FALSE) = {}
  BY <1>1, <1>3, <1>4, <1>5, <1>6
<1>8. "max_attempts required" \in audit_cost_metrics(S, TRUE)
  BY <1>1 DEF audit_cost_metrics
<1> QED
  BY <1>7, <1>8 DEF S

(* The auditor accepts every summary the runner writes, but for the two     *)
(* stages it does not know.                                                 *)
THEOREM AuditAccepts == Spec => []AuditAcceptsRuns
<1>1. ASSUME Inv, Auditable PROVE AuditAcceptsRuns
  <2> SUFFICES ASSUME written # <<>> PROVE AuditAcceptsRuns
    BY DEF AuditAcceptsRuns
  <2> DEFINE unknown == {r \in DOMAIN summary :
                            summary[r].failure_stage \in {"oracle_parse", "oracle"}}
             stage_errors == IF unknown = {} THEN {} ELSE {"invalid failure_stage"}
             InRows(allow) == UNION {RowErrors(summary[r], Prompts, allow) : r \in DOMAIN summary}
  <2>1. written[1] = ResultSummary
    <3> DEFINE x == ResultSummary
    <3>1. written = <<x>>
      BY <1>1 DEF Auditable
    <3> HIDE DEF x
    <3>2. written[1] = x
      BY <3>1
    <3> QED
      BY <3>2 DEF x
  <2>2. \A allow, require \in BOOLEAN :
            Errors(allow, require) = InRows(allow) \union audit_cost_metrics(ResultSummary, require)
    <3> SUFFICES ASSUME NEW allow \in BOOLEAN, NEW require \in BOOLEAN
                 PROVE  Errors(allow, require) =
                            InRows(allow) \union audit_cost_metrics(ResultSummary, require)
      OBVIOUS
    <3>1. Errors(allow, require) = audit_one_summary(ResultSummary, Prompts, allow, require)
      BY ONLY <2>1 DEF Errors
    <3>2. Inv /\ Auditable
      BY <1>1
    <3>3. audit_one_summary(ResultSummary, Prompts, allow, require) =
              InRows(allow) \union audit_cost_metrics(ResultSummary, require)
      BY ONLY <3>2, NoCountErrors
    <3> QED
      BY ONLY <3>1, <3>3, Zenon
  <2>3. \A r \in DOMAIN summary : RowFits(summary[r], r, args.kind)
    BY <1>1 DEF Auditable
  <2>4. ASSUME NEW allow \in BOOLEAN
        PROVE  \A e : e \in InRows(allow) <=> \E r \in DOMAIN summary :
                   \/ e = "prompt-only row" /\ ~allow /\ summary[r].status = "prompt_written"
                   \/ e = "invalid failure_stage" /\ r \in unknown
    <3>1. Inv /\ Auditable
      BY <1>1
    <3>2. \A r \in DOMAIN summary : \A e : e \in RowErrors(summary[r], Prompts, allow) <=>
              \/ e = "prompt-only row" /\ ~allow /\ summary[r].status = "prompt_written"
              \/ e = "invalid failure_stage" /\ summary[r].failure_stage \in {"oracle_parse", "oracle"}
      BY ONLY <2>4, <3>1, RowErrorsAre, Zenon
    <3>3. \A r \in DOMAIN summary :
              r \in unknown <=> summary[r].failure_stage \in {"oracle_parse", "oracle"}
      OBVIOUS
    <3>4. \A e : e \in InRows(allow) <=>
              \E r \in DOMAIN summary : e \in RowErrors(summary[r], Prompts, allow)
      OBVIOUS
    <3> HIDE DEF InRows, unknown
    <3> QED
      BY ONLY <3>2, <3>3, <3>4, Zenon
  <2> HIDE DEF InRows
  <2>5. args.kind \in Kinds
    BY <1>1, BudgetTypes DEF Inv, Typed
  <2>6. CASE args.kind = "model"
    <3>1. \A r \in DOMAIN summary : summary[r].status # "prompt_written"
      BY <2>3, <2>6 DEF RowFits
    <3>2. InRows(FALSE) = stage_errors
      BY <2>4, <3>1
    <3>3. Errors(FALSE, TRUE) = stage_errors
      BY <1>1, <2>2, <2>6, <3>2, ModelCosts
    <3> QED
      BY <2>6, <3>3 DEF AuditAcceptsRuns
  <2>7. CASE args.kind = "candidate"
    <3>1. \A r \in DOMAIN summary : summary[r].status # "prompt_written"
      BY <2>3, <2>7 DEF RowFits
    <3>2. InRows(FALSE) = stage_errors
      BY <2>4, <3>1
    <3>3. Errors(FALSE, FALSE) = stage_errors
      BY <1>1, <2>2, <2>7, <3>2, OtherCosts
    <3>4. "max_attempts required" \in Errors(FALSE, TRUE)
      BY <1>1, <2>2, <2>7, OtherCosts
    <3>5. "max_attempts required" \notin stage_errors
      OBVIOUS
    <3> HIDE DEF stage_errors
    <3>6. Errors(FALSE, TRUE) # stage_errors
      BY ONLY <3>4, <3>5
    <3> USE DEF stage_errors
    <3> QED
      BY <2>7, <3>3, <3>6 DEF AuditAcceptsRuns
  <2>8. CASE args.kind = "prompt_only"
    <3>1. \A r \in DOMAIN summary :
              summary[r].status = "prompt_written" /\ summary[r].failure_stage = "prompt_only"
      BY <2>3, <2>8 DEF RowFits
    <3>2. unknown = {}
      BY <3>1
    <3>3. InRows(TRUE) = {}
      BY <2>4, <3>2
    <3>4. InRows(FALSE) # {} <=> DOMAIN summary # {}
      BY <2>4, <3>1, <3>2
    <3>5. DOMAIN summary # {} <=> summary # <<>>
      <4>1. IsSeq(summary)
        BY <1>1 DEF Inv, Typed
      <4>2. /\ Len(summary) \in Nat /\ DOMAIN summary = 1..Len(summary)
            /\ summary = <<>> <=> Len(summary) = 0
        BY ONLY <4>1, SeqDomain
      <4>3. \A n \in Nat : 1..n # {} <=> n # 0
        OBVIOUS
      <4> QED
        BY ONLY <4>2, <4>3
    <3>6. Errors(TRUE, FALSE) = {} /\ (Errors(FALSE, FALSE) # {} <=> summary # <<>>)
      BY <1>1, <2>2, <2>8, <3>3, <3>4, <3>5, OtherCosts
    <3> QED
      BY <2>8, <3>6 DEF AuditAcceptsRuns
  <2> QED
    BY <2>5, <2>6, <2>7, <2>8 DEF Kinds
<1> QED
  BY <1>1, AuditableHolds, PTL

-----------------------------------------------------------------------------
(* Lists computed step by step: sum() and the concatenation of the rows.    *)

(* Counting from 0 to n.                                                    *)
LEMMA CountUp ==
    ASSUME NEW n \in Nat, NEW T, 0 \in T, \A k \in 1..n : k - 1 \in T => k \in T
    PROVE  \A k \in 0..n : k \in T
<1> DEFINE bad == {k \in 0..n : k \notin T}
<1> SUFFICES ASSUME bad # {} PROVE FALSE
  OBVIOUS
<1>1. bad \in SUBSET Nat
  OBVIOUS
<1> HIDE DEF bad
<1>2. PICK m \in bad : \A y \in bad : m <= y
  BY <1>1, Least
<1>3. m \in 0..n /\ m \notin T
  BY DEF bad
<1>4. m \in 1..n /\ m - 1 \in 0..n /\ ~(m <= m - 1)
  BY <1>3
<1>5. m - 1 \in T
  BY <1>2, <1>4 DEF bad
<1> QED
  BY <1>3, <1>4, <1>5

(* The values a loop goes through that starts with base and takes step[k]   *)
(* in its k-th round.                                                       *)
Rounds(g, n, V, base, step) ==
    /\ g \in [0..n -> V]
    /\ g[0] = base
    /\ \A k \in 1..n : g[k] = step[<<k, g[k - 1]>>]

(* Such a loop can be run, for any number of rounds.                        *)
LEMMA LoopRuns ==
    ASSUME NEW n \in Nat, NEW V, NEW base \in V, NEW step \in [(1..n) \X V -> V]
    PROVE  \E g : Rounds(g, n, V, base, step)
<1> DEFINE T == {m \in 0..n : \E g : Rounds(g, m, V, base, step)}
<1>1. 0 \in T
  <2> DEFINE g == [k \in 0..0 |-> base]
  <2>1. Rounds(g, 0, V, base, step)
    BY DEF Rounds
  <2> HIDE DEF g
  <2> QED
    BY <2>1
<1>2. ASSUME NEW m \in 1..n, m - 1 \in T
      PROVE  m \in T
  <2>1. PICK f : Rounds(f, m - 1, V, base, step)
    BY <1>2
  <2>2. m - 1 \in 0..(m - 1) /\ m - 1 \in 0..n
    OBVIOUS
  <2>3. f[m - 1] \in V
    BY <2>1, <2>2 DEF Rounds
  <2> DEFINE v == step[<<m, f[m - 1]>>]
             g == [k \in 0..m |-> IF k = m THEN v ELSE f[k]]
  <2>4. v \in V
    BY <2>3
  <2> HIDE DEF v
  <2>5. \A k \in 0..m : k # m => k \in 0..(m - 1)
    OBVIOUS
  <2>6. g \in [0..m -> V]
    BY <2>1, <2>4, <2>5 DEF Rounds
  <2>7. \A k \in 0..m : g[k] = IF k = m THEN v ELSE f[k]
    OBVIOUS
  <2> HIDE DEF g
  <2>8. g[0] = base
    BY <2>1, <2>7 DEF Rounds
  <2>9. ASSUME NEW k \in 1..m
        PROVE  g[k] = step[<<k, g[k - 1]>>]
    <3>1. k \in 0..m /\ k - 1 \in 0..m /\ k - 1 # m
      OBVIOUS
    <3>2. g[k - 1] = f[k - 1]
      BY <2>7, <3>1
    <3>3. CASE k = m
      BY <2>7, <3>1, <3>2, <3>3 DEF v
    <3>4. CASE k # m
      <4>1. k \in 1..(m - 1)
        BY <3>4
      <4> QED
        BY <2>1, <2>7, <3>1, <3>2, <3>4, <4>1 DEF Rounds
    <3> QED
      BY <3>3, <3>4
  <2>10. Rounds(g, m, V, base, step)
    BY <2>6, <2>8, <2>9 DEF Rounds
  <2>11. m \in 0..n
    OBVIOUS
  <2> QED
    BY <2>10, <2>11
<1> HIDE DEF T
<1>3. \A k \in 0..n : k \in T
  BY <1>1, <1>2, CountUp
<1>4. n \in 0..n
  OBVIOUS
<1>5. n \in T
  BY <1>3, <1>4
<1> QED
  BY <1>5 DEF T

(* The partial sums of a list of numbers.                                   *)
Sums(g, s) ==
    /\ g \in [0..Len(s) -> Nat]
    /\ g[0] = 0
    /\ \A k \in 1..Len(s) : g[k] = g[k - 1] + s[k]

(* sum() adds up its list from the front.                                   *)
LEMMA SumIs ==
    ASSUME NEW s \in Seq(Nat)
    PROVE  \E g : Sums(g, s) /\ sum(s) = g[Len(s)]
<1> DEFINE n == Len(s)
           step == [p \in (1..n) \X Nat |-> p[2] + s[p[1]]]
           F(h) == [k \in 0..n |-> IF k = 0 THEN 0 ELSE h[k - 1] + s[k]]
           upto == CHOOSE h : h = F(h)
<1>1. n \in Nat /\ \A k \in 1..n : s[k] \in Nat
  OBVIOUS
<1>2. step \in [(1..n) \X Nat -> Nat]
  BY <1>1
<1>3. \A k \in 1..n : \A x \in Nat : step[<<k, x>>] = x + s[k]
  OBVIOUS
<1>4. sum(s) = upto[n]
  BY DEF sum
<1> HIDE DEF n, step
<1>5. PICK g : Rounds(g, n, Nat, 0, step)
  BY <1>1, <1>2, LoopRuns
<1>6. g \in [0..n -> Nat] /\ g[0] = 0 /\ \A k \in 1..n : g[k] = step[<<k, g[k - 1]>>]
  BY <1>5 DEF Rounds
<1>7. ASSUME NEW k \in 1..n
      PROVE  g[k] = g[k - 1] + s[k]
  <2>1. k - 1 \in 0..n
    BY <1>1
  <2>2. g[k - 1] \in Nat
    BY <1>6, <2>1
  <2> QED
    BY <1>3, <1>6, <2>2
<1>8. g = F(g)
  <2>1. \A k \in 0..n : k # 0 => k \in 1..n
    BY <1>1
  <2> QED
    BY <1>6, <1>7, <2>1
<1> HIDE DEF F
<1>9. upto = F(upto)
  BY <1>8
<1> HIDE DEF upto
<1>10. \A k \in 0..n : upto[k] = IF k = 0 THEN 0 ELSE upto[k - 1] + s[k]
  BY <1>9 DEF F
<1> DEFINE T == {k \in 0..n : upto[k] = g[k]}
<1>11. 0 \in T
  <2>1. 0 \in 0..n
    BY <1>1
  <2> QED
    BY <1>6, <1>10, <2>1
<1>12. ASSUME NEW k \in 1..n, k - 1 \in T PROVE k \in T
  <2>1. k \in 0..n /\ k # 0
    BY <1>1
  <2> QED
    BY <1>7, <1>10, <1>12, <2>1
<1> HIDE DEF T
<1>13. \A k \in 0..n : k \in T
  BY <1>1, <1>11, <1>12, CountUp
<1>14. n \in 0..n
  BY <1>1
<1>15. upto[n] = g[n]
  BY <1>13, <1>14 DEF T
<1>16. Sums(g, s)
  BY <1>6, <1>7 DEF Sums, n
<1> QED
  BY <1>4, <1>15, <1>16 DEF n

(* The rows of a list put together, from the front.                         *)
Joins(g, ss, T) ==
    /\ g \in [0..Len(ss) -> Seq(T)]
    /\ g[0] = <<>>
    /\ \A k \in 1..Len(ss) : g[k] = g[k - 1] \o ss[k]

(* FlattenSeq puts its lists together from the front.                       *)
LEMMA FlattenIs ==
    ASSUME NEW T, NEW ss \in Seq(Seq(T))
    PROVE  \E g : Joins(g, ss, T) /\ FlattenSeq(ss) = g[Len(ss)]
<1> DEFINE n == Len(ss)
           V == Seq(T)
           step == [p \in (1..n) \X V |-> p[2] \o ss[p[1]]]
           F(h) == [i \in 1..n |-> IF i = 1 THEN ss[i] ELSE h[i - 1] \o ss[i]]
           flatten == CHOOSE h : h = F(h)
<1>1. n \in Nat /\ \A k \in 1..n : ss[k] \in V
  OBVIOUS
<1>2. \A x, y \in V : x \o y \in V
  OBVIOUS
<1>3. <<>> \in V /\ \A x \in V : <<>> \o x = x
  OBVIOUS
<1>4. n # 0 => FlattenSeq(ss) = flatten[n]
  BY DEF FlattenSeq
<1>5. n = 0 => FlattenSeq(ss) = <<>>
  BY DEF FlattenSeq
<1> HIDE DEF n, V
<1>6. step \in [(1..n) \X V -> V]
  BY <1>1, <1>2
<1>7. \A k \in 1..n : \A x \in V : step[<<k, x>>] = x \o ss[k]
  OBVIOUS
<1> HIDE DEF step
<1>8. PICK g : Rounds(g, n, V, <<>>, step)
  BY <1>1, <1>3, <1>6, LoopRuns
<1>9. g \in [0..n -> V] /\ g[0] = <<>> /\ \A k \in 1..n : g[k] = step[<<k, g[k - 1]>>]
  BY <1>8 DEF Rounds
<1>10. ASSUME NEW k \in 1..n
       PROVE  g[k] = g[k - 1] \o ss[k]
  <2>1. k - 1 \in 0..n
    BY <1>1
  <2>2. g[k - 1] \in V
    BY <1>9, <2>1
  <2> QED
    BY <1>7, <1>9, <2>2
<1>11. Joins(g, ss, T)
  BY <1>9, <1>10 DEF Joins, n, V
<1>12. CASE n = 0
  BY <1>5, <1>9, <1>11, <1>12 DEF n
<1>13. CASE n # 0
  <2> DEFINE h == [i \in 1..n |-> g[i]]
  <2>1. ASSUME NEW i \in 1..n
        PROVE  h[i] = IF i = 1 THEN ss[i] ELSE h[i - 1] \o ss[i]
    <3>1. CASE i = 1
      BY <1>1, <1>3, <1>9, <1>10, <3>1
    <3>2. CASE i # 1
      <4>1. i - 1 \in 1..n
        BY <1>1, <3>2
      <4> QED
        BY <1>10, <3>2, <4>1
    <3> QED
      BY <3>1, <3>2
  <2>2. h = F(h)
    BY <2>1
  <2> HIDE DEF F, h
  <2>3. flatten = F(flatten)
    BY <2>2
  <2> HIDE DEF flatten
  <2>4. \A i \in 1..n : flatten[i] = IF i = 1 THEN ss[i] ELSE flatten[i - 1] \o ss[i]
    BY <2>3 DEF F
  <2> DEFINE S == {k \in 0..n : k # 0 => flatten[k] = g[k]}
  <2>5. 0 \in S
    BY <1>1
  <2>6. ASSUME NEW k \in 1..n, k - 1 \in S PROVE k \in S
    <3>0. k \in 0..n
      BY <1>1
    <3>1. CASE k = 1
      <4>1. flatten[k] = ss[k]
        BY <2>4, <3>1
      <4>2. g[k] = ss[k]
        BY <1>1, <1>3, <1>9, <1>10, <3>1
      <4> QED
        BY <3>0, <4>1, <4>2
    <3>2. CASE k # 1
      <4>1. k - 1 # 0
        BY <1>1, <3>2
      <4>2. flatten[k - 1] = g[k - 1]
        BY <2>6, <4>1
      <4> QED
        BY <1>10, <2>4, <3>0, <3>2, <4>2
    <3> QED
      BY <3>1, <3>2
  <2> HIDE DEF S
  <2>7. \A k \in 0..n : k \in S
    BY <1>1, <2>5, <2>6, CountUp
  <2>8. n \in 0..n
    BY <1>1
  <2>9. flatten[n] = g[n]
    BY <1>13, <2>7, <2>8 DEF S
  <2> QED
    BY <1>4, <1>11, <1>13, <2>9 DEF n, flatten, F
<1> QED
  BY <1>12, <1>13

(* What sum() yields for two lists in a row.                                *)
LEMMA SumConcat ==
    ASSUME NEW s \in Seq(Nat), NEW t \in Seq(Nat)
    PROVE  /\ sum(s) \in Nat /\ sum(t) \in Nat
           /\ s \o t \in Seq(Nat)
           /\ sum(s \o t) = sum(s) + sum(t)
<1> DEFINE m == Len(s)
           n == Len(t)
           u == s \o t
<1>1. /\ m \in Nat /\ n \in Nat /\ u \in Seq(Nat) /\ Len(u) = m + n
      /\ \A k \in 1..m : u[k] = s[k] /\ s[k] \in Nat
      /\ \A k \in 1..n : u[m + k] = t[k] /\ t[k] \in Nat
  OBVIOUS
<1> HIDE DEF m, n, u
<1>2. PICK f : Sums(f, s) /\ sum(s) = f[m]
  BY SumIs DEF m
<1>3. PICK g : Sums(g, t) /\ sum(t) = g[n]
  BY SumIs DEF n
<1>4. PICK h : Sums(h, u) /\ sum(u) = h[m + n]
  BY <1>1, SumIs
<1>5. /\ f \in [0..m -> Nat] /\ f[0] = 0
      /\ \A k \in 1..m : f[k] = f[k - 1] + s[k]
  BY <1>2 DEF Sums, m
<1>6. /\ g \in [0..n -> Nat] /\ g[0] = 0
      /\ \A k \in 1..n : g[k] = g[k - 1] + t[k]
  BY <1>3 DEF Sums, n
<1>7. /\ h \in [0..(m + n) -> Nat] /\ h[0] = 0
      /\ \A k \in 1..(m + n) : h[k] = h[k - 1] + u[k]
  BY <1>1, <1>4 DEF Sums
<1> DEFINE S == {k \in 0..m : h[k] = f[k]}
           T == {k \in 0..n : h[m + k] = f[m] + g[k]}
<1>8. \A k \in 0..m : k \in S
  <2>1. 0 \in S
    BY <1>1, <1>5, <1>7
  <2>2. ASSUME NEW k \in 1..m, k - 1 \in S PROVE k \in S
    <3>1. k \in 0..m /\ k \in 1..(m + n)
      BY <1>1
    <3>2. h[k] = h[k - 1] + u[k] /\ f[k] = f[k - 1] + s[k] /\ u[k] = s[k]
      BY <1>1, <1>5, <1>7, <3>1
    <3> QED
      BY <2>2, <3>1, <3>2
  <2> HIDE DEF S
  <2> QED
    BY <1>1, <2>1, <2>2, CountUp
<1>9. h[m] = f[m] /\ f[m] \in Nat
  <2>1. m \in 0..m
    BY <1>1
  <2> QED
    BY <1>5, <1>8, <2>1
<1>10. \A k \in 0..n : k \in T
  <2>1. 0 \in T
    BY <1>1, <1>6, <1>9
  <2>2. ASSUME NEW k \in 1..n, k - 1 \in T PROVE k \in T
    <3>1. k \in 0..n /\ k - 1 \in 0..n /\ m + k \in 1..(m + n) /\ (m + k) - 1 = m + (k - 1)
      BY <1>1
    <3>2. /\ h[m + k] = h[m + (k - 1)] + u[m + k]
          /\ g[k] = g[k - 1] + t[k] /\ u[m + k] = t[k] /\ t[k] \in Nat
      BY <1>1, <1>6, <1>7, <3>1
    <3>3. g[k - 1] \in Nat
      BY <1>6, <3>1
    <3>4. h[m + (k - 1)] = f[m] + g[k - 1]
      BY <2>2
    <3>5. h[m + k] = f[m] + g[k]
      BY <1>9, <3>2, <3>3, <3>4
    <3> QED
      BY <3>1, <3>5
  <2> HIDE DEF T
  <2> QED
    BY <1>1, <2>1, <2>2, CountUp
<1>11. n \in 0..n
  BY <1>1
<1>12. h[m + n] = f[m] + g[n] /\ g[n] \in Nat
  BY <1>6, <1>10, <1>11
<1>13. sum(u) = sum(s) + sum(t) /\ sum(s) \in Nat /\ sum(t) \in Nat /\ u \in Seq(Nat)
  BY <1>1, <1>2, <1>3, <1>4, <1>9, <1>12
<1> QED
  BY <1>13 DEF u

(* A list that is nowhere larger has no larger sum.                         *)
LEMMA SumPointwise ==
    ASSUME NEW s \in Seq(Nat), NEW t \in Seq(Nat), Len(s) = Len(t),
           \A k \in 1..Len(s) : s[k] <= t[k]
    PROVE  sum(s) \in Nat /\ sum(t) \in Nat /\ sum(s) <= sum(t)
<1> DEFINE n == Len(s)
<1>1. n \in Nat /\ Len(t) = n /\ \A k \in 1..n : s[k] \in Nat /\ t[k] \in Nat /\ s[k] <= t[k]
  OBVIOUS
<1> HIDE DEF n
<1>2. PICK f : Sums(f, s) /\ sum(s) = f[n]
  BY SumIs DEF n
<1>3. PICK g : Sums(g, t) /\ sum(t) = g[n]
  BY <1>1, SumIs
<1>4. /\ f \in [0..n -> Nat] /\ f[0] = 0
      /\ \A k \in 1..n : f[k] = f[k - 1] + s[k]
  BY <1>2 DEF Sums, n
<1>5. /\ g \in [0..n -> Nat] /\ g[0] = 0
      /\ \A k \in 1..n : g[k] = g[k - 1] + t[k]
  BY <1>1, <1>3 DEF Sums
<1> DEFINE T == {k \in 0..n : f[k] <= g[k]}
<1>6. 0 \in T
  BY <1>1, <1>4, <1>5
<1>7. ASSUME NEW k \in 1..n, k - 1 \in T PROVE k \in T
  <2>1. k \in 0..n /\ k - 1 \in 0..n
    BY <1>1
  <2>2. f[k - 1] \in Nat /\ g[k - 1] \in Nat /\ f[k - 1] <= g[k - 1]
    BY <1>4, <1>5, <1>7, <2>1
  <2>3. s[k] \in Nat /\ t[k] \in Nat /\ s[k] <= t[k]
    BY <1>1
  <2>4. f[k] = f[k - 1] + s[k] /\ g[k] = g[k - 1] + t[k]
    BY <1>4, <1>5
  <2>5. f[k] <= g[k]
    BY <2>2, <2>3, <2>4
  <2> QED
    BY <2>1, <2>5
<1> HIDE DEF T
<1>8. \A k \in 0..n : k \in T
  BY <1>1, <1>6, <1>7, CountUp
<1>9. n \in 0..n
  BY <1>1
<1>10. f[n] <= g[n] /\ f[n] \in Nat /\ g[n] \in Nat
  BY <1>4, <1>5, <1>8, <1>9 DEF T
<1> QED
  BY <1>2, <1>3, <1>10

(* The elements of P up to k.                                               *)
NotAbove(P, k) == {r \in P : r <= k}

(* Counting the elements of a set of rows, row by row.                      *)
LEMMA CountIn ==
    ASSUME NEW n \in Nat, NEW P \in SUBSET (1..n)
    PROVE  \E c \in [0..n -> Nat] :
               /\ c[0] = 0
               /\ \A k \in 1..n : c[k] = IF k \in P THEN c[k - 1] + 1 ELSE c[k - 1]
               /\ c[n] = Cardinality(P)
<1> DEFINE c == [k \in 0..n |-> Cardinality(NotAbove(P, k))]
<1>0. \A r \in P : r \in 1..n
  OBVIOUS
<1>1. \A k \in 0..n : NotAbove(P, k) \in SUBSET (1..n)
  BY <1>0 DEF NotAbove
<1>2. IsFiniteSet(1..n)
  <2>1. 1 \in Int /\ n \in Int
    OBVIOUS
  <2> QED
    BY <2>1, FS_Interval
<1>3. \A k \in 0..n : IsFiniteSet(NotAbove(P, k)) /\ Cardinality(NotAbove(P, k)) \in Nat
  BY <1>1, <1>2, FS_Subset, FS_CardinalityType
<1>4. NotAbove(P, 0) = {} /\ NotAbove(P, n) = P
  <2>1. \A r \in 1..n : ~(r <= 0) /\ r <= n
    OBVIOUS
  <2> QED
    BY <1>0, <2>1, Zenon DEF NotAbove
<1>5. ASSUME NEW k \in 1..n
      PROVE  Cardinality(NotAbove(P, k)) = IF k \in P THEN Cardinality(NotAbove(P, k - 1)) + 1
                                           ELSE Cardinality(NotAbove(P, k - 1))
  <2>1. k - 1 \in 0..n
    OBVIOUS
  <2>2. k \notin NotAbove(P, k - 1)
    BY DEF NotAbove
  <2>u. \A r \in 1..n : /\ r # k => (r <= k <=> r <= k - 1)
                        /\ r = k => r <= k /\ ~(r <= k - 1)
    OBVIOUS
  <2>v. \A r : r \in NotAbove(P, k) <=> r \in NotAbove(P, k - 1) \/ (r = k /\ k \in P)
    <3> SUFFICES ASSUME NEW r
                 PROVE  r \in NotAbove(P, k) <=> r \in NotAbove(P, k - 1) \/ (r = k /\ k \in P)
      OBVIOUS
    <3>1. r \in NotAbove(P, k) <=> r \in P /\ r <= k
      BY DEF NotAbove
    <3>2. r \in NotAbove(P, k - 1) <=> r \in P /\ r <= k - 1
      BY DEF NotAbove
    <3>3. CASE r \in P
      <4>1. r \in 1..n
        BY <1>0, <3>3
      <4> QED
        BY <2>u, <3>1, <3>2, <3>3, <4>1
    <3>4. CASE r \notin P
      BY <3>1, <3>2, <3>4
    <3> QED
      BY <3>3, <3>4
  <2>3. CASE k \in P
    <3>1. NotAbove(P, k) = NotAbove(P, k - 1) \union {k}
      BY <2>3, <2>v
    <3> QED
      BY <1>3, <2>1, <2>2, <2>3, <3>1, FS_AddElement
  <2>4. CASE k \notin P
    <3>1. NotAbove(P, k) = NotAbove(P, k - 1)
      BY <2>4, <2>v
    <3> QED
      BY <2>4, <3>1
  <2> QED
    BY <2>3, <2>4
<1>6. c \in [0..n -> Nat]
  BY <1>3
<1>7. c[0] = 0 /\ c[n] = Cardinality(P)
  BY <1>4, FS_EmptySet
<1>8. ASSUME NEW k \in 1..n
      PROVE  c[k] = IF k \in P THEN c[k - 1] + 1 ELSE c[k - 1]
  <2>1. k \in 0..n /\ k - 1 \in 0..n
    OBVIOUS
  <2> QED
    BY <1>5, <2>1
<1> HIDE DEF c
<1> QED
  BY <1>6, <1>7, <1>8

(* Where two lists of rows differ by at most one element per row, the       *)
(* lengths of the flattened ones differ by the number of rows with one more. *)
LEMMA FlattenGrows ==
    ASSUME NEW T, NEW ss \in Seq(Seq(T)), NEW tt \in Seq(Seq(T)), Len(ss) = Len(tt),
           NEW P \in SUBSET (1..Len(ss)),
           \A r \in 1..Len(ss) :
               Len(tt[r]) = IF r \in P THEN Len(ss[r]) ELSE Len(ss[r]) + 1
    PROVE  /\ Cardinality(P) \in Nat
           /\ Len(FlattenSeq(ss)) \in Nat /\ Len(FlattenSeq(tt)) \in Nat
           /\ Len(FlattenSeq(tt)) - Len(FlattenSeq(ss)) = Len(ss) - Cardinality(P)
<1> DEFINE n == Len(ss)
<1>1. /\ n \in Nat /\ Len(tt) = n
      /\ \A r \in 1..n : ss[r] \in Seq(T) /\ tt[r] \in Seq(T)
                         /\ Len(tt[r]) = IF r \in P THEN Len(ss[r]) ELSE Len(ss[r]) + 1
  OBVIOUS
<1>2. P \in SUBSET (1..n)
  OBVIOUS
<1> HIDE DEF n
<1>3. PICK f : Joins(f, ss, T) /\ FlattenSeq(ss) = f[n]
  BY FlattenIs DEF n
<1>4. PICK g : Joins(g, tt, T) /\ FlattenSeq(tt) = g[n]
  BY <1>1, FlattenIs
<1>5. /\ f \in [0..n -> Seq(T)] /\ f[0] = <<>>
      /\ \A k \in 1..n : f[k] = f[k - 1] \o ss[k]
  BY <1>3 DEF Joins, n
<1>6. /\ g \in [0..n -> Seq(T)] /\ g[0] = <<>>
      /\ \A k \in 1..n : g[k] = g[k - 1] \o tt[k]
  BY <1>1, <1>4 DEF Joins
<1>c. \A x, y \in Seq(T) : Len(x \o y) = Len(x) + Len(y) /\ Len(x) \in Nat
  OBVIOUS
<1>p. PICK c \in [0..n -> Nat] :
          /\ c[0] = 0
          /\ \A k \in 1..n : c[k] = IF k \in P THEN c[k - 1] + 1 ELSE c[k - 1]
          /\ c[n] = Cardinality(P)
  BY ONLY <1>1, <1>2, CountIn
<1> DEFINE S == {k \in 0..n : Len(g[k]) - Len(f[k]) = k - c[k]}
<1>7. 0 \in S
  <2>1. Len(f[0]) = 0 /\ Len(g[0]) = 0
    BY <1>5, <1>6
  <2>2. 0 - 0 = 0 - 0 /\ 0 \in 0..n
    BY <1>1
  <2>3. Len(g[0]) - Len(f[0]) = 0 - c[0]
    BY ONLY <1>p, <2>1
  <2> QED
    BY ONLY <2>2, <2>3
<1>8. ASSUME NEW k \in 1..n, k - 1 \in S PROVE k \in S
  <2>1. k \in 0..n /\ k - 1 \in 0..n /\ k \in Nat
    BY <1>1
  <2>2. f[k - 1] \in Seq(T) /\ g[k - 1] \in Seq(T)
    BY <1>5, <1>6, <2>1
  <2>3. /\ Len(f[k]) = Len(f[k - 1]) + Len(ss[k]) /\ Len(g[k]) = Len(g[k - 1]) + Len(tt[k])
        /\ Len(f[k - 1]) \in Nat /\ Len(g[k - 1]) \in Nat /\ Len(ss[k]) \in Nat
    <3>1. f[k] = f[k - 1] \o ss[k] /\ g[k] = g[k - 1] \o tt[k] /\ ss[k] \in Seq(T) /\ tt[k] \in Seq(T)
      BY <1>1, <1>5, <1>6
    <3> QED
      BY ONLY <1>c, <2>2, <3>1
  <2>4. Len(g[k - 1]) - Len(f[k - 1]) = (k - 1) - c[k - 1] /\ c[k - 1] \in Nat
    BY <1>8, <1>p, <2>1
  <2>5. Len(tt[k]) = IF k \in P THEN Len(ss[k]) ELSE Len(ss[k]) + 1
    BY <1>1
  <2>6. c[k] = IF k \in P THEN c[k - 1] + 1 ELSE c[k - 1]
    BY <1>p
  <2>7. Len(g[k]) - Len(f[k]) = k - c[k]
    <3> DEFINE a == Len(f[k])
               b == Len(g[k])
               a0 == Len(f[k - 1])
               b0 == Len(g[k - 1])
               d == Len(ss[k])
               e == Len(tt[k])
               c1 == c[k]
               c0 == c[k - 1]
    <3>1. /\ a = a0 + d /\ b = b0 + e /\ a0 \in Nat /\ b0 \in Nat /\ d \in Nat
          /\ b0 - a0 = (k - 1) - c0 /\ c0 \in Nat /\ k \in Nat
          /\ e = IF k \in P THEN d ELSE d + 1
          /\ c1 = IF k \in P THEN c0 + 1 ELSE c0
      BY ONLY <2>1, <2>3, <2>4, <2>5, <2>6
    <3> HIDE DEF a, b, a0, b0, d, e, c1, c0
    <3>2. b - a = k - c1
      BY ONLY <3>1
    <3> QED
      BY <3>2 DEF a, b, c1
  <2> QED
    BY <2>1, <2>7
<1> HIDE DEF S
<1>9. \A k \in 0..n : k \in S
  BY <1>1, <1>7, <1>8, CountUp
<1>10. n \in 0..n
  BY <1>1
<1>12. /\ c[n] \in Nat
       /\ Len(g[n]) - Len(f[n]) = n - c[n]
  BY <1>9, <1>10 DEF S
<1>13. Len(f[n]) \in Nat /\ Len(g[n]) \in Nat
  BY <1>5, <1>6, <1>10, <1>c
<1> QED
  BY <1>3, <1>4, <1>p, <1>12, <1>13 DEF n

(* One element per row: as many elements as rows.                           *)
LEMMA FlattenOnes ==
    ASSUME NEW T, NEW ss \in Seq(Seq(T)), \A r \in 1..Len(ss) : Len(ss[r]) = 1
    PROVE  Len(FlattenSeq(ss)) = Len(ss)
<1> DEFINE n == Len(ss)
<1>1. n \in Nat /\ \A r \in 1..n : ss[r] \in Seq(T) /\ Len(ss[r]) = 1
  OBVIOUS
<1> HIDE DEF n
<1>2. PICK f : Joins(f, ss, T) /\ FlattenSeq(ss) = f[n]
  BY FlattenIs DEF n
<1>3. /\ f \in [0..n -> Seq(T)] /\ f[0] = <<>>
      /\ \A k \in 1..n : f[k] = f[k - 1] \o ss[k]
  BY <1>2 DEF Joins, n
<1>c. \A x, y \in Seq(T) : Len(x \o y) = Len(x) + Len(y) /\ Len(x) \in Nat
  OBVIOUS
<1> DEFINE S == {k \in 0..n : Len(f[k]) = k}
<1>4. 0 \in S
  BY <1>1, <1>3
<1>5. ASSUME NEW k \in 1..n, k - 1 \in S PROVE k \in S
  <2>1. k \in 0..n /\ k - 1 \in 0..n /\ k \in Nat
    BY <1>1
  <2>2. f[k - 1] \in Seq(T) /\ Len(f[k - 1]) = k - 1 /\ f[k] = f[k - 1] \o ss[k]
    BY <1>3, <1>5, <2>1
  <2>3. Len(f[k]) = (k - 1) + 1
    BY <1>1, <1>c, <2>2
  <2> QED
    BY <2>1, <2>3
<1> HIDE DEF S
<1>6. \A k \in 0..n : k \in S
  BY <1>1, <1>4, <1>5, CountUp
<1>7. n \in 0..n
  BY <1>1
<1>8. Len(f[n]) = n
  BY <1>6, <1>7 DEF S
<1> QED
  BY <1>2, <1>8 DEF n

(* What holds of all elements of a flattened list holds of all elements of  *)
(* its rows.                                                                *)
LEMMA FlattenAll ==
    ASSUME NEW T, NEW ss \in Seq(Seq(T)), NEW U
    PROVE  /\ FlattenSeq(ss) \in Seq(T)
           /\ (\A j \in DOMAIN FlattenSeq(ss) : FlattenSeq(ss)[j] \in U)
                <=> \A r \in DOMAIN ss : \A k \in DOMAIN ss[r] : ss[r][k] \in U
<1> DEFINE n == Len(ss)
           All(s) == \A j \in 1..Len(s) : s[j] \in U
<1>1. n \in Nat /\ DOMAIN ss = 1..n /\ \A r \in 1..n : ss[r] \in Seq(T)
  OBVIOUS
<1> HIDE DEF n
<1>2. PICK f : Joins(f, ss, T) /\ FlattenSeq(ss) = f[n]
  BY FlattenIs DEF n
<1>3. /\ f \in [0..n -> Seq(T)] /\ f[0] = <<>>
      /\ \A k \in 1..n : f[k] = f[k - 1] \o ss[k]
  BY <1>2 DEF Joins, n
<1>4. ASSUME NEW x \in Seq(T), NEW y \in Seq(T)
      PROVE  All(x \o y) <=> All(x) /\ All(y)
  <2>1. /\ Len(x) \in Nat /\ Len(y) \in Nat /\ Len(x \o y) = Len(x) + Len(y)
        /\ \A j \in 1..Len(x) : (x \o y)[j] = x[j]
        /\ \A j \in 1..Len(y) : (x \o y)[Len(x) + j] = y[j]
    OBVIOUS
  <2>2. ASSUME All(x \o y) PROVE All(x) /\ All(y)
    <3>1. ASSUME NEW j \in 1..Len(x) PROVE x[j] \in U
      <4>1. j \in 1..Len(x \o y)
        BY <2>1
      <4> QED
        BY <2>1, <2>2, <4>1
    <3>2. ASSUME NEW j \in 1..Len(y) PROVE y[j] \in U
      <4>1. Len(x) + j \in 1..Len(x \o y)
        BY <2>1
      <4> QED
        BY <2>1, <2>2, <4>1
    <3> QED
      BY <3>1, <3>2
  <2>3. ASSUME All(x), All(y), NEW j \in 1..Len(x \o y) PROVE (x \o y)[j] \in U
    <3>1. CASE j \in 1..Len(x)
      BY <2>1, <2>3, <3>1
    <3>2. CASE j \notin 1..Len(x)
      <4>1. j - Len(x) \in 1..Len(y) /\ Len(x) + (j - Len(x)) = j
        BY <2>1, <3>2
      <4> QED
        BY <2>1, <2>3, <4>1
    <3> QED
      BY <3>1, <3>2
  <2> QED
    BY <2>2, <2>3
<1>5. All(<<>>)
  OBVIOUS
<1> HIDE DEF All
<1> DEFINE S == {k \in 0..n : All(f[k]) <=> \A r \in 1..k : All(ss[r])}
<1>6. 0 \in S
  BY <1>1, <1>3, <1>5
<1>7. ASSUME NEW k \in 1..n, k - 1 \in S PROVE k \in S
  <2>1. k \in 0..n /\ k - 1 \in 0..n /\ k \in Nat
    BY <1>1
  <2>2. f[k - 1] \in Seq(T) /\ f[k] = f[k - 1] \o ss[k] /\ ss[k] \in Seq(T)
    BY <1>1, <1>3, <2>1
  <2>3. All(f[k]) <=> All(f[k - 1]) /\ All(ss[k])
    BY <1>4, <2>2
  <2>4. All(f[k - 1]) <=> \A r \in 1..(k - 1) : All(ss[r])
    BY <1>7
  <2>5. \A r : r \in 1..k <=> r \in 1..(k - 1) \/ r = k
    BY <2>1
  <2>6. All(f[k]) <=> \A r \in 1..k : All(ss[r])
    BY <2>3, <2>4, <2>5
  <2> QED
    BY <2>1, <2>6
<1> HIDE DEF S
<1>8. \A k \in 0..n : k \in S
  BY <1>1, <1>6, <1>7, CountUp
<1>9. n \in 0..n
  BY <1>1
<1>10. All(f[n]) <=> \A r \in 1..n : All(ss[r])
  BY <1>8, <1>9 DEF S
<1>11. f[n] \in Seq(T)
  BY <1>3, <1>9
<1>12. \A s \in Seq(T) : DOMAIN s = 1..Len(s)
  OBVIOUS
<1> QED
  BY <1>1, <1>2, <1>10, <1>11, <1>12 DEF All

(* What a list of attempts reports for one field.                           *)
Column(tried, f) == [k \in DOMAIN tried |-> tried[k].token_usage[f]]

(* Attempts that reported the field.                                        *)
Known(T, f) == \A a \in T : a.token_usage[f] \in Nat

LEMMA ColumnIs ==
    ASSUME NEW T, NEW f, Known(T, f), NEW x \in Seq(T), NEW y \in Seq(T)
    PROVE  /\ Column(x, f) \in Seq(Nat) /\ Column(y, f) \in Seq(Nat)
           /\ Column(x \o y, f) = Column(x, f) \o Column(y, f)
<1>1. /\ Len(x) \in Nat /\ Len(y) \in Nat
      /\ DOMAIN x = 1..Len(x) /\ DOMAIN y = 1..Len(y)
      /\ \A k \in 1..Len(x) : x[k] \in T
      /\ \A k \in 1..Len(y) : y[k] \in T
  OBVIOUS
<1>2. /\ DOMAIN (x \o y) = 1..(Len(x) + Len(y))
      /\ \A k \in 1..(Len(x) + Len(y)) :
             (x \o y)[k] = IF k <= Len(x) THEN x[k] ELSE y[k - Len(x)]
  OBVIOUS
<1>3. /\ Column(x, f) = [k \in 1..Len(x) |-> x[k].token_usage[f]]
      /\ Column(y, f) = [k \in 1..Len(y) |-> y[k].token_usage[f]]
      /\ Column(x \o y, f) = [k \in 1..(Len(x) + Len(y)) |-> (x \o y)[k].token_usage[f]]
  BY <1>1, <1>2 DEF Column
<1>4. /\ Column(x, f) \in Seq(Nat) /\ Len(Column(x, f)) = Len(x)
      /\ Column(y, f) \in Seq(Nat) /\ Len(Column(y, f)) = Len(y)
      /\ \A k \in 1..Len(x) : Column(x, f)[k] = x[k].token_usage[f]
      /\ \A k \in 1..Len(y) : Column(y, f)[k] = y[k].token_usage[f]
  <2>1. \A k \in 1..Len(x) : x[k].token_usage[f] \in Nat
    BY <1>1 DEF Known
  <2>2. \A k \in 1..Len(y) : y[k].token_usage[f] \in Nat
    BY <1>1 DEF Known
  <2> QED
    BY <1>1, <1>3, <2>1, <2>2
<1> DEFINE u == Column(x, f)
           v == Column(y, f)
           w == Column(x \o y, f)
<1>5. /\ w = [k \in 1..(Len(x) + Len(y)) |-> w[k]]
      /\ \A k \in 1..(Len(x) + Len(y)) : w[k] = (x \o y)[k].token_usage[f]
  BY <1>3
<1>6. /\ u \in Seq(Nat) /\ v \in Seq(Nat) /\ Len(u) = Len(x) /\ Len(v) = Len(y)
      /\ \A k \in 1..Len(x) : u[k] = x[k].token_usage[f]
      /\ \A k \in 1..Len(y) : v[k] = y[k].token_usage[f]
  BY <1>4
<1> HIDE DEF u, v, w
<1>7. ASSUME NEW k \in 1..(Len(x) + Len(y))
      PROVE  w[k] = IF k <= Len(x) THEN u[k] ELSE v[k - Len(x)]
  <2>1. CASE k <= Len(x)
    <3>1. k \in 1..Len(x)
      BY <1>1, <2>1
    <3> QED
      BY <1>2, <1>5, <1>6, <2>1, <3>1
  <2>2. CASE ~(k <= Len(x))
    <3>1. k - Len(x) \in 1..Len(y)
      BY <1>1, <2>2
    <3> QED
      BY <1>2, <1>5, <1>6, <2>2, <3>1
  <2> QED
    BY <2>1, <2>2
<1>8. /\ u \o v = [k \in 1..(Len(x) + Len(y)) |-> (u \o v)[k]]
      /\ \A k \in 1..(Len(x) + Len(y)) :
             (u \o v)[k] = IF k <= Len(x) THEN u[k] ELSE v[k - Len(x)]
  <2>1. /\ u \o v \in Seq(Nat) /\ Len(u \o v) = Len(u) + Len(v)
        /\ \A k \in 1..(Len(u) + Len(v)) :
               (u \o v)[k] = IF k <= Len(u) THEN u[k] ELSE v[k - Len(u)]
    <3>1. \A p, q \in Seq(Nat) :
              /\ p \o q \in Seq(Nat) /\ Len(p \o q) = Len(p) + Len(q)
              /\ \A k \in 1..(Len(p) + Len(q)) :
                     (p \o q)[k] = IF k <= Len(p) THEN p[k] ELSE q[k - Len(p)]
      OBVIOUS
    <3> QED
      BY ONLY <1>6, <3>1, Zenon
  <2>2. \A s \in Seq(Nat) : s = [k \in 1..Len(s) |-> s[k]]
    OBVIOUS
  <2> QED
    BY ONLY <1>6, <2>1, <2>2
<1>9. w = u \o v
  BY ONLY <1>5, <1>7, <1>8
<1> QED
  BY <1>4, <1>9 DEF u, v, w

(* The sum of a field over all rows is the sum of the rows' sums.           *)
LEMMA SumFlatten ==
    ASSUME NEW T, NEW f, Known(T, f), NEW ss \in Seq(Seq(T))
    PROVE  /\ [r \in DOMAIN ss |-> sum(Column(ss[r], f))] \in Seq(Nat)
           /\ sum(Column(FlattenSeq(ss), f)) = sum([r \in DOMAIN ss |-> sum(Column(ss[r], f))])
<1> DEFINE n == Len(ss)
           rows == [r \in DOMAIN ss |-> sum(Column(ss[r], f))]
<1>1. n \in Nat /\ DOMAIN ss = 1..n /\ \A r \in 1..n : ss[r] \in Seq(T)
  OBVIOUS
<1> HIDE DEF n
<1>2. \A s \in Seq(T) : Column(s, f) \in Seq(Nat)
  BY ColumnIs
<1>3. \A s \in Seq(T) : sum(Column(s, f)) \in Nat
  BY <1>2, SumConcat
<1>4. \A r \in 1..n : rows[r] = sum(Column(ss[r], f)) /\ rows[r] \in Nat
  BY <1>1, <1>3
<1>5. rows \in Seq(Nat) /\ Len(rows) = n
  <2>1. rows \in [1..n -> Nat]
    BY <1>1, <1>4
  <2> HIDE DEF rows
  <2>2. \A m \in Nat : \A w \in [1..m -> Nat] : w \in Seq(Nat) /\ Len(w) = m
    OBVIOUS
  <2> QED
    BY ONLY <1>1, <2>1, <2>2
<1> HIDE DEF rows
<1>6. PICK g : Joins(g, ss, T) /\ FlattenSeq(ss) = g[n]
  BY FlattenIs DEF n
<1>7. /\ g \in [0..n -> Seq(T)] /\ g[0] = <<>>
      /\ \A k \in 1..n : g[k] = g[k - 1] \o ss[k]
  BY <1>6 DEF Joins, n
<1>8. PICK h : Sums(h, rows) /\ sum(rows) = h[n]
  BY <1>5, SumIs
<1>9. /\ h \in [0..n -> Nat] /\ h[0] = 0
      /\ \A k \in 1..n : h[k] = h[k - 1] + rows[k]
  BY <1>5, <1>8 DEF Sums
<1> DEFINE S == {k \in 0..n : sum(Column(g[k], f)) = h[k]}
<1>10. 0 \in S
  <2>1. Column(<<>>, f) = <<>>
    BY DEF Column
  <2>2. sum(<<>>) = 0
    <3>1. <<>> \in Seq(Nat) /\ Len(<<>>) = 0
      OBVIOUS
    <3>2. PICK e : Sums(e, <<>>) /\ sum(<<>>) = e[0]
      BY <3>1, SumIs
    <3> QED
      BY <3>2 DEF Sums
  <2>3. 0 \in 0..n
    BY <1>1
  <2> QED
    BY <1>7, <1>9, <2>1, <2>2, <2>3
<1>11. ASSUME NEW k \in 1..n, k - 1 \in S PROVE k \in S
  <2>1. k \in 0..n /\ k - 1 \in 0..n
    BY <1>1
  <2>2. g[k - 1] \in Seq(T) /\ ss[k] \in Seq(T) /\ g[k] = g[k - 1] \o ss[k]
    BY <1>1, <1>7, <2>1
  <2>3. /\ Column(g[k], f) = Column(g[k - 1], f) \o Column(ss[k], f)
        /\ Column(g[k - 1], f) \in Seq(Nat) /\ Column(ss[k], f) \in Seq(Nat)
    <3> DEFINE x == g[k - 1]
               y == ss[k]
    <3>1. x \in Seq(T) /\ y \in Seq(T) /\ g[k] = x \o y
      BY <2>2
    <3> HIDE DEF x, y
    <3>2. /\ Column(x \o y, f) = Column(x, f) \o Column(y, f)
          /\ Column(x, f) \in Seq(Nat) /\ Column(y, f) \in Seq(Nat)
      BY <3>1, ColumnIs
    <3> QED
      BY <3>1, <3>2, Zenon DEF x, y
  <2>4. sum(Column(g[k], f)) = sum(Column(g[k - 1], f)) + sum(Column(ss[k], f))
    BY <2>3, SumConcat
  <2>5. sum(Column(g[k - 1], f)) = h[k - 1]
    BY <1>11
  <2>6. h[k] = h[k - 1] + rows[k] /\ rows[k] = sum(Column(ss[k], f))
    BY <1>4, <1>9
  <2>7. sum(Column(g[k], f)) = h[k]
    BY ONLY <2>4, <2>5, <2>6
  <2> QED
    BY <2>1, <2>7
<1> HIDE DEF S
<1>12. \A k \in 0..n : k \in S
  BY <1>1, <1>10, <1>11, CountUp
<1>13. n \in 0..n
  BY <1>1
<1>14. sum(Column(g[n], f)) = h[n]
  BY <1>12, <1>13 DEF S
<1> QED
  BY <1>5, <1>6, <1>8, <1>14 DEF rows

(* The cost of a list of attempts: a field's total is known if all of them  *)
(* reported it.                                                             *)
LEMMA CostIs ==
    ASSUME NEW T, NEW tried \in Seq(T), NEW f \in TOKEN_USAGE_FIELDS
    PROVE  aggregate_attempt_cost(tried).totals[f] =
               IF \A k \in DOMAIN tried : tried[k].token_usage[f] # Unreported
               THEN sum(Column(tried, f)) ELSE Unreported
<1> DEFINE n == Len(tried)
           reported == {k \in DOMAIN tried : tried[k].token_usage[f] # Unreported}
<1>1. n \in Nat /\ DOMAIN tried = 1..n
  OBVIOUS
<1>2. aggregate_attempt_cost(tried).totals[f] = FieldTotal(tried, reported, f)
  BY DEF aggregate_attempt_cost
<1>3. reported \in SUBSET (1..n)
  BY <1>1
<1>4. (\A k \in DOMAIN tried : tried[k].token_usage[f] # Unreported) <=> reported = 1..n
  BY <1>1
<1>n. n = Len(tried)
  OBVIOUS
<1> HIDE DEF n, reported
<1>5. IsFiniteSet(1..n) /\ Cardinality(1..n) = n
  <2>1. 1 \in Int /\ n \in Int
    BY <1>1
  <2>2. IsFiniteSet(1..n) /\ Cardinality(1..n) = IF 1 > n THEN 0 ELSE n - 1 + 1
    BY <2>1, FS_Interval
  <2> QED
    BY <1>1, <2>2
<1>6. Cardinality(reported) = n <=> reported = 1..n
  BY <1>3, <1>5, FS_Subset
<1>7. FieldTotal(tried, reported, f) =
          IF Cardinality(reported) = n THEN sum(Column(tried, f)) ELSE Unreported
  BY <1>n DEF FieldTotal, Column
<1> QED
  BY <1>2, <1>4, <1>6, <1>7, <1>n

(* The attempts a policy of at most limit attempts makes.                   *)
LEMMA PrefixIs ==
    ASSUME NEW T, NEW tried \in Seq(T), NEW limit \in Nat
    PROVE  /\ Prefix(tried, limit) \in Seq(T)
           /\ Len(Prefix(tried, limit)) = IF limit <= Len(tried) THEN limit ELSE Len(tried)
           /\ \A k \in 1..Len(Prefix(tried, limit)) : Prefix(tried, limit)[k] = tried[k]
           /\ Len(tried) <= limit => Prefix(tried, limit) = tried
<1> DEFINE m == IF limit <= Len(tried) THEN limit ELSE Len(tried)
<1>1. m \in 0..Len(tried) /\ Len(tried) \in Nat
  OBVIOUS
<1>2. Min({limit, Len(tried)}) = m
  <2> DEFINE Q(x) == x \in {limit, Len(tried)} /\ \A y \in {limit, Len(tried)} : x <= y
  <2>1. Q(m)
    BY <1>1
  <2>2. \A x : Q(x) => x = m
    BY <1>1
  <2>3. Min({limit, Len(tried)}) = CHOOSE x \in {limit, Len(tried)} :
                                      \A y \in {limit, Len(tried)} : x <= y
    BY DEF Min
  <2>4. Q(Min({limit, Len(tried)}))
    BY <2>1, <2>3
  <2> HIDE DEF Q
  <2> QED
    BY <2>2, <2>4
<1>3. Prefix(tried, limit) = SubSeq(tried, 1, m)
  BY <1>2 DEF Prefix
<1>4. Len(tried) <= limit => m = Len(tried)
  BY <1>1
<1> HIDE DEF m
<1>5. /\ SubSeq(tried, 1, m) \in Seq(T)
      /\ Len(SubSeq(tried, 1, m)) = m
      /\ \A k \in 1..m : SubSeq(tried, 1, m)[k] = tried[k]
  BY <1>1
<1>6. m = Len(tried) => SubSeq(tried, 1, m) = tried
  BY <1>1
<1> QED
  BY <1>3, <1>4, <1>5, <1>6 DEF m

-----------------------------------------------------------------------------
(* What is written adds up.                                                 *)

(* All attempts on record.                                                  *)
OnRecord ==
    UNION {{summary[r].attempts[k] : k \in DOMAIN summary[r].attempts} : r \in DOMAIN summary}

(* Usage of attempts, each field of which is a number or None.              *)
Counted(T) == \A a \in T : a.token_usage \in TokenCounts

LEMMA RowsAre ==
    ASSUME Inv, Auditable
    PROVE  /\ Len(summary) \in Nat /\ DOMAIN summary = 1..Len(summary)
           /\ \A r \in DOMAIN summary : summary[r].attempts \in Seq(OnRecord)
           /\ Counted(OnRecord)
<1>1. Len(summary) \in Nat /\ DOMAIN summary = 1..Len(summary)
  BY SeqDomain DEF Inv, Typed
<1>2. ASSUME NEW r \in DOMAIN summary PROVE summary[r].attempts \in Seq(OnRecord)
  <2> DEFINE tried == summary[r].attempts
             S == {tried[k] : k \in DOMAIN tried}
  <2>1. IsSeq(tried)
    BY ShortSeqs DEF Inv, Recorded, Finished
  <2>2. tried \in Seq(S)
    BY <2>1 DEF IsSeq
  <2>3. S \subseteq OnRecord
    BY DEF OnRecord
  <2> HIDE DEF S, tried
  <2>4. tried \in Seq(OnRecord)
    BY <2>2, <2>3
  <2> QED
    BY <2>4 DEF tried
<1>3. Counted(OnRecord)
  BY DEF Counted, OnRecord, Auditable, RowFits, AttemptsFit, AttemptFits
<1> QED
  BY <1>1, <1>2, <1>3

(* The total of a field over rows of attempts.                              *)
LEMMA TotalOfRows ==
    ASSUME NEW T, Counted(T), NEW ss \in Seq(Seq(T)), NEW f \in TOKEN_USAGE_FIELDS
    PROVE  LET total == aggregate_attempt_cost(FlattenSeq(ss)).totals[f]
               rows == [r \in DOMAIN ss |-> sum(Column(ss[r], f))]
           IN  /\ total # Unreported <=> \A r \in DOMAIN ss : \A k \in DOMAIN ss[r] :
                                             ss[r][k].token_usage[f] # Unreported
               /\ total # Unreported => rows \in Seq(Nat) /\ total = sum(rows) /\ total \in Nat
<1> DEFINE U == {a \in T : a.token_usage[f] # Unreported}
           flat == FlattenSeq(ss)
           total == aggregate_attempt_cost(flat).totals[f]
           rows == [r \in DOMAIN ss |-> sum(Column(ss[r], f))]
           All == \A r \in DOMAIN ss : \A k \in DOMAIN ss[r] : ss[r][k].token_usage[f] # Unreported
<1>1. Known(U, f)
  BY DEF Known, Counted, TokenCounts
<1>2. \A r \in DOMAIN ss : \A k \in DOMAIN ss[r] : ss[r][k] \in T
  OBVIOUS
<1>3. All <=> \A r \in DOMAIN ss : \A k \in DOMAIN ss[r] : ss[r][k] \in U
  BY <1>2
<1>u. \A a \in T : a \in U <=> a.token_usage[f] # Unreported
  OBVIOUS
<1> HIDE DEF U
<1>4. flat \in Seq(T) /\ ((\A j \in DOMAIN flat : flat[j] \in U) <=> All)
  BY <1>3, FlattenAll
<1> HIDE DEF flat, All
<1>5. (\A j \in DOMAIN flat : flat[j].token_usage[f] # Unreported) <=> All
  <2>1. \A j \in DOMAIN flat : flat[j] \in T
    BY <1>4
  <2> QED
    BY <1>4, <1>u, <2>1
<1>6. total = IF All THEN sum(Column(flat, f)) ELSE Unreported
  BY <1>4, <1>5, CostIs
<1>7. ASSUME All
      PROVE  rows \in Seq(Nat) /\ total = sum(rows) /\ total \in Nat
  <2>1. ss \in Seq(Seq(U))
    <3>1. \A r \in 1..Len(ss) : \A k \in 1..Len(ss[r]) : ss[r][k] \in U
      BY <1>3, <1>7 DEF All
    <3>2. \A r \in 1..Len(ss) : ss[r] \in Seq(T)
      OBVIOUS
    <3>3. \A x \in Seq(T) : (\A k \in 1..Len(x) : x[k] \in U) => x \in Seq(U)
      OBVIOUS
    <3>4. \A r \in 1..Len(ss) : ss[r] \in Seq(U)
      BY ONLY <3>1, <3>2, <3>3
    <3> DEFINE V == Seq(U)
               W == Seq(T)
    <3>5. ss \in Seq(W) /\ \A r \in 1..Len(ss) : ss[r] \in V
      BY <3>4
    <3> HIDE DEF V, W
    <3>6. ss \in Seq(V)
      BY <3>5
    <3> QED
      BY <3>6 DEF V
  <2>2. rows \in Seq(Nat) /\ sum(Column(flat, f)) = sum(rows)
    BY <1>1, <2>1, SumFlatten DEF flat
  <2> HIDE DEF rows
  <2>3. sum(rows) \in Nat
    BY <2>2, SumConcat
  <2> QED
    BY <1>6, <1>7, <2>2, <2>3
<1>8. \A x \in Nat : x # Unreported
  BY DEF Unreported
<1> HIDE DEF rows, total
<1>9. /\ total # Unreported <=> All
      /\ total # Unreported => rows \in Seq(Nat) /\ total = sum(rows) /\ total \in Nat
  BY <1>6, <1>7, <1>8
<1> QED
  BY <1>9 DEF total, rows, All, flat

(* One attempt more costs no less.                                          *)
LEMMA PrefixSums ==
    ASSUME NEW T, NEW f, NEW tried \in Seq(T), NEW k \in Nat,
           \A j \in DOMAIN Prefix(tried, k + 1) : Prefix(tried, k + 1)[j].token_usage[f] \in Nat
    PROVE  /\ \A j \in DOMAIN Prefix(tried, k) : Prefix(tried, k)[j].token_usage[f] \in Nat
           /\ sum(Column(Prefix(tried, k), f)) \in Nat
           /\ sum(Column(Prefix(tried, k + 1), f)) \in Nat
           /\ sum(Column(Prefix(tried, k), f)) <= sum(Column(Prefix(tried, k + 1), f))
<1> DEFINE p == Prefix(tried, k)
           q == Prefix(tried, k + 1)
           U == {a \in T : a.token_usage[f] \in Nat}
<1>1. /\ p \in Seq(T) /\ Len(p) = IF k <= Len(tried) THEN k ELSE Len(tried)
      /\ \A j \in 1..Len(p) : p[j] = tried[j]
  BY PrefixIs
<1>2. k + 1 \in Nat
  OBVIOUS
<1>3. /\ q \in Seq(T) /\ Len(q) = IF k + 1 <= Len(tried) THEN k + 1 ELSE Len(tried)
      /\ \A j \in 1..Len(q) : q[j] = tried[j]
  BY <1>2, PrefixIs
<1>4. \A j \in DOMAIN q : q[j].token_usage[f] \in Nat
  OBVIOUS
<1>5. Len(tried) \in Nat
  OBVIOUS
<1> HIDE DEF p, q
<1>6. q \in Seq(U)
  BY <1>3, <1>4
<1>7. Len(p) \in 0..Len(q) /\ Len(q) \in Nat
  BY <1>1, <1>3, <1>5
<1>8. \A j \in 1..Len(p) : j \in 1..Len(q) /\ p[j] = q[j]
  BY <1>1, <1>3, <1>7
<1>9. Known(U, f)
  BY DEF Known
<1> HIDE DEF U
<1> DEFINE rest == SubSeq(q, Len(p) + 1, Len(q))
<1>10. rest \in Seq(U) /\ p \in Seq(U)
  <2>1. rest \in Seq(U)
    BY ONLY <1>6, <1>7
  <2>2. \A j \in 1..Len(p) : p[j] \in U
    BY ONLY <1>6, <1>8
  <2>3. \A x \in Seq(T) : (\A j \in 1..Len(x) : x[j] \in U) => x \in Seq(U)
    OBVIOUS
  <2> QED
    BY ONLY <1>1, <2>1, <2>2, <2>3
<1>11. q = p \o rest
  <2>1. /\ Len(rest) = Len(q) - Len(p)
        /\ \A j \in 1..(Len(q) - Len(p)) : rest[j] = q[Len(p) + j]
    BY <1>6, <1>7
  <2> HIDE DEF rest
  <2>2. Len(p \o rest) = Len(q) /\ p \o rest \in Seq(U)
    BY <1>7, <1>10, <2>1
  <2>3. \A x, y \in Seq(U) : \A j \in 1..(Len(x) + Len(y)) :
            (x \o y)[j] = IF j <= Len(x) THEN x[j] ELSE y[j - Len(x)]
    OBVIOUS
  <2>4. ASSUME NEW j \in 1..Len(q)
        PROVE  (p \o rest)[j] = q[j]
    <3>0. (p \o rest)[j] = IF j <= Len(p) THEN p[j] ELSE rest[j - Len(p)]
      <4>1. j \in 1..(Len(p) + Len(rest))
        BY <1>7, <2>1
      <4> QED
        BY ONLY <1>10, <2>3, <4>1
    <3>1. CASE j <= Len(p)
      <4>1. j \in 1..Len(p)
        BY <1>7, <3>1
      <4> QED
        BY <1>8, <3>0, <3>1, <4>1
    <3>2. CASE ~(j <= Len(p))
      <4>1. j - Len(p) \in 1..(Len(q) - Len(p)) /\ Len(p) + (j - Len(p)) = j
        BY <1>7, <3>2
      <4> QED
        BY <2>1, <3>0, <3>2, <4>1
    <3> QED
      BY <3>1, <3>2
  <2>5. \A x, y \in Seq(U) : Len(x) = Len(y) /\ (\A j \in 1..Len(y) : x[j] = y[j]) => x = y
    OBVIOUS
  <2> QED
    BY ONLY <1>6, <2>2, <2>4, <2>5
<1> HIDE DEF rest
<1>12. /\ Column(q, f) = Column(p, f) \o Column(rest, f)
       /\ Column(p, f) \in Seq(Nat) /\ Column(rest, f) \in Seq(Nat)
  BY <1>9, <1>10, <1>11, ColumnIs
<1>13. /\ sum(Column(p, f)) \in Nat /\ sum(Column(rest, f)) \in Nat
       /\ sum(Column(q, f)) = sum(Column(p, f)) + sum(Column(rest, f))
  BY <1>12, SumConcat
<1>14. /\ sum(Column(q, f)) \in Nat /\ sum(Column(p, f)) \in Nat
       /\ sum(Column(p, f)) <= sum(Column(q, f))
  BY <1>13
<1>15. \A j \in DOMAIN p : p[j].token_usage[f] \in Nat
  BY <1>1, <1>3, <1>4, <1>8
<1> QED
  BY <1>14, <1>15 DEF p, q

(* A finished trajectory has passed within k attempts exactly if it is no   *)
(* longer than k, as long as k is below the budget.                         *)
LEMMA PassWithin ==
    ASSUME NEW T, NEW tried \in Seq(T), Finished(tried), NEW k \in Nat,
           k <= args.budget.repair_attempts, args.budget.repair_attempts \in Nat
    PROVE  /\ k < args.budget.repair_attempts => (HasPass(Prefix(tried, k)) <=> Len(tried) <= k)
           /\ k = args.budget.repair_attempts =>
                  (HasPass(Prefix(tried, k)) <=> tried[Len(tried)].status = "pass")
<1> DEFINE p == Prefix(tried, k)
           n == Len(tried)
           N == args.budget.repair_attempts
<1>1. /\ p \in Seq(T) /\ Len(p) = IF k <= n THEN k ELSE n
      /\ \A j \in 1..Len(p) : p[j] = tried[j]
  BY PrefixIs
<1>2. /\ n \in 1..N /\ N \in Nat /\ k <= N
      /\ \A j \in 1..n : tried[j].status = "pass" => j = n
      /\ tried[n].status = "pass" \/ n = N
  BY DEF Finished
<1>3. HasPass(p) <=> \E j \in 1..Len(p) : p[j].status = "pass"
  BY <1>1 DEF HasPass
<1> HIDE DEF p, n, N
<1>4. CASE n <= k
  <2>1. Len(p) = n
    BY <1>1, <1>2, <1>4
  <2>2. HasPass(p) <=> tried[n].status = "pass"
    BY <1>1, <1>2, <1>3, <2>1
  <2>3. k < N => tried[n].status = "pass"
    BY <1>2, <1>4
  <2> QED
    BY <1>4, <2>2, <2>3 DEF p, n, N
<1>5. CASE ~(n <= k)
  <2>1. Len(p) = k /\ k < N /\ \A j \in 1..k : j \in 1..n /\ j # n
    BY <1>1, <1>2, <1>5
  <2>2. ~HasPass(p)
    BY <1>1, <1>2, <1>3, <2>1
  <2>3. k # N
    BY <1>2, <2>1
  <2> QED
    BY <1>5, <2>2, <2>3 DEF p, n, N
<1> QED
  BY <1>4, <1>5

(* The attempts of all rows that a policy of at most k attempts makes.      *)
Cuts(k) == [r \in DOMAIN summary |-> Prefix(summary[r].attempts, k)]

PassedIn(k) == {r \in DOMAIN summary : HasPass(Prefix(summary[r].attempts, k))}

LEMMA CutsAre ==
    ASSUME Inv, Auditable, NEW k \in Nat
    PROVE  /\ Cuts(k) \in Seq(Seq(OnRecord))
           /\ Len(Cuts(k)) = Len(summary)
           /\ DOMAIN Cuts(k) = DOMAIN summary
           /\ \A r \in DOMAIN summary : Cuts(k)[r] = Prefix(summary[r].attempts, k)
<1> DEFINE V == Seq(OnRecord)
           n == Len(summary)
<1>1. n \in Nat /\ DOMAIN summary = 1..n
  BY RowsAre
<1>2. \A r \in DOMAIN summary : Prefix(summary[r].attempts, k) \in V
  BY RowsAre, PrefixIs
<1> HIDE DEF V, n
<1>3. Cuts(k) \in [1..n -> V]
  BY <1>1, <1>2 DEF Cuts
<1>4. \A w \in [1..n -> V] : w \in Seq(V) /\ Len(w) = n
  BY <1>1
<1>5. Cuts(k) \in Seq(V) /\ Len(Cuts(k)) = n
  BY ONLY <1>3, <1>4
<1> QED
  BY <1>5 DEF Cuts, V, n

(* The checkpoint of a policy with at most k attempts.                      *)
LEMMA CheckpointIs ==
    ASSUME NEW k
    PROVE  /\ Checkpoint(summary, k).passed = Cardinality(PassedIn(k))
           /\ Checkpoint(summary, k).cost = aggregate_attempt_cost(FlattenSeq(Cuts(k)))
           /\ Checkpoint(summary, k).cost.model_calls = Len(FlattenSeq(Cuts(k)))
  BY DEF Checkpoint, PassedWithin, PassedIn, Cuts, aggregate_attempt_cost

(* From one policy to the next: calls again for what has not passed.        *)
LEMMA NextCheckpoint ==
    ASSUME Inv, Auditable, args.kind = "model",
           NEW k \in 1..args.budget.repair_attempts, k < args.budget.repair_attempts
    PROVE  LET c == Checkpoint(summary, k)
               d == Checkpoint(summary, k + 1)
           IN  /\ c.passed <= d.passed
               /\ d.cost.model_calls - c.cost.model_calls = Len(summary) - c.passed
<1> DEFINE N == args.budget.repair_attempts
           n == Len(summary)
           ss == Cuts(k)
           tt == Cuts(k + 1)
           P == PassedIn(k)
           Q == PassedIn(k + 1)
<1>1. N \in Nat /\ k \in Nat /\ k + 1 \in Nat /\ k < N /\ k <= N /\ k + 1 <= N
  BY BudgetTypes DEF Inv, Typed
<1>2. n \in Nat /\ DOMAIN summary = 1..n
  BY RowsAre
<1>3. ASSUME NEW r \in DOMAIN summary
      PROVE  LET tried == summary[r].attempts IN
             /\ tried \in Seq(OnRecord) /\ Finished(tried)
             /\ r \in P <=> Len(tried) <= k
             /\ r \in P => r \in Q
             /\ Len(Prefix(tried, k + 1)) = IF r \in P THEN Len(Prefix(tried, k))
                                            ELSE Len(Prefix(tried, k)) + 1
  <2> DEFINE tried == summary[r].attempts
  <2>1. tried \in Seq(OnRecord)
    BY RowsAre
  <2>2. Finished(tried)
    BY DEF Inv, Recorded
  <2>3. /\ r \in P <=> HasPass(Prefix(tried, k))
        /\ r \in Q <=> HasPass(Prefix(tried, k + 1))
    BY DEF PassedIn
  <2> HIDE DEF tried
  <2>4. r \in P <=> Len(tried) <= k
    BY <1>1, <2>1, <2>2, <2>3, PassWithin
  <2>5. Len(tried) \in 1..N /\ (tried[Len(tried)].status = "pass" \/ Len(tried) = N)
    BY <2>2 DEF Finished
  <2>6. ASSUME r \in P PROVE r \in Q
    <3>1. Len(tried) <= k
      BY <2>4, <2>6
    <3>2. CASE k + 1 < N
      <4>1. Len(tried) <= k + 1
        BY <1>1, <2>5, <3>1
      <4> QED
        BY <1>1, <2>1, <2>2, <2>3, <3>2, <4>1, PassWithin
    <3>3. CASE k + 1 = N
      <4>1. tried[Len(tried)].status = "pass"
        BY <1>1, <2>5, <3>1
      <4> QED
        BY <1>1, <2>1, <2>2, <2>3, <3>3, <4>1, PassWithin
    <3> QED
      BY <1>1, <3>2, <3>3
  <2>7. /\ Len(Prefix(tried, k)) = IF k <= Len(tried) THEN k ELSE Len(tried)
        /\ Len(Prefix(tried, k + 1)) = IF k + 1 <= Len(tried) THEN k + 1 ELSE Len(tried)
    BY <1>1, <2>1, PrefixIs
  <2> HIDE DEF P, Q
  <2>8. Len(Prefix(tried, k + 1)) = IF r \in P THEN Len(Prefix(tried, k))
                                    ELSE Len(Prefix(tried, k)) + 1
    BY <1>1, <2>4, <2>5, <2>7
  <2> QED
    BY <2>1, <2>2, <2>4, <2>6, <2>8 DEF tried
<1>4. /\ ss \in Seq(Seq(OnRecord)) /\ Len(ss) = n
      /\ tt \in Seq(Seq(OnRecord)) /\ Len(tt) = n
      /\ \A r \in 1..n : ss[r] = Prefix(summary[r].attempts, k)
      /\ \A r \in 1..n : tt[r] = Prefix(summary[r].attempts, k + 1)
  BY <1>1, <1>2, CutsAre
<1>5. P \in SUBSET (1..n) /\ Q \in SUBSET (1..n) /\ P \in SUBSET Q
  BY <1>2, <1>3 DEF PassedIn
<1>c. /\ Checkpoint(summary, k).passed = Cardinality(P)
      /\ Checkpoint(summary, k + 1).passed = Cardinality(Q)
      /\ Checkpoint(summary, k).cost.model_calls = Len(FlattenSeq(ss))
      /\ Checkpoint(summary, k + 1).cost.model_calls = Len(FlattenSeq(tt))
  BY CheckpointIs
<1> HIDE DEF ss, tt, P, Q, n
<1>6. \A r \in 1..Len(ss) : Len(tt[r]) = IF r \in P THEN Len(ss[r]) ELSE Len(ss[r]) + 1
  <2> SUFFICES ASSUME NEW r \in 1..n
               PROVE  Len(tt[r]) = IF r \in P THEN Len(ss[r]) ELSE Len(ss[r]) + 1
    BY <1>4
  <2>1. r \in DOMAIN summary
    BY <1>2
  <2>2. Len(Prefix(summary[r].attempts, k + 1)) =
            IF r \in P THEN Len(Prefix(summary[r].attempts, k))
            ELSE Len(Prefix(summary[r].attempts, k)) + 1
    BY <1>3, <2>1
  <2>3. ss[r] = Prefix(summary[r].attempts, k) /\ tt[r] = Prefix(summary[r].attempts, k + 1)
    BY <1>4
  <2> QED
    BY ONLY <2>2, <2>3
<1>7. Len(FlattenSeq(tt)) - Len(FlattenSeq(ss)) = n - Cardinality(P)
  <2>1. P \in SUBSET (1..Len(ss)) /\ Len(ss) = Len(tt)
    BY <1>4, <1>5
  <2>2. Len(FlattenSeq(tt)) - Len(FlattenSeq(ss)) = Len(ss) - Cardinality(P)
    BY <1>4, <1>6, <2>1, FlattenGrows
  <2> QED
    BY <1>4, <2>2
<1>8. Cardinality(P) <= Cardinality(Q)
  <2>1. 1 \in Int /\ n \in Int
    BY <1>2
  <2>2. IsFiniteSet(1..n)
    BY <2>1, FS_Interval
  <2>3. IsFiniteSet(Q)
    BY <1>5, <2>2, FS_Subset
  <2> QED
    BY <1>5, <2>3, FS_Subset
<1> QED
  BY <1>7, <1>8, <1>c DEF n

(* A policy with one attempt more costs no fewer tokens.                    *)
LEMMA NextTotals ==
    ASSUME Inv, Auditable, NEW k \in Nat, NEW f \in TOKEN_USAGE_FIELDS,
           aggregate_attempt_cost(FlattenSeq(Cuts(k + 1))).totals[f] # Unreported
    PROVE  aggregate_attempt_cost(FlattenSeq(Cuts(k))).totals[f]
               \in 0..aggregate_attempt_cost(FlattenSeq(Cuts(k + 1))).totals[f]
<1> DEFINE ss == Cuts(k)
           tt == Cuts(k + 1)
           c == aggregate_attempt_cost(FlattenSeq(ss)).totals[f]
           d == aggregate_attempt_cost(FlattenSeq(tt)).totals[f]
           srows == [r \in DOMAIN ss |-> sum(Column(ss[r], f))]
           trows == [r \in DOMAIN tt |-> sum(Column(tt[r], f))]
<1>1. k + 1 \in Nat /\ Counted(OnRecord)
  BY RowsAre
<1>2. /\ ss \in Seq(Seq(OnRecord)) /\ DOMAIN ss = DOMAIN summary
      /\ \A r \in DOMAIN summary : ss[r] = Prefix(summary[r].attempts, k)
  BY CutsAre
<1>3. /\ tt \in Seq(Seq(OnRecord)) /\ DOMAIN tt = DOMAIN summary
      /\ \A r \in DOMAIN summary : tt[r] = Prefix(summary[r].attempts, k + 1)
  BY <1>1, CutsAre
<1>d. d # Unreported
  OBVIOUS
<1> HIDE DEF ss, tt
<1>4. /\ d # Unreported <=> \A r \in DOMAIN tt : \A j \in DOMAIN tt[r] :
                               tt[r][j].token_usage[f] # Unreported
      /\ d # Unreported => trows \in Seq(Nat) /\ d = sum(trows) /\ d \in Nat
  BY <1>1, <1>3, TotalOfRows
<1>5. /\ c # Unreported <=> \A r \in DOMAIN ss : \A j \in DOMAIN ss[r] :
                               ss[r][j].token_usage[f] # Unreported
      /\ c # Unreported => srows \in Seq(Nat) /\ c = sum(srows) /\ c \in Nat
  BY <1>1, <1>2, TotalOfRows
<1>6. ASSUME NEW r \in DOMAIN summary
      PROVE  /\ \A j \in DOMAIN ss[r] : ss[r][j].token_usage[f] \in Nat
             /\ sum(Column(ss[r], f)) <= sum(Column(tt[r], f))
  <2> DEFINE tried == summary[r].attempts
  <2>1. tried \in Seq(OnRecord)
    BY RowsAre
  <2>2. tt[r] = Prefix(tried, k + 1) /\ ss[r] = Prefix(tried, k)
    BY <1>2, <1>3
  <2> HIDE DEF tried
  <2>3. \A j \in DOMAIN tt[r] : tt[r][j] \in OnRecord /\ tt[r][j].token_usage[f] # Unreported
    <3>1. tt[r] \in Seq(OnRecord)
      BY <1>1, <2>1, <2>2, PrefixIs
    <3>2. \A j \in DOMAIN tt[r] : tt[r][j] \in OnRecord
      BY <3>1
    <3> QED
      BY <1>3, <1>4, <1>d, <3>2
  <2>4. \A j \in DOMAIN tt[r] : tt[r][j].token_usage[f] \in Nat
    BY <1>1, <2>3 DEF Counted, TokenCounts
  <2>5. \A j \in DOMAIN Prefix(tried, k + 1) : Prefix(tried, k + 1)[j].token_usage[f] \in Nat
    BY <2>2, <2>4
  <2>6. /\ \A j \in DOMAIN Prefix(tried, k) : Prefix(tried, k)[j].token_usage[f] \in Nat
        /\ sum(Column(Prefix(tried, k), f)) <= sum(Column(Prefix(tried, k + 1), f))
    BY <2>1, <2>5, PrefixSums
  <2> QED
    BY <2>2, <2>6
<1>7. \A x \in Nat : x # Unreported
  BY DEF Unreported
<1>8. c # Unreported
  BY <1>2, <1>5, <1>6, <1>7
<1>9. /\ srows \in Seq(Nat) /\ c = sum(srows) /\ c \in Nat
      /\ trows \in Seq(Nat) /\ d = sum(trows) /\ d \in Nat
  BY <1>4, <1>5, <1>8, <1>d
<1>10. \A r \in DOMAIN summary : srows[r] <= trows[r]
  BY <1>2, <1>3, <1>6
<1>11. DOMAIN srows = DOMAIN summary /\ DOMAIN trows = DOMAIN summary
  BY <1>2, <1>3
<1> HIDE DEF srows, trows, c, d
<1>12. Len(srows) = Len(trows) /\ \A r \in 1..Len(srows) : srows[r] <= trows[r]
  <2>1. \A w \in Seq(Nat) : DOMAIN w = 1..Len(w) /\ Len(w) \in Nat
    OBVIOUS
  <2>2. \A m, n \in Nat : 1..m = 1..n => m = n
    OBVIOUS
  <2> QED
    BY ONLY <1>9, <1>10, <1>11, <2>1, <2>2
<1>13. c <= d
  BY <1>9, <1>12, SumPointwise
<1>14. c \in 0..d
  BY <1>9, <1>13
<1> QED
  BY <1>14 DEF c, d, ss, tt

(* The last policy is the run itself.                                       *)
LEMMA LastCheckpoint ==
    ASSUME Inv, Auditable, args.kind = "model"
    PROVE  LET c == Checkpoint(summary, args.budget.repair_attempts)
           IN  /\ c.passed = Passed
               /\ c.cost = aggregate_attempt_cost(AllAttempts(summary))
<1> DEFINE N == args.budget.repair_attempts
<1>1. N \in Nat /\ N <= N
  BY BudgetTypes DEF Inv, Typed
<1>2. ASSUME NEW r \in DOMAIN summary
      PROVE  /\ Prefix(summary[r].attempts, N) = summary[r].attempts
             /\ HasPass(Prefix(summary[r].attempts, N)) <=> summary[r].status = "pass"
  <2> DEFINE tried == summary[r].attempts
  <2>1. tried \in Seq(OnRecord)
    BY RowsAre
  <2>2. Finished(tried) /\ summary[r].status = tried[Len(tried)].status
    BY DEF Inv, Recorded
  <2> HIDE DEF tried
  <2>3. Len(tried) <= N
    BY <1>1, <2>2 DEF Finished
  <2>4. Prefix(tried, N) = tried
    BY <1>1, <2>1, <2>3, PrefixIs
  <2>5. HasPass(Prefix(tried, N)) <=> tried[Len(tried)].status = "pass"
    BY <1>1, <2>1, <2>2, PassWithin
  <2> QED
    BY <2>2, <2>4, <2>5 DEF tried
<1>3. PassedIn(N) = {r \in DOMAIN summary : summary[r].status = "pass"}
  BY <1>2 DEF PassedIn
<1>4. Cuts(N) = [r \in DOMAIN summary |-> summary[r].attempts]
  BY <1>2 DEF Cuts
<1> QED
  BY <1>3, <1>4, CheckpointIs DEF Passed, AllAttempts

(* The checkpoints of a model run are policies nested in one trajectory.    *)
LEMMA CheckpointsAre ==
    ASSUME Inv, Auditable
    PROVE  CheckpointsNest
<1> SUFFICES ASSUME written # <<>>, args.kind = "model" PROVE CheckpointsNest
  BY DEF CheckpointsNest
<1> DEFINE N == args.budget.repair_attempts
           cp == written[1].policy_checkpoints
<1>1. N \in Nat /\ N \in Nat \ {0} /\ N # Unreported
  BY BudgetTypes DEF Inv, Typed, Unreported
<1>2. written[1] = ResultSummary
  <2> DEFINE x == ResultSummary
  <2>1. written = <<x>>
    BY DEF Auditable
  <2> HIDE DEF x
  <2>2. written[1] = x
    BY <2>1
  <2> QED
    BY <2>2 DEF x
<1>3. /\ written[1].passed = Passed
      /\ written[1].cost = aggregate_attempt_cost(AllAttempts(summary))
      /\ cp = repair_policy_checkpoints(summary, N)
  BY <1>2 DEF ResultSummary, MaxAttempts
<1>4. cp = [k \in 1..N |-> Checkpoint(summary, k)]
  BY <1>1, <1>3 DEF repair_policy_checkpoints
<1> HIDE DEF cp
<1>5. Len(cp) = N /\ \A k \in 1..N : cp[k] = Checkpoint(summary, k)
  <2> HIDE DEF N
  <2>1. Len(cp) = N
    BY <1>1, <1>4
  <2> QED
    BY <1>4, <2>1
<1>6. cp[1].cost.model_calls = Len(summary)
  <2>1. 1 \in Nat /\ 1 \in 1..N
    BY <1>1
  <2>2. cp[1].cost.model_calls = Len(FlattenSeq(Cuts(1)))
    BY <1>5, <2>1, CheckpointIs
  <2>3. /\ Cuts(1) \in Seq(Seq(OnRecord)) /\ Len(Cuts(1)) = Len(summary)
        /\ \A r \in DOMAIN summary : Cuts(1)[r] = Prefix(summary[r].attempts, 1)
    BY <2>1, CutsAre
  <2>4. ASSUME NEW r \in 1..Len(summary) PROVE Len(Cuts(1)[r]) = 1
    <3> DEFINE tried == summary[r].attempts
    <3>1. r \in DOMAIN summary
      BY RowsAre
    <3>2. tried \in Seq(OnRecord) /\ Cuts(1)[r] = Prefix(tried, 1)
      BY <2>3, <3>1, RowsAre
    <3>3. Finished(tried)
      BY <3>1 DEF Inv, Recorded
    <3> HIDE DEF tried
    <3>4. 1 <= Len(tried)
      BY <1>1, <3>3 DEF Finished
    <3>5. Len(Prefix(tried, 1)) = IF 1 <= Len(tried) THEN 1 ELSE Len(tried)
      BY <2>1, <3>2, PrefixIs
    <3> QED
      BY <3>2, <3>4, <3>5
  <2>5. Len(FlattenSeq(Cuts(1))) = Len(Cuts(1))
    BY <2>3, <2>4, FlattenOnes
  <2> QED
    BY <2>2, <2>3, <2>5
<1>7. ASSUME NEW k \in 1..(Len(cp) - 1)
      PROVE  /\ cp[k].passed <= cp[k + 1].passed
             /\ cp[k + 1].cost.model_calls - cp[k].cost.model_calls
                    = Len(summary) - cp[k].passed
             /\ \A f \in TOKEN_USAGE_FIELDS :
                    cp[k + 1].cost.totals[f] # Unreported =>
                        cp[k].cost.totals[f] \in 0..cp[k + 1].cost.totals[f]
  <2>1. k \in Nat /\ k \in 1..N /\ k + 1 \in 1..N /\ k < N
    BY <1>1, <1>5
  <2>2. cp[k] = Checkpoint(summary, k) /\ cp[k + 1] = Checkpoint(summary, k + 1)
    BY <1>5, <2>1
  <2>3. /\ cp[k].passed <= cp[k + 1].passed
        /\ cp[k + 1].cost.model_calls - cp[k].cost.model_calls
                    = Len(summary) - cp[k].passed
    BY <2>1, <2>2, NextCheckpoint
  <2>4. ASSUME NEW f \in TOKEN_USAGE_FIELDS, cp[k + 1].cost.totals[f] # Unreported
        PROVE  cp[k].cost.totals[f] \in 0..cp[k + 1].cost.totals[f]
    <3>1. /\ cp[k].cost = aggregate_attempt_cost(FlattenSeq(Cuts(k)))
          /\ cp[k + 1].cost = aggregate_attempt_cost(FlattenSeq(Cuts(k + 1)))
      BY <2>2, CheckpointIs
    <3> QED
      BY <2>1, <2>4, <3>1, NextTotals
  <2> QED
    BY <2>3, <2>4
<1>8. cp[Len(cp)].passed = written[1].passed /\ cp[Len(cp)].cost = written[1].cost
  <2>1. cp[Len(cp)] = Checkpoint(summary, N)
    BY <1>1, <1>5
  <2> QED
    BY <1>3, <2>1, LastCheckpoint
<1> QED
  BY <1>5, <1>6, <1>7, <1>8 DEF CheckpointsNest, cp

(* A token total is the sum of the rows', and known only if all calls       *)
(* reported it.                                                             *)
LEMMA TotalsAre ==
    ASSUME Inv, Auditable
    PROVE  TotalsAddUp
<1> SUFFICES ASSUME written # <<>>, NEW f \in TOKEN_USAGE_FIELDS
             PROVE  /\ written[1].cost.totals[f] # Unreported <=>
                           \A r \in DOMAIN summary : \A k \in DOMAIN summary[r].attempts :
                               summary[r].attempts[k].token_usage[f] # Unreported
                    /\ written[1].cost.totals[f] # Unreported =>
                           written[1].cost.totals[f] =
                               sum([r \in DOMAIN summary |-> summary[r].cost.totals[f]])
  BY DEF TotalsAddUp
<1> DEFINE total == written[1].cost.totals[f]
           ss == [r \in DOMAIN summary |-> summary[r].attempts]
           rows == [r \in DOMAIN ss |-> sum(Column(ss[r], f))]
<1>1. written[1].cost = aggregate_attempt_cost(FlattenSeq(ss))
  <2> DEFINE x == ResultSummary
  <2>1. written = <<x>>
    BY DEF Auditable
  <2>2. x.cost = aggregate_attempt_cost(FlattenSeq(ss))
    BY DEF ResultSummary, AllAttempts
  <2> HIDE DEF x, ss
  <2> QED
    BY <2>1, <2>2
<1>2. ss \in Seq(Seq(OnRecord))
  <2> DEFINE V == Seq(OnRecord)
             n == Len(summary)
  <2>1. n \in Nat /\ ss \in [1..n -> V]
    BY RowsAre
  <2> HIDE DEF V, n, ss
  <2>2. ss \in Seq(V)
    BY <2>1
  <2> QED
    BY <2>2 DEF V
<1>3. DOMAIN ss = DOMAIN summary /\ \A r \in DOMAIN summary : ss[r] = summary[r].attempts
  OBVIOUS
<1> HIDE DEF ss
<1>4. Counted(OnRecord)
  BY RowsAre
<1>5. /\ total # Unreported <=> \A r \in DOMAIN ss : \A k \in DOMAIN ss[r] :
                                    ss[r][k].token_usage[f] # Unreported
      /\ total # Unreported => total = sum(rows)
  BY <1>1, <1>2, <1>4, TotalOfRows
<1>6. ASSUME total # Unreported
      PROVE  rows = [r \in DOMAIN summary |-> summary[r].cost.totals[f]]
  <2>1. ASSUME NEW r \in DOMAIN summary
        PROVE  summary[r].cost.totals[f] = sum(Column(ss[r], f))
    <3>1. summary[r].cost = aggregate_attempt_cost(ss[r])
      BY <1>3 DEF Auditable, RowFits
    <3>2. ss[r] \in Seq(OnRecord)
      BY <1>3, RowsAre
    <3>3. \A k \in DOMAIN ss[r] : ss[r][k].token_usage[f] # Unreported
      BY <1>3, <1>5, <1>6
    <3>4. aggregate_attempt_cost(ss[r]).totals[f] = sum(Column(ss[r], f))
      BY <3>2, <3>3, CostIs
    <3> QED
      BY <3>1, <3>4
  <2> QED
    BY <1>3, <2>1
<1> HIDE DEF rows
<1> QED
  BY <1>3, <1>5, <1>6

(* What is written about a run adds up, for any number of cases, attempts   *)
(* and tokens: calls, passes and totals of the checkpoints are nested in    *)
(* one trajectory, the last checkpoint is the run, and a total is known     *)
(* exactly if every call reported the field, and then the sum of the rows'. *)
THEOREM SummaryAlwaysAddsUp == Spec => []SummaryAddsUp
<1>1. Inv /\ Auditable => SummaryAddsUp
  BY CheckpointsAre, TotalsAre DEF SummaryAddsUp
<1> QED
  BY <1>1, AuditableHolds, PTL

=============================================================================
