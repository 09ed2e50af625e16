-------------------------- MODULE BenchCaseProofs ---------------------------
(***************************************************************************)
(* Proofs about BenchCase, for cases of any shape: with any number of map  *)
(* updates, checks and tests.                                              *)
(*                                                                         *)
(* While run_case judges, its report says nothing of the steps ahead       *)
(* (Ahead), nothing bad of the steps behind (Behind), and the tests made   *)
(* so far determine where the case stopped (TestsMade).  So a report that  *)
(* is printed has its first failure where the case stopped, and keeps to   *)
(* the order of the steps (Settled); what comes after can only spoil the   *)
(* return code.  Pins are accounted for on the side (PinsKnown).           *)
(***************************************************************************)
EXTENDS BenchCase, TLAPS

Bools == Seq(BOOLEAN)

Results == [map_updates : Bools, passed : BOOLEAN]

ReportType ==
    [compile : Bools, map_setup : Bools, load : Bools, success_log_checks : Bools,
     source_semantics : Bools, functional : Seq(Results), passed : BOOLEAN]

Stops == {"none", "raised", "compile", "map_setup", "verifier_load",
          "auxiliary_proof_predicate", "functional_oracle"}

Judging == {"compile", "mkdir", "load", "setup", "source", "test", "print"}

Leaving == {"cleanup_pin", "cleanup_pin_tree", "done"}

Typed ==
    /\ shape \in CaseShapes
    /\ pc \in Judging \union Leaving
    /\ report \in ReportType
    /\ functional \in Seq(Results)
    /\ stdout \in {<<>>, <<report>>}
    /\ returncode \in {0, 1}
    /\ stopped \in Stops

(* What the steps not yet made will fill in.                                *)
Ahead ==
    /\ pc = "compile" => report.compile = <<>>
    /\ pc \in {"compile", "mkdir"} => report.map_setup = <<>>
    /\ pc \in {"compile", "mkdir", "load"} => report.load = <<>>
    /\ pc \in {"compile", "mkdir", "load", "setup"} => report.success_log_checks = <<>>
    /\ pc \in {"compile", "mkdir", "load", "setup", "source"} =>
           /\ report.source_semantics = <<>>
           /\ functional = <<>> /\ stopped = "none"
    /\ pc \in Judging =>
           /\ report.functional = <<>> /\ ~report.passed
           /\ stdout = <<>> /\ returncode = 0

(* The steps made, all of which went well.                                  *)
Behind ==
    /\ pc \in Judging \ {"compile"} => report.compile = <<TRUE>>
    /\ pc = "mkdir" => NeedsMaps
    /\ pc \in Judging => AllTrue(report.map_setup)
    /\ pc \in {"load", "setup"} /\ NeedsMaps =>
           Len(report.map_setup) \in 1..(shape.map_updates + 1)
    /\ pc \in {"setup", "source", "test", "print"} =>
           report.load = <<TRUE>> /\ ~shape.expect_reject
    /\ pc \in {"source", "test", "print"} =>
           /\ NeedsMaps => Len(report.map_setup) = shape.map_updates + 1
           /\ AllTrue(report.success_log_checks)
           /\ Len(report.success_log_checks) = shape.log_checks
    /\ pc \in {"test", "print"} =>
           /\ AllTrue(report.source_semantics)
           /\ Len(report.source_semantics) = shape.source_checks

(* A test whose maps could not be prepared is the last one and failed; the  *)
(* first failure is what the case stopped for.                              *)
TestsMade ==
    pc \in {"test", "print"} =>
        /\ \A k \in DOMAIN functional : ~AllTrue(functional[k].map_updates) =>
               ~functional[k].passed /\ k = Len(functional) /\ pc = "print"
        /\ stopped \in {"none", "functional_oracle", "map_setup"}
        /\ stopped = "none" <=> AllPassed
        /\ stopped = "map_setup" <=>
               \E k \in DOMAIN functional :
                   /\ ~AllTrue(functional[k].map_updates)
                   /\ \A j \in 1..(k - 1) : functional[j].passed
        /\ Len(functional) <= Len(shape.tests)
        /\ pc = "print" => ~AllPassed

WholeCase ==
    /\ NeedsMaps => Len(report.map_setup) = shape.map_updates + 1
    /\ Len(report.success_log_checks) = shape.log_checks
    /\ Len(report.source_semantics) = shape.source_checks
    /\ Len(report.functional) = Len(shape.tests)

Printed ==
    /\ InOrder(report)
    /\ report.passed <=> NothingFailed(report)
    /\ BlamedStage(report) = IF stopped = "none" THEN "oracle" ELSE stopped
    /\ report.passed <=> stopped = "none"
    /\ stopped # "raised"
    /\ report.passed => WholeCase

Settled ==
    pc \in Leaving =>
        \/ stopped = "raised" /\ stdout = <<>> /\ returncode = 1
        \/ /\ stdout = <<report>>
           /\ returncode = 0 => report.passed
           /\ ~shape.expect_reject => Printed

(* A command cut off is written off, and maps are pinned only when needed.  *)
PinsKnown ==
    /\ pins \subseteq {"prog", "maps"}
    /\ unremoved \subseteq {"prog", "maps"}
    /\ orphans \subseteq unremoved
    /\ pc = "mkdir" => NeedsMaps
    /\ "maps" \in pins /\ ~NeedsMaps => "maps" \in unremoved
    /\ pc = "cleanup_pin_tree" => pins \ {"maps"} \subseteq unremoved
    /\ pc = "done" => pins \subseteq unremoved

Judgement == Typed /\ Ahead /\ Behind /\ TestsMade /\ Settled

Inv == Judgement /\ PinsKnown

-----------------------------------------------------------------------------
(* What AllTrue makes of the lists run_case builds.                         *)
LEMMA AllTrueEmpty == AllTrue(<<>>)
BY DEF AllTrue

LEMMA AllTrueOne == AllTrue(<<TRUE>>) /\ ~AllTrue(<<FALSE>>)
<1>1. DOMAIN <<TRUE>> = {1} /\ DOMAIN <<FALSE>> = {1}
  OBVIOUS
<1>2. <<TRUE>>[1] = TRUE /\ <<FALSE>>[1] = FALSE
  OBVIOUS
<1> QED
  BY <1>1, <1>2, Zenon DEF AllTrue

LEMMA AllTrueAppend ==
    ASSUME NEW s \in Bools, NEW b \in BOOLEAN, AllTrue(s)
    PROVE  AllTrue(Append(s, b)) <=> b
<1>1. DOMAIN Append(s, b) = 1..(Len(s) + 1) /\ DOMAIN s = 1..Len(s) /\ Len(s) \in Nat
  BY DEF Bools
<1>2. Append(s, b)[Len(s) + 1] = b
  BY DEF Bools
<1>3. ASSUME NEW k \in 1..Len(s) PROVE Append(s, b)[k] = s[k]
  BY DEF Bools
<1>4. \A k \in 1..(Len(s) + 1) : k \in 1..Len(s) \/ k = Len(s) + 1
  BY <1>1
<1>5. Len(s) + 1 \in 1..(Len(s) + 1)
  BY <1>1
<1>6. \A k \in 1..Len(s) : s[k]
  BY <1>1, Zenon DEF AllTrue
<1> QED
  BY <1>1, <1>2, <1>3, <1>4, <1>5, <1>6, Zenon DEF AllTrue

LEMMA EmptyReportType ==
    /\ EmptyReport \in ReportType
    /\ EmptyReport.compile = <<>> /\ EmptyReport.map_setup = <<>>
    /\ EmptyReport.load = <<>> /\ EmptyReport.success_log_checks = <<>>
    /\ EmptyReport.source_semantics = <<>> /\ EmptyReport.functional = <<>>
    /\ EmptyReport.passed = FALSE
BY DEF EmptyReport, ReportType, Bools, Results

(* The fields of a case.                                                    *)
LEMMA ShapeType ==
    ASSUME shape \in CaseShapes
    PROVE  /\ shape.expect_reject \in BOOLEAN
           /\ shape.map_updates \in Nat /\ shape.log_checks \in Nat
           /\ shape.source_checks \in Nat
           /\ shape.tests \in Seq([updates : Nat, post : BOOLEAN])
BY ShapesAssumption

LEMMA InitInv == Init => Inv
<1> SUFFICES ASSUME Init PROVE Inv
  OBVIOUS
<1>1. /\ shape \in CaseShapes /\ pc = "compile" /\ report = EmptyReport
      /\ functional = <<>> /\ stdout = <<>> /\ returncode = 0
      /\ stopped = "none" /\ pins = {} /\ unremoved = {} /\ orphans = {}
  BY DEF Init
<1>2. Typed
  BY <1>1, EmptyReportType DEF Typed, Judging, Stops
<1>3. Ahead
  BY <1>1, EmptyReportType DEF Ahead, Judging
<1>4. Behind
  BY <1>1, EmptyReportType, AllTrueEmpty DEF Behind, Judging
<1>5. TestsMade /\ Settled
  BY <1>1 DEF TestsMade, Settled, Leaving
<1>6. PinsKnown
  BY <1>1 DEF PinsKnown
<1> QED
  BY <1>2, <1>3, <1>4, <1>5, <1>6 DEF Inv, Judgement

-----------------------------------------------------------------------------
(* Reports of a case that stopped, by the step at which it did.             *)
FailedReport(r, why) ==
    InOrder(r) /\ ~NothingFailed(r) /\ BlamedStage(r) = why /\ ~r.passed

LEMMA CompileFailed ==
    ASSUME NEW r, r.compile = <<FALSE>>, r.map_setup = <<>>, r.load = <<>>,
           r.success_log_checks = <<>>, r.source_semantics = <<>>, r.functional = <<>>,
           ~r.passed
    PROVE  FailedReport(r, "compile")
BY AllTrueEmpty, AllTrueOne DEF FailedReport, InOrder, NothingFailed, BlamedStage

LEMMA MapSetupFailed ==
    ASSUME NEW r, r.compile = <<TRUE>>, ~AllTrue(r.map_setup), r.load \in {<<>>, <<TRUE>>},
           r.success_log_checks = <<>>, r.source_semantics = <<>>, r.functional = <<>>,
           ~r.passed
    PROVE  FailedReport(r, "map_setup")
<1>1. r.compile # <<>> /\ AllTrue(r.compile)
  BY AllTrueOne
<1>2. InOrder(r)
  BY <1>1 DEF InOrder
<1>3. BlamedStage(r) = "map_setup"
  BY ONLY <1>1, ~AllTrue(r.map_setup) DEF BlamedStage
<1> QED
  BY ONLY <1>2, <1>3, ~AllTrue(r.map_setup), ~r.passed DEF FailedReport, NothingFailed

LEMMA LoadFailed ==
    ASSUME NEW r, r.compile = <<TRUE>>, AllTrue(r.map_setup), r.load = <<FALSE>>,
           r.success_log_checks = <<>>, r.source_semantics = <<>>, r.functional = <<>>,
           ~r.passed
    PROVE  FailedReport(r, "verifier_load")
BY AllTrueEmpty, AllTrueOne DEF FailedReport, InOrder, NothingFailed, BlamedStage

LEMMA LogCheckFailed ==
    ASSUME NEW r, r.compile = <<TRUE>>, AllTrue(r.map_setup), r.load = <<TRUE>>,
           ~AllTrue(r.success_log_checks), r.source_semantics = <<>>, r.functional = <<>>,
           ~r.passed
    PROVE  FailedReport(r, "auxiliary_proof_predicate")
BY AllTrueEmpty, AllTrueOne DEF FailedReport, InOrder, NothingFailed, BlamedStage

LEMMA SourceCheckFailed ==
    ASSUME NEW r, r.compile = <<TRUE>>, AllTrue(r.map_setup), r.load = <<TRUE>>,
           AllTrue(r.success_log_checks), ~AllTrue(r.source_semantics), r.functional = <<>>,
           ~r.passed
    PROVE  FailedReport(r, "auxiliary_proof_predicate")
BY AllTrueEmpty, AllTrueOne DEF FailedReport, InOrder, NothingFailed, BlamedStage

(* A report is printed for a step that failed: what the state is then.      *)
LEMMA PrintedFailure ==
    ASSUME Judgement, pc \in Judging, stopped = "none",
           NEW r \in ReportType, NEW why \in Stops \ {"none", "raised"},
           FailedReport(r, why), PrintAndReturn(r, 1, why),
           UNCHANGED <<shape, functional>>
    PROVE  Judgement'
<1>1. /\ report' = r /\ stdout' = <<r>> /\ returncode' = 1 /\ stopped' = why
      /\ pc' = "cleanup_pin" /\ shape' = shape /\ functional' = functional
  BY DEF PrintAndReturn
<1>2. Typed'
  BY <1>1 DEF Judgement, Typed, Leaving, ReportType, Results, Bools, Stops
<1>3. Ahead' /\ Behind' /\ TestsMade'
  BY <1>1 DEF Ahead, Behind, TestsMade, Judging
<1>4. Printed'
  <2>1. InOrder(report') /\ ~NothingFailed(report') /\ ~report'.passed
        /\ BlamedStage(report') = stopped'
    BY <1>1 DEF FailedReport
  <2>2. stopped' # "none" /\ stopped' # "raised"
    BY <1>1
  <2> QED
    BY <2>1, <2>2 DEF Printed
<1>5. Settled'
  BY <1>1, <1>4 DEF Settled
<1> QED
  BY <1>2, <1>3, <1>5 DEF Judgement

(* An exception leaves without a report, wherever it comes from.            *)
LEMMA RaiseKeeps ==
    ASSUME Judgement, pc \in Judging, Raise, UNCHANGED <<shape, functional>>
    PROVE  Judgement'
<1>1. /\ report' = report /\ stdout' = stdout /\ returncode' = 1 /\ stopped' = "raised"
      /\ pc' = "cleanup_pin" /\ shape' = shape /\ functional' = functional
  BY DEF Raise
<1>2. stdout = <<>>
  BY DEF Judgement, Ahead
<1>3. Typed'
  BY <1>1 DEF Judgement, Typed, Leaving, ReportType, Results, Bools, Stops
<1>4. Ahead' /\ Behind' /\ TestsMade'
  BY <1>1 DEF Ahead, Behind, TestsMade, Judging
<1>5. Settled'
  BY <1>1, <1>2 DEF Settled
<1> QED
  BY <1>3, <1>4, <1>5 DEF Judgement

-----------------------------------------------------------------------------
(* The steps of run_case.  NeedsMaps does not change with them.             *)
LEMMA SameNeeds == shape' = shape => NeedsMaps' = NeedsMaps
BY DEF NeedsMaps

(* A report stays one when a step is filled in.                             *)
LEMMA FilledIn ==
    ASSUME NEW r \in ReportType, NEW s \in Bools
    PROVE  /\ [r EXCEPT !.compile = s] \in ReportType
           /\ [r EXCEPT !.map_setup = s] \in ReportType
           /\ [r EXCEPT !.load = s] \in ReportType
           /\ [r EXCEPT !.success_log_checks = s] \in ReportType
           /\ [r EXCEPT !.source_semantics = s] \in ReportType
BY DEF ReportType

LEMMA OneResult == <<TRUE>> \in Bools /\ <<FALSE>> \in Bools
BY DEF Bools

LEMMA compile_bpfKeeps == Judgement /\ compile_bpf => Judgement'
<1> SUFFICES ASSUME Judgement, compile_bpf PROVE Judgement'
  OBVIOUS
<1>1. pc = "compile" /\ UNCHANGED <<shape, functional>>
  BY DEF compile_bpf
<1>2. /\ Typed /\ Ahead /\ Behind /\ pc \in Judging
      /\ report.map_setup = <<>> /\ report.load = <<>>
      /\ report.success_log_checks = <<>> /\ report.source_semantics = <<>>
      /\ report.functional = <<>> /\ ~report.passed
      /\ functional = <<>> /\ stopped = "none" /\ stdout = <<>> /\ returncode = 0
  BY <1>1 DEF Judgement, Ahead, Judging
<1>3. CASE Raise
  BY <1>1, <1>2, <1>3, RaiseKeeps
<1> DEFINE bad == [report EXCEPT !.compile = <<FALSE>>]
           good == [report EXCEPT !.compile = <<TRUE>>]
<1>4. CASE PrintAndReturn(bad, 1, "compile")
  <2>1. bad \in ReportType
    BY <1>2, FilledIn, OneResult DEF Typed
  <2>2. /\ bad.compile = <<FALSE>> /\ bad.map_setup = <<>> /\ bad.load = <<>>
        /\ bad.success_log_checks = <<>> /\ bad.source_semantics = <<>>
        /\ bad.functional = <<>> /\ bad.passed = report.passed
    BY <1>2 DEF Typed, ReportType
  <2> HIDE DEF bad
  <2>3. FailedReport(bad, "compile")
    BY <1>2, <2>2, CompileFailed
  <2>4. "compile" \in Stops \ {"none", "raised"}
    BY DEF Stops
  <2> QED
    BY <1>1, <1>2, <1>4, <2>1, <2>3, <2>4, PrintedFailure
<1>5. CASE report' = good /\ Goto(IF NeedsMaps THEN "mkdir" ELSE "load")
  <2>1. good \in ReportType
    BY <1>2, FilledIn, OneResult DEF Typed
  <2>2. /\ good.compile = <<TRUE>> /\ good.map_setup = <<>> /\ good.load = <<>>
        /\ good.success_log_checks = <<>> /\ good.source_semantics = <<>>
        /\ good.functional = <<>> /\ good.passed = report.passed
    BY <1>2 DEF Typed, ReportType
  <2> HIDE DEF good
  <2>3. /\ UNCHANGED <<stdout, returncode, stopped>>
        /\ pc' = IF NeedsMaps THEN "mkdir" ELSE "load"
        /\ NeedsMaps' = NeedsMaps
    BY <1>1, <1>5, SameNeeds DEF Goto
  <2>4. Typed'
    BY <1>1, <1>2, <1>5, <2>1, <2>3 DEF Typed, Judging
  <2>5. Ahead'
    BY <1>1, <1>2, <1>5, <2>2, <2>3 DEF Ahead, Judging
  <2>6. Behind'
    BY <1>1, <1>2, <1>5, <2>2, <2>3, AllTrueEmpty DEF Behind, Judging
  <2>7. TestsMade' /\ Settled'
    BY <2>3 DEF TestsMade, Settled, Leaving
  <2> QED
    BY <2>4, <2>5, <2>6, <2>7 DEF Judgement
<1> QED
  <2>1. PICK result \in CommandResults :
          \/ result = "raises" /\ Raise
          \/ /\ result = "bad"
             /\ PrintAndReturn([report EXCEPT !.compile = <<result = "ok">>], 1, "compile")
          \/ /\ result = "ok"
             /\ report' = [report EXCEPT !.compile = <<result = "ok">>]
             /\ Goto(IF NeedsMaps THEN "mkdir" ELSE "load")
    BY DEF compile_bpf
  <2>2. CASE result = "raises"
    BY <1>3, <2>1, <2>2
  <2>3. CASE result = "bad"
    <3>1. (result = "ok") = FALSE
      BY <2>3
    <3> QED
      BY <1>4, <2>1, <2>3, <3>1
  <2>4. CASE result = "ok"
    <3>1. (result = "ok") = TRUE
      BY <2>4
    <3> QED
      BY <1>5, <2>1, <2>4, <3>1
  <2> QED
    BY <2>2, <2>3, <2>4 DEF CommandResults

LEMMA ensure_pin_treeKeeps == Judgement /\ ensure_pin_tree => Judgement'
<1> SUFFICES ASSUME Judgement, ensure_pin_tree PROVE Judgement'
  OBVIOUS
<1>1. pc = "mkdir" /\ UNCHANGED <<shape, functional>>
  BY DEF ensure_pin_tree
<1>2. /\ Typed /\ pc \in Judging /\ NeedsMaps
      /\ report.compile = <<TRUE>> /\ report.load = <<>>
      /\ report.success_log_checks = <<>> /\ report.source_semantics = <<>>
      /\ report.functional = <<>> /\ ~report.passed
      /\ functional = <<>> /\ stopped = "none" /\ stdout = <<>> /\ returncode = 0
  BY <1>1 DEF Judgement, Ahead, Behind, Judging
<1>3. CASE Raise
  BY <1>1, <1>2, <1>3, RaiseKeeps
<1> DEFINE bad == [report EXCEPT !.map_setup = <<FALSE>>]
           good == [report EXCEPT !.map_setup = <<TRUE>>]
<1>4. CASE PrintAndReturn(bad, 1, "map_setup")
  <2>1. bad \in ReportType
    BY <1>2, FilledIn, OneResult DEF Typed
  <2>2. /\ bad.compile = <<TRUE>> /\ bad.map_setup = <<FALSE>> /\ bad.load = <<>>
        /\ bad.success_log_checks = <<>> /\ bad.source_semantics = <<>>
        /\ bad.functional = <<>> /\ bad.passed = report.passed
    BY <1>2 DEF Typed, ReportType
  <2> HIDE DEF bad
  <2>3. ~AllTrue(bad.map_setup) /\ bad.load \in {<<>>, <<TRUE>>} /\ ~bad.passed
    BY <1>2, <2>2, AllTrueOne
  <2>4. FailedReport(bad, "map_setup")
    BY <2>2, <2>3, MapSetupFailed
  <2>5. "map_setup" \in Stops \ {"none", "raised"}
    BY DEF Stops
  <2> QED
    BY <1>1, <1>2, <1>4, <2>1, <2>4, <2>5, PrintedFailure
<1>5. CASE report' = good /\ Goto("load")
  <2>1. good \in ReportType
    BY <1>2, FilledIn, OneResult DEF Typed
  <2>2. /\ good.compile = <<TRUE>> /\ good.map_setup = <<TRUE>> /\ good.load = <<>>
        /\ good.success_log_checks = <<>> /\ good.source_semantics = <<>>
        /\ good.functional = <<>> /\ good.passed = report.passed
    BY <1>2 DEF Typed, ReportType
  <2> HIDE DEF good
  <2>3. /\ UNCHANGED <<stdout, returncode, stopped>> /\ pc' = "load"
        /\ NeedsMaps' = NeedsMaps
        /\ Len(good.map_setup) = 1 /\ shape.map_updates \in Nat
    BY <1>1, <1>2, <1>5, <2>2, SameNeeds, ShapeType DEF Goto, Typed
  <2>4. Typed'
    BY <1>1, <1>2, <1>5, <2>1, <2>3 DEF Typed, Judging
  <2>5. Ahead'
    BY <1>1, <1>2, <1>5, <2>2, <2>3 DEF Ahead, Judging
  <2>6. Behind'
    BY <1>1, <1>2, <1>5, <2>2, <2>3, AllTrueOne DEF Behind, Judging
  <2>7. TestsMade' /\ Settled'
    BY <2>3 DEF TestsMade, Settled, Leaving
  <2> QED
    BY <2>4, <2>5, <2>6, <2>7 DEF Judgement
<1> QED
  <2>1. PICK result \in CommandResults :
          \/ result = "raises" /\ Raise
          \/ /\ result = "bad"
             /\ PrintAndReturn([report EXCEPT !.map_setup = <<result = "ok">>], 1, "map_setup")
          \/ /\ result = "ok"
             /\ report' = [report EXCEPT !.map_setup = <<result = "ok">>]
             /\ Goto("load")
    BY DEF ensure_pin_tree, CutOff
  <2>2. CASE result = "raises"
    BY <1>3, <2>1, <2>2
  <2>3. CASE result = "bad"
    <3>1. (result = "ok") = FALSE
      BY <2>3
    <3> QED
      BY <1>4, <2>1, <2>3, <3>1
  <2>4. CASE result = "ok"
    <3>1. (result = "ok") = TRUE
      BY <2>4
    <3> QED
      BY <1>5, <2>1, <2>4, <3>1
  <2> QED
    BY <2>2, <2>3, <2>4 DEF CommandResults

LEMMA load_bpfKeeps == Judgement /\ load_bpf => Judgement'
<1> SUFFICES ASSUME Judgement, load_bpf PROVE Judgement'
  OBVIOUS
<1>1. pc = "load" /\ UNCHANGED <<shape, functional>>
  BY DEF load_bpf
<1>2. /\ Typed /\ Behind /\ pc \in Judging
      /\ report.compile = <<TRUE>> /\ AllTrue(report.map_setup)
      /\ report.success_log_checks = <<>> /\ report.source_semantics = <<>>
      /\ report.functional = <<>> /\ ~report.passed
      /\ functional = <<>> /\ stopped = "none" /\ stdout = <<>> /\ returncode = 0
  BY <1>1 DEF Judgement, Ahead, Behind, Judging
<1>3. CASE Raise
  BY <1>1, <1>2, <1>3, RaiseKeeps
<1>4. ASSUME NEW with \in ReportType, NEW rejected \in BOOLEAN, shape.expect_reject,
             PrintAndReturn([with EXCEPT !.passed = rejected],
                            IF rejected THEN 0 ELSE 1, "none")
      PROVE  Judgement'
  <2> DEFINE final == [with EXCEPT !.passed = rejected]
  <2>1. final \in ReportType /\ final.passed = rejected
    BY DEF ReportType
  <2> HIDE DEF final
  <2>2. /\ report' = final /\ stdout' = <<final>> /\ pc' = "cleanup_pin"
        /\ stopped' = "none" /\ shape' = shape /\ functional' = functional
    BY <1>1, <1>2, <1>4 DEF PrintAndReturn, final
  <2>3. returncode' \in {0, 1} /\ (returncode' = 0 => rejected)
    BY <1>4 DEF PrintAndReturn
  <2>4. Typed'
    BY <1>2, <2>1, <2>2, <2>3 DEF Typed, Leaving, Stops
  <2>5. Ahead' /\ Behind' /\ TestsMade'
    BY <2>2 DEF Ahead, Behind, TestsMade, Judging
  <2>6. Settled'
    BY <1>4, <2>1, <2>2, <2>3 DEF Settled
  <2> QED
    BY <2>4, <2>5, <2>6 DEF Judgement
<1> DEFINE bad == [report EXCEPT !.load = <<FALSE>>]
           good == [report EXCEPT !.load = <<TRUE>>]
<1>5. bad \in ReportType /\ good \in ReportType
  BY <1>2, FilledIn, OneResult DEF Typed
<1>6. CASE PrintAndReturn(bad, 1, "verifier_load")
  <2>1. /\ bad.compile = <<TRUE>> /\ bad.map_setup = report.map_setup
        /\ bad.load = <<FALSE>>
        /\ bad.success_log_checks = <<>> /\ bad.source_semantics = <<>>
        /\ bad.functional = <<>> /\ bad.passed = report.passed
    BY <1>2 DEF Typed, ReportType
  <2> HIDE DEF bad
  <2>2. FailedReport(bad, "verifier_load")
    BY <1>2, <2>1, LoadFailed
  <2>3. "verifier_load" \in Stops \ {"none", "raised"}
    BY DEF Stops
  <2> QED
    BY <1>1, <1>2, <1>5, <1>6, <2>2, <2>3, PrintedFailure
<1>7. CASE report' = good /\ Goto("setup") /\ ~shape.expect_reject
  <2>1. /\ good.compile = <<TRUE>> /\ good.map_setup = report.map_setup
        /\ good.load = <<TRUE>>
        /\ good.success_log_checks = <<>> /\ good.source_semantics = <<>>
        /\ good.functional = <<>> /\ good.passed = report.passed
    BY <1>2 DEF Typed, ReportType
  <2> HIDE DEF good
  <2>2. /\ UNCHANGED <<stdout, returncode, stopped>> /\ pc' = "setup"
        /\ NeedsMaps' = NeedsMaps
    BY <1>1, <1>7, SameNeeds DEF Goto
  <2>3. Typed'
    BY <1>1, <1>2, <1>5, <1>7, <2>2 DEF Typed, Judging
  <2>4. Ahead'
    BY <1>1, <1>2, <1>7, <2>1, <2>2 DEF Ahead, Judging
  <2>5. Behind'
    BY <1>1, <1>2, <1>7, <2>1, <2>2 DEF Behind, Judging
  <2>6. TestsMade' /\ Settled'
    BY <2>2 DEF TestsMade, Settled, Leaving
  <2> QED
    BY <2>3, <2>4, <2>5, <2>6 DEF Judgement
<1> QED
  <2> DEFINE with(result) == [report EXCEPT !.load = <<result = "ok">>]
  <2>1. PICK result \in CommandResults, expected \in BOOLEAN :
          \/ result = "raises" /\ Raise
          \/ /\ result # "raises"
             /\ \/ /\ shape.expect_reject
                   /\ PrintAndReturn([with(result) EXCEPT !.passed = (result = "bad" /\ expected)],
                          IF result = "bad" /\ expected THEN 0 ELSE 1, "none")
                \/ /\ ~shape.expect_reject /\ result = "bad"
                   /\ PrintAndReturn(with(result), 1, "verifier_load")
                \/ /\ ~shape.expect_reject /\ result = "ok"
                   /\ report' = with(result)
                   /\ Goto("setup")
    BY DEF load_bpf, CutOff
  <2>2. (result = "bad" /\ expected) \in BOOLEAN
    OBVIOUS
  <2>3. CASE result = "raises"
    BY <1>3, <2>1, <2>3
  <2>4. CASE result = "bad"
    <3>1. (result = "ok") = FALSE
      BY <2>4
    <3>2. with(result) = bad
      BY <3>1
    <3> HIDE DEF with, bad
    <3> QED
      BY <1>4, <1>5, <1>6, <2>1, <2>2, <2>4, <3>2
  <2>5. CASE result = "ok"
    <3>1. (result = "ok") = TRUE
      BY <2>5
    <3>2. with(result) = good
      BY <3>1
    <3> HIDE DEF with, good
    <3> QED
      BY <1>4, <1>5, <1>7, <2>1, <2>2, <2>5, <3>2
  <2> QED
    BY <2>3, <2>4, <2>5 DEF CommandResults

LEMMA update_pinned_mapKeeps == Judgement /\ update_pinned_map => Judgement'
<1> SUFFICES ASSUME Judgement, update_pinned_map PROVE Judgement'
  OBVIOUS
<1>1. /\ pc = "setup" /\ UNCHANGED <<shape, functional>>
      /\ NeedsMaps /\ Len(report.map_setup) <= shape.map_updates
  BY DEF update_pinned_map
<1>2. /\ Typed /\ pc \in Judging
      /\ report.compile = <<TRUE>> /\ AllTrue(report.map_setup)
      /\ report.load = <<TRUE>> /\ ~shape.expect_reject
      /\ report.success_log_checks = <<>> /\ report.source_semantics = <<>>
      /\ report.functional = <<>> /\ ~report.passed
      /\ functional = <<>> /\ stopped = "none" /\ stdout = <<>> /\ returncode = 0
  BY <1>1 DEF Judgement, Ahead, Behind, Judging
<1>3. report.map_setup \in Bools
  BY <1>2 DEF Typed, ReportType
<1>4. CASE Raise
  BY <1>1, <1>2, <1>4, RaiseKeeps
<1> DEFINE with(b) == [report EXCEPT !.map_setup = Append(report.map_setup, b)]
<1>5. ASSUME NEW b \in BOOLEAN
      PROVE  /\ with(b) \in ReportType
             /\ with(b).compile = <<TRUE>>
             /\ with(b).map_setup = Append(report.map_setup, b)
             /\ with(b).load = <<TRUE>>
             /\ with(b).success_log_checks = <<>> /\ with(b).source_semantics = <<>>
             /\ with(b).functional = <<>> /\ with(b).passed = report.passed
  <2>1. Append(report.map_setup, b) \in Bools
    BY <1>3 DEF Bools
  <2>2. with(b) \in ReportType
    BY <1>2, <2>1, FilledIn DEF Typed
  <2>3. /\ with(b).compile = <<TRUE>>
        /\ with(b).map_setup = Append(report.map_setup, b)
        /\ with(b).load = <<TRUE>>
        /\ with(b).success_log_checks = <<>> /\ with(b).source_semantics = <<>>
        /\ with(b).functional = <<>> /\ with(b).passed = report.passed
    BY <1>2 DEF Typed, ReportType
  <2> QED
    BY <2>2, <2>3
<1>6. CASE PrintAndReturn(with(FALSE), 1, "map_setup")
  <2> HIDE DEF with
  <2>1. ~AllTrue(with(FALSE).map_setup) /\ with(FALSE).load \in {<<>>, <<TRUE>>}
    BY <1>2, <1>3, <1>5, AllTrueAppend
  <2>2. FailedReport(with(FALSE), "map_setup")
    BY <1>2, <1>5, <2>1, MapSetupFailed
  <2>3. "map_setup" \in Stops \ {"none", "raised"}
    BY DEF Stops
  <2> QED
    BY <1>1, <1>2, <1>5, <1>6, <2>2, <2>3, PrintedFailure
<1>7. CASE report' = with(TRUE) /\ Goto("setup")
  <2>1. /\ UNCHANGED <<stdout, returncode, stopped>> /\ pc' = "setup"
        /\ NeedsMaps' = NeedsMaps
    BY <1>1, <1>7, SameNeeds DEF Goto
  <2> HIDE DEF with
  <2>2. Typed'
    BY <1>1, <1>2, <1>5, <1>7, <2>1 DEF Typed, Judging
  <2>3. Ahead'
    BY <1>1, <1>2, <1>5, <1>7, <2>1 DEF Ahead, Judging
  <2>4. /\ AllTrue(report'.map_setup)
        /\ Len(report'.map_setup) = Len(report.map_setup) + 1
        /\ Len(report.map_setup) \in Nat /\ shape.map_updates \in Nat
    <3>1. report'.map_setup = Append(report.map_setup, TRUE)
      BY <1>5, <1>7
    <3>2. AllTrue(report'.map_setup)
      BY <1>2, <1>3, <3>1, AllTrueAppend
    <3>3. /\ Len(report'.map_setup) = Len(report.map_setup) + 1
          /\ Len(report.map_setup) \in Nat
      BY <1>3, <3>1 DEF Bools
    <3> QED
      BY <1>2, <3>2, <3>3, ShapeType DEF Typed
  <2>5. Len(report'.map_setup) \in 1..(shape.map_updates + 1)
    BY <1>1, <2>4
  <2>6. Behind'
    BY <1>1, <1>2, <1>5, <1>7, <2>1, <2>4, <2>5 DEF Behind, Judging
  <2>7. TestsMade' /\ Settled'
    BY <2>1 DEF TestsMade, Settled, Leaving
  <2> QED
    BY <2>2, <2>3, <2>6, <2>7 DEF Judgement
<1> QED
  <2>1. PICK result \in CommandResults :
          \/ result = "raises" /\ Raise
          \/ result = "bad" /\ PrintAndReturn(with(result = "ok"), 1, "map_setup")
          \/ result = "ok" /\ report' = with(result = "ok") /\ Goto("setup")
    BY DEF update_pinned_map
  <2>2. CASE result = "raises"
    BY <1>4, <2>1, <2>2
  <2>3. CASE result = "bad"
    <3>1. (result = "ok") = FALSE
      BY <2>3
    <3> QED
      BY <1>6, <2>1, <2>3, <3>1
  <2>4. CASE result = "ok"
    <3>1. (result = "ok") = TRUE
      BY <2>4
    <3> QED
      BY <1>7, <2>1, <2>4, <3>1
  <2> QED
    BY <2>2, <2>3, <2>4 DEF CommandResults

LEMMA ChecksType ==
    ASSUME NEW n \in Nat, NEW checks \in Checks(n)
    PROVE  checks \in Bools /\ Len(checks) = n
BY DEF Checks, Bools

LEMMA evaluate_success_log_checksKeeps ==
    Judgement /\ evaluate_success_log_checks => Judgement'
<1> SUFFICES ASSUME Judgement, evaluate_success_log_checks PROVE Judgement'
  OBVIOUS
<1>1. /\ pc = "setup" /\ UNCHANGED <<shape, functional>>
      /\ ~(NeedsMaps /\ Len(report.map_setup) <= shape.map_updates)
  BY DEF evaluate_success_log_checks
<1>2. /\ Typed /\ pc \in Judging
      /\ report.compile = <<TRUE>> /\ AllTrue(report.map_setup)
      /\ report.load = <<TRUE>> /\ ~shape.expect_reject
      /\ report.source_semantics = <<>>
      /\ report.functional = <<>> /\ ~report.passed
      /\ functional = <<>> /\ stopped = "none" /\ stdout = <<>> /\ returncode = 0
      /\ NeedsMaps => Len(report.map_setup) \in 1..(shape.map_updates + 1)
  BY <1>1 DEF Judgement, Ahead, Behind, Judging
<1>3. shape.log_checks \in Nat /\ shape.map_updates \in Nat
  BY <1>2, ShapeType DEF Typed
<1>4. NeedsMaps => Len(report.map_setup) = shape.map_updates + 1
  BY <1>1, <1>2, <1>3
<1> DEFINE with(checks) == [report EXCEPT !.success_log_checks = checks]
<1>5. PICK checks \in Checks(shape.log_checks) :
          IF AllTrue(checks)
          THEN report' = with(checks) /\ Goto("source")
          ELSE PrintAndReturn(with(checks), 1, "auxiliary_proof_predicate")
  BY DEF evaluate_success_log_checks
<1>6. checks \in Bools /\ Len(checks) = shape.log_checks
  BY <1>3, ChecksType
<1> DEFINE new == with(checks)
<1>7. new \in ReportType
  BY <1>2, <1>6, FilledIn DEF Typed
<1>8. /\ new.compile = <<TRUE>> /\ new.map_setup = report.map_setup /\ new.load = <<TRUE>>
      /\ new.success_log_checks = checks /\ new.source_semantics = <<>>
      /\ new.functional = <<>> /\ new.passed = report.passed
  BY <1>2 DEF Typed, ReportType
<1> HIDE DEF new
<1>9. CASE AllTrue(checks)
  <2>1. /\ UNCHANGED <<stdout, returncode, stopped>> /\ pc' = "source"
        /\ NeedsMaps' = NeedsMaps /\ report' = new
    BY <1>1, <1>5, <1>9, SameNeeds DEF Goto, new
  <2>2. Typed'
    BY <1>1, <1>2, <1>7, <2>1 DEF Typed, Judging
  <2>3. Ahead'
    BY <1>1, <1>2, <1>8, <2>1 DEF Ahead, Judging
  <2>4. Behind'
    BY <1>1, <1>2, <1>4, <1>6, <1>8, <1>9, <2>1 DEF Behind, Judging
  <2>5. TestsMade' /\ Settled'
    BY <2>1 DEF TestsMade, Settled, Leaving
  <2> QED
    BY <2>2, <2>3, <2>4, <2>5 DEF Judgement
<1>10. CASE ~AllTrue(checks)
  <2>1. FailedReport(new, "auxiliary_proof_predicate")
    BY <1>2, <1>8, <1>10, LogCheckFailed
  <2>2. "auxiliary_proof_predicate" \in Stops \ {"none", "raised"}
    BY DEF Stops
  <2>3. PrintAndReturn(new, 1, "auxiliary_proof_predicate")
    BY <1>5, <1>10 DEF new
  <2> QED
    BY <1>1, <1>2, <1>7, <2>1, <2>2, <2>3, PrintedFailure
<1> QED
  BY <1>9, <1>10

LEMMA evaluate_source_checksKeeps ==
    Judgement /\ evaluate_source_checks => Judgement'
<1> SUFFICES ASSUME Judgement, evaluate_source_checks PROVE Judgement'
  OBVIOUS
<1>1. pc = "source" /\ UNCHANGED <<shape, functional>>
  BY DEF evaluate_source_checks
<1>2. /\ Typed /\ pc \in Judging
      /\ report.compile = <<TRUE>> /\ AllTrue(report.map_setup)
      /\ report.load = <<TRUE>> /\ ~shape.expect_reject
      /\ report.functional = <<>> /\ ~report.passed
      /\ functional = <<>> /\ stopped = "none" /\ stdout = <<>> /\ returncode = 0
      /\ NeedsMaps => Len(report.map_setup) = shape.map_updates + 1
      /\ AllTrue(report.success_log_checks)
      /\ Len(report.success_log_checks) = shape.log_checks
  BY <1>1 DEF Judgement, Ahead, Behind, Judging
<1>3. shape.source_checks \in Nat /\ Len(shape.tests) \in Nat
  BY <1>2, ShapeType DEF Typed
<1> DEFINE with(checks) == [report EXCEPT !.source_semantics = checks]
<1>4. PICK checks \in Checks(shape.source_checks) :
          IF AllTrue(checks)
          THEN report' = with(checks) /\ Goto("test")
          ELSE PrintAndReturn(with(checks), 1, "auxiliary_proof_predicate")
  BY DEF evaluate_source_checks
<1>5. checks \in Bools /\ Len(checks) = shape.source_checks
  BY <1>3, ChecksType
<1> DEFINE new == with(checks)
<1>6. new \in ReportType
  BY <1>2, <1>5, FilledIn DEF Typed
<1>7. /\ new.compile = <<TRUE>> /\ new.map_setup = report.map_setup /\ new.load = <<TRUE>>
      /\ new.success_log_checks = report.success_log_checks
      /\ new.source_semantics = checks
      /\ new.functional = <<>> /\ new.passed = report.passed
  BY <1>2 DEF Typed, ReportType
<1> HIDE DEF new
<1>8. CASE AllTrue(checks)
  <2>1. /\ UNCHANGED <<stdout, returncode, stopped>> /\ pc' = "test"
        /\ NeedsMaps' = NeedsMaps /\ report' = new
    BY <1>1, <1>4, <1>8, SameNeeds DEF Goto, new
  <2>2. Typed'
    BY <1>1, <1>2, <1>6, <2>1 DEF Typed, Judging
  <2>3. Ahead'
    BY <1>1, <1>2, <1>7, <2>1 DEF Ahead, Judging
  <2>4. Behind'
    BY <1>1, <1>2, <1>5, <1>7, <1>8, <2>1 DEF Behind, Judging
  <2>5. TestsMade'
    <3>1. /\ functional' = <<>> /\ stopped' = "none" /\ pc' = "test"
          /\ Len(functional') = 0 /\ DOMAIN functional' = {} /\ shape' = shape
      BY <1>1, <1>2, <2>1
    <3> QED
      BY <1>3, <3>1 DEF TestsMade, AllPassed
  <2>6. Settled'
    BY <2>1 DEF Settled, Leaving
  <2> QED
    BY <2>2, <2>3, <2>4, <2>5, <2>6 DEF Judgement
<1>9. CASE ~AllTrue(checks)
  <2>1. FailedReport(new, "auxiliary_proof_predicate")
    BY <1>2, <1>7, <1>9, SourceCheckFailed
  <2>2. "auxiliary_proof_predicate" \in Stops \ {"none", "raised"}
    BY DEF Stops
  <2>3. PrintAndReturn(new, 1, "auxiliary_proof_predicate")
    BY <1>4, <1>9 DEF new
  <2> QED
    BY <1>1, <1>2, <1>6, <2>1, <2>2, <2>3, PrintedFailure
<1> QED
  BY <1>8, <1>9

-----------------------------------------------------------------------------
(* The tests.  One more result goes on record.                              *)
LEMMA RecordKeeps ==
    ASSUME Judgement, pc = "test", Len(functional) < Len(shape.tests),
           NEW result \in Results, NEW next \in {"test", "print"}, Record(result, next),
           ~AllTrue(result.map_updates) => ~result.passed /\ next = "print",
           next = "print" => ~result.passed,
           UNCHANGED shape
    PROVE  Judgement'
<1> DEFINE n == Len(functional)
<1>1. /\ Typed /\ Ahead /\ Behind /\ TestsMade
      /\ functional \in Seq(Results) /\ n \in Nat /\ Len(shape.tests) \in Nat
  BY ShapeType DEF Judgement, Typed
<1>2. /\ functional' = Append(functional, result)
      /\ pc' = next /\ shape' = shape
      /\ UNCHANGED <<report, stdout, returncode>>
  BY DEF Record
<1>3. /\ functional' \in Seq(Results) /\ Len(functional') = n + 1
      /\ DOMAIN functional' = 1..(n + 1) /\ DOMAIN functional = 1..n
      /\ functional'[n + 1] = result
      /\ \A k \in 1..n : functional'[k] = functional[k]
  BY <1>1, <1>2
<1> HIDE DEF n
<1>4. /\ stopped' \in {"none", "functional_oracle", "map_setup"}
      /\ stopped' = "none" <=> stopped = "none" /\ result.passed
      /\ stopped' = "map_setup" <=>
            \/ stopped = "map_setup"
            \/ stopped = "none" /\ ~result.passed /\ ~AllTrue(result.map_updates)
  BY <1>1 DEF Record, TestsMade
<1>5. \A k \in 1..n : AllTrue(functional[k].map_updates)
  BY <1>1, <1>3 DEF TestsMade
<1>6. stopped # "map_setup"
  BY <1>1, <1>3, <1>5 DEF TestsMade
<1>7. AllPassed <=> \A k \in 1..n : functional[k].passed
  BY <1>3 DEF AllPassed
<1>8. AllPassed' <=> \A k \in 1..(n + 1) : functional'[k].passed
  BY <1>3 DEF AllPassed
<1>9. \A k \in 1..(n + 1) : k \in 1..n \/ k = n + 1
  BY <1>1
<1>10. n + 1 \in 1..(n + 1) /\ \A k \in 1..n : k \in 1..(n + 1)
  BY <1>1
<1>11. AllPassed' <=> AllPassed /\ result.passed
  BY <1>3, <1>7, <1>8, <1>9, <1>10, Zenon
<1>12. \A k \in 1..(n + 1) : ~AllTrue(functional'[k].map_updates) =>
           k = n + 1 /\ ~AllTrue(result.map_updates)
  BY <1>3, <1>5, <1>9, Zenon
<1>13. TestsMade'
  <2>1. \A k \in DOMAIN functional' : ~AllTrue(functional'[k].map_updates) =>
            ~functional'[k].passed /\ k = Len(functional') /\ pc' = "print"
    BY <1>2, <1>3, <1>12
  <2>2. stopped = "none" <=> AllPassed
    BY <1>1 DEF TestsMade
  <2>3. stopped' = "none" <=> AllPassed'
    BY <1>4, <1>11, <2>2
  <2>4. 1..((n + 1) - 1) = 1..n
    BY <1>1
  <2>5. (\A j \in 1..((n + 1) - 1) : functional'[j].passed) <=> AllPassed
    BY <1>3, <1>7, <2>4
  <2>6. ASSUME stopped' = "map_setup"
        PROVE  \E k \in DOMAIN functional' :
                   /\ ~AllTrue(functional'[k].map_updates)
                   /\ \A j \in 1..(k - 1) : functional'[j].passed
    BY <1>3, <1>4, <1>6, <1>10, <2>2, <2>5, <2>6
  <2>7. ASSUME NEW k \in DOMAIN functional',
               ~AllTrue(functional'[k].map_updates),
               \A j \in 1..(k - 1) : functional'[j].passed
        PROVE  stopped' = "map_setup"
    <3>1. k = n + 1 /\ ~AllTrue(result.map_updates)
      BY <1>3, <1>12, <2>7
    <3>2. AllPassed
      BY <2>5, <2>7, <3>1
    <3> QED
      BY <1>4, <2>2, <3>1, <3>2
  <2>8. pc' = "print" => ~AllPassed'
    BY <1>2, <1>11
  <2>9. Len(functional') <= Len(shape'.tests)
    BY <1>1, <1>2, <1>3 DEF n
  <2> QED
    BY <1>4, <2>1, <2>3, <2>6, <2>7, <2>8, <2>9 DEF TestsMade
<1>14. Typed'
  BY <1>1, <1>2, <1>3, <1>4 DEF Typed, Judging, Stops
<1>15. NeedsMaps' = NeedsMaps
  BY SameNeeds
<1>16. Ahead'
  BY <1>1, <1>2 DEF Ahead, Judging
<1>17. Behind'
  BY <1>1, <1>2, <1>15 DEF Behind, Judging
<1>18. Settled'
  BY <1>2 DEF Settled, Leaving
<1> QED
  BY <1>13, <1>14, <1>16, <1>17, <1>18 DEF Judgement

LEMMA ElementOf == \A T : \A s \in Seq(T) : \A k \in 1..Len(s) : s[k] \in T
OBVIOUS

LEMMA FailedAtType ==
    ASSUME NEW n \in Nat, NEW k \in 1..n
    PROVE  FailedAt(k) \in Bools /\ ~AllTrue(FailedAt(k))
<1>1. FailedAt(k) \in Bools
  BY DEF FailedAt, Bools
<1>2. k \in DOMAIN FailedAt(k)
  BY DEF FailedAt
<1>3. FailedAt(k)[k] = FALSE
  <2>1. FailedAt(k)[k] = (k < k)
    BY <1>2, Zenon DEF FailedAt
  <2>2. (k < k) = FALSE
    OBVIOUS
  <2> QED
    BY <2>1, <2>2, Zenon
<1> QED
  BY <1>1, <1>2, <1>3, Zenon DEF AllTrue

LEMMA UpdatesMade ==
    ASSUME NEW n \in Nat
    PROVE  [k \in 1..n |-> TRUE] \in Bools /\ AllTrue([k \in 1..n |-> TRUE])
<1>1. [k \in 1..n |-> TRUE] \in Bools
  <2>1. [k \in 1..n |-> TRUE] \in [1..n -> BOOLEAN]
    BY Zenon
  <2> QED
    BY <2>1 DEF Bools
<1>2. \A k \in DOMAIN [j \in 1..n |-> TRUE] : [j \in 1..n |-> TRUE][k] = TRUE
  BY Zenon
<1> QED
  BY <1>1, <1>2, Zenon DEF AllTrue

LEMMA run_functional_testKeeps == Judgement /\ run_functional_test => Judgement'
<1> SUFFICES ASSUME Judgement, run_functional_test PROVE Judgement'
  OBVIOUS
<1> DEFINE test == shape.tests[Len(functional) + 1]
<1>1. /\ pc = "test" /\ Len(functional) < Len(shape.tests) /\ UNCHANGED shape
      /\ \/ MapUpdateFails(test)
         \/ StopsAfterUpdates(test)
         \/ RunPinned(test)
         \/ Raise /\ UNCHANGED functional
  BY DEF run_functional_test
<1>2. test.updates \in Nat
  <2>1. /\ shape.tests \in Seq([updates : Nat, post : BOOLEAN])
        /\ functional \in Seq(Results)
    BY ShapeType DEF Judgement, Typed
  <2>2. Len(functional) + 1 \in 1..Len(shape.tests)
    BY <1>1, <2>1
  <2>3. test \in [updates : Nat, post : BOOLEAN]
    BY <2>1, <2>2, ElementOf
  <2> QED
    BY <2>3
<1> HIDE DEF test
<1>3. CASE MapUpdateFails(test)
  <2>1. PICK k \in 1..test.updates : Record(TestResult(FailedAt(k), FALSE), "print")
    BY <1>3 DEF MapUpdateFails
  <2> DEFINE result == TestResult(FailedAt(k), FALSE)
  <2>2. FailedAt(k) \in Bools
    BY <1>2, FailedAtType
  <2>3. result \in Results /\ ~result.passed
    BY <2>2 DEF TestResult, Results
  <2> QED
    BY <1>1, <2>1, <2>3, RecordKeeps
<1>4. CASE StopsAfterUpdates(test)
  <2>1. /\ Typed /\ Ahead /\ Behind /\ TestsMade
    BY DEF Judgement
  <2>2. /\ ~AllPassed /\ pc' = "print"
        /\ UNCHANGED <<report, functional, stdout, returncode, stopped, shape>>
        /\ NeedsMaps' = NeedsMaps
    BY <1>1, <1>4, SameNeeds DEF StopsAfterUpdates, Goto
  <2>3. Typed'
    BY <2>1, <2>2 DEF Typed, Judging
  <2>4. Ahead'
    BY <1>1, <2>1, <2>2 DEF Ahead, Judging
  <2>5. Behind'
    BY <1>1, <2>1, <2>2 DEF Behind, Judging
  <2>6. AllPassed' = AllPassed
    BY <2>2 DEF AllPassed
  <2>7. TestsMade'
    BY <1>1, <2>1, <2>2, <2>6 DEF TestsMade
  <2>8. Settled'
    BY <2>2 DEF Settled, Leaving
  <2> QED
    BY <2>3, <2>4, <2>5, <2>7, <2>8 DEF Judgement
<1>5. CASE RunPinned(test)
  <2> DEFINE updates == [k \in 1..test.updates |-> TRUE]
  <2>1. PICK passed \in BOOLEAN : Record(TestResult(updates, passed), "test")
    BY <1>5 DEF RunPinned
  <2>2. updates \in Bools /\ AllTrue(updates)
    BY <1>2, UpdatesMade
  <2> HIDE DEF updates
  <2> DEFINE result == TestResult(updates, passed)
  <2>3. result \in Results /\ AllTrue(result.map_updates)
    BY <2>2 DEF TestResult, Results
  <2> QED
    BY <1>1, <2>1, <2>3, RecordKeeps
<1>6. CASE Raise /\ UNCHANGED functional
  BY <1>1, <1>6, RaiseKeeps DEF Judging
<1> QED
  BY <1>1, <1>3, <1>4, <1>5, <1>6

(* What a report makes of the tests recorded, whose failures are as         *)
(* TestsMade says.                                                          *)
LEMMA TestsBlamed ==
    ASSUME NEW f \in Seq(Results), NEW r, r.functional = f,
           \A k \in DOMAIN f : ~AllTrue(f[k].map_updates) => ~f[k].passed /\ k = Len(f)
    PROVE  /\ FailedTests(r) = {} <=> \A k \in DOMAIN f : f[k].passed
           /\ FunctionalStage(r) = "map_setup" <=>
                  \E k \in DOMAIN f : /\ ~AllTrue(f[k].map_updates)
                                      /\ \A j \in 1..(k - 1) : f[j].passed
           /\ FunctionalStage(r) \in {"map_setup", "functional_oracle"}
<1>1. DOMAIN f = 1..Len(f) /\ Len(f) \in Nat
  OBVIOUS
<1>2. \A k : k \in FailedTests(r) <=> k \in DOMAIN f /\ ~f[k].passed
  BY Zenon DEF FailedTests
<1>3. FailedTests(r) = {} <=> \A k \in DOMAIN f : f[k].passed
  BY <1>2
<1>4. ASSUME NEW k \in DOMAIN f, ~f[k].passed
      PROVE  (\A j \in FailedTests(r) : k <= j) <=> \A j \in 1..(k - 1) : f[j].passed
  <2>1. ASSUME \A j \in FailedTests(r) : k <= j, NEW j \in 1..(k - 1)
        PROVE  f[j].passed
    BY <1>1, <1>2, <2>1
  <2>2. ASSUME \A j \in 1..(k - 1) : f[j].passed, NEW j \in FailedTests(r)
        PROVE  k <= j
    BY <1>1, <1>2, <2>2
  <2> QED
    BY <2>1, <2>2
<1>5. (\E k \in FailedTests(r) : /\ \A j \in FailedTests(r) : k <= j
                                 /\ ~AllTrue(r.functional[k].map_updates)) <=>
      (\E k \in DOMAIN f : /\ ~AllTrue(f[k].map_updates)
                           /\ \A j \in 1..(k - 1) : f[j].passed)
  BY <1>2, <1>4, Zenon
<1>6. FunctionalStage(r) \in {"map_setup", "functional_oracle"}
  BY DEF FunctionalStage
<1>7. FunctionalStage(r) = "map_setup" <=>
        \E k \in FailedTests(r) : /\ \A j \in FailedTests(r) : k <= j
                                  /\ ~AllTrue(r.functional[k].map_updates)
  BY DEF FunctionalStage
<1> QED
  BY <1>3, <1>5, <1>6, <1>7

LEMMA print_reportKeeps == Judgement /\ print_report => Judgement'
<1> SUFFICES ASSUME Judgement, print_report PROVE Judgement'
  OBVIOUS
<1> DEFINE final == [report EXCEPT !.functional = functional, !.passed = AllPassed]
<1>1. /\ pc \in {"test", "print"} /\ UNCHANGED <<shape, functional>>
      /\ pc = "test" => Len(functional) = Len(shape.tests)
      /\ PrintAndReturn(final, IF AllPassed THEN 0 ELSE 1, "none")
  BY DEF print_report
<1>2. /\ Typed /\ TestsMade
      /\ report.compile = <<TRUE>> /\ AllTrue(report.map_setup) /\ report.load = <<TRUE>>
      /\ NeedsMaps => Len(report.map_setup) = shape.map_updates + 1
      /\ AllTrue(report.success_log_checks)
      /\ Len(report.success_log_checks) = shape.log_checks
      /\ AllTrue(report.source_semantics)
      /\ Len(report.source_semantics) = shape.source_checks
  BY <1>1 DEF Judgement, Behind, Judging
<1>3. AllPassed \in BOOLEAN
  BY DEF AllPassed
<1>4. final \in ReportType
  BY <1>2, <1>3 DEF Typed, ReportType
<1>5. /\ final.compile = <<TRUE>> /\ final.map_setup = report.map_setup
      /\ final.load = <<TRUE>>
      /\ final.success_log_checks = report.success_log_checks
      /\ final.source_semantics = report.source_semantics
      /\ final.functional = functional /\ final.passed = AllPassed
  BY <1>2 DEF Typed, ReportType
<1> HIDE DEF final
<1>6. /\ report' = final /\ stdout' = <<final>> /\ pc' = "cleanup_pin"
      /\ shape' = shape /\ functional' = functional
      /\ stopped' = stopped
      /\ returncode' = IF AllPassed THEN 0 ELSE 1
  BY <1>1 DEF PrintAndReturn
<1>7. /\ FailedTests(final) = {} <=> AllPassed
      /\ FunctionalStage(final) = "map_setup" <=>
             \E k \in DOMAIN functional :
                 /\ ~AllTrue(functional[k].map_updates)
                 /\ \A j \in 1..(k - 1) : functional[j].passed
      /\ FunctionalStage(final) \in {"map_setup", "functional_oracle"}
  <2>1. functional \in Seq(Results)
    BY <1>2 DEF Typed
  <2>2. \A k \in DOMAIN functional : ~AllTrue(functional[k].map_updates) =>
            ~functional[k].passed /\ k = Len(functional)
    BY <1>1, <1>2 DEF TestsMade
  <2> QED
    BY <1>5, <2>1, <2>2, TestsBlamed DEF AllPassed
<1>8. /\ stopped \in {"none", "functional_oracle", "map_setup"}
      /\ stopped = "none" <=> AllPassed
      /\ stopped = "map_setup" <=> FunctionalStage(final) = "map_setup"
      /\ pc = "print" => ~AllPassed
  BY <1>1, <1>2, <1>7 DEF TestsMade
<1>9. Typed'
  BY <1>2, <1>3, <1>4, <1>6, <1>8 DEF Typed, Leaving, Stops
<1>10. Ahead' /\ Behind' /\ TestsMade'
  BY <1>6 DEF Ahead, Behind, TestsMade, Judging
<1>11. AllTrue(final.compile) /\ AllTrue(final.load) /\ final.compile # <<>> /\ final.load # <<>>
  BY <1>5, AllTrueOne
<1>12. NothingFailed(final) <=> AllPassed
  BY <1>2, <1>5, <1>7, <1>11 DEF NothingFailed
<1>13. InOrder(final)
  <2>1. \A k \in DOMAIN final.functional :
            ~AllTrue(final.functional[k].map_updates) =>
                ~final.functional[k].passed /\ k = Len(final.functional)
    BY <1>1, <1>2, <1>5 DEF TestsMade
  <2> QED
    BY <1>2, <1>5, <1>11, <2>1 DEF InOrder
<1>14. BlamedStage(final) = IF stopped = "none" THEN "oracle" ELSE stopped
  <2>1. BlamedStage(final) = IF FailedTests(final) # {} THEN FunctionalStage(final)
                             ELSE "oracle"
    BY <1>2, <1>5, <1>11 DEF BlamedStage
  <2> QED
    BY <1>7, <1>8, <2>1
<1>15. AllPassed => Len(final.functional) = Len(shape.tests)
  BY <1>1, <1>5, <1>8
<1>16. NeedsMaps' = NeedsMaps
  BY <1>6, SameNeeds
<1>17. AllPassed => WholeCase'
  BY <1>2, <1>5, <1>6, <1>15, <1>16 DEF WholeCase
<1>18. stopped # "raised"
  BY <1>8
<1>19. Printed'
  <2>1. InOrder(report') /\ (report'.passed <=> NothingFailed(report'))
    BY <1>5, <1>6, <1>12, <1>13
  <2>2. BlamedStage(report') = IF stopped' = "none" THEN "oracle" ELSE stopped'
    BY <1>6, <1>14
  <2>3. (report'.passed <=> stopped' = "none") /\ stopped' # "raised"
    BY <1>5, <1>6, <1>8, <1>18
  <2>4. report'.passed => WholeCase'
    BY <1>5, <1>6, <1>17
  <2> QED
    BY <2>1, <2>2, <2>3, <2>4 DEF Printed
<1>20. returncode' = 0 => report'.passed
  BY <1>5, <1>6
<1>21. Settled'
  BY <1>6, <1>19, <1>20 DEF Settled
<1> QED
  BY <1>9, <1>10, <1>21 DEF Judgement

-----------------------------------------------------------------------------
(* The finally clause: the clean-up touches the return code at most.        *)
LEMMA CleanUpKeeps ==
    ASSUME Judgement, pc \in Leaving, pc' \in Leaving,
           returncode' \in {returncode, 1},
           UNCHANGED <<shape, report, functional, stdout, stopped>>
    PROVE  Judgement'
<1>1. Typed /\ Settled
  BY DEF Judgement
<1>2. Typed'
  BY <1>1 DEF Typed
<1>3. Ahead' /\ Behind' /\ TestsMade'
  BY DEF Ahead, Behind, TestsMade, Judging, Leaving
<1>4. NeedsMaps' = NeedsMaps
  BY SameNeeds
<1>5. WholeCase' = WholeCase
  BY <1>4 DEF WholeCase
<1>6. Printed => Printed'
  BY <1>5 DEF Printed
<1>7. Settled'
  BY <1>1, <1>6 DEF Settled
<1> QED
  BY <1>2, <1>3, <1>7 DEF Judgement

LEMMA cleanup_pinKeeps == Judgement /\ (cleanup_pin \/ cleanup_pin_tree) => Judgement'
<1> SUFFICES ASSUME Judgement, cleanup_pin \/ cleanup_pin_tree PROVE Judgement'
  OBVIOUS
<1>1. /\ pc \in Leaving /\ pc' \in Leaving /\ returncode' \in {returncode, 1}
      /\ UNCHANGED <<shape, report, functional, stdout, stopped>>
  BY DEF cleanup_pin, cleanup_pin_tree, Remove, Leaving
<1> QED
  BY <1>1, CleanUpKeeps

(* Steps that leave run_case's own variables alone.                         *)
LEMMA IdleKeeps ==
    ASSUME Judgement,
           UNCHANGED <<shape, pc, report, functional, stdout, returncode, stopped>>
    PROVE  Judgement'
<1>1. Typed /\ Ahead /\ Behind /\ TestsMade /\ Settled
  BY DEF Judgement
<1>2. NeedsMaps' = NeedsMaps /\ AllPassed' = AllPassed
  BY SameNeeds DEF AllPassed
<1>3. WholeCase' = WholeCase
  BY <1>2 DEF WholeCase
<1>4. Printed => Printed'
  BY <1>3 DEF Printed
<1>5. Typed'
  BY <1>1 DEF Typed
<1>6. Ahead'
  BY <1>1 DEF Ahead
<1>7. Behind'
  BY <1>1, <1>2 DEF Behind
<1>8. TestsMade'
  BY <1>1, <1>2 DEF TestsMade
<1>9. Settled'
  BY <1>1, <1>4 DEF Settled
<1> QED
  BY <1>5, <1>6, <1>7, <1>8, <1>9 DEF Judgement

LEMMA NextKeepsJudgement == Judgement /\ [Next]_vars => Judgement'
<1> SUFFICES ASSUME Judgement, [Next]_vars PROVE Judgement'
  OBVIOUS
<1>1. CASE orphan_finishes \/ Exited \/ UNCHANGED vars
  BY <1>1, IdleKeeps DEF orphan_finishes, Exited, vars
<1>2. CASE compile_bpf \/ ensure_pin_tree \/ load_bpf \/ update_pinned_map
  BY <1>2, compile_bpfKeeps, ensure_pin_treeKeeps, load_bpfKeeps, update_pinned_mapKeeps
<1>3. CASE evaluate_success_log_checks \/ evaluate_source_checks
  BY <1>3, evaluate_success_log_checksKeeps, evaluate_source_checksKeeps
<1>4. CASE run_functional_test \/ print_report
  BY <1>4, run_functional_testKeeps, print_reportKeeps
<1>5. CASE cleanup_pin \/ cleanup_pin_tree
  BY <1>5, cleanup_pinKeeps
<1> QED
  BY <1>1, <1>2, <1>3, <1>4, <1>5 DEF Next, Step

-----------------------------------------------------------------------------
(* The pins.  Where each step goes on, and what it does to them.            *)
LEMMA JudgingPins ==
    ASSUME PinsKnown,
           pc' \notin {"cleanup_pin_tree", "done"}, pc' = "mkdir" => NeedsMaps,
           pins' \subseteq pins \union {"prog"} \union (IF NeedsMaps THEN {"maps"} ELSE {}),
           UNCHANGED <<shape, unremoved, orphans>>
    PROVE  PinsKnown'
<1>1. NeedsMaps' = NeedsMaps
  BY SameNeeds
<1> QED
  BY <1>1 DEF PinsKnown

LEMMA CutOffPins ==
    ASSUME PinsKnown, NEW pin \in {"prog", "maps"}, CutOff(pin), UNCHANGED shape
    PROVE  PinsKnown'
<1>1. NeedsMaps' = NeedsMaps
  BY SameNeeds
<1>2. /\ pc' = "cleanup_pin" /\ pins' = pins
      /\ orphans' = orphans \union {pin} /\ unremoved' = unremoved \union {pin}
  BY DEF CutOff, Raise
<1> QED
  BY <1>1, <1>2 DEF PinsKnown

LEMMA RemovePins ==
    ASSUME PinsKnown, cleanup_pin \/ cleanup_pin_tree
    PROVE  PinsKnown'
<1>1. shape' = shape /\ orphans' = orphans
  BY DEF cleanup_pin, cleanup_pin_tree
<1>2. NeedsMaps' = NeedsMaps
  BY <1>1, SameNeeds
<1>3. CASE cleanup_pin
  <2>1. Remove("prog", IF NeedsMaps THEN "cleanup_pin_tree" ELSE "done")
    BY <1>3 DEF cleanup_pin
  <2>2. /\ pins' \in {pins, pins \ {"prog"}} /\ unremoved \subseteq unremoved'
        /\ unremoved' \subseteq unremoved \union {"prog", "maps"}
        /\ "prog" \in pins' => "prog" \in unremoved'
        /\ pc' \in {"cleanup_pin_tree", "done"}
        /\ pc' = "done" => ~NeedsMaps \/ {"prog", "maps"} \subseteq unremoved'
    BY <2>1 DEF Remove
  <2> QED
    BY <1>1, <1>2, <2>2 DEF PinsKnown
<1>4. CASE cleanup_pin_tree
  <2>1. Remove("maps", "done") /\ pc = "cleanup_pin_tree"
    BY <1>4 DEF cleanup_pin_tree
  <2>2. /\ pins' \in {pins, pins \ {"maps"}} /\ unremoved \subseteq unremoved'
        /\ unremoved' \subseteq unremoved \union {"maps"}
        /\ "maps" \in pins' => "maps" \in unremoved'
        /\ pc' = "done"
    BY <2>1 DEF Remove
  <2> QED
    BY <1>1, <1>2, <2>1, <2>2 DEF PinsKnown
<1> QED
  BY <1>3, <1>4

LEMMA NextKeepsPins == PinsKnown /\ [Next]_vars => PinsKnown'
<1> SUFFICES ASSUME PinsKnown, [Next]_vars PROVE PinsKnown'
  OBVIOUS
<1>1. CASE orphan_finishes \/ Exited \/ UNCHANGED vars
  <2>1. /\ UNCHANGED <<shape, pc, unremoved>> /\ orphans' \subseteq orphans
        /\ pins' \subseteq pins \union orphans
    BY <1>1 DEF orphan_finishes, Exited, vars
  <2>2. NeedsMaps' = NeedsMaps
    BY <2>1, SameNeeds
  <2> QED
    BY <2>1, <2>2 DEF PinsKnown
<1>2. CASE compile_bpf
  <2>1. /\ UNCHANGED <<shape, pins, unremoved, orphans>>
        /\ pc' \in {"cleanup_pin", "mkdir", "load"} /\ (pc' = "mkdir" => NeedsMaps)
    BY <1>2 DEF compile_bpf, Raise, PrintAndReturn, Goto
  <2> QED
    BY <2>1, JudgingPins
<1>3. CASE ensure_pin_tree
  <2>1. CASE CutOff("maps")
    BY <1>3, <2>1, CutOffPins DEF ensure_pin_tree
  <2>2. CASE ~CutOff("maps")
    <3>1. NeedsMaps
      BY <1>3 DEF ensure_pin_tree, PinsKnown
    <3>2. /\ UNCHANGED <<shape, unremoved, orphans>> /\ pc' \in {"cleanup_pin", "load"}
          /\ pins' \subseteq pins \union {"maps"}
      BY <1>3, <2>2 DEF ensure_pin_tree, PrintAndReturn, Goto
    <3> QED
      BY <3>1, <3>2, JudgingPins
  <2> QED
    BY <2>1, <2>2
<1>4. CASE load_bpf
  <2>1. CASE CutOff("prog")
    BY <1>4, <2>1, CutOffPins DEF load_bpf
  <2>2. CASE ~CutOff("prog")
    <3>1. /\ UNCHANGED <<shape, unremoved, orphans>> /\ pc' \in {"cleanup_pin", "setup"}
          /\ pins' \subseteq pins \union {"prog"}
      BY <1>4, <2>2 DEF load_bpf, PrintAndReturn, Goto
    <3> QED
      BY <3>1, JudgingPins
  <2> QED
    BY <2>1, <2>2
<1>5. CASE update_pinned_map \/ evaluate_success_log_checks \/ evaluate_source_checks
  <2>1. /\ UNCHANGED <<shape, pins, unremoved, orphans>>
        /\ pc' \in {"cleanup_pin", "setup", "source", "test"}
    BY <1>5 DEF update_pinned_map, evaluate_success_log_checks, evaluate_source_checks,
       Raise, PrintAndReturn, Goto
  <2> QED
    BY <2>1, JudgingPins
<1>6. CASE run_functional_test \/ print_report
  <2>1. /\ UNCHANGED <<shape, pins, unremoved, orphans>>
        /\ pc' \in {"cleanup_pin", "test", "print"}
    BY <1>6 DEF run_functional_test, print_report, MapUpdateFails, StopsAfterUpdates,
       RunPinned, Record, Raise, PrintAndReturn, Goto
  <2> QED
    BY <2>1, JudgingPins
<1>7. CASE cleanup_pin \/ cleanup_pin_tree
  BY <1>7, RemovePins
<1> QED
  BY <1>1, <1>2, <1>3, <1>4, <1>5, <1>6, <1>7 DEF Next, Step

(* The facts of the header hold in every state of run_case.                 *)
THEOREM InvHolds == Spec => []Inv
<1>1. Inv /\ [Next]_vars => Inv'
  BY NextKeepsJudgement, NextKeepsPins DEF Inv
<1> QED
  BY InitInv, <1>1, PTL DEF Spec

-----------------------------------------------------------------------------
(* run_case's variables keep to their values.                               *)
THEOREM TypeCorrect == Spec => []TypeOK
<1>1. Inv => TypeOK
  <2> SUFFICES ASSUME Inv PROVE TypeOK
    OBVIOUS
  <2>1. Typed /\ PinsKnown
    BY DEF Inv, Judgement
  <2>2. DOMAIN report = DOMAIN EmptyReport
    BY <2>1 DEF Typed, ReportType, EmptyReport
  <2>3. \A p \in {pins, unremoved, orphans} : p \subseteq {"prog", "maps"}
    BY <2>1 DEF PinsKnown
  <2> QED
    BY <2>1, <2>2, <2>3 DEF TypeOK, Typed, Judging, Leaving, Stops
<1> QED
  BY <1>1, InvHolds, PTL

(* Whatever step fails or raises, and whatever the clean-up does, what the  *)
(* runner gets is an outcome of the contract, and return code 0 comes with  *)
(* the whole case done.                                                     *)
THEOREM ContractKept == Spec => []KeepsContract
<1>1. Inv => KeepsContract
  <2> SUFFICES ASSUME Inv, pc = "done", ~shape.expect_reject
               PROVE  /\ IsOutcome(Result)
                      /\ returncode = 0 => NothingFailed(report) /\ WholeCase
    BY DEF KeepsContract, WholeCase
  <2>1. Typed /\ Settled
    BY DEF Inv, Judgement
  <2>2. Result.returncode = returncode /\ Result.stdout = stdout
    BY DEF Result, Completed
  <2>3. \/ stdout = <<>> /\ returncode = 1
        \/ stdout = <<report>> /\ (returncode = 0 => report.passed) /\ Printed
    BY <2>1 DEF Settled, Leaving
  <2>4. CASE stdout = <<>> /\ returncode = 1
    BY <2>2, <2>4 DEF IsOutcome
  <2>5. CASE stdout = <<report>> /\ (returncode = 0 => report.passed) /\ Printed
    <3>1. Result.stdout # <<>> /\ Result.stdout[1] = report
      BY <2>2, <2>5
    <3>2. InOrder(report) /\ (report.passed <=> NothingFailed(report))
          /\ (report.passed => WholeCase)
      BY <2>5 DEF Printed
    <3>3. returncode \in {0, 1}
      BY <2>1 DEF Typed
    <3>4. IsOutcome(Result)
      BY <2>2, <2>5, <3>1, <3>2, <3>3 DEF IsOutcome
    <3> QED
      BY <2>5, <3>2, <3>4
  <2> QED
    BY <2>3, <2>4, <2>5
<1> QED
  BY <1>1, InvHolds, PTL

(* The stage the runner derives is the step at which the case stopped.  It  *)
(* is the first failure in the report (Printed), and the clean-up, which    *)
(* may raise, can only turn a pass into "oracle".                           *)
THEOREM StageIsTheStop == Spec => []StageNamesTheStop
<1>1. Inv => StageNamesTheStop
  <2> SUFFICES ASSUME Inv, pc = "done", ~shape.expect_reject
               PROVE  oracle_failure_stage(Result) =
                          CASE stopped = "raised" -> "oracle_parse"
                            [] stopped = "none" -> IF returncode = 0 THEN "pass" ELSE "oracle"
                            [] OTHER -> stopped
    BY DEF StageNamesTheStop
  <2>1. Typed /\ Settled
    BY DEF Inv, Judgement
  <2>2. Result.returncode = returncode /\ Result.stdout = stdout
    BY DEF Result, Completed
  <2>3. \/ stopped = "raised" /\ stdout = <<>> /\ returncode = 1
        \/ stdout = <<report>> /\ (returncode = 0 => report.passed) /\ Printed
    BY <2>1 DEF Settled, Leaving
  <2>4. CASE stopped = "raised" /\ stdout = <<>> /\ returncode = 1
    BY <2>2, <2>4 DEF oracle_failure_stage
  <2>5. CASE stdout = <<report>> /\ (returncode = 0 => report.passed) /\ Printed
    <3>1. Result.stdout # <<>> /\ Result.stdout[1] = report
      BY <2>2, <2>5
    <3>2. /\ BlamedStage(report) = IF stopped = "none" THEN "oracle" ELSE stopped
          /\ report.passed <=> stopped = "none"
          /\ stopped # "raised"
      BY <2>5 DEF Printed
    <3>3. oracle_failure_stage(Result) =
              IF returncode = 0 THEN "pass" ELSE BlamedStage(report)
      BY <2>2, <3>1 DEF oracle_failure_stage
    <3> QED
      BY <2>5, <3>2, <3>3
  <2> QED
    BY <2>3, <2>4, <2>5
<1> QED
  BY <1>1, InvHolds, PTL

(* A pin outlives the run only if its own removal failed, the removal       *)
(* before it raised, or the command that made it was cut off.               *)
THEOREM PinsAreRemoved == Spec => []PinsRemoved
<1>1. Inv => PinsRemoved
  BY DEF Inv, PinsKnown, PinsRemoved
<1> QED
  BY <1>1, InvHolds, PTL

-----------------------------------------------------------------------------
(* The runner's view: a verdict given once.                                 *)
VerdictStages ==
    {"oracle_parse", "oracle", "compile", "map_setup", "verifier_load",
     "auxiliary_proof_predicate", "functional_oracle"}

LEMMA VerdictType ==
    ASSUME NEW completed
    PROVE  /\ oracle_failure_stage(completed) \in VerdictStages \union {"pass"}
           /\ completed.returncode # 0 => oracle_failure_stage(completed) \in VerdictStages
           /\ completed.returncode = 0 => oracle_failure_stage(completed) = "pass"
BY DEF oracle_failure_stage, BlamedStage, FunctionalStage, VerdictStages

LEMMA VerdictInit == Init => Judged!Init
BY DEF Init, Judged!Init

(* The verdict does not change while the pins are removed, unless it was a  *)
(* pass and the return code becomes 1.                                      *)
LEMMA VerdictNext == Judgement /\ [Next]_vars => [Judged!Next]_(Judged!vars)
<1> SUFFICES ASSUME Judgement, [Next]_vars PROVE [Judged!Next]_(Judged!vars)
  OBVIOUS
<1> DEFINE phase == CASE pc \in {"cleanup_pin", "cleanup_pin_tree"} -> "releasing"
                      [] pc = "done" -> "done"
                      [] OTHER -> "judging"
           verdict == IF pc \in {"cleanup_pin", "cleanup_pin_tree", "done"}
                      THEN oracle_failure_stage(Result) ELSE "none"
<1>1. CASE phase' = phase /\ verdict' = verdict
  BY <1>1 DEF Judged!vars
<1>2. CASE /\ phase = "judging" /\ phase' = "releasing"
           /\ verdict' \in VerdictStages \union {"pass"}
  BY <1>2 DEF Judged!Next, Judged!Judge, VerdictStages
<1>3. CASE /\ phase = "releasing" /\ phase' = "done"
           /\ verdict' \in {verdict} \union (IF verdict = "pass" THEN VerdictStages ELSE {})
  BY <1>3 DEF Judged!Next, Judged!Release, VerdictStages
<1>4. pc \in Judging \union Leaving /\ pc' \in Judging \union Leaving
      /\ returncode \in {0, 1}
  BY NextKeepsJudgement DEF Judgement, Typed
<1>5. CASE pc \in Judging /\ pc' \in Judging
  <2>1. phase = "judging" /\ phase' = "judging" /\ verdict = "none" /\ verdict' = "none"
    BY <1>5 DEF Judging
  <2> QED
    BY <1>1, <2>1
<1>6. CASE pc \in Judging /\ pc' \in Leaving
  <2>1. pc' = "cleanup_pin"
    BY <1>6 DEF Judging, Leaving, Next, Step, compile_bpf, ensure_pin_tree, load_bpf,
       update_pinned_map, evaluate_success_log_checks, evaluate_source_checks,
       run_functional_test, print_report, cleanup_pin, cleanup_pin_tree, Exited,
       orphan_finishes, vars, Raise, CutOff, PrintAndReturn, Goto, MapUpdateFails,
       StopsAfterUpdates, RunPinned, Record
  <2>2. phase = "judging" /\ phase' = "releasing"
    BY <1>6, <2>1 DEF Judging
  <2>3. verdict' = oracle_failure_stage(Result')
    BY <2>1
  <2> QED
    BY <1>2, <2>2, <2>3, VerdictType
<1>7. CASE pc \in Leaving
  <2>1. pc' \in Leaving
    BY <1>7 DEF Judging, Leaving, Next, Step, compile_bpf, ensure_pin_tree, load_bpf,
       update_pinned_map, evaluate_success_log_checks, evaluate_source_checks,
       run_functional_test, print_report, cleanup_pin, cleanup_pin_tree, Exited,
       orphan_finishes, vars, Remove
  <2>2. /\ stdout' = stdout
        /\ returncode' = returncode \/ (returncode' = 1 /\ pc' = "done" /\ pc # "done")
    BY <1>7 DEF Leaving, Next, Step, compile_bpf, ensure_pin_tree, load_bpf,
       update_pinned_map, evaluate_success_log_checks, evaluate_source_checks,
       run_functional_test, print_report, cleanup_pin, cleanup_pin_tree, Exited,
       orphan_finishes, vars, Remove
  <2>3. pc = "done" => pc' = "done"
    BY DEF Next, Step, compile_bpf, ensure_pin_tree, load_bpf,
       update_pinned_map, evaluate_success_log_checks, evaluate_source_checks,
       run_functional_test, print_report, cleanup_pin, cleanup_pin_tree, Exited,
       orphan_finishes, vars
  <2>4. /\ verdict = oracle_failure_stage(Result)
        /\ verdict' = oracle_failure_stage(Result')
        /\ Result.returncode = returncode /\ Result'.returncode = returncode'
    BY <1>7, <2>1 DEF Leaving, Result, Completed
  <2>5. returncode' = returncode => verdict' = verdict
    BY <2>2, <2>4 DEF Result, Completed
  <2>6. CASE pc' # "done" \/ pc = "done"
    <3>1. phase' = phase
      BY <1>7, <2>1, <2>3, <2>6 DEF Leaving
    <3> QED
      BY <1>1, <2>2, <2>5, <2>6, <3>1
  <2>7. CASE pc' = "done" /\ pc # "done"
    <3>1. phase = "releasing" /\ phase' = "done"
      BY <1>7, <2>7 DEF Leaving
    <3>2. CASE returncode' = returncode
      BY <1>3, <2>5, <3>1, <3>2
    <3>3. CASE returncode' # returncode
      <4>1. returncode = 0 /\ returncode' = 1
        BY <1>4, <2>2, <3>3
      <4>2. verdict = "pass" /\ verdict' \in VerdictStages
        BY <2>4, <4>1, VerdictType
      <4> QED
        BY <1>3, <3>1, <4>2
    <3> QED
      BY <3>2, <3>3
  <2> QED
    BY <2>6, <2>7
<1> QED
  BY <1>4, <1>5, <1>6, <1>7

(* run_case implements the steps of OracleVerdict: it judges once, and from *)
(* then on the verdict stands, except that a clean-up that raises spoils a  *)
(* pass.  (That it ends is left to the model checker.)                      *)
THEOREM VerdictGivenOnce == Spec => Judged!Init /\ [][Judged!Next]_(Judged!vars)
<1>1. Inv => Judgement
  BY DEF Inv
<1> QED
  BY <1>1, VerdictInit, VerdictNext, InvHolds, PTL DEF Spec

=============================================================================
