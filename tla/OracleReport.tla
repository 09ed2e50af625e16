---------------------------- MODULE OracleReport ----------------------------
(***************************************************************************)
(* What the benchmark runner sees of one run of a case's oracle (test.py): *)
(* the return code and, when the oracle got as far as printing one, the    *)
(* JSON report on stdout; and what the runner makes of it.                 *)
(*                                                                         *)
(* A command or check in a report is TRUE when it has return code 0 or     *)
(* passed.  A step that did not happen has the empty sequence.             *)
(***************************************************************************)
EXTENDS Naturals, Sequences

CONSTANTS
    MaxSteps    \* longest list of commands or checks in an enumerated report

AllTrue(results) == \A k \in DOMAIN results : results[k]

EmptyReport ==
    [compile |-> <<>>, map_setup |-> <<>>, load |-> <<>>,
     success_log_checks |-> <<>>, source_semantics |-> <<>>,
     functional |-> <<>>, passed |-> FALSE]

(* One functional test of a report.                                         *)
TestResult(map_updates, passed) == [map_updates |-> map_updates, passed |-> passed]

Completed(returncode, stdout) == [returncode |-> returncode, stdout |-> stdout]

(* The tests a reader of the report finds at fault.                         *)
FailedTests(report) ==
    {k \in DOMAIN report.functional :
        ~AllTrue(report.functional[k].map_updates) \/ ~report.functional[k].passed}

(* The first failed test decides, and a failing update of its maps is a     *)
(* setup failure like those before the tests; the wrong variant blames the  *)
(* program.                                                                 *)
FunctionalStage_OneKind(report) == "functional_oracle"

FunctionalStage(report) ==
    IF \E k \in FailedTests(report) :
           /\ \A j \in FailedTests(report) : k <= j
           /\ ~AllTrue(report.functional[k].map_updates)
    THEN "map_setup" ELSE "functional_oracle"

(* The first step of the report that failed.                                *)
BlamedStage(report) ==
    IF ~AllTrue(report.compile) THEN "compile"
    ELSE IF ~AllTrue(report.map_setup) THEN "map_setup"
    ELSE IF ~AllTrue(report.load) THEN "verifier_load"
    ELSE IF ~AllTrue(report.success_log_checks) THEN "auxiliary_proof_predicate"
    ELSE IF ~AllTrue(report.source_semantics) THEN "auxiliary_proof_predicate"
    ELSE IF FailedTests(report) # {} THEN FunctionalStage(report)
    ELSE "oracle"

oracle_failure_stage(completed) ==
    IF completed.returncode = 0 THEN "pass"
    ELSE IF completed.stdout = <<>> THEN "oracle_parse"
    ELSE BlamedStage(completed.stdout[1])

(* The failure output oracle_retry_context quotes besides the candidate.  A *)
(* report that is not JSON counts as an empty one; failed source checks and *)
(* map set-up are not quoted.                                               *)
retry_evidence(completed) ==
    LET report == IF completed.stdout = <<>> THEN EmptyReport ELSE completed.stdout[1]
        failed_checks == \/ ~AllTrue(report.success_log_checks)
                         \/ \E k \in DOMAIN report.functional : ~report.functional[k].passed
    IN  {e \in {"compile", "load", "checks"} :
            \/ e = "compile" /\ ~AllTrue(report.compile)
            \/ e = "load" /\ ~AllTrue(report.load)
            \/ e = "checks" /\ failed_checks}

-----------------------------------------------------------------------------
(* Contract between the oracle and the runner, without --expect-reject: a   *)
(* printed report has gone through the steps in order up to the first that  *)
(* failed, it says passed only if none did, and the return code is 0 only   *)
(* if it says passed.  BenchCase is checked to keep it.                     *)
InOrder(report) ==
    /\ report.compile # <<>>
    /\ report.map_setup # <<>> \/ report.load # <<>> => AllTrue(report.compile)
    /\ report.load = <<>> => ~AllTrue(report.compile) \/ ~AllTrue(report.map_setup)
    /\ \/ AllTrue(report.compile) /\ AllTrue(report.map_setup) /\ report.load = <<TRUE>>
       \/ /\ report.success_log_checks = <<>> /\ report.source_semantics = <<>>
          /\ report.functional = <<>>
    /\ report.source_semantics # <<>> \/ report.functional # <<>> =>
           AllTrue(report.success_log_checks)
    /\ report.functional # <<>> => AllTrue(report.source_semantics)
    /\ \A k \in DOMAIN report.functional :
           ~AllTrue(report.functional[k].map_updates) =>
               ~report.functional[k].passed /\ k = Len(report.functional)

NothingFailed(report) ==
    /\ report.load = <<TRUE>>
    /\ AllTrue(report.compile) /\ AllTrue(report.map_setup)
    /\ AllTrue(report.success_log_checks) /\ AllTrue(report.source_semantics)
    /\ FailedTests(report) = {}

IsOutcome(completed) ==
    \/ completed.returncode = 1 /\ completed.stdout = <<>>
    \/ /\ completed.stdout # <<>>
       /\ InOrder(completed.stdout[1])
       /\ completed.stdout[1].passed <=> NothingFailed(completed.stdout[1])
       /\ completed.returncode = 0 => completed.stdout[1].passed
       /\ completed.returncode \in {0, 1}

-----------------------------------------------------------------------------
UpTo(S, n) == UNION {[1..k -> S] : k \in 0..n}

Reports ==
    [compile: UpTo(BOOLEAN, 1), map_setup: UpTo(BOOLEAN, MaxSteps),
     load: UpTo(BOOLEAN, 1), success_log_checks: UpTo(BOOLEAN, MaxSteps),
     source_semantics: UpTo(BOOLEAN, MaxSteps),
     functional: UpTo([map_updates: UpTo(BOOLEAN, MaxSteps), passed: BOOLEAN], MaxSteps),
     passed: BOOLEAN]

(* All the runner keeps of an outcome.                                      *)
Verdict(completed) ==
    [returncode |-> completed.returncode,
     failure_stage |-> oracle_failure_stage(completed),
     evidence |-> retry_evidence(completed)]

Outcomes ==
    {c \in {Completed(rc, out) : rc \in {0, 1}, out \in UpTo(Reports, 1)} : IsOutcome(c)}

Verdicts == {Verdict(c) : c \in Outcomes}

=============================================================================
