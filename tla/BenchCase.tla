----------------------------- MODULE BenchCase ------------------------------
(***************************************************************************)
(* One run of a benchmark case's oracle: run_case of bpf_case.py.  It      *)
(* compiles a candidate, pins a directory for maps when the case needs     *)
(* one, loads and pins the program, prepares maps, checks the verifier log *)
(* and the source, runs the functional tests, prints a report and, in a    *)
(* finally clause, removes its pins.                                       *)
(*                                                                         *)
(* Every step is a command that can succeed, fail with a return code, or   *)
(* raise (subprocess.TimeoutExpired, a missing tool), which leaves         *)
(* run_case through the finally clause without a report.  A timeout kills  *)
(* sudo, not the command below it, which may still take effect later.      *)
(***************************************************************************)
EXTENDS OracleReport

CONSTANTS
    CaseShapes  \* how many updates, checks and tests a case has

ASSUME ShapesAssumption ==
    CaseShapes \subseteq
        [expect_reject: BOOLEAN, map_updates: Nat, log_checks: Nat, source_checks: Nat,
         tests: Seq([updates: Nat, post: BOOLEAN])]

VARIABLES
    shape,      \* the case and its arguments
    pc,         \* next statement
    report,     \* the report so far
    functional, \* functional_results
    stdout,     \* <<report>> once printed
    returncode,
    pins,       \* what is left under /sys/fs/bpf
    stopped,    \* first failure, in the runner's vocabulary
    unremoved,  \* pins whose removal failed, was never reached, or came too early
    orphans     \* pins that commands cut off by a timeout may still make

vars == <<shape, pc, report, functional, stdout, returncode, pins, stopped,
          unremoved, orphans>>

CommandResults == {"ok", "bad", "raises"}

(* needs_pinned_maps                                                        *)
NeedsMaps ==
    \/ shape.map_updates > 0
    \/ \E k \in DOMAIN shape.tests : shape.tests[k].updates > 0 \/ shape.tests[k].post

Init ==
    /\ shape \in CaseShapes
    /\ pc = "compile"
    /\ report = EmptyReport
    /\ functional = <<>>
    /\ stdout = <<>>
    /\ returncode = 0
    /\ pins = {}
    /\ stopped = "none"
    /\ unremoved = {}
    /\ orphans = {}

Goto(label) == pc' = label /\ UNCHANGED <<stdout, returncode, stopped>>

(* print the report and leave with a return code, through finally.          *)
PrintAndReturn(final, rc, why) ==
    /\ report' = final
    /\ stdout' = <<final>>
    /\ returncode' = rc
    /\ stopped' = IF stopped = "none" THEN why ELSE stopped
    /\ pc' = "cleanup_pin"

(* An exception leaves through finally as well; skipping it is the error a  *)
(* missing finally would make.                                              *)
Raise_Straight ==
    /\ returncode' = 1
    /\ stopped' = "raised"
    /\ pc' = "done"
    /\ UNCHANGED <<report, stdout>>

Raise ==
    /\ returncode' = 1
    /\ stopped' = "raised"
    /\ pc' = "cleanup_pin"
    /\ UNCHANGED <<report, stdout>>

-----------------------------------------------------------------------------
compile_bpf ==
    /\ pc = "compile"
    /\ \E result \in CommandResults :
           \/ result = "raises" /\ Raise
           \/ LET with == [report EXCEPT !.compile = <<result = "ok">>] IN
              \/ result = "bad" /\ PrintAndReturn(with, 1, "compile")
              \/ /\ result = "ok"
                 /\ report' = with
                 /\ Goto(IF NeedsMaps THEN "mkdir" ELSE "load")
    /\ UNCHANGED <<shape, functional, pins, unremoved, orphans>>

(* A command that makes a pin is cut off.                                   *)
CutOff(pin) ==
    /\ Raise
    /\ orphans' = orphans \union {pin}
    /\ unremoved' = unremoved \union {pin}
    /\ UNCHANGED pins

(* It runs to its end all the same, at any time from now on.                *)
orphan_finishes ==
    \E pin \in orphans :
        /\ pins' = pins \union {pin}
        /\ orphans' = orphans \ {pin}
        /\ UNCHANGED <<shape, pc, report, functional, stdout, returncode, stopped, unremoved>>

ensure_pin_tree ==
    /\ pc = "mkdir"
    /\ \E result \in CommandResults :
           LET with == [report EXCEPT !.map_setup = <<result = "ok">>] IN
           \/ result = "raises" /\ CutOff("maps")
           \/ /\ result = "bad"
              /\ PrintAndReturn(with, 1, "map_setup")
              /\ UNCHANGED <<pins, unremoved, orphans>>
           \/ /\ result = "ok"
              /\ report' = with
              /\ pins' = pins \union {"maps"}
              /\ Goto("load")
              /\ UNCHANGED <<unremoved, orphans>>
    /\ UNCHANGED <<shape, functional>>

(* With --expect-reject the run ends here: it passes if the load failed for *)
(* the expected reason.                                                     *)
load_bpf ==
    /\ pc = "load"
    /\ \E result \in CommandResults, expected \in BOOLEAN :
           LET with == [report EXCEPT !.load = <<result = "ok">>]
               rejected == result = "bad" /\ expected
           IN
           \/ result = "raises" /\ CutOff("prog")
           \/ /\ result # "raises"
              /\ pins' = IF result = "ok" THEN pins \union {"prog"} ELSE pins
              /\ \/ /\ shape.expect_reject
                    /\ PrintAndReturn([with EXCEPT !.passed = rejected],
                                      IF rejected THEN 0 ELSE 1, "none")
                 \/ /\ ~shape.expect_reject /\ result = "bad"
                    /\ PrintAndReturn(with, 1, "verifier_load")
                 \/ /\ ~shape.expect_reject /\ result = "ok"
                    /\ report' = with
                    /\ Goto("setup")
              /\ UNCHANGED <<unremoved, orphans>>
    /\ UNCHANGED <<shape, functional>>

(* One update_pinned_map of the case's own map_updates; the first entry of  *)
(* map_setup is the mkdir.                                                  *)
update_pinned_map ==
    /\ pc = "setup"
    /\ NeedsMaps /\ Len(report.map_setup) <= shape.map_updates
    /\ \E result \in CommandResults :
           LET with == [report EXCEPT !.map_setup = Append(@, result = "ok")] IN
           \/ result = "raises" /\ Raise
           \/ result = "bad" /\ PrintAndReturn(with, 1, "map_setup")
           \/ result = "ok" /\ report' = with /\ Goto("setup")
    /\ UNCHANGED <<shape, functional, pins, unremoved, orphans>>

(* Checks are all evaluated; an exception in one is caught and fails it.    *)
Checks(n) == [1..n -> BOOLEAN]

evaluate_success_log_checks ==
    /\ pc = "setup"
    /\ ~(NeedsMaps /\ Len(report.map_setup) <= shape.map_updates)
    /\ \E checks \in Checks(shape.log_checks) :
           LET with == [report EXCEPT !.success_log_checks = checks] IN
           IF AllTrue(checks)
           THEN report' = with /\ Goto("source")
           ELSE PrintAndReturn(with, 1, "auxiliary_proof_predicate")
    /\ UNCHANGED <<shape, functional, pins, unremoved, orphans>>

evaluate_source_checks ==
    /\ pc = "source"
    /\ \E checks \in Checks(shape.source_checks) :
           LET with == [report EXCEPT !.source_semantics = checks] IN
           IF AllTrue(checks)
           THEN report' = with /\ Goto("test")
           ELSE PrintAndReturn(with, 1, "auxiliary_proof_predicate")
    /\ UNCHANGED <<shape, functional, pins, unremoved, orphans>>

-----------------------------------------------------------------------------
AllPassed == \A k \in DOMAIN functional : functional[k].passed

(* A test that ran or whose maps could not be prepared goes on record; the  *)
(* first failure is what the case stopped for.                              *)
Record(result, next) ==
    /\ functional' = Append(functional, result)
    /\ stopped' = IF result.passed \/ stopped # "none" THEN stopped
                  ELSE IF AllTrue(result.map_updates) THEN "functional_oracle"
                  ELSE "map_setup"
    /\ pc' = next
    /\ UNCHANGED <<report, stdout, returncode>>

(* The updates of a test up to the k-th, which failed.                      *)
FailedAt(k) == [j \in 1..k |-> j < k]

(* The error of leaving the loop without a record of the failed update.     *)
MapUpdateFails_Unrecorded(test) ==
    /\ \E k \in 1..test.updates : k > 0
    /\ Goto("print")
    /\ UNCHANGED <<report, functional>>

MapUpdateFails(test) ==
    \E k \in 1..test.updates : Record(TestResult(FailedAt(k), FALSE), "print")

(* Once a test failed, one that prepares maps ends the loop, its updates    *)
(* made and the test neither run nor recorded (`if not ok: break`).         *)
StopsAfterUpdates(test) ==
    /\ test.updates > 0 /\ ~AllPassed
    /\ Goto("print")
    /\ UNCHANGED <<report, functional>>

(* run_pinned and the post-run checks.                                      *)
RunPinned(test) ==
    /\ test.updates = 0 \/ AllPassed
    /\ \E passed \in BOOLEAN :
           Record(TestResult([k \in 1..test.updates |-> TRUE], passed), "test")

run_functional_test ==
    /\ pc = "test" /\ Len(functional) < Len(shape.tests)
    /\ LET test == shape.tests[Len(functional) + 1] IN
           \/ MapUpdateFails(test)
           \/ StopsAfterUpdates(test)
           \/ RunPinned(test)
           \/ Raise /\ UNCHANGED functional
    /\ UNCHANGED <<shape, pins, unremoved, orphans>>

print_report ==
    /\ \/ pc = "print"
       \/ pc = "test" /\ Len(functional) = Len(shape.tests)
    /\ PrintAndReturn([report EXCEPT !.functional = functional, !.passed = AllPassed],
                      IF AllPassed THEN 0 ELSE 1, "none")
    /\ UNCHANGED <<shape, functional, pins, unremoved, orphans>>

-----------------------------------------------------------------------------
(* The error of starting the clean-up over until both pins are gone.        *)
Remove_StartsOver(pin, next) ==
    \E gone \in BOOLEAN :
        /\ pins' = IF gone THEN pins \ {pin} ELSE pins
        /\ pc' = IF gone THEN next ELSE "cleanup_pin"
        /\ UNCHANGED <<returncode, unremoved>>

(* A clean-up command whose return code is ignored, and which leaves        *)
(* run_case with an exception when it times out.                            *)
Remove(pin, next) ==
    \E result \in CommandResults :
        \/ /\ result = "ok"
           /\ pins' = pins \ {pin}
           /\ pc' = next
           /\ UNCHANGED <<returncode, unremoved>>
        \/ /\ result = "bad"
           /\ unremoved' = unremoved \union {pin}
           /\ pc' = next
           /\ UNCHANGED <<returncode, pins>>
        \/ /\ result = "raises"
           /\ pins' \in {pins, pins \ {pin}}
           /\ unremoved' = unremoved \union (IF pin = "prog" THEN {"prog", "maps"} ELSE {"maps"})
           /\ returncode' = 1
           /\ pc' = "done"

cleanup_pin ==
    /\ pc = "cleanup_pin"
    /\ Remove("prog", IF NeedsMaps THEN "cleanup_pin_tree" ELSE "done")
    /\ UNCHANGED <<shape, report, functional, stdout, stopped, orphans>>

cleanup_pin_tree ==
    /\ pc = "cleanup_pin_tree"
    /\ Remove("maps", "done")
    /\ UNCHANGED <<shape, report, functional, stdout, stopped, orphans>>

Exited == pc = "done" /\ UNCHANGED vars

Step ==
    \/ compile_bpf \/ ensure_pin_tree \/ load_bpf \/ update_pinned_map
    \/ evaluate_success_log_checks \/ evaluate_source_checks
    \/ run_functional_test \/ print_report
    \/ cleanup_pin \/ cleanup_pin_tree
    \/ Exited

Next == Step \/ orphan_finishes

(* Every command has a timeout, so a statement that is reached is left.     *)
Spec == Init /\ [][Next]_vars /\ WF_vars(Step)

-----------------------------------------------------------------------------
(* The values run_case's variables take.                                    *)
TypeOK ==
    /\ shape \in CaseShapes
    /\ pc \in {"compile", "mkdir", "load", "setup", "source", "test", "print",
               "cleanup_pin", "cleanup_pin_tree", "done"}
    /\ DOMAIN report = DOMAIN EmptyReport
    /\ stdout \in {<<>>, <<report>>}
    /\ returncode \in {0, 1}
    /\ \A p \in {pins, unremoved, orphans} : p \subseteq {"prog", "maps"}
    /\ stopped \in {"none", "raised", "compile", "map_setup", "verifier_load",
                    "auxiliary_proof_predicate", "functional_oracle"}

Result == Completed(returncode, stdout)

(* Whatever happens to a candidate, the outcome is one the runner is built  *)
(* for: steps in order, passed only if nothing failed, return code 0 only   *)
(* with passed.  And return code 0 vouches for the whole case: every map    *)
(* prepared, every check made, every test of the case run, none skipped.    *)
KeepsContract ==
    pc = "done" /\ ~shape.expect_reject =>
        /\ IsOutcome(Result)
        /\ returncode = 0 =>
               /\ NothingFailed(report)
               /\ NeedsMaps => Len(report.map_setup) = shape.map_updates + 1
               /\ Len(report.success_log_checks) = shape.log_checks
               /\ Len(report.source_semantics) = shape.source_checks
               /\ Len(report.functional) = Len(shape.tests)

(* The stage the runner derives from return code and report names the step  *)
(* at which the case really stopped, whatever the clean-up did afterwards.  *)
(* "oracle" is left for a good report whose clean-up raised.                *)
StageNamesTheStop ==
    pc = "done" /\ ~shape.expect_reject =>
        oracle_failure_stage(Result) =
            CASE stopped = "raised" -> "oracle_parse"
              [] stopped = "none" -> IF returncode = 0 THEN "pass" ELSE "oracle"
              [] OTHER -> stopped

(* A pin outlives the run only if its own removal failed, the removal       *)
(* before it raised, or the command that made it was cut off and went on:   *)
(* early returns and exceptions all pass the clean-up.                      *)
PinsRemoved == pc = "done" => pins \subseteq unremoved

(* Judging ends when the finally clause is entered; from there on the       *)
(* return code and the report are settled, but for a clean-up that raises.  *)
Judged == INSTANCE OracleVerdict WITH
    Stages <- {"oracle_parse", "oracle", "compile", "map_setup", "verifier_load",
               "auxiliary_proof_predicate", "functional_oracle"},
    phase <- CASE pc \in {"cleanup_pin", "cleanup_pin_tree"} -> "releasing"
               [] pc = "done" -> "done"
               [] OTHER -> "judging",
    verdict <- IF pc \in {"cleanup_pin", "cleanup_pin_tree", "done"}
               THEN oracle_failure_stage(Result) ELSE "none"

(* run_case implements the oracle the runner relies on: one verdict, never  *)
(* revised by what the clean-up or a command cut off by a timeout does      *)
(* later, except that a clean-up that raises spoils a pass; and it ends.    *)
ImplementsVerdict == Judged!Spec

=============================================================================
