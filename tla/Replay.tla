------------------------------- MODULE Replay -------------------------------
(***************************************************************************)
(* One case of the empirical corpus, replayed again and again while its    *)
(* source is edited: validate_case of validate_empirical.py, which checks  *)
(* the log left by the replay before, and replay_case of replay_case.py,   *)
(* which runs `make` and `make replay-verify` in the case's directory.     *)
(*                                                                         *)
(* The directory outlives a replay: prog.o, replay-verifier.log and the    *)
(* pin of a program that loaded are found by the next one.  A command that *)
(* times out is reported, but only its shell is killed: what it started    *)
(* may still finish, during this replay or a later one.                    *)
(***************************************************************************)
EXTENDS Naturals, FiniteSets

CONSTANTS
    MaxEdits,   \* bound: edits of the source
    MaxReplays  \* bound: replays of the case

ASSUME BoundsAssumption == MaxEdits \in Nat /\ MaxReplays \in Nat

VARIABLES
    behaviour,   \* what the kernel makes of each version of the source
    echo,        \* the recipe's echo in load's output looks like an error
    source,      \* prog.c: version v, mtime t
    object,      \* prog.o: of source version v, mtime t; or NoFile
    log,         \* replay-verifier.log: text of a load of version v, mtime t; or NoFile
    pinned,      \* a load of this program succeeded and left its pin
    clock,       \* mtime of the latest write
    pc,          \* "idle", "build", "load", "compare" or "reported"
    before,      \* before_mtimes of the log; NoFile if it was not there
    build, load, \* command results: "ok", "fail", "timeout"; "none" if not run
    case_report, \* the errors found so far, and the terminal error parsed
    replays,
    cut,         \* commands cut off and still running
    late         \* one of them has finished since the last edit

vars == <<behaviour, echo, source, object, log, pinned, clock, pc, before, build, load,
          case_report, replays, cut, late>>

Versions == 1..(MaxEdits + 1)

NoFile == [t |-> 0]

(* "recorded" is the rejection the case records and "other" another one,    *)
(* both with the instruction they are about.  "bare" is a rejection whose   *)
(* log shows no instruction; no case records one.                           *)
Init ==
    /\ behaviour \in [Versions -> {"recorded", "other", "bare", "accepted"}]
    /\ echo \in BOOLEAN
    /\ source = [v |-> 1, t |-> 1]
    /\ object = NoFile
    /\ log = NoFile
    /\ pinned = FALSE
    /\ clock = 1
    /\ pc = "idle"
    /\ before = NoFile.t
    /\ build = "none" /\ load = "none"
    /\ case_report = [errors |-> {}, terminal_error |-> "none"]
    /\ replays = 0
    /\ cut = {}
    /\ late = FALSE

EditSource ==
    /\ pc \in {"idle", "reported"}
    /\ source.v <= MaxEdits
    /\ source' = [v |-> source.v + 1, t |-> clock + 1]
    /\ clock' = clock + 1
    /\ pc' = "idle"
    /\ late' = FALSE
    /\ UNCHANGED <<behaviour, echo, object, log, pinned, before, build, load, case_report,
                   replays, cut>>

-----------------------------------------------------------------------------
(* validate_stored_artifacts: the log on disk before anything is run.       *)
StoredErrors ==
    IF log = NoFile THEN {"missing verifier log"}
    ELSE IF log.text # "recorded" THEN {"stored log does not match"} ELSE {}

validate_case ==
    /\ pc \in {"idle", "reported"}
    /\ replays < MaxReplays
    /\ replays' = replays + 1
    /\ case_report' = [errors |-> StoredErrors, terminal_error |-> "none"]
    /\ before' = log.t
    /\ build' = "none" /\ load' = "none"
    /\ pc' = "build"
    /\ UNCHANGED <<behaviour, echo, source, object, log, pinned, clock, cut, late>>

(* make rebuilds prog.o when it is not newer than prog.c.                   *)
OutOfDate == object.t <= source.t

Compiled == [v |-> source.v, t |-> clock + 1]

(* A failing compiler removes its output or leaves the old one.             *)
BuildCommand ==
    /\ pc = "build"
    /\ pc' = "load"
    /\ \/ /\ build' = "ok"
          /\ IF OutOfDate THEN object' = Compiled /\ clock' = clock + 1
             ELSE UNCHANGED <<object, clock>>
          /\ UNCHANGED cut
       \/ /\ OutOfDate
          /\ build' = "fail"
          /\ object' \in {object, NoFile}
          /\ UNCHANGED <<clock, cut>>
       \/ /\ OutOfDate
          /\ build' = "timeout"
          /\ cut' = cut \union {[command |-> "build", v |-> source.v]}
          /\ UNCHANGED <<object, clock>>
    /\ UNCHANGED <<behaviour, echo, source, log, pinned, before, load, case_report, replays, late>>

(* What a load of obj writes to the log: a rejection, or a clean log.  The  *)
(* second load of an accepted program fails on the pin of the first.        *)
LogOf(obj, t) == [text |-> behaviour[obj.v], v |-> obj.v, t |-> t]

LoadFails(obj) == behaviour[obj.v] # "accepted" \/ pinned

(* make replay-verify, which brings prog.o up to date first.  It may fail   *)
(* without writing a log: the build in it, or the loader.                   *)
LoadCommand ==
    /\ pc = "load"
    /\ pc' = "compare"
    /\ \/ LET obj == IF OutOfDate THEN Compiled ELSE object IN
          /\ object' = obj
          /\ log' = LogOf(obj, clock + 2)
          /\ clock' = clock + 2
          /\ load' = IF LoadFails(obj) THEN "fail" ELSE "ok"
          /\ pinned' = (pinned \/ ~LoadFails(obj))
          /\ UNCHANGED cut
       \/ /\ load' = "fail"
          /\ UNCHANGED <<object, log, clock, pinned, cut>>
       \/ /\ load' = "timeout"
          /\ cut' = cut \union {[command |-> "load", v |-> source.v]}
          /\ log' \in {log, NoFile}
          /\ UNCHANGED <<object, clock, pinned>>
    /\ UNCHANGED <<behaviour, echo, source, before, build, case_report, replays, late>>

(* A command that was cut off finishes after all.                           *)
CutOffFinishes(c) ==
    /\ c \in cut
    /\ cut' = cut \ {c}
    /\ late' = TRUE
    /\ clock' = clock + 1
    /\ \/ /\ c.command = "build"
          /\ object' = [v |-> c.v, t |-> clock + 1]
          /\ UNCHANGED <<log, pinned>>
       \/ /\ c.command = "load"
          /\ IF object = NoFile THEN UNCHANGED <<log, pinned>>
             ELSE /\ log' = LogOf(object, clock + 1)
                  /\ pinned' = (pinned \/ ~LoadFails(object))
          /\ UNCHANGED object
    /\ UNCHANGED <<behaviour, echo, source, pc, before, build, load, case_report, replays>>

-----------------------------------------------------------------------------
read_fresh_capture_AnyAge == log # NoFile

(* _read_fresh_capture: the log counts if it was written since.             *)
read_fresh_capture == log # NoFile /\ log.t # before

(* What parse_verifier_log makes of load's output and of the log.  A recipe  *)
(* echoed by make is a message without an instruction.                      *)
OutputError == IF echo THEN "echo" ELSE "none"
CapturedError == IF log.text = "accepted" THEN "none" ELSE log.text

(* no_terminal_error, message_only, trace_rich.                             *)
quality_rank(error) ==
    CASE error = "none" -> 1
      [] error \in {"echo", "bare"} -> 2
      [] error \in {"recorded", "other"} -> 3

ParsedError_OutputFirst ==
    IF OutputError = "none" /\ read_fresh_capture THEN CapturedError ELSE OutputError

(* The terminal error replay_case reports: the output's, but a fresh log's  *)
(* when the output has none or the log is strictly richer.                  *)
ParsedError ==
    IF /\ read_fresh_capture
       /\ OutputError = "none" \/ quality_rank(CapturedError) > quality_rank(OutputError)
    THEN CapturedError ELSE OutputError

CommandErrors ==
    (IF build = "ok" THEN {} ELSE {"build command"}) \union
    (IF load = "fail" THEN {} ELSE {"load command"})

ReportErrors ==
    (IF ParsedError = "recorded" THEN {} ELSE {"terminal_error mismatch"}) \union
    (IF object # NoFile THEN {} ELSE {"missing reproducer.object_path"})

Compare ==
    /\ pc = "compare"
    /\ pc' = "reported"
    /\ case_report' = [errors |-> case_report.errors \union CommandErrors \union ReportErrors,
                       terminal_error |-> ParsedError]
    /\ UNCHANGED <<behaviour, echo, source, object, log, pinned, clock, before, build, load,
                   replays, cut, late>>

Next ==
    \/ EditSource
    \/ validate_case \/ BuildCommand \/ LoadCommand \/ Compare
    \/ \E c \in cut : CutOffFinishes(c)

Spec == Init /\ [][Next]_vars

-----------------------------------------------------------------------------
valid == pc = "reported" /\ case_report.errors = {}

(* Files carry the mtimes and versions of writes that happened, and no      *)
(* capture is dated before the one the replay started from.                 *)
TypeOK ==
    /\ source.v \in Versions /\ source.t \in 1..clock
    /\ object = NoFile \/ (object.v \in 1..source.v /\ object.t \in 1..clock)
    /\ log = NoFile \/ (log.v \in 1..source.v /\ log.t \in 1..clock)
    /\ pc \in {"idle", "build", "load", "compare", "reported"}
    /\ {build, load} \subseteq {"none", "ok", "fail", "timeout"}
    /\ replays \in 0..MaxReplays
    /\ log # NoFile => log.t >= before

(* A case reported valid really is rejected as recorded: the verdict is     *)
(* about a load, made in this replay, of an object of the source as it is   *)
(* now.  Objects and logs left over from earlier versions, builds and loads *)
(* that failed and pins left behind never pass for it.  Only a command that *)
(* was cut off by its timeout and finished since can (`late`).              *)
ValidMeansRejectedNow ==
    valid /\ ~late =>
        /\ behaviour[source.v] = "recorded"
        /\ log.v = source.v /\ log.t > before

(* A replay is about what its load logged, even when load's output looks    *)
(* like an error too: a logged rejection of an instruction is the one       *)
(* reported.  A bare one is only if make echoed nothing that looks like an  *)
(* error, for the two tie and the output is kept.  And when the commands    *)
(* went well and the rejection is the recorded one, the case is valid,      *)
(* unless the log of the replay before was missing or another one.  That    *)
(* exception makes the first validation of a checkout fail, whose logs are  *)
(* not under version control, against README.md line 56 of bpfix-empirical  *)
(* ("failed: 0").                                                           *)
RejectionIsReported ==
    pc = "reported" /\ ~late =>
        /\ log # NoFile /\ log.t # before /\ log.text # "accepted" =>
              case_report.terminal_error =
                  IF echo /\ log.text = "bare" THEN "echo" ELSE log.text
        /\ CommandErrors = {} /\ case_report.terminal_error = "recorded" =>
              case_report.errors \subseteq {"missing verifier log", "stored log does not match"}

=============================================================================
