---------------------------- MODULE ReplayProofs ----------------------------
(***************************************************************************)
(* Proofs about Replay, for any number of edits and of replays: what a     *)
(* replay reports is about the source as it is now.                        *)
(*                                                                         *)
(* The report is right because of four facts that hold at every step:      *)
(* files are what their writers made them (Files); an object newer than    *)
(* the source is of the source (ObjectCurrent); the log does not change    *)
(* between the look at its mtime and the load, and after the load it is    *)
(* either untouched or of the source (LogCurrent); and the report is the   *)
(* judgement of the files as they are (ReportCurrent).  The last three     *)
(* fail once a command that was cut off finishes, hence ~late.             *)
(***************************************************************************)
EXTENDS Replay, TLAPS

Texts == {"recorded", "other", "bare", "accepted"}

StoredFaults == {"missing verifier log", "stored log does not match"}

(* Files and their mtimes: an object or a log on disk has the version of a  *)
(* source that existed and the mtime of a write that happened.              *)
Files ==
    /\ behaviour \in [Versions -> Texts]
    /\ echo \in BOOLEAN /\ pinned \in BOOLEAN /\ late \in BOOLEAN
    /\ clock \in Nat
    /\ source \in [v : Versions, t : 1..clock]
    /\ object = NoFile \/ object \in [v : 1..source.v, t : 1..clock]
    /\ \/ log = NoFile
       \/ /\ log \in [text : Texts, v : 1..source.v, t : 1..clock]
          /\ log.text = behaviour[log.v]
    /\ cut \subseteq [command : {"build", "load"}, v : 1..source.v]

(* Where the replay is, and the mtime it compares with.                     *)
Progress ==
    /\ pc \in {"idle", "build", "load", "compare", "reported"}
    /\ before \in 0..clock
    /\ build \in {"none", "ok", "fail", "timeout"}
    /\ load \in {"none", "ok", "fail", "timeout"}
    /\ replays \in 0..MaxReplays
    /\ log # NoFile => log.t >= before

ObjectCurrent == ~late /\ object.t > source.t => object.v = source.v

ObjectThere ==
    pc \in {"load", "compare", "reported"} /\ build = "ok" => object # NoFile

LogCurrent ==
    ~late =>
        /\ pc \in {"build", "load"} => log.t = before
        /\ pc \in {"compare", "reported"} /\ log # NoFile /\ log.t # before =>
               log.v = source.v

ReportCurrent ==
    /\ pc \in {"build", "load", "compare"} => case_report.errors \subseteq StoredFaults
    /\ pc = "reported" /\ ~late =>
           /\ case_report.terminal_error = ParsedError
           /\ CommandErrors \union ReportErrors \subseteq case_report.errors
           /\ case_report.errors \subseteq StoredFaults \union CommandErrors \union ReportErrors

Inv == Files /\ Progress /\ ObjectCurrent /\ ObjectThere /\ LogCurrent /\ ReportCurrent

-----------------------------------------------------------------------------
(* NoFile is the only file dated 0.                                         *)
LEMMA FileDates ==
    ASSUME Files
    PROVE  /\ object.t \in 0..clock /\ (object = NoFile <=> object.t = 0)
           /\ log.t \in 0..clock /\ (log = NoFile <=> log.t = 0)
           /\ source.v \in Nat /\ source.t \in Nat
           /\ object # NoFile => object.v \in 1..source.v
           /\ log # NoFile => log.v \in 1..source.v
<1> USE BoundsAssumption
<1>1. NoFile.t = 0
  BY DEF NoFile
<1>2. source.v \in Nat /\ source.t \in Nat
  BY DEF Files, Versions
<1>3. object.t \in 0..clock /\ (object = NoFile <=> object.t = 0)
      /\ (object # NoFile => object.v \in 1..source.v)
  BY <1>1 DEF Files
<1>4. log.t \in 0..clock /\ (log = NoFile <=> log.t = 0)
      /\ (log # NoFile => log.v \in 1..source.v)
  BY <1>1 DEF Files
<1> QED
  BY <1>2, <1>3, <1>4

(* What LoadCommand and CutOffFinishes leave in the log.                    *)
LEMMA LogOfType ==
    ASSUME Files, NEW obj, NEW t \in Nat \ {0}, obj.v \in 1..source.v
    PROVE  /\ LogOf(obj, t) \in [text : Texts, v : 1..source.v, t : {t}]
           /\ LogOf(obj, t).text = behaviour[obj.v]
           /\ LogOf(obj, t).v = obj.v
           /\ LogOf(obj, t).t = t
<1>1. obj.v \in Versions
  BY BoundsAssumption DEF Files, Versions
<1> QED
  BY <1>1 DEF Files, LogOf

LEMMA InitInv == Init => Inv
<1> SUFFICES ASSUME Init PROVE Inv
  OBVIOUS
<1> USE BoundsAssumption
<1>1. /\ echo \in BOOLEAN /\ pinned \in BOOLEAN /\ late \in BOOLEAN
  BY DEF Init
<1>2. /\ behaviour \in [Versions -> Texts]
      /\ clock = 1 /\ source = [v |-> 1, t |-> 1]
      /\ object = NoFile /\ log = NoFile /\ cut = {}
      /\ pc = "idle" /\ before = 0 /\ build = "none" /\ load = "none" /\ replays = 0
  BY DEF Init, Texts, NoFile
<1>3. 1 \in Versions /\ NoFile.t = 0
  BY DEF Versions, NoFile
<1>4. Files
  BY <1>1, <1>2, <1>3 DEF Files
<1>5. Progress
  BY <1>2, <1>3 DEF Progress
<1>6. ObjectCurrent
  BY <1>2, <1>3 DEF ObjectCurrent
<1>7. ObjectThere /\ LogCurrent /\ ReportCurrent
  BY <1>2 DEF ObjectThere, LogCurrent, ReportCurrent
<1> QED
  BY <1>4, <1>5, <1>6, <1>7 DEF Inv

-----------------------------------------------------------------------------
(* The source gets newer than every file, and no replay is under way.       *)
LEMMA EditSourceKeeps == Inv /\ EditSource => Inv'
<1> SUFFICES ASSUME Inv, EditSource PROVE Inv'
  OBVIOUS
<1> USE BoundsAssumption
<1>1. Files /\ Progress
  BY DEF Inv
<1>2. /\ source' = [v |-> source.v + 1, t |-> clock + 1]
      /\ clock' = clock + 1 /\ pc' = "idle"
      /\ source.v <= MaxEdits
      /\ object' = object /\ log' = log /\ cut' = cut /\ behaviour' = behaviour
      /\ before' = before /\ build' = build /\ load' = load /\ replays' = replays
  BY DEF EditSource
<1>3. echo' = echo /\ pinned' = pinned /\ late' \in BOOLEAN
  BY DEF EditSource
<1>4. clock \in Nat /\ source.v \in Nat /\ source.v + 1 \in Versions
  BY <1>1, <1>2, FileDates DEF Files, Versions
<1>5. Files'
  <2>1. source' \in [v : Versions, t : 1..clock']
    BY <1>2, <1>4
  <2>2. object' = NoFile \/ object' \in [v : 1..source'.v, t : 1..clock']
    BY <1>1, <1>2, <1>4 DEF Files
  <2>3. \/ log' = NoFile
        \/ /\ log' \in [text : Texts, v : 1..source'.v, t : 1..clock']
           /\ log'.text = behaviour'[log'.v]
    BY <1>1, <1>2, <1>4 DEF Files
  <2>4. cut' \subseteq [command : {"build", "load"}, v : 1..source'.v]
    BY <1>1, <1>2, <1>4 DEF Files
  <2>5. echo' \in BOOLEAN /\ pinned' \in BOOLEAN /\ late' \in BOOLEAN
    BY <1>1, <1>3 DEF Files
  <2>6. behaviour' \in [Versions -> Texts] /\ clock' \in Nat
    BY <1>1, <1>2, <1>4 DEF Files
  <2> QED
    BY <2>1, <2>2, <2>3, <2>4, <2>5, <2>6 DEF Files, Versions
<1>6. Progress'
  BY <1>1, <1>2, <1>4 DEF Progress
<1>7. ObjectCurrent'
  BY <1>1, <1>2, <1>4, FileDates DEF ObjectCurrent
<1>8. ObjectThere' /\ LogCurrent' /\ ReportCurrent'
  BY <1>2 DEF ObjectThere, LogCurrent, ReportCurrent
<1> QED
  BY <1>5, <1>6, <1>7, <1>8 DEF Inv

(* The mtime noted is that of the log as it is.                             *)
LEMMA ValidateCaseKeeps == Inv /\ validate_case => Inv'
<1> SUFFICES ASSUME Inv, validate_case PROVE Inv'
  OBVIOUS
<1> USE BoundsAssumption
<1>1. /\ Files /\ Progress /\ ObjectCurrent
      /\ log.t \in 0..clock
  BY FileDates DEF Inv
<1>2. /\ UNCHANGED <<behaviour, source, object, log, clock, cut>>
      /\ before' = log.t /\ pc' = "build" /\ build' = "none" /\ load' = "none"
      /\ replays' = replays + 1 /\ replays < MaxReplays
      /\ case_report'.errors = StoredErrors
  BY DEF validate_case
<1>3. UNCHANGED <<echo, pinned, late>>
  BY DEF validate_case
<1>4. Files'
  BY <1>1, <1>2, <1>3 DEF Files, Versions
<1>5. Progress'
  BY <1>1, <1>2 DEF Progress, Files
<1>6. ObjectCurrent'
  BY <1>1, <1>2, <1>3 DEF Inv, ObjectCurrent
<1>7. ObjectThere' /\ LogCurrent'
  BY <1>2 DEF ObjectThere, LogCurrent
<1>8. StoredErrors \subseteq StoredFaults
  BY DEF StoredErrors, StoredFaults
<1>9. ReportCurrent'
  BY <1>2, <1>8 DEF ReportCurrent, StoredFaults
<1> QED
  BY <1>4, <1>5, <1>6, <1>7, <1>9 DEF Inv

(* The object is rebuilt, or was up to date; or the build did not succeed.  *)
LEMMA BuildCommandKeeps == Inv /\ BuildCommand => Inv'
<1> SUFFICES ASSUME Inv, BuildCommand PROVE Inv'
  OBVIOUS
<1> USE BoundsAssumption
<1>1. /\ Files /\ Progress /\ ObjectCurrent /\ LogCurrent /\ ReportCurrent
      /\ object.t \in 0..clock /\ (object = NoFile <=> object.t = 0)
      /\ source.v \in Nat \ {0} /\ source.t \in 1..clock /\ clock \in Nat
  BY FileDates DEF Inv, Files, Versions
<1>2. /\ UNCHANGED <<behaviour, source, log, before, load, case_report, replays>>
      /\ pc = "build" /\ pc' = "load"
  BY DEF BuildCommand
<1>3. UNCHANGED <<echo, pinned, late>>
  BY DEF BuildCommand
<1>4. \/ /\ object' = Compiled /\ clock' = clock + 1 /\ cut' = cut /\ build' = "ok"
      \/ /\ object' = object /\ clock' = clock /\ cut' = cut /\ build' = "ok"
         /\ object.t > source.t
      \/ /\ object' \in {object, NoFile} /\ clock' = clock /\ cut' = cut
         /\ build' = "fail"
      \/ /\ object' = object /\ clock' = clock /\ build' = "timeout"
         /\ cut' = cut \union {[command |-> "build", v |-> source.v]}
  BY <1>1 DEF BuildCommand, OutOfDate
<1>5. /\ Compiled \in [v : 1..source.v, t : 1..(clock + 1)]
      /\ Compiled.v = source.v /\ Compiled.t = clock + 1
      /\ NoFile.t = 0
  BY <1>1 DEF Compiled, NoFile
<1>6. clock' \in Nat /\ clock' >= clock
  BY <1>1, <1>4
<1>7. Files'
  <2>1. object' = NoFile \/ object' \in [v : 1..source'.v, t : 1..clock']
    BY <1>1, <1>2, <1>4, <1>5 DEF Files
  <2>2. cut' \subseteq [command : {"build", "load"}, v : 1..source'.v]
    BY <1>1, <1>2, <1>4 DEF Files
  <2>3. \/ log' = NoFile
        \/ /\ log' \in [text : Texts, v : 1..source'.v, t : 1..clock']
           /\ log'.text = behaviour'[log'.v]
    BY <1>1, <1>2, <1>6 DEF Files
  <2>4. source' \in [v : Versions, t : 1..clock']
    BY <1>1, <1>2, <1>6 DEF Files
  <2>5. echo' \in BOOLEAN /\ pinned' \in BOOLEAN /\ late' \in BOOLEAN
    BY <1>1, <1>3 DEF Files
  <2>6. behaviour' \in [Versions -> Texts]
    BY <1>1, <1>2 DEF Files
  <2> QED
    BY <1>6, <2>1, <2>2, <2>3, <2>4, <2>5, <2>6 DEF Files, Versions
<1>8. Progress'
  BY <1>1, <1>2, <1>4, <1>6 DEF Progress
<1>9. ObjectCurrent'
  BY <1>1, <1>2, <1>3, <1>4, <1>5 DEF ObjectCurrent
<1>10. ObjectThere'
  BY <1>1, <1>2, <1>4, <1>5 DEF ObjectThere
<1>11. LogCurrent'
  BY <1>1, <1>2, <1>3 DEF LogCurrent
<1>12. ReportCurrent'
  BY <1>1, <1>2 DEF ReportCurrent, StoredFaults
<1> QED
  BY <1>7, <1>8, <1>9, <1>10, <1>11, <1>12 DEF Inv

(* The load is of an up-to-date object; or no log is written.               *)
LEMMA LoadCommandKeeps == Inv /\ LoadCommand => Inv'
<1> SUFFICES ASSUME Inv, LoadCommand PROVE Inv'
  OBVIOUS
<1> USE BoundsAssumption
<1>1. /\ Files /\ Progress /\ ObjectCurrent /\ ObjectThere /\ LogCurrent /\ ReportCurrent
      /\ object.t \in 0..clock /\ (object = NoFile <=> object.t = 0)
      /\ log.t \in 0..clock /\ (log = NoFile <=> log.t = 0)
      /\ source.v \in Nat \ {0} /\ source.t \in 1..clock /\ clock \in Nat
  BY FileDates DEF Inv, Files, Versions
<1>2. /\ UNCHANGED <<behaviour, source, before, build, case_report, replays>>
      /\ pc = "load" /\ pc' = "compare"
      /\ load' \in {"ok", "fail", "timeout"}
  BY DEF LoadCommand
<1>3. UNCHANGED <<echo, late>> /\ pinned' \in BOOLEAN
  BY <1>1 DEF LoadCommand, Files
<1> DEFINE obj == IF OutOfDate THEN Compiled ELSE object
<1>4. \/ /\ object' = obj /\ log' = LogOf(obj, clock + 2) /\ clock' = clock + 2
         /\ cut' = cut
      \/ /\ object' = object /\ log' \in {log, NoFile} /\ clock' = clock
         /\ cut' \subseteq cut \union {[command |-> "load", v |-> source.v]}
  BY DEF LoadCommand
<1>5. /\ obj \in [v : 1..source.v, t : 1..(clock + 1)]
      /\ obj # NoFile
      /\ ~late => obj.v = source.v
  <2>1. /\ Compiled \in [v : 1..source.v, t : 1..(clock + 1)]
        /\ Compiled.v = source.v /\ Compiled.t = clock + 1
        /\ NoFile.t = 0
    BY <1>1 DEF Compiled, NoFile
  <2>2. CASE OutOfDate
    BY <1>1, <2>1, <2>2
  <2>3. CASE ~OutOfDate
    BY <1>1, <2>3 DEF OutOfDate, ObjectCurrent, Files
  <2> QED
    BY <2>2, <2>3
<1>6. obj.v \in 1..source.v
  BY <1>5
<1> HIDE DEF obj
<1>7. /\ LogOf(obj, clock + 2) \in [text : Texts, v : 1..source.v, t : {clock + 2}]
      /\ LogOf(obj, clock + 2).text = behaviour[LogOf(obj, clock + 2).v]
      /\ LogOf(obj, clock + 2).v = obj.v
      /\ LogOf(obj, clock + 2).t = clock + 2
  BY <1>1, <1>6, LogOfType
<1>8. NoFile.t = 0
  BY DEF NoFile
<1>9. Files'
  <2>1. object' = NoFile \/ object' \in [v : 1..source'.v, t : 1..clock']
    BY <1>1, <1>2, <1>4, <1>5 DEF Files
  <2>2. cut' \subseteq [command : {"build", "load"}, v : 1..source'.v]
    BY <1>1, <1>2, <1>4 DEF Files
  <2>3. \/ log' = NoFile
        \/ /\ log' \in [text : Texts, v : 1..source'.v, t : 1..clock']
           /\ log'.text = behaviour'[log'.v]
    BY <1>1, <1>2, <1>4, <1>7 DEF Files
  <2>4. source' \in [v : Versions, t : 1..clock'] /\ clock' \in Nat
    BY <1>1, <1>2, <1>4 DEF Files
  <2>5. echo' \in BOOLEAN /\ pinned' \in BOOLEAN /\ late' \in BOOLEAN
    BY <1>1, <1>3 DEF Files
  <2>6. behaviour' \in [Versions -> Texts]
    BY <1>1, <1>2 DEF Files
  <2> QED
    BY <2>1, <2>2, <2>3, <2>4, <2>5, <2>6 DEF Files, Versions
<1>10. Progress'
  BY <1>1, <1>2, <1>4, <1>7 DEF Progress
<1>11. ObjectCurrent'
  BY <1>1, <1>2, <1>3, <1>4, <1>5 DEF ObjectCurrent
<1>12. ObjectThere'
  BY <1>1, <1>2, <1>4, <1>5 DEF ObjectThere
<1>13. LogCurrent'
  BY <1>1, <1>2, <1>3, <1>4, <1>5, <1>7, <1>8 DEF LogCurrent
<1>14. ReportCurrent'
  BY <1>1, <1>2 DEF ReportCurrent, StoredFaults
<1> QED
  BY <1>9, <1>10, <1>11, <1>12, <1>13, <1>14 DEF Inv

(* A command cut off writes files of its own version: what is said of the   *)
(* current source no longer holds, and late says so.                        *)
LEMMA CutOffFinishesKeeps ==
    ASSUME Inv, NEW c \in cut, CutOffFinishes(c)
    PROVE  Inv'
<1> USE BoundsAssumption
<1>1. /\ Files /\ Progress /\ ObjectThere /\ ReportCurrent
      /\ log.t \in 0..clock /\ (log = NoFile <=> log.t = 0)
      /\ clock \in Nat /\ source.v \in Nat
      /\ object # NoFile => object.v \in 1..source.v
  BY FileDates DEF Inv, Files
<1>2. /\ UNCHANGED <<behaviour, source, pc, before, build, load, case_report, replays>>
      /\ clock' = clock + 1 /\ cut' \subseteq cut
  BY DEF CutOffFinishes
<1>3. late' /\ late' \in BOOLEAN /\ UNCHANGED echo /\ pinned' \in BOOLEAN
  BY <1>1 DEF CutOffFinishes, Files
<1>4. c.v \in 1..source.v
  BY <1>1 DEF Files
<1>5. /\ \/ object' = object
         \/ object' = [v |-> c.v, t |-> clock + 1]
      /\ \/ log' = log
         \/ object # NoFile /\ log' = LogOf(object, clock + 1)
  BY DEF CutOffFinishes
<1>6. object # NoFile =>
        /\ LogOf(object, clock + 1) \in [text : Texts, v : 1..source.v, t : {clock + 1}]
        /\ LogOf(object, clock + 1).text = behaviour[LogOf(object, clock + 1).v]
        /\ LogOf(object, clock + 1).t = clock + 1
  BY <1>1, LogOfType
<1>7. NoFile.t = 0
  BY DEF NoFile
<1>8. Files'
  <2>1. object' = NoFile \/ object' \in [v : 1..source'.v, t : 1..clock']
    BY <1>1, <1>2, <1>4, <1>5 DEF Files
  <2>2. cut' \subseteq [command : {"build", "load"}, v : 1..source'.v]
    BY <1>1, <1>2 DEF Files
  <2>3. \/ log' = NoFile
        \/ /\ log' \in [text : Texts, v : 1..source'.v, t : 1..clock']
           /\ log'.text = behaviour'[log'.v]
    BY <1>1, <1>2, <1>5, <1>6 DEF Files
  <2>4. source' \in [v : Versions, t : 1..clock'] /\ clock' \in Nat
    BY <1>1, <1>2 DEF Files
  <2>5. echo' \in BOOLEAN /\ pinned' \in BOOLEAN /\ late' \in BOOLEAN
    BY <1>1, <1>3 DEF Files
  <2>6. behaviour' \in [Versions -> Texts]
    BY <1>1, <1>2 DEF Files
  <2> QED
    BY <2>1, <2>2, <2>3, <2>4, <2>5, <2>6 DEF Files, Versions
<1>9. Progress'
  BY <1>1, <1>2, <1>5, <1>6 DEF Progress
<1>10. ObjectThere'
  BY <1>1, <1>2, <1>5, <1>7 DEF ObjectThere
<1>11. ObjectCurrent' /\ LogCurrent'
  BY <1>3 DEF ObjectCurrent, LogCurrent
<1>12. ReportCurrent'
  BY <1>1, <1>2, <1>3 DEF ReportCurrent, StoredFaults
<1> QED
  BY <1>8, <1>9, <1>10, <1>11, <1>12 DEF Inv

(* The report is made from the files, and changes none.                     *)
LEMMA CompareKeeps == Inv /\ Compare => Inv'
<1> SUFFICES ASSUME Inv, Compare PROVE Inv'
  OBVIOUS
<1> USE BoundsAssumption
<1>1. Files /\ Progress /\ ObjectCurrent /\ ObjectThere /\ LogCurrent /\ ReportCurrent
  BY DEF Inv
<1>2. /\ UNCHANGED <<behaviour, source, object, log, clock, before, build, load,
                     replays, cut>>
      /\ pc = "compare" /\ pc' = "reported"
  BY DEF Compare
<1>3. UNCHANGED <<echo, pinned, late>>
  BY DEF Compare
<1>4. Files'
  BY <1>1, <1>2, <1>3 DEF Files, Versions
<1>5. Progress'
  BY <1>1, <1>2 DEF Progress
<1>6. ObjectCurrent' /\ ObjectThere' /\ LogCurrent'
  BY <1>1, <1>2, <1>3 DEF ObjectCurrent, ObjectThere, LogCurrent
<1>7. /\ case_report'.terminal_error = ParsedError
      /\ case_report'.errors = case_report.errors \union CommandErrors \union ReportErrors
  BY DEF Compare
<1>8. /\ ParsedError' = ParsedError
      /\ CommandErrors' = CommandErrors
      /\ ReportErrors' = ReportErrors
  BY <1>2, <1>3 DEF ParsedError, CommandErrors, ReportErrors, read_fresh_capture,
     CapturedError, OutputError, quality_rank
<1>9. case_report.errors \subseteq StoredFaults
  BY <1>1, <1>2 DEF ReportCurrent
<1>10. StoredFaults' = StoredFaults
  BY DEF StoredFaults
<1>11. ReportCurrent'
  BY <1>2, <1>7, <1>8, <1>9, <1>10 DEF ReportCurrent
<1> QED
  BY <1>4, <1>5, <1>6, <1>11 DEF Inv

LEMMA StutterKeeps == Inv /\ UNCHANGED vars => Inv'
<1> SUFFICES ASSUME Inv, UNCHANGED vars PROVE Inv'
  OBVIOUS
<1>1. Files /\ Progress /\ ObjectCurrent /\ ObjectThere /\ LogCurrent /\ ReportCurrent
  BY DEF Inv
<1>2. UNCHANGED <<behaviour, source, object, log, clock, pc, before, build, load,
                  case_report, replays, cut>>
  BY DEF vars
<1>3. UNCHANGED <<echo, pinned, late>>
  BY DEF vars
<1>4. Files'
  BY <1>1, <1>2, <1>3 DEF Files, Versions
<1>5. Progress'
  BY <1>1, <1>2 DEF Progress
<1>6. ObjectCurrent' /\ ObjectThere' /\ LogCurrent'
  BY <1>1, <1>2, <1>3 DEF ObjectCurrent, ObjectThere, LogCurrent
<1>7. /\ ParsedError' = ParsedError
      /\ CommandErrors' = CommandErrors
      /\ ReportErrors' = ReportErrors
      /\ StoredFaults' = StoredFaults
  BY <1>2, <1>3 DEF ParsedError, CommandErrors, ReportErrors, read_fresh_capture,
     CapturedError, OutputError, quality_rank, StoredFaults
<1>8. ReportCurrent'
  BY <1>1, <1>2, <1>3, <1>7 DEF ReportCurrent
<1> QED
  BY <1>4, <1>5, <1>6, <1>8 DEF Inv

(* The facts of the header hold in every state of every replay.             *)
THEOREM InvHolds == Spec => []Inv
<1>1. Init => Inv
  BY InitInv
<1>2. Inv /\ [Next]_vars => Inv'
  BY EditSourceKeeps, ValidateCaseKeeps, BuildCommandKeeps, LoadCommandKeeps,
     CompareKeeps, CutOffFinishesKeeps, StutterKeeps DEF Next
<1> QED
  BY <1>1, <1>2, PTL DEF Spec

-----------------------------------------------------------------------------
(* Mtimes and versions are those of writes that happened, and no capture is *)
(* dated before the one the replay started from.                            *)
THEOREM TypeCorrect == Spec => []TypeOK
<1>1. Inv => TypeOK
  <2> SUFFICES ASSUME Inv PROVE TypeOK
    OBVIOUS
  <2>1. Files /\ Progress
    BY DEF Inv
  <2>2. source.v \in Versions /\ source.t \in 1..clock
    BY <2>1 DEF Files
  <2>3. object = NoFile \/ (object.v \in 1..source.v /\ object.t \in 1..clock)
    BY <2>1 DEF Files
  <2>4. log = NoFile \/ (log.v \in 1..source.v /\ log.t \in 1..clock)
    BY <2>1 DEF Files
  <2> QED
    BY <2>1, <2>2, <2>3, <2>4 DEF TypeOK, Progress
<1> QED
  BY <1>1, InvHolds, PTL

(* A rejection counts as recorded only when the log was written since the   *)
(* replay began, and is of that rejection.                                  *)
LEMMA ParsedRecorded ==
    ParsedError = "recorded" => log # NoFile /\ log.t # before /\ log.text = "recorded"
BY DEF ParsedError, CapturedError, OutputError, read_fresh_capture

(* A case reported valid is rejected as recorded, now: the errors are empty *)
(* only if the parsed error was the recorded one, so it came from a log     *)
(* written since; that log is of the current source; and its text is what   *)
(* the kernel makes of that version.  For any number of edits and replays,  *)
(* and whatever builds and loads fail or are cut off, as long as none of    *)
(* those finishes late.                                                     *)
THEOREM ValidReportsHold == Spec => []ValidMeansRejectedNow
<1>1. Inv => ValidMeansRejectedNow
  <2> SUFFICES ASSUME Inv, valid, ~late
               PROVE  /\ behaviour[source.v] = "recorded"
                      /\ log.v = source.v /\ log.t > before
    BY DEF ValidMeansRejectedNow
  <2>1. /\ Files /\ Progress /\ LogCurrent /\ ReportCurrent
        /\ log.t \in Nat /\ before \in Nat
    BY FileDates DEF Inv, Files, Progress
  <2>2. pc = "reported" /\ case_report.errors = {}
    BY DEF valid
  <2>3. ReportErrors = {}
    BY <2>1, <2>2 DEF ReportCurrent
  <2>4. ParsedError = "recorded"
    BY <2>3 DEF ReportErrors
  <2>5. log # NoFile /\ log.t # before /\ log.text = "recorded"
    BY <2>4, ParsedRecorded
  <2>6. log.v = source.v
    BY <2>1, <2>2, <2>5 DEF LogCurrent
  <2>7. log.text = behaviour[log.v]
    BY <2>1, <2>5 DEF Files
  <2>8. log.t >= before
    BY <2>1, <2>5 DEF Progress
  <2> QED
    BY <2>1, <2>5, <2>6, <2>7, <2>8
<1> QED
  BY <1>1, InvHolds, PTL

(* A replay reports what its load logged, but a bare rejection only if the  *)
(* output has no error of its own: the log wins if it ranks higher, and a   *)
(* bare rejection does not.  And it finds nothing wrong with a recorded     *)
(* rejection but what it found wrong with the stored log: a build that went *)
(* well has left an object.                                                 *)
THEOREM RejectionsAreReported == Spec => []RejectionIsReported
<1>1. Inv => RejectionIsReported
  <2> SUFFICES ASSUME Inv, pc = "reported", ~late
               PROVE  /\ log # NoFile /\ log.t # before /\ log.text # "accepted" =>
                            case_report.terminal_error =
                                IF echo /\ log.text = "bare" THEN "echo" ELSE log.text
                      /\ CommandErrors = {} /\ case_report.terminal_error = "recorded" =>
                            case_report.errors \subseteq StoredFaults
    BY DEF RejectionIsReported, StoredFaults
  <2>1. /\ Files /\ ObjectThere /\ ReportCurrent
    BY DEF Inv
  <2>2. /\ case_report.terminal_error = ParsedError
        /\ case_report.errors \subseteq StoredFaults \union CommandErrors \union ReportErrors
    BY <2>1 DEF ReportCurrent
  <2>3. ASSUME log # NoFile, log.t # before, log.text # "accepted"
        PROVE  case_report.terminal_error =
                   IF echo /\ log.text = "bare" THEN "echo" ELSE log.text
    <3>1. log.text \in {"recorded", "other", "bare"} /\ echo \in BOOLEAN
      BY <2>1, <2>3 DEF Files, Texts
    <3>2. CapturedError = log.text /\ read_fresh_capture
      BY <2>3, <3>1 DEF CapturedError, read_fresh_capture
    <3>3. CASE ~echo
      BY <2>2, <3>2, <3>3 DEF ParsedError, OutputError
    <3>4. CASE echo
      <4>1. OutputError = "echo" /\ quality_rank(OutputError) = 2
        BY <3>4 DEF OutputError, quality_rank
      <4>2. quality_rank(CapturedError) = IF log.text = "bare" THEN 2 ELSE 3
        BY <3>1, <3>2 DEF quality_rank
      <4> QED
        BY <2>2, <3>1, <3>2, <3>4, <4>1, <4>2 DEF ParsedError
    <3> QED
      BY <3>3, <3>4
  <2>4. ASSUME CommandErrors = {}, case_report.terminal_error = "recorded"
        PROVE  case_report.errors \subseteq StoredFaults
    <3>1. build = "ok"
      BY <2>4 DEF CommandErrors
    <3>2. object # NoFile
      BY <2>1, <3>1 DEF ObjectThere
    <3>3. ReportErrors = {}
      BY <2>2, <2>4, <3>2 DEF ReportErrors
    <3> QED
      BY <2>2, <2>4, <3>3
  <2> QED
    BY <2>3, <2>4
<1> QED
  BY <1>1, InvHolds, PTL

=============================================================================
