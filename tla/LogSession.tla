----------------------------- MODULE LogSession -----------------------------
(***************************************************************************)
(* The logs BPFix is given, line by line: a process opens and loads        *)
(* objects, libbpf announces sections and relocations, the kernel verifies *)
(* one program after another and rejects some.  The environment is that of *)
(* the captures in src/bpfix-empirical and src/bpfix-bench: libbpf's debug *)
(* output, with each verifier log between BEGIN and END, or the verifier   *)
(* logs alone, one after the other; with or without the listing of live    *)
(* registers, which newer kernels print before the walk.  The properties   *)
(* apply the parsers of LogLines to every log the environment can have     *)
(* printed and compare what they find with what really happened.           *)
(***************************************************************************)
EXTENDS LogLines, SequencesExt

CONSTANTS
    Lines,      \* Lines[p]: the source line of each instruction of program p
    Calls,      \* Calls[p]: the pcs of p that are calls
    MaxLoads,   \* bound: loads of a session
    MaxRuns,    \* bound: verifications of a session
    MaxSteps    \* bound: instructions a verification walks

Progs == DOMAIN Lines

ASSUME LinesAssumption ==
    /\ \A p \in Progs : Lines[p] \in Seq(Nat \ {0}) /\ Lines[p] # <<>>
    /\ \A p \in Progs : Calls[p] \subseteq DOMAIN Lines[p]

VARIABLES
    format,     \* "libbpf" or "raw"
    listing,    \* the kernel lists the live registers of a program
    log,        \* the lines printed so far
    load,       \* number of loads so far; 0 before the first
    open,       \* programs of the current load still to be verified
    run,        \* the verification under way, or NoRun
    runs,       \* number of verifications so far
    rejections  \* the rejections so far

vars == <<format, listing, log, load, open, run, runs, rejections>>

NoRun == [prog |-> None]

(* Sections and structs differ from load to load; program names do not.     *)
Section(l, p) == 10 * l + p
Struct(l, p) == 100 * l + p

(* A relocation, of the last instruction; an object rebuilt between two     *)
(* loads may have lost it.                                                  *)
RelocatedPc(p) == Len(Lines[p])
Relocated(l, p) == (l + p) % 2 = 0

CallTarget(p, pc) == IF pc \in Calls[p] THEN 10 * p + pc ELSE None

Init ==
    /\ format \in {"libbpf", "raw"}
    /\ listing \in BOOLEAN
    /\ log = <<>>
    /\ load = 0 /\ runs = 0
    /\ open = {}
    /\ run = NoRun
    /\ rejections = <<>>

Marks(k, p) == IF format = "libbpf" THEN <<[Line(k) EXCEPT !.prog = p]>> ELSE <<>>

-----------------------------------------------------------------------------
(* libbpf opens an object, finds its programs and applies relocations.      *)

Announced(l, p) ==
    <<[Line("sec") EXCEPT !.prog = p, !.sec = Section(l, p)]>>
    \o IF Relocated(l, p)
       THEN <<[Line("relo") EXCEPT !.prog = p, !.relo = 1, !.struct = Struct(l, p)],
              [Line("patched") EXCEPT !.prog = p, !.relo = 1, !.pc = RelocatedPc(p)]>>
       ELSE <<>>

LoadObject ==
    /\ run = NoRun
    /\ load < MaxLoads
    /\ load' = load + 1
    /\ open' = Progs
    /\ log' = IF format = "raw" THEN log
              ELSE log \o <<Line("loading")>>
                       \o FlattenSeq([p \in Progs |-> Announced(load + 1, p)])
    /\ UNCHANGED <<format, listing, run, runs, rejections>>

(* The verifier starts on a program of the object.                          *)
StartVerify(p) ==
    /\ run = NoRun
    /\ p \in open
    /\ runs < MaxRuns
    /\ open' = open \ {p}
    /\ runs' = runs + 1
    /\ run' = [prog |-> p, begun |-> FALSE, at |-> None, next |-> 1, line |-> None,
               call |-> None, straight |-> TRUE, steps |-> 0]
    /\ log' = log \o Marks("begin", p) \o <<Line("func")>>
    /\ UNCHANGED <<format, listing, load, rejections>>

InsnRow(p, pc) == [Line("insn") EXCEPT !.pc = pc, !.call = CallTarget(p, pc)]

(* Rows for all instructions of the program, walked or not.                 *)
LiveRegs(p) ==
    IF listing THEN <<Line("live")>> \o [pc \in DOMAIN Lines[p] |-> InsnRow(p, pc)] ELSE <<>>

(* Its checks before the walk are done; it prints the first state.          *)
StartWalk ==
    /\ run # NoRun
    /\ ~run.begun
    /\ run' = [run EXCEPT !.begun = TRUE]
    /\ log' = log \o LiveRegs(run.prog) \o <<[Line("state") EXCEPT !.pc = 1]>>
    /\ UNCHANGED <<format, listing, load, open, runs, rejections>>

(* It prints an instruction, after a comment when its source line is not    *)
(* the one the last comment of this verification showed, and goes on to the *)
(* next or, after a jump, to a later one.                                   *)
VerifyInsn ==
    /\ run # NoRun
    /\ run.begun
    /\ run.next \in DOMAIN Lines[run.prog]
    /\ run.steps < MaxSteps
    /\ LET pc == run.next
           line == Lines[run.prog][pc]
           target == CallTarget(run.prog, pc)
           comment == IF line = run.line THEN <<>>
                      ELSE <<[Line("src") EXCEPT !.src = line]>>
       IN  \E next \in (pc + 1)..(Len(Lines[run.prog]) + 1) :
             /\ run' = [run EXCEPT !.at = pc, !.next = next, !.line = line,
                                   !.call = IF target = None THEN @ ELSE target,
                                   !.straight = @ /\ next = pc + 1,
                                   !.steps = @ + 1]
             /\ log' = log \o comment \o <<InsnRow(run.prog, pc)>>
    /\ UNCHANGED <<format, listing, load, open, runs, rejections>>

AtInsn == run # NoRun /\ log[Len(log)].k = "insn"

(* It goes back to a branch it has not walked yet.                          *)
PopBranch ==
    /\ AtInsn
    /\ run.steps < MaxSteps
    /\ \E pc \in DOMAIN Lines[run.prog] :
         /\ pc # run.next
         /\ run' = [run EXCEPT !.next = pc, !.straight = FALSE]
    /\ log' = Append(log, Line("from"))
    /\ UNCHANGED <<format, listing, load, open, runs, rejections>>

Finished(p) == <<Line("processed")>> \o Marks("end", p)

(* The verification ends in an error about the instruction it is at.        *)
Messages == {<<"plain">>, <<"access", "detail">>, <<"sleep", "disabled", "context">>,
             <<"note", "plain">>, <<"plain", "leak">>, <<"unknown">>, <<"math">>}

ErrorLines(texts, pc) ==
    [i \in DOMAIN texts |-> [Line("err") EXCEPT !.msg = texts[i], !.pc = pc, !.rej = runs]]

(* What really happened, for the properties.                                *)
Rejection(texts, pc, line) ==
    [id |-> runs, prog |-> run.prog, load |-> load, texts |-> texts, pc |-> pc,
     line |-> line, call |-> run.call, walked |-> run.at # None,
     listed |-> listing /\ run.begun, straight |-> run.straight]

Reject(texts) ==
    /\ AtInsn
    /\ log' = log \o ErrorLines(texts, None) \o Finished(run.prog)
    /\ rejections' = Append(rejections, Rejection(texts, run.at, Lines[run.prog][run.at]))
    /\ run' = NoRun
    /\ open' = {}
    /\ UNCHANGED <<format, listing, load, runs>>

(* Before it has walked an instruction: the message may name one.           *)
RejectEarly(named) ==
    /\ run # NoRun
    /\ run.at = None
    /\ log' = log \o ErrorLines(<<"plain">>, named) \o Finished(run.prog)
    /\ rejections' = Append(rejections, Rejection(<<"plain">>, named, None))
    /\ run' = NoRun
    /\ open' = {}
    /\ UNCHANGED <<format, listing, load, runs>>

Accept ==
    /\ run # NoRun
    /\ run.next > Len(Lines[run.prog])
    /\ log' = log \o Finished(run.prog) \o <<Line("other")>>
    /\ run' = NoRun
    /\ UNCHANGED <<format, listing, load, open, runs, rejections>>

Next ==
    \/ LoadObject
    \/ \E p \in Progs : StartVerify(p)
    \/ StartWalk
    \/ VerifyInsn
    \/ PopBranch
    \/ \E texts \in Messages : Reject(texts)
    \/ RejectEarly(None)
    \/ run # NoRun /\ \E named \in DOMAIN Lines[run.prog] : RejectEarly(named)
    \/ Accept

Spec == Init /\ [][Next]_vars

-----------------------------------------------------------------------------
region == load_input(log)
terminal == find_terminal_error(region)

NoRejection == [id |-> None]

(* The last rejection with a message on the list of the diagnostic.         *)
rejected ==
    LET known == {i \in DOMAIN rejections :
                    Range(rejections[i].texts) \cap TERMINAL_ERROR_MARKERS # {}}
    IN  IF known = {} THEN NoRejection ELSE rejections[Max(known)]

(* The message is joined from its lines, or has one line only.              *)
Whole(r) == r.texts[1] # "note"

(* Whatever was loaded before and after, what is read around the terminal   *)
(* error is about the last rejection, among those whose message is on the   *)
(* list of markers: a message that is not on it is passed over, and an      *)
(* earlier rejection is explained instead.  The error is its error.  The pc *)
(* it carries is the rejected instruction's.  If none was walked or named,  *)
(* it is the last one of the listing of live registers, which is that of    *)
(* the same program, and there is none without a listing or if the lines of *)
(* the message are not joined.  The call target is that of the last call    *)
(* walked before the error or, if none was walked, of the last one listed.  *)
(* The source line is that of the rejected instruction.  Neither is ever    *)
(* that of a program verified earlier, even in a log without markers.  The  *)
(* span the diagnostic displays is that line too when a marked verification *)
(* walked straight to the rejected instruction.                             *)
TerminalIsLastRejection ==
    LET t == terminal
        r == rejected
        listed_call == CallTarget(r.prog, LastOf(Calls[r.prog]))
    IN  /\ t.rej = r.id
        /\ r # NoRejection =>
             /\ t.pc = IF ~Whole(r) THEN None
                       ELSE IF r.pc # None THEN r.pc
                       ELSE IF r.listed THEN Len(Lines[r.prog]) ELSE None
             /\ t.src = IF Whole(r) /\ r.walked THEN r.line ELSE None
             /\ t.call = IF ~Whole(r) THEN None
                         ELSE IF r.call # None THEN r.call
                         ELSE IF r.listed THEN listed_call ELSE None
             /\ (format = "libbpf" /\ Whole(r) /\ r.walked /\ r.straight) =>
                    source_span(region) = r.line

(* The section BPFix gives the failing program is that of the program and   *)
(* the load that were rejected, although the same program name may have     *)
(* appeared under another section in an earlier load.  The relocated struct *)
(* it names is the one whose relocation patched the rejected instruction in *)
(* that load, not one of another program's instruction with the same number *)
(* or of an earlier load of the program.                                    *)
ScopeIsOfRejected ==
    LET t == terminal
        r == rejected
        at == terminal_error_line_in_log(log, t)
        section == active_libbpf_program_section(log, at)
        struct  == core_relocation_struct_for_active_program(log, at, t.pc)
    IN  /\ section # None => section = Section(r.load, r.prog)
        /\ (format = "libbpf" /\ r # NoRejection /\ Len(t.msg) = 1) => section # None
        /\ struct # None =>
              /\ struct = Struct(r.load, r.prog)
              /\ t.pc = RelocatedPc(r.prog)
              /\ Relocated(r.load, r.prog)

(* The two parsers agree although their lists of messages differ: in the    *)
(* capture of one load, in which programs may have been accepted before one *)
(* was rejected at an instruction, each finds the rejection and is about    *)
(* that instruction, also where one of them knows only some of the lines of *)
(* the message.  The diagnostic misses exactly the offsets out of range     *)
(* ("math"), the corpus exactly the unknown functions, and neither takes    *)
(* another line for the error then.                                         *)
CorpusParserAgrees ==
    (load = 1 /\ rejections # <<>> /\ rejections[1].walked) =>
        LET r == rejections[1]
            t == terminal
            corpus == parse_verifier_log(log)
        IN  /\ t.rej = IF r.texts = <<"math">> THEN None ELSE r.id
            /\ corpus.rej = IF r.texts = <<"unknown">> THEN None ELSE r.id
            /\ corpus.rej # None => corpus.rejected_insn_idx = r.pc
            /\ t.pc \in {None, r.pc}

(* docs/open-source-tool-design.md line 154: the output shows the "primary  *)
(* rejected span".  Whenever BPFix gives a span at all, it is the source    *)
(* line of the rejected instruction, whatever path led to it.               *)
PrimarySpanIsRejected ==
    rejected # NoRejection /\ rejected.walked => source_span(region) \in {None, rejected.line}

=============================================================================
