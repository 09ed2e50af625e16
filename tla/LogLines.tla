------------------------------ MODULE LogLines ------------------------------
(***************************************************************************)
(* How BPFix reads a load log: which part of it is the verifier log of the *)
(* failure, which line is the terminal error, and what it takes from the   *)
(* lines around it (input.rs, source.rs, libbpf_log.rs).  A line is        *)
(* abstracted to what the parsers tell apart: its kind k and the numbers   *)
(* on it.                                                                  *)
(*                                                                         *)
(*   loading, sec, relo, patched, begin, end, other    printed by libbpf   *)
(*   func, live, state, from, src, insn, err, processed  the verifier's    *)
(*                                                                         *)
(* "state" is a row "pc: R1=...", "src" a source comment, "live" the title *)
(* of the listing of live registers, "other" any line no parser looks at.  *)
(* "insn" is a row with a pc and an opcode: of an instruction the verifier *)
(* walks, or of that listing; the parsers do not tell them apart.  The     *)
(* field rej of an error line numbers the rejection it belongs to; no      *)
(* operator of this module reads it but to pass it on.                     *)
(***************************************************************************)
EXTENDS Integers, Sequences, FiniteSetsExt

None == 0

Line(k) ==
    [k |-> k, prog |-> None, pc |-> None, src |-> None, call |-> None,
     msg |-> "", sec |-> None, relo |-> None, struct |-> None, rej |-> None]

(* Lines of the kernel's error messages, by what the two parsers find in    *)
(* them:                                                                    *)
(*   plain     any line on both lists: "R1 invalid mem access 'scalar'"     *)
(*   access    "invalid access to packet, ...", and                         *)
(*   detail    the line behind it: "R1 offset is outside of the packet"     *)
(*   sleep, disabled, context   the three lines of "functions that may      *)
(*             sleep are not allowed in non-sleepable context, i.e., ..."   *)
(*   note      a line on both lists before another the parser does not join *)
(*   leak      "BPF_EXIT instruction in main prog would lead to reference   *)
(*             leak", behind "Unreleased reference id=1 alloc_insn=2"       *)
(*   unknown   "unknown func bpf_foo#999"                                   *)
(*   math      "math between pkt pointer and 4294967296 is not allowed"     *)

(* What TERMINAL_ERROR_MARKERS of the diagnostic recognises.                *)
TERMINAL_ERROR_MARKERS ==
    {"plain", "access", "detail", "sleep", "disabled", "context", "note", "unknown"}

is_verifier_error_line(l) == l.k = "err" /\ l.msg \in TERMINAL_ERROR_MARKERS

(* Rows that start with a pc; only "insn" rows have an opcode.              *)
HasInstructionPc(l) == l.k \in {"insn", "state"}

(* The last and the first of a set of positions, None if it is empty.       *)
LastOf(S) == IF S = {} THEN None ELSE Max(S)
FirstOf(S) == IF S = {} THEN None ELSE Min(S)

-----------------------------------------------------------------------------
(* The verifier log inside the input: a range of lines <<first, last>>.     *)

Markers(ls) == {i \in DOMAIN ls : ls[i].k \in {"begin", "end"}}

(* Regions between BEGIN and END markers; a BEGIN inside an open region is  *)
(* passed over, an open region at the end of the input reaches to its end.  *)
marked_regions(ls) ==
    LET Opens(b) == LET m == LastOf({i \in Markers(ls) : i < b}) IN
                    m = None \/ ls[m].k = "end"
        EndOf(b) == LET e == FirstOf({i \in Markers(ls) : i > b /\ ls[i].k = "end"}) IN
                    IF e = None THEN Len(ls) ELSE e - 1
        begins == {b \in Markers(ls) : ls[b].k = "begin" /\ Opens(b)}
    IN  {<<b + 1, EndOf(b)>> : b \in {c \in begins : c + 1 <= EndOf(c)}}

HasError(ls, region) == \E i \in region[1]..region[2] : is_verifier_error_line(ls[i])

is_verifier_region_start(l) == l.k \in {"func", "live", "src", "insn", "state", "from"}

LastRegion(regions) == CHOOSE r \in regions : \A s \in regions : s[1] <= r[1]

extract_verifier_log_region_LastMarked(ls) ==
    LET terminal == LastOf({i \in DOMAIN ls : is_verifier_error_line(ls[i])})
        start    == FirstOf({i \in 1..terminal : is_verifier_region_start(ls[i])})
    IN  IF marked_regions(ls) # {} THEN LastRegion(marked_regions(ls))
        ELSE IF terminal = None \/ start = None THEN <<1, Len(ls)>> ELSE <<start, terminal>>

(* Among marked regions the last one with an error, or else the last one;   *)
(* without markers, from the first line of a verifier log to the last       *)
(* error.  The whole input if there is no such line.                        *)
extract_verifier_log_region(ls) ==
    LET regions  == marked_regions(ls)
        failed   == {r \in regions : HasError(ls, r)}
        terminal == LastOf({i \in DOMAIN ls : is_verifier_error_line(ls[i])})
        start    == FirstOf({i \in 1..terminal : is_verifier_region_start(ls[i])})
    IN  CASE failed # {} -> LastRegion(failed)
          [] failed = {} /\ regions # {} -> LastRegion(regions)
          [] regions = {} /\ terminal # None /\ start # None -> <<start, terminal>>
          [] OTHER -> <<1, Len(ls)>>

load_input(ls) ==
    LET r == extract_verifier_log_region(ls) IN SubSeq(ls, r[1], r[2])

-----------------------------------------------------------------------------
(* The terminal error of a verifier log and what is read around it.         *)

(* The lines of the messages the code knows to span several lines, each     *)
(* with the line it continues: a range detail after the access it is about, *)
(* and the three lines of a sleepable call in a non-sleepable context.      *)
Continuations == {<<"detail", "access">>, <<"context", "disabled">>, <<"disabled", "sleep">>}

is_terminal_error_continuation(first, previous) ==
    is_verifier_error_line(previous) /\ <<first.msg, previous.msg>> \in Continuations

is_backward_search_boundary(l) ==
    l.k \in {"func", "begin", "end", "processed"} \/ is_verifier_error_line(l)

(* The nearest of the positions S at or above idx, unless a boundary comes  *)
(* first.                                                                   *)
Nearest(ls, idx, S) ==
    LastOf({j \in S : j <= idx /\ \A m \in j..(idx - 1) : ~is_backward_search_boundary(ls[m])})

nearest_instruction_pc(ls, idx) ==
    LET j == Nearest(ls, idx, {i \in DOMAIN ls : ls[i].k = "insn"}) IN
    IF j = None THEN None ELSE ls[j].pc

(* The nearest call, passing over instructions that are none.               *)
nearest_call_target(ls, idx) ==
    LET j == Nearest(ls, idx, {i \in DOMAIN ls : ls[i].k = "insn" /\ ls[i].call # None}) IN
    IF j = None THEN None ELSE ls[j].call

nearest_source_span(ls, idx) ==
    LET j == Nearest(ls, idx, {i \in DOMAIN ls : ls[i].k = "src"}) IN
    IF j = None THEN None ELSE ls[j].src

NoTerminal ==
    [line |-> None, rej |-> None, msg |-> <<>>, pc |-> None, call |-> None, src |-> None]

(* The last error with the lines it continues.  The text of an error line   *)
(* is its msg and the pc it names ("insn 7 ..."), None if it names none.    *)
find_terminal_error(ls) ==
    LET idx   == LastOf({i \in DOMAIN ls : is_verifier_error_line(ls[i])})
        first == Min({i \in 1..idx :
                        \A j \in (i + 1)..idx : is_terminal_error_continuation(ls[j], ls[j - 1])})
    IN  IF idx = None THEN NoTerminal
        ELSE [line  |-> first,
              rej   |-> ls[idx].rej,
              msg   |-> [i \in 1..(idx - first + 1) |-> <<ls[first + i - 1].msg, ls[first + i - 1].pc>>],
              pc    |-> IF ls[first].pc # None THEN ls[first].pc
                        ELSE nearest_instruction_pc(ls, first),
              call  |-> nearest_call_target(ls, first),
              src   |-> nearest_source_span(ls, first)]

-----------------------------------------------------------------------------
(* Source comments.  An event is <<pc, log line>> of a comment; its pc is   *)
(* that of the first row with a pc among the next four lines.               *)

SourceLookahead == 4

EventPc(ls, i) ==
    LET j == FirstOf({n \in (i + 1)..(i + SourceLookahead) \cap DOMAIN ls : HasInstructionPc(ls[n])})
    IN  IF j = None THEN None ELSE ls[j].pc

collect_source_events(ls) ==
    {<<EventPc(ls, i), i>> : i \in {n \in DOMAIN ls : ls[n].k = "src"}}

(* The comment with the largest pc up to pc, the latest of equals.          *)
source_for_pc(ls, pc) ==
    LET E == {e \in collect_source_events(ls) : e[1] # None /\ e[1] <= pc}
        best == {e \in E : \A f \in E : f[1] < e[1] \/ (f[1] = e[1] /\ f[2] <= e[2])}
    IN  IF E = {} THEN None ELSE ls[(CHOOSE e \in best : TRUE)[2]].src

terminal_source(ls, pc) ==
    LET j == LastOf({i \in DOMAIN ls : ls[i].k = "src"}) IN
    IF pc # None THEN source_for_pc(ls, pc)
    ELSE IF j = None THEN None ELSE ls[j].src

(* The primary span of the diagnostic: the rejected event's source if it    *)
(* has one, else the one found near the terminal error.                     *)
source_span(ls) ==
    LET t == find_terminal_error(ls)
        s == terminal_source(ls, t.pc)
    IN  IF s # None THEN s ELSE t.src

-----------------------------------------------------------------------------
(* Questions asked of the whole input about the program that failed.        *)

(* The last line that contains the terminal message; none does when the     *)
(* message was joined from two lines.                                       *)
terminal_error_line_in_log(ls, t) ==
    LastOf({i \in DOMAIN ls : ls[i].k = "err" /\ t.msg = <<<<ls[i].msg, ls[i].pc>>>>})

current_libbpf_load_window_start(ls, begin) ==
    LET l == LastOf({i \in 1..(begin - 1) : ls[i].k = "loading"})
        e == LastOf({i \in 1..(begin - 1) : ls[i].k = "end"})
    IN  CASE l # None -> l + 1
          [] l = None /\ e # None -> e + 1
          [] OTHER -> 1

current_libbpf_program_scope_LastInLog(ls, before) ==
    LET b == LastOf({i \in DOMAIN ls : ls[i].k = "begin"}) IN
    IF b = None THEN [prog |-> None, start |-> None]
    ELSE [prog |-> ls[b].prog, start |-> current_libbpf_load_window_start(ls, b)]

(* [prog, start] of the load the line belongs to; start = None if no BEGIN  *)
(* precedes it.                                                             *)
current_libbpf_program_scope(ls, before) ==
    LET b == LastOf({i \in 1..(before - 1) : ls[i].k = "begin"}) IN
    IF b = None THEN [prog |-> None, start |-> None]
    ELSE [prog |-> ls[b].prog, start |-> current_libbpf_load_window_start(ls, b)]

libbpf_section_for_program(ls, start, before, prog) ==
    LET j == LastOf({i \in start..(before - 1) : ls[i].k = "sec" /\ ls[i].prog = prog}) IN
    IF j = None THEN None ELSE ls[j].sec

active_libbpf_program_section(ls, before) ==
    LET s == current_libbpf_program_scope(ls, before) IN
    IF before = None \/ s.start = None THEN None
    ELSE libbpf_section_for_program(ls, s.start, before, s.prog)

(* The struct of the relocation that patched instruction pc of prog.        *)
core_relocation_struct_for_instruction(ls, start, before, prog, pc) ==
    LET Of(k) == {i \in start..(before - 1) : ls[i].k = k /\ ls[i].prog = prog}
        ids   == {ls[i].relo : i \in {n \in Of("patched") : ls[n].pc = pc}}
        j     == LastOf({i \in Of("relo") : ls[i].relo \in ids})
    IN  IF j = None THEN None ELSE ls[j].struct

core_relocation_struct_for_active_program(ls, before, pc) ==
    LET s == current_libbpf_program_scope(ls, before) IN
    IF before = None \/ s.start = None THEN None
    ELSE core_relocation_struct_for_instruction(ls, s.start, before, s.prog, pc)

-----------------------------------------------------------------------------
(* The corpus has a parser of its own (replay_case.py), for whole captures, *)
(* and a list of its own of what an error says.                             *)

error_terms == {"plain", "access", "sleep", "note", "leak", "math"}

looks_like_terminal_error_NoInvalid(l) == l.k = "err" /\ l.msg \in error_terms \ {"access"}

looks_like_terminal_error(l) == l.k = "err" /\ l.msg \in error_terms

first_processed_line(ls) == FirstOf({i \in DOMAIN ls : ls[i].k = "processed"})

(* The last error before the first "processed", or else the last of all.    *)
terminal_error_line(ls) ==
    LET errors == {i \in DOMAIN ls : looks_like_terminal_error(ls[i])}
        early  == {i \in errors : i < first_processed_line(ls)}
    IN  LastOf(IF early # {} THEN early ELSE errors)

(* The rejected instruction is the last one above the error, or above the   *)
(* first "processed" of a log without an error.                             *)
parse_verifier_log(ls) ==
    LET terminal == terminal_error_line(ls)
        end == IF terminal # None THEN terminal
               ELSE IF first_processed_line(ls) # None THEN first_processed_line(ls)
               ELSE Len(ls) + 1
        j == LastOf({i \in 1..(end - 1) : ls[i].k = "insn"})
    IN  [rej |-> IF terminal = None THEN None ELSE ls[terminal].rej,
         rejected_insn_idx |-> IF j = None THEN None ELSE ls[j].pc]

=============================================================================
