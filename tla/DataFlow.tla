------------------------------ MODULE DataFlow ------------------------------
(***************************************************************************)
(* The facts ProgramCFG derives from a program: reaching definitions and   *)
(* the def-to-uses index (bbprogram_use_def.rs), liveness and the local    *)
(* register facts (bbprogram.rs), in the order rebuild_use_def computes    *)
(* them.  Each sweep of a `while changed` loop is a step.  The program is  *)
(* then run by an abstract BPF machine that remembers where each register  *)
(* was last written, so that the facts are compared with what happens on   *)
(* every path, subprogram calls included.                                  *)
(*                                                                         *)
(* Machine words are scaled down: W32 and W64 are the widths of a half and *)
(* of a full register.  Terminators, and the edges between blocks, are     *)
(* those of module BpfProgram.                                             *)
(***************************************************************************)
EXTENDS BpfProgram, FiniteSetsExt, SequencesExt

CONSTANTS
    Programs,       \* sequences of blocks
    Regs,           \* the registers of the machine, a subset of 0..10
    W32, W64        \* widths of u32/i32 and u64/i64

ASSUME DataFlowAssumption ==
    /\ {0, 1, 10} \subseteq Regs /\ Regs \subseteq 0..10
    /\ W32 \in Nat \ {0} /\ W64 \in Nat /\ W32 < W64

VARIABLES
    prog,           \* the ProgramCFG
    uses, defs,     \* the registers each site reads and writes
    phase,          \* which part of rebuild_use_def runs; then the machine
    in_states,      \* reaching definitions at each block's entry
    use_def,        \* UseDefGraph: pairs of a definition and a use
    live_in, live_out,
    facts,          \* local_reg_state of each site
    frames          \* the machine: its stack of frames, innermost last

vars == <<prog, uses, defs, phase, in_states, use_def, live_in, live_out, facts, frames>>

I32 == -(2 ^ (W32 - 1)) .. (2 ^ (W32 - 1) - 1)
I64 == -(2 ^ (W64 - 1)) .. (2 ^ (W64 - 1) - 1)
U32(v) == v % 2 ^ W32
U64(v) == v % 2 ^ W64

-----------------------------------------------------------------------------
(* Instructions.  K as the source register means an immediate operand.  For *)
(* "ldx", imm is the offset and DataOff, DataEndOff those of the program    *)
(* type's packet layout.  uses and defs are the kinsn descriptor's answers  *)
(* for the payload of a packed call.  "fetch" is an atomic read-modify-     *)
(* write store that returns the old value in src.                           *)

K == -1
DataOff == 1
DataEndOff == 2

Insn(op, dst, src, imm) ==
    [op |-> op, dst |-> dst, src |-> src, imm |-> imm, uses |-> {}, defs |-> {}]

KinsnCall(reads, writes) ==
    [op |-> "kcall", dst |-> 0, src |-> K, imm |-> 0, uses |-> reads, defs |-> writes]

MovOps == {"mov64", "mov32"}
AluOps == MovOps \cup {"add64", "sub64", "alu64", "add32", "sub32", "alu32"}

BodyLen(p, b) == Len(p[b].insns)

(* Sites are <<block, index>>; the terminator is the site after the body.   *)
logical_sites_for_block(p, b) ==
    [i \in 1..(BodyLen(p, b) + (IF has_raw_insn(p[b].terminator) THEN 1 ELSE 0)) |-> <<b, i>>]

insn_at(p, s) ==
    IF s[2] <= BodyLen(p, s[1]) THEN p[s[1]].insns[s[2]] ELSE p[s[1]].raw

Sites(p) == UNION {ToSet(logical_sites_for_block(p, b)) : b \in DOMAIN p}

dataflow_successors_IntoCallee(t) ==
    IF t.op = "call" THEN {t.to} ELSE successors(t)

dataflow_successors(t) ==
    IF t.op = "call" THEN {t.next} ELSE successors(t)

InsnOps == AluOps \cup {"ldx", "st", "stx", "fetch", "call", "kcall", "exit", "ja", "jcc",
                        "ldimm64", "ld", "side"}

(* A register of the machine, or none of BPF's.                             *)
OperandRegs == Regs \cup (Nat \ 0..10)

Instruction ==
    [op: InsnOps, dst: Regs, src: Regs \cup {K}, imm: Int,
     uses: SUBSET OperandRegs, defs: SUBSET OperandRegs]

(* Programs as lift leaves them: the raw instruction of a terminator is of  *)
(* the terminator's kind, the edges a terminator of its kind has lead to    *)
(* blocks, and a sidecar stands before its packed call.                     *)
ASSUME ProgramsAssumption ==
    \A p \in Programs :
        /\ p \in Seq([insns: Seq(Instruction), terminator: Terminator, raw: Instruction,
                      predecessors: SUBSET Nat])
        /\ p # <<>>
        /\ EdgesOk(p)
        /\ \A b \in DOMAIN p :
              LET t == p[b].terminator IN
              /\ has_raw_insn(t) => p[b].raw.op = t.op
              /\ t.op \in {"fall", "call"} => t.next # None
              /\ t.op = "call" => t.to # None
              /\ t.op = "fall" => t.to = None
              /\ t.op = "end" => successors(t) = {}
              /\ \A i \in DOMAIN p[b].insns :
                    p[b].insns[i].op = "side" =>
                        i < BodyLen(p, b) /\ p[b].insns[i + 1].op = "kcall"

-----------------------------------------------------------------------------
(* Registers read and written, as the analysis sees them.                   *)

SrcRegs(insn) == IF insn.src = K THEN {} ELSE {insn.src}

insn_use_def_pair(insn) ==
    CASE insn.op \in MovOps ->
           [uses |-> SrcRegs(insn), defs |-> {insn.dst}]
      [] insn.op \in AluOps \ MovOps ->
           [uses |-> SrcRegs(insn) \cup {insn.dst}, defs |-> {insn.dst}]
      [] insn.op = "ldx" ->
           [uses |-> {insn.src}, defs |-> {insn.dst}]
      [] insn.op \in {"st", "stx", "fetch"} ->
           [uses |-> SrcRegs(insn) \cup {insn.dst}, defs |-> {}]
      [] insn.op \in {"call", "kcall"} ->
           [uses |-> (1..5) \cap Regs, defs |-> (0..5) \cap Regs]
      [] insn.op = "exit" ->
           [uses |-> {0}, defs |-> {}]
      [] insn.op \in {"ja", "jcc"} ->
           [uses |-> SrcRegs(insn) \cup (IF insn.op = "ja" THEN {} ELSE {insn.dst}),
            defs |-> {}]
      [] insn.op \in {"ldimm64", "ld", "side"} ->
           [uses |-> {}, defs |-> {insn.dst}]

(* populate_site_use_def: a packed call and its sidecar override the pair   *)
(* of their raw instructions.  It fails on a call without its sidecar.      *)
PackedAt(p, s) == insn_at(p, s).op = "kcall"

HasSidecar(p, s) == s[2] > 1 /\ insn_at(p, <<s[1], s[2] - 1>>).op = "side"

IsSidecarOfCall(p, s) ==
    /\ insn_at(p, s).op = "side"
    /\ s[2] < BodyLen(p, s[1])
    /\ PackedAt(p, <<s[1], s[2] + 1>>)

PopulateOk(p) ==
    \A s \in Sites(p) :
        PackedAt(p, s) => /\ HasSidecar(p, s)
                          /\ insn_at(p, s).uses \cup insn_at(p, s).defs \subseteq 0..10

populate_site_use_def(p, s) ==
    LET insn == insn_at(p, s) IN
    IF PackedAt(p, s) THEN [uses |-> insn.uses, defs |-> insn.defs]
    ELSE IF IsSidecarOfCall(p, s) THEN [uses |-> {}, defs |-> {}]
    ELSE insn_use_def_pair(insn)

-----------------------------------------------------------------------------
(* Reaching definitions.  A definition is <<block, index, register>>.       *)

(* The state before site i of block b when `input` holds at its entry and   *)
(* ds gives the registers each site writes.                                 *)
StateAt(ds, b, i, input) ==
    [r \in Regs |->
        LET D == {j \in 1..(i - 1) : r \in ds[<<b, j>>]} IN
        IF D = {} THEN input[r] ELSE {<<b, Max(D), r>>}]

process_block_state(p, ds, b, input) ==
    StateAt(ds, b, Len(logical_sites_for_block(p, b)) + 1, input)

merge_state(dst, srcs) == [r \in Regs |-> dst[r] \cup UNION {src[r] : src \in srcs}]

(* One iteration of `while changed`: every block's output, computed from    *)
(* the states before the iteration, is merged into its successors.          *)
ReachingSweep(p, ds, ins) ==
    [s \in DOMAIN p |->
        LET From == {b \in DOMAIN p : s \in dataflow_successors(p[b].terminator)} IN
        merge_state(ins[s], {process_block_state(p, ds, b, ins[b]) : b \in From})]

record_uses(p, us, ds, ins) ==
    UNION {UNION {{<<d, <<s[1], s[2], r>>>> : d \in StateAt(ds, s[1], s[2], ins[s[1]])[r]} :
                     r \in us[s] \cap Regs} : s \in Sites(p)}

-----------------------------------------------------------------------------
(* Liveness.                                                                *)

first_logical_sites_EmptyBlocksEnd(p, b) ==
    IF logical_sites_for_block(p, b) = <<>> THEN {} ELSE {<<b, 1>>}

(* The blocks of C, those without a site replaced by their successors.      *)
SkipEmpty(p, C) ==
    UNION {IF logical_sites_for_block(p, c) = <<>>
           THEN successors(p[c].terminator) ELSE {c} : c \in C}

(* The first site at or after block b, through blocks without a site.       *)
first_logical_sites(p, b) ==
    LET chain[k \in 0..Len(p)] == IF k = 0 THEN {b} ELSE SkipEmpty(p, chain[k - 1])
    IN  {<<c, 1>> : c \in {c \in chain[Len(p)] : logical_sites_for_block(p, c) # <<>>}}

site_successors(p, s) ==
    IF s[2] < Len(logical_sites_for_block(p, s[1])) THEN {<<s[1], s[2] + 1>>}
    ELSE UNION {first_logical_sites(p, b) : b \in dataflow_successors(p[s[1]].terminator)}

(* One iteration of `while changed`: the sites backwards, in place, so that *)
(* a site sees the new sets of the sites after it and the old ones of the   *)
(* sites before it.                                                         *)
IsAfter(t, s) == t[1] > s[1] \/ (t[1] = s[1] /\ t[2] > s[2])

LivenessSweep(p, us, ds, old_in) ==
    LET Out(new, s) ==
            UNION {IF IsAfter(t, s) THEN new[t] ELSE old_in[t] : t \in site_successors(p, s)}
        in[s \in DOMAIN old_in] == (Out(in, s) \ ds[s]) \cup us[s]
    IN  [in |-> in, out |-> [s \in DOMAIN old_in |-> Out(in, s)]]

-----------------------------------------------------------------------------
(* Local register facts, and the machine's values: a kind t, a number v and *)
(* the load sites `at` a packet pointer comes from.                         *)

Val(t, v, at) == [t |-> t, v |-> v, at |-> at]

Unknown == Val("unknown", 0, {})
Ctx == Val("ctx", 0, {})
Const(v) == Val("const", v, {})
FpOff(v) == Val("fp", v, {})
PacketData(s, off) == Val("data", off, {s})
PacketEnd(S) == Val("end", 0, S)

alu64_imm_Unchecked(f, n) ==
    IF f.t \in {"const", "fp"} THEN [f EXCEPT !.v = @ + n] ELSE Unknown

alu64_imm(f, n) ==
    CASE f.t = "const" /\ f.v + n \in I64 -> Const(f.v + n)
      [] f.t = "fp" /\ f.v + n \in I32 -> FpOff(f.v + n)
      [] OTHER -> Unknown

alu32_add_sub(f, n) ==
    IF f.t = "const" THEN Const(U32(U32(f.v) + n)) ELSE Unknown

mov32(f) == IF f.t = "const" THEN Const(U32(f.v)) ELSE Unknown

saturating_add(a, n) ==
    IF a + n > Max(I32) THEN Max(I32) ELSE IF a + n < Min(I32) THEN Min(I32) ELSE a + n

(* The fact an ALU instruction leaves in dst.                               *)
AluFact(insn, regs) ==
    LET f == regs[insn.dst]
        x == insn.src # K
    IN  CASE insn.op = "mov64" -> IF x THEN regs[insn.src] ELSE Const(insn.imm)
          [] insn.op = "mov32" -> IF x THEN mov32(regs[insn.src]) ELSE Const(U32(insn.imm))
          [] insn.op = "add64" /\ ~x -> IF f.t = "data"
                                        THEN [f EXCEPT !.v = saturating_add(@, insn.imm)]
                                        ELSE alu64_imm(f, insn.imm)
          [] insn.op = "sub64" /\ ~x -> alu64_imm(f, -insn.imm)
          [] insn.op = "add32" /\ ~x -> alu32_add_sub(f, insn.imm)
          [] insn.op = "sub32" /\ ~x -> alu32_add_sub(f, -insn.imm)
          [] OTHER -> Unknown

(* st is the running state [regs, last]; `last` is last_data_load as a set. *)
advance_lifted_regs(insn, s, st) ==
    LET Put(f) == [st EXCEPT !.regs[insn.dst] = f]
        FromCtx == st.regs[insn.src].t = "ctx"
    IN  CASE insn.op = "side" -> st
          [] insn.op = "kcall" ->
               [st EXCEPT !.regs = [r \in Regs |-> IF r \in insn.defs THEN Unknown ELSE @[r]]]
          [] insn.op = "call" ->
               [regs |-> [r \in Regs |->
                            IF r \in 0..5 \/ st.regs[r].t \in {"data", "end"}
                            THEN Unknown ELSE st.regs[r]],
                last |-> {}]
          [] insn.op = "ldimm64" -> Put(Const(insn.imm))
          [] insn.op \in AluOps -> Put(AluFact(insn, st.regs))
          [] insn.op = "ldx" ->
               CASE FromCtx /\ insn.imm = DataOff ->
                      [Put(PacketData(s, 0)) EXCEPT !.last = {s}]
                 [] FromCtx /\ insn.imm = DataEndOff ->
                      Put(PacketEnd(IF st.last = {} THEN {s} ELSE st.last))
                 [] OTHER -> Put(Unknown)
          [] insn.op = "ld" -> Put(Unknown)
          [] OTHER -> st

should_reset_linear_state_at_block_JoinsKeep(p, b) ==
    /\ b # 1
    /\ ~ /\ b - 1 \in p[b].predecessors
         /\ p[b - 1].terminator.op \in {"fall", "jcc"}
         /\ p[b - 1].terminator.next = b

should_reset_linear_state_at_block(p, b) ==
    /\ b # 1
    /\ ~ /\ p[b].predecessors = {b - 1}
         /\ p[b - 1].terminator.op \in {"fall", "jcc"}
         /\ p[b - 1].terminator.next = b

AdvanceTo(p, b, i, st) ==
    LET Step(acc, s) == advance_lifted_regs(insn_at(p, s), s, acc)
    IN  FoldLeft(Step, st, SubSeq(logical_sites_for_block(p, b), 1, i - 1))

(* The state at each block's entry; blocks are visited in layout order.     *)
BlockEntryFacts(p) ==
    LET Blank == [r \in Regs |-> IF r = 10 THEN FpOff(0) ELSE Unknown]
        entry[b \in DOMAIN p] ==
            CASE b = 1 -> [regs |-> [Blank EXCEPT ![1] = Ctx], last |-> {}]
              [] b # 1 /\ should_reset_linear_state_at_block(p, b) -> [regs |-> Blank, last |-> {}]
              [] OTHER -> AdvanceTo(p, b - 1, Len(logical_sites_for_block(p, b - 1)) + 1, entry[b - 1])
    IN  entry

compute_lifted_reg_facts(p) ==
    LET entry == BlockEntryFacts(p) IN
    [s \in Sites(p) |-> AdvanceTo(p, s[1], s[2], entry[s[1]]).regs]

-----------------------------------------------------------------------------
(* The abstract machine.  It knows nothing of the analysis: MachineReads    *)
(* and MachineWrites are the instruction set's.  A location is <<block,     *)
(* index>> even where there is no instruction (a block that falls through). *)

Junk == Val("junk", 0, {})          \* any value at all

MachineReads(insn) ==
    CASE insn.op \in {"mov64", "mov32", "ldx"} -> SrcRegs(insn)
      [] insn.op \in AluOps \ MovOps -> SrcRegs(insn) \cup {insn.dst}
      [] insn.op \in {"st", "stx", "fetch", "jcc"} -> SrcRegs(insn) \cup {insn.dst}
      [] insn.op = "call" -> (1..5) \cap Regs
      [] insn.op = "kcall" -> insn.uses
      [] insn.op = "exit" -> {0}
      [] OTHER -> {}

MachineWrites(insn) ==
    CASE insn.op \in AluOps \cup {"ldx", "ldimm64", "ld"} -> {insn.dst}
      [] insn.op = "fetch" -> {insn.src}
      [] insn.op = "call" -> (0..5) \cap Regs
      [] insn.op = "kcall" -> insn.defs
      [] OTHER -> {}

(* A machine integer is an unsigned 64-bit number.                          *)
Int64(v) == Val("int", U64(v), {})

(* 64-bit addition of an immediate.  Offsets of stack and packet pointers   *)
(* that leave the 32-bit range are rejected by the kernel verifier.         *)
Add64(v, n) ==
    CASE v.t = "int" -> Int64(v.v + n)
      [] v.t \in {"fp", "data"} -> [v EXCEPT !.v = @ + n]
      [] OTHER -> Junk

Low32(v) == IF v.t = "int" THEN Int64(U32(v.v)) ELSE Junk

(* What a body instruction at s leaves in the register it writes; `loads`   *)
(* are the packet data loads still valid.                                   *)
Result(insn, s, regs, loads) ==
    LET v == regs[insn.dst]
        x == insn.src # K
    IN  CASE insn.op = "mov64" -> IF x THEN regs[insn.src] ELSE Int64(insn.imm)
          [] insn.op = "mov32" -> Low32(IF x THEN regs[insn.src] ELSE Int64(insn.imm))
          [] insn.op = "add64" /\ ~x -> Add64(v, insn.imm)
          [] insn.op = "sub64" /\ ~x -> Add64(v, -insn.imm)
          [] insn.op = "add32" /\ ~x -> Low32(Add64(Low32(v), insn.imm))
          [] insn.op = "sub32" /\ ~x -> Low32(Add64(Low32(v), -insn.imm))
          [] insn.op = "ldimm64" -> Int64(insn.imm)
          [] insn.op = "ldx" /\ regs[insn.src].t = "ctx" /\ insn.imm = DataOff ->
               PacketData(s, 0)
          [] insn.op = "ldx" /\ regs[insn.src].t = "ctx" /\ insn.imm = DataEndOff ->
               PacketEnd(loads \cup {s})
          [] OTHER -> Junk

(* A call may move the packet: every packet pointer becomes worthless.      *)
AfterCall(v) == IF v.t \in {"data", "end"} THEN Junk ELSE v

Accepted(v) == v.t \in {"fp", "data"} => v.v \in I32

Frame(at, regs, def, loads, dead) ==
    [at |-> at, regs |-> regs, def |-> def, loads |-> loads, dead |-> dead]

(* Registers the liveness sets call dead at location s.                     *)
DeadAt(s) == IF s \in DOMAIN live_in THEN Regs \ live_in[s] ELSE {}

top == frames[Len(frames)]

HasInsn(s) == has_raw_insn(prog[s[1]].terminator) \/ s[2] <= BodyLen(prog, s[1])

Here == insn_at(prog, top.at)

(* Leave for location `to` after writing W, with the registers regs.        *)
Advance(f, to, regs, loads) ==
    LET W == IF HasInsn(f.at) THEN MachineWrites(insn_at(prog, f.at)) ELSE {} IN
    Frame(to, regs,
          [r \in Regs |-> IF r \in W THEN {<<f.at[1], f.at[2], r>>} ELSE f.def[r]],
          loads, (f.dead \ W) \cup DeadAt(to))

EntryFrame(b, regs) ==
    Frame(<<b, 1>>, regs, [r \in Regs |-> {}], {}, DeadAt(<<b, 1>>))

-----------------------------------------------------------------------------
Init ==
    /\ prog \in Programs
    /\ phase = "populate"
    /\ uses = <<>> /\ defs = <<>>
    /\ in_states = [b \in DOMAIN prog |-> [r \in Regs |-> {}]]
    /\ use_def = {}
    /\ live_in = [s \in Sites(prog) |-> {}]
    /\ live_out = live_in
    /\ facts = <<>>
    /\ frames = <<>>

Populate ==
    /\ phase = "populate"
    /\ IF PopulateOk(prog)
       THEN /\ uses' = [s \in Sites(prog) |-> populate_site_use_def(prog, s).uses]
            /\ defs' = [s \in Sites(prog) |-> populate_site_use_def(prog, s).defs]
            /\ phase' = "reach"
       ELSE phase' = "failed" /\ UNCHANGED <<uses, defs>>
    /\ UNCHANGED <<prog, in_states, use_def, live_in, live_out, facts, frames>>

Reach_AlwaysChanged ==
    /\ phase = "reach"
    /\ in_states' = ReachingSweep(prog, defs, in_states)
    /\ UNCHANGED <<prog, uses, defs, phase, use_def, live_in, live_out, facts, frames>>

(* A sweep of UseDefGraph::build's loop; the last one changes nothing, and  *)
(* the index is built from the states it leaves.                            *)
Reach ==
    /\ phase = "reach"
    /\ in_states' = ReachingSweep(prog, defs, in_states)
    /\ IF in_states' # in_states
       THEN UNCHANGED <<phase, use_def>>
       ELSE phase' = "live" /\ use_def' = record_uses(prog, uses, defs, in_states')
    /\ UNCHANGED <<prog, uses, defs, live_in, live_out, facts, frames>>

(* A sweep of compute_site_liveness; after the last one the register facts  *)
(* are computed, the rebuild is over and the machine starts.                *)
Live ==
    /\ phase = "live"
    /\ LET l == LivenessSweep(prog, uses, defs, live_in) IN
       /\ live_in' = l.in
       /\ live_out' = l.out
    /\ IF <<live_in', live_out'>> # <<live_in, live_out>>
       THEN UNCHANGED <<phase, facts, frames>>
       ELSE /\ phase' = "run"
            /\ facts' = compute_lifted_reg_facts(prog)
            /\ frames' = << EntryFrame(1, [r \in Regs |-> CASE r = 1 -> Ctx
                                                            [] r = 10 -> FpOff(0)
                                                            [] OTHER -> Junk]) >>
    /\ UNCHANGED <<prog, uses, defs, in_states, use_def>>

Running == phase = "run" /\ frames # <<>>

SetTop(f) == frames' = [frames EXCEPT ![Len(frames)] = f]

(* A body instruction, a helper call or a packed kinsn call included.       *)
Step ==
    /\ Running
    /\ top.at[2] <= BodyLen(prog, top.at[1])
    /\ LET s == top.at
           insn == Here
           W == MachineWrites(insn)
           next == <<s[1], s[2] + 1>>
           regs == [r \in Regs |->
                      CASE insn.op = "call" -> IF r \in W THEN Junk ELSE AfterCall(top.regs[r])
                        [] insn.op # "call" /\ r \in W -> Result(insn, s, top.regs, top.loads)
                        [] OTHER -> top.regs[r]]
           loads == CASE insn.op = "call" -> {}
                      [] insn.op = "ldx" /\ top.regs[insn.src].t = "ctx" /\ insn.imm = DataOff ->
                           top.loads \cup {s}
                      [] OTHER -> top.loads
       IN  /\ \A r \in Regs : Accepted(regs[r])
           /\ SetTop(Advance(top, next, regs, loads))
    /\ UNCHANGED <<prog, uses, defs, phase, in_states, use_def, live_in, live_out, facts>>

AtTerminator(ops) ==
    /\ Running
    /\ top.at[2] = BodyLen(prog, top.at[1]) + 1
    /\ prog[top.at[1]].terminator.op \in ops

(* Fallthrough, jump or either side of a conditional branch.                *)
Branch ==
    /\ AtTerminator({"fall", "ja", "jcc"})
    /\ \E b \in successors(prog[top.at[1]].terminator) :
          SetTop(Advance(top, <<b, 1>>, top.regs, top.loads))
    /\ UNCHANGED <<prog, uses, defs, phase, in_states, use_def, live_in, live_out, facts>>

(* A call to a subprogram: a new frame with the arguments in r1 to r5.      *)
EnterSubprog ==
    /\ AtTerminator({"call"})
    /\ frames' = Append(frames,
          EntryFrame(prog[top.at[1]].terminator.to,
                     [r \in Regs |-> CASE r \in 1..5 /\ top.regs[r].t # "fp" -> top.regs[r]
                                       [] r = 10 -> FpOff(0)
                                       [] OTHER -> Junk]))
    /\ UNCHANGED <<prog, uses, defs, phase, in_states, use_def, live_in, live_out, facts>>

(* Exit returns to the caller, which finds r0 to r5 overwritten.            *)
Leave ==
    /\ AtTerminator({"exit", "end"})
    /\ LET rest == Front(frames)
           f == rest[Len(rest)]
           regs == [r \in Regs |-> IF r \in 0..5 THEN Junk ELSE AfterCall(f.regs[r])]
       IN  frames' = IF rest = <<>> THEN <<>>
                     ELSE [rest EXCEPT ![Len(rest)] =
                             Advance(f, <<prog[f.at[1]].terminator.next, 1>>, regs, {})]
    /\ UNCHANGED <<prog, uses, defs, phase, in_states, use_def, live_in, live_out, facts>>

Next == Populate \/ Reach \/ Live \/ Step \/ Branch \/ EnterSubprog \/ Leave

Spec == Init /\ [][Next]_vars /\ WF_vars(Populate \/ Reach \/ Live)

-----------------------------------------------------------------------------
FactKinds == {"unknown", "ctx", "const", "fp", "data", "end"}

(* The registers the next step reads.                                       *)
ReadsHere == IF frames = <<>> \/ ~ HasInsn(top.at) THEN {} ELSE MachineReads(Here)

(* Facts stay in the ranges of the fields that hold them.                   *)
InRange(f) ==
    /\ f.t \in FactKinds
    /\ f.t = "const" => f.v \in I64
    /\ f.t \in {"fp", "data"} => f.v \in I32

FactHolds(f, v) ==
    CASE f.t = "unknown" -> TRUE
      [] f.t = "const"   -> v = Int64(f.v)
      [] f.t = "end"     -> v.t = "end" /\ f.at \subseteq v.at
      [] OTHER           -> v = f

(* A local register fact is true of the register whenever the program       *)
(* reaches the site: constants modulo 2^64 with 32-bit operations zero-     *)
(* extending, stack and packet offsets, and packet pointers of a packet     *)
(* that no call can have moved since.  No arithmetic on facts overflows.    *)
(* A program that jumps back to its first block is the exception: block 0   *)
(* is given r1 = Ctx whatever its predecessors are, which is true of the    *)
(* first entry only.                                                        *)
FactsHold ==
    frames # <<>> /\ top.at \in DOMAIN facts =>
        \A r \in Regs : /\ InRange(facts[top.at][r])
                        /\ \/ FactHolds(facts[top.at][r], top.regs[r])
                           \/ prog[1].predecessors # {}

(* bbprogram.rs line 156: defs are the "Registers written by this           *)
(* instruction".  Each register an instruction changes is among them.       *)
DefsComplete ==
    [][\A r \in Regs :
          /\ Running /\ Len(frames') = Len(frames) /\ HasInsn(top.at)
          /\ frames'[Len(frames')].regs[r] # top.regs[r]
          => r \in defs[top.at]]_vars

-----------------------------------------------------------------------------
(* Reference definitions, by paths between machine locations.               *)

Locations(p) == UNION {{<<b, i>> : i \in 1..(BodyLen(p, b) + 1)} : b \in DOMAIN p}

LocationEdges(p, s) ==
    IF s[2] <= BodyLen(p, s[1]) THEN {<<s[1], s[2] + 1>>}
    ELSE {<<b, 1>> : b \in dataflow_successors(p[s[1]].terminator)}

Writes(ds, s, r) == s \in DOMAIN ds /\ r \in ds[s]

(* S and the locations one edge away from those of S that do not write r.   *)
ClearStep(p, ds, S, r) ==
    UNION {{s} \cup (IF Writes(ds, s, r) THEN {} ELSE LocationEdges(p, s)) : s \in S}

(* Locations reached from S without passing one that writes r.              *)
ClearReach(p, ds, S, r) ==
    LET n == Cardinality(Locations(p))
        reach[k \in 0..n] == IF k = 0 THEN S ELSE ClearStep(p, ds, reach[k - 1], r)
    IN  reach[n]

(* Uses are listed under a definition only when some path leads from one to *)
(* the other without a write of the register.                               *)
EveryUseWitnessed ==
    phase = "live" =>
        \A e \in use_def :
            LET d == e[1]  u == e[2] IN
            /\ d[3] = u[3]
            /\ <<u[1], u[2]>> \in ClearReach(prog, defs, LocationEdges(prog, <<d[1], d[2]>>), u[3])

(* The def-to-uses index is exact.  Whenever the program reads a register   *)
(* it has written, on whatever path, uses_for(that write) lists the read;   *)
(* and it lists no read that no path from the write can reach.              *)
UseDefExact ==
    /\ EveryUseWitnessed
    /\ \A r \in ReadsHere : \A d \in top.def[r] :
          <<d, <<top.at[1], top.at[2], r>>>> \in use_def

(* A register is live at a site only when some path from it reads the       *)
(* register before writing it.                                              *)
EveryLiveWitnessed ==
    phase = "run" /\ Len(frames) = 1 /\ top.at = <<1, 1>> =>
        \A s \in Sites(prog) : \A r \in live_in[s] :
            \E t \in ClearReach(prog, defs, {s}, r) : t \in DOMAIN uses /\ r \in uses[t]

(* Liveness is exact.  A register the sets declared dead at some site is    *)
(* written again before the program reads it, so deleting its definition is *)
(* safe; and one declared live is read on some path.                        *)
LivenessExact ==
    /\ EveryLiveWitnessed
    /\ \A r \in ReadsHere : r \notin top.dead

(* Both fixpoint loops end, on every program.                               *)
RebuildEnds == <>(phase \in {"run", "failed"})

=============================================================================
