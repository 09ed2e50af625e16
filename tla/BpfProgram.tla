----------------------------- MODULE BpfProgram -----------------------------
(***************************************************************************)
(* The two forms of a BPF program and the conversions between them: raw    *)
(* bytecode (a sequence of 8-byte slots) and the basic blocks of a         *)
(* ProgramCFG.  This module has no state; module ProgramCFG mutates the    *)
(* block form.                                                             *)
(*                                                                         *)
(* Slots, blocks and sites are numbered from 1 here and from 0 in the      *)
(* code, so 0 is free to stand for Rust's None.  An instruction is         *)
(* abstracted to its class `op` and to `insn`, which says which bytecode   *)
(* it is: the position it had in the program first lifted, or None for an  *)
(* instruction a transformation built.                                     *)
(***************************************************************************)
EXTENDS Integers, Sequences, FiniteSets

None == 0

(* LD_IMM64 takes two slots; "func" is LD_IMM64 with BPF_PSEUDO_FUNC, whose *)
(* immediate is a pc-relative reference to a callback.                      *)
WideOps == {"ld64", "func"}

insn_width(op) == IF op \in WideOps THEN 2 ELSE 1

(* "side" and "kcall" are the two halves of a packed kinsn call.            *)
BodyOps == WideOps \cup {"alu", "side", "kcall"}

TermOps == {"ja", "jcc", "call", "exit"}

(* The k-th smallest element of a finite set of numbers.                    *)
Kth(S, k) == CHOOSE s \in S : Cardinality({t \in S : t <= s}) = k

SortedSeq(S) == [k \in 1..Cardinality(S) |-> Kth(S, k)]

-----------------------------------------------------------------------------
(* Terminators.  `to` is the branch target (jump target, taken side,        *)
(* callee); `next` is the block control falls through or returns to.        *)

Fallthrough(b) == [op |-> "fall", insn |-> None, to |-> None, next |-> b]

Jump(i, b) == [op |-> "ja", insn |-> i, to |-> b, next |-> None]

CondBranch(i, taken, fall) ==
    [op |-> "jcc", insn |-> i, to |-> taken, next |-> fall]

Call(i, callee, ret) == [op |-> "call", insn |-> i, to |-> callee, next |-> ret]

Exit(i) == [op |-> "exit", insn |-> i, to |-> None, next |-> None]

End == [op |-> "end", insn |-> None, to |-> None, next |-> None]

has_raw_insn(t) == t.op \in TermOps

successors(t) == {t.to, t.next} \ {None}

(* A value None, or a block number sent through f.                          *)
MapTarget(b, f) == IF b = None THEN None ELSE f[b]

remap_terminator(t, f) ==
    [t EXCEPT !.to = MapTarget(@, f), !.next = MapTarget(@, f)]

-----------------------------------------------------------------------------
(* Instructions in a block, and blocks.  `lead` is not in the code: it is   *)
(* the first slot the block had when it was lifted (None for a block made   *)
(* by a split), and names the block independently of its number.            *)

InsnNode(op, i) ==
    [op |-> op, insn |-> i, target |-> None, btf_pc |-> None, states |-> FALSE]

Node == [op: BodyOps, insn: Nat, target: Nat, btf_pc: Nat, states: BOOLEAN]

Terminator ==
    [op: TermOps \cup {"fall", "end"}, insn: Nat, to: Nat, next: Nat]

BasicBlock ==
    [insns: Seq(Node), terminator: Terminator, btf_pc: Nat, states: BOOLEAN,
     profile: BOOLEAN, frame: Nat, predecessors: SUBSET Nat, lead: Nat]

(* rebuild_cfg_edges fails on a successor that is not a block, and          *)
(* otherwise recomputes every block's predecessors.                         *)
EdgesOk(blocks) ==
    \A b \in DOMAIN blocks : successors(blocks[b].terminator) \subseteq DOMAIN blocks

rebuild_cfg_edges(blocks) ==
    [b \in DOMAIN blocks |->
        [blocks[b] EXCEPT !.predecessors =
            {p \in DOMAIN blocks : b \in successors(blocks[p].terminator)}]]

(* Slots a block occupies, and the slot each block starts at.               *)
BlockSlots(blk) ==
    Len(blk.insns)
      + Cardinality({i \in DOMAIN blk.insns : blk.insns[i].op \in WideOps})
      + (IF has_raw_insn(blk.terminator) THEN 1 ELSE 0)

assign_block_pcs(blocks) ==
    LET pc[b \in 1..(Len(blocks) + 1)] ==
          IF b = 1 THEN 1 ELSE pc[b - 1] + BlockSlots(blocks[b - 1])
    IN  pc

(* Slots before site idx of a block.                                        *)
site_offset_in_block_slots(blk, idx) ==
    (idx - 1) + Cardinality({i \in 1..(idx - 1) : blk.insns[i].op \in WideOps})

-----------------------------------------------------------------------------
(* Lifting.  A raw slot is [op, d, insn]: d is the pc-relative delta of a   *)
(* branch, pseudo call or pseudo_func load; the second slot of an LD_IMM64  *)
(* has op "hi".                                                             *)

Slot == [op: BodyOps \cup TermOps \cup {"hi"}, d: Int, insn: Nat]

instruction_boundaries(raw) ==
    {pc \in 1..Len(raw) : pc = 1 \/ raw[pc - 1].op \notin WideOps}

TargetPc(raw, pc) == pc + 1 + raw[pc].d

collect_block_starts(raw) ==
    LET at == instruction_boundaries(raw) IN
    {1} \cup {TargetPc(raw, pc) : pc \in {p \in at : raw[p].op \in {"func", "ja", "jcc", "call"}}}
        \cup {pc + 1 : pc \in {p \in at : raw[p].op \in TermOps /\ p < Len(raw)}}

collect_subprog_starts(raw) ==
    {1} \cup {TargetPc(raw, pc) :
                pc \in {p \in instruction_boundaries(raw) : raw[p].op \in {"func", "call"}}}

(* lift returns an error on any other bytecode.                             *)
LiftOk(raw) ==
    LET n  == Len(raw)
        at == instruction_boundaries(raw)
    IN  /\ n > 0
        /\ raw[n].op \in WideOps => n \notin at
        /\ collect_block_starts(raw) \subseteq at \cup {n + 1}
        /\ collect_subprog_starts(raw) \subseteq at
        /\ raw[n].op \in {"jcc", "call"} => n \notin at

(* Number of the block that starts at, or contains, slot pc; one past the   *)
(* last block when pc is the end of the program and no block starts there.  *)
pc_to_block(raw, pc) ==
    LET S == collect_block_starts(raw) IN
    Cardinality({s \in S : s <= pc}) + (IF pc > Len(raw) /\ pc \notin S THEN 1 ELSE 0)

frame_by_pc(raw, pc) ==
    IF pc > Len(raw) THEN 0
    ELSE Cardinality({s \in collect_subprog_starts(raw) : s <= pc}) - 1

lift_terminator(raw, pc) ==
    LET r      == raw[pc]
        target == pc_to_block(raw, TargetPc(raw, pc))
        after  == pc_to_block(raw, pc + 1)
    IN  CASE r.op = "exit" -> Exit(r.insn)
          [] r.op = "call" -> Call(r.insn, target, after)
          [] r.op = "ja"   -> Jump(r.insn, target)
          [] r.op = "jcc"  -> CondBranch(r.insn, target, after)

LiftNode(raw, pc, states) ==
    [InsnNode(raw[pc].op, raw[pc].insn) EXCEPT
        !.btf_pc = pc,
        !.states = states,
        !.target = IF raw[pc].op = "func"
                   THEN pc_to_block(raw, TargetPc(raw, pc)) ELSE None]

(* The block of the slots s..(e-1).  `states`: a verifier log was given.    *)
(* `profiled`: the slots a branch profile names.                            *)
LiftBlock(raw, s, e, states, profiled) ==
    LET at      == {pc \in instruction_boundaries(raw) : s <= pc /\ pc < e}
        hasTerm == s < e /\ (e - 1) \in at /\ raw[e - 1].op \in TermOps
        body    == SortedSeq(IF hasTerm THEN at \ {e - 1} ELSE at)
    IN  [insns      |-> [i \in DOMAIN body |-> LiftNode(raw, body[i], states)],
         terminator |-> IF hasTerm THEN lift_terminator(raw, e - 1)
                        ELSE IF e <= Len(raw) THEN Fallthrough(pc_to_block(raw, e))
                        ELSE End,
         btf_pc     |-> IF hasTerm THEN e - 1 ELSE None,
         states     |-> hasTerm /\ states,
         profile    |-> hasTerm /\ (e - 1) \in profiled,
         frame      |-> frame_by_pc(raw, s),
         predecessors |-> {},
         lead       |-> s]

lift(raw, states, profiled) ==
    LET starts == SortedSeq(collect_block_starts(raw))
        EndOf(k) == IF k < Len(starts) THEN starts[k + 1] ELSE Len(raw) + 1
    IN  rebuild_cfg_edges(
          [k \in DOMAIN starts |->
              LiftBlock(raw, starts[k], EndOf(k), states, profiled)])

-----------------------------------------------------------------------------
(* Lowering.                                                                *)

pc_delta_FromItself(from_pc, target_pc) == target_pc - from_pc

(* Deltas count from the slot after the instruction.                        *)
pc_delta(from_pc, target_pc) == target_pc - from_pc - 1

FitsI16(d) == d \in -32768..32767

(* Lowering succeeds exactly when every fallthrough (and return) edge goes  *)
(* to the block laid out next, End is at the end of the program, and branch *)
(* offsets fit their 16-bit field.                                          *)
LowerOk(blocks) ==
    LET pc      == assign_block_pcs(blocks)
        EndPc(b) == pc[b + 1]
        TermPc(b) == IF has_raw_insn(blocks[b].terminator) THEN EndPc(b) - 1 ELSE EndPc(b)
    IN  \A b \in DOMAIN blocks :
          LET t == blocks[b].terminator IN
          /\ t.next # None => pc[t.next] = EndPc(b)
          /\ t.op = "end" => EndPc(b) = EndPc(Len(blocks))
          /\ t.op \in {"ja", "jcc"} => FitsI16(pc_delta(TermPc(b), pc[t.to]))

(* The slots one block emits when the blocks start at the slots pc.         *)
EmitBlock(blk, start, pc) ==
    LET At(i) == start + site_offset_in_block_slots(blk, i)
        Term  == blk.terminator
        TAt   == At(Len(blk.insns) + 1)
        Width == BlockSlots(blk)
    IN  [k \in 1..Width |->
          LET slot == start + k - 1 IN
          IF has_raw_insn(Term) /\ slot = TAt
          THEN [op |-> Term.op, insn |-> Term.insn,
                d |-> IF Term.to = None THEN 0 ELSE pc_delta(slot, pc[Term.to])]
          ELSE IF \E i \in DOMAIN blk.insns : At(i) = slot
          THEN LET node == blk.insns[CHOOSE i \in DOMAIN blk.insns : At(i) = slot] IN
               [op |-> node.op, insn |-> node.insn,
                d |-> IF node.target = None THEN 0 ELSE pc_delta(slot, pc[node.target])]
          ELSE [op |-> "hi", insn |-> None, d |-> 0]]

lower(blocks) ==
    LET pc == assign_block_pcs(blocks)
        out[b \in 0..Len(blocks)] ==
          IF b = 0 THEN <<>> ELSE out[b - 1] \o EmitBlock(blocks[b], pc[b], pc)
    IN  out[Len(blocks)]

=============================================================================
