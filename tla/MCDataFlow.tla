----------------------------- MODULE MCDataFlow -----------------------------
(* Small programs for DataFlow: every assignment of a few instruction        *)
(* sequences to the blocks of a few control-flow shapes.                     *)
EXTENDS DataFlow

Block(body, term, raw) ==
    [insns |-> body, terminator |-> term, raw |-> raw, predecessors |-> {}]

Program(bodies, terms) ==
    rebuild_cfg_edges(
      [b \in DOMAIN terms |->
          Block(bodies[b], terms[b],
                CASE terms[b].op = "jcc"  -> Insn("jcc", 6, 2, 0)
                  [] terms[b].op = "ja"   -> Insn("ja", 0, K, 0)
                  [] terms[b].op = "call" -> Insn("call", 0, K, 0)
                  [] OTHER                -> Insn("exit", 0, K, 0))])

(* A diamond, a loop whose head may be empty, a subprogram call, a block     *)
(* nothing reaches that falls into the last one, and a loop to the entry.    *)
Diamond == << CondBranch(1, 3, 2), Fallthrough(3), Exit(1) >>

Loop == << Fallthrough(2), CondBranch(1, 2, 3), Exit(1) >>

LoopHead == << Fallthrough(2), Fallthrough(3), CondBranch(1, 2, 4), Exit(1) >>

Subprog == << Call(1, 3, 2), Exit(1), Exit(1) >>

Unreached == << Jump(1, 3), Fallthrough(3), Exit(1) >>

EntryLoop == << CondBranch(1, 1, 2), Exit(1) >>

Consts == { << Insn("mov64", 6, K, -1) >>,
            << Insn("mov32", 6, K, -1), Insn("add64", 6, K, 1) >>,
            << Insn("ldimm64", 6, K, 3) >> }

Arith == { << Insn("add64", 6, K, 1) >>,
           << Insn("sub32", 6, K, 1) >>,
           << Insn("mov32", 2, 6, 0), Insn("alu64", 6, 2, 0) >>,
           << Insn("mov64", 2, 10, 0), Insn("sub64", 2, K, 1), Insn("stx", 2, 6, 0) >> }

Packet == { << Insn("mov64", 6, 1, 0), Insn("ldx", 2, 1, DataOff), Insn("ldx", 6, 6, DataEndOff) >>,
            << Insn("ldx", 6, 1, DataOff), Insn("add64", 6, K, 1) >> }

Calls == { << Insn("call", 0, K, 0) >>,
           << Insn("side", 2, K, 0), KinsnCall({2}, {6}) >> }

Bodies == {<<>>} \cup Consts \cup Arith \cup Packet \cup Calls

MCPrograms ==
    {Program(<<x, y, z>>, shape) :
        x \in Consts \cup Packet \cup {<<>>}, y \in Bodies, z \in Bodies,
        shape \in {Diamond, Loop, Subprog, Unreached}}
    \cup {Program(<<x, <<>>, y, z>>, LoopHead) : x \in Consts, y \in Arith, z \in {<<>>} \cup Arith}
    \cup {Program(<< x \o <<Insn("mov64", 1, 6, 0)>>, y >>, EntryLoop) : x, y \in Bodies}
    \cup {Program(<< <<KinsnCall({2}, {6})>>, <<>> >>, << Fallthrough(2), Exit(1) >>)}

(* An atomic fetch between a write and a read of the register it returns in. *)
MCFetch ==
    {Program(<< <<Insn("mov64", 6, K, 1)>>, <<Insn("fetch", 10, 6, 0)>>, y >>, Diamond) : y \in Bodies}

=============================================================================
