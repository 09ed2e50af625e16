---------------------------- MODULE MCProgramCFG ----------------------------
(* Small programs for PassBatch and ProgramCFG.  Each is a list of           *)
(* <<op, delta>>; the position in the list identifies the instruction.       *)
EXTENDS PassBatch

Raw(slots) ==
    [pc \in DOMAIN slots |->
        [op |-> slots[pc][1], d |-> slots[pc][2],
         insn |-> IF slots[pc][1] = "hi" THEN None ELSE pc]]

(* A diamond whose arms meet again, over a two-slot load.                    *)
Diamond == Raw(<< <<"jcc", 3>>, <<"ld64", 0>>, <<"hi", 0>>, <<"ja", 1>>,
                  <<"alu", 0>>, <<"exit", 0>> >>)

(* A callback reference, a loop back edge and the callback itself.           *)
Callback == Raw(<< <<"func", 3>>, <<"hi", 0>>, <<"jcc", -3>>, <<"exit", 0>>,
                   <<"alu", 0>>, <<"exit", 0>> >>)

(* A subprogram call, a packed kinsn call and an unreachable block.          *)
SubprogCall == Raw(<< <<"call", 4>>, <<"side", 0>>, <<"kcall", 0>>, <<"exit", 0>>,
                      <<"ja", -2>>, <<"alu", 0>>, <<"exit", 0>> >>)

(* A jump to the next instruction, which a merge drops.                      *)
JumpChain == Raw(<< <<"alu", 0>>, <<"ja", 0>>, <<"ld64", 0>>, <<"hi", 0>>, <<"exit", 0>> >>)

(* A body long enough for several sites, with a two-slot load among them.    *)
Body == Raw(<< <<"alu", 0>>, <<"ld64", 0>>, <<"hi", 0>>, <<"alu", 0>>, <<"exit", 0>> >>)

MCPrograms == {Body, Diamond, Callback, SubprogCall, JumpChain}

MCReplacements == {<<>>, <<"alu">>, <<"ld64", "hi">>, <<"ld64">>}

MCJumpChain == {JumpChain}

=============================================================================
