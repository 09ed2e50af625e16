---------------------------- MODULE VerifierWalk ----------------------------
(***************************************************************************)
(* The kernel's walk over a program and the states it prints at log level  *)
(* 2, as far as StateRows reads them: a full state at the start, when a    *)
(* function is entered or left and when a pushed branch is resumed; behind *)
(* an instruction its operands.  When the marking of precise registers is  *)
(* logged after the instruction, its operands follow on a line of their    *)
(* own that begins with the next pc, in the form of a full state.          *)
(* Registers a call leaves unreadable are not printed, nor are those that  *)
(* a branch refines because they are linked with its operands.  The kernel *)
(* is external; the properties compare what the code of StateRows reads    *)
(* above an instruction with what the verifier last showed of the path it  *)
(* is on.                                                                  *)
(***************************************************************************)
EXTENDS StateRows

CONSTANTS
    Programs,   \* sequences of instructions [op, reg, src, to]
    MaxSteps    \* bound: instructions walked

Regs == {1, 2, 3}
R0 == 1         \* return value
R1 == 2         \* argument, unreadable after a call
R6 == 3         \* kept across calls

(* What the kernel checks of a program before it walks it: jumps stay       *)
(* inside, and no instruction falls off the end.                            *)
Insn ==
    [op : {"set", "store", "helper", "if", "goto", "call", "exit"},
     reg : Regs \cup {0}, src : Regs \cup {0}, to : Nat]

ASSUME ProgramsAssumption ==
    \A p \in Programs :
        /\ p \in Seq(Insn) /\ p # <<>>
        /\ p[Len(p)].op \in {"goto", "exit"}
        /\ \A i \in DOMAIN p :
              /\ p[i].op \in {"if", "goto", "call"} => p[i].to \in DOMAIN p
              /\ p[i].op = "set" => p[i].reg \in Regs

VARIABLES
    prog,
    frames,     \* of the active calls: registers, and where to return to
    pc,         \* next instruction
    edge,       \* a full state is due before it
    pending,    \* branches to resume, with their frames
    rows,       \* states printed
    line,       \* lines printed
    steps,
    over        \* every path has been walked

vars == <<prog, frames, pc, edge, pending, rows, line, steps, over>>

(* A register: its value; the value it was last printed with, at which pc,  *)
(* and whether a row in the form of a full state has left it out since.     *)
Unreadable == [val |-> NotShown, seen |-> NotShown, shown |-> 0, dropped |-> FALSE]

Top == frames[Len(frames)]

Readable(regs) == {r \in Regs : regs[r] # Unreadable}

(* The registers after a row at pc `at` has printed those in `shown`.       *)
Printed(kind, at, regs, shown) ==
    [r \in Regs |->
        IF r \in shown
        THEN [val |-> regs[r].val, seen |-> regs[r].val, shown |-> at, dropped |-> FALSE]
        ELSE IF regs[r] = Unreadable THEN Unreadable
        ELSE [regs[r] EXCEPT !.dropped = @ \/ kind \in FullKinds]]

(* A state as the parser keeps it, with the log line it was printed on.     *)
Row(kind, at, regs, shown) ==
    [pc |-> at, line |-> line + 1, frame |-> Len(frames), kind |-> kind,
     regs |-> [r \in shown |-> regs[r].val]]

(* The registers of the frame become regs, and those in `shown` are printed. *)
PrintRow(kind, at, regs, shown) ==
    /\ rows' = Append(rows, Row(kind, at, regs, shown))
    /\ frames' = [frames EXCEPT ![Len(frames)].regs = Printed(kind, at, regs, shown)]

Init ==
    /\ prog \in Programs
    /\ frames = <<[regs |-> [r \in Regs |-> IF r = R1
                                            THEN [Unreadable EXCEPT !.val = -1]
                                            ELSE Unreadable],
                   ret |-> 0]>>
    /\ pc = 1
    /\ edge = "PcFullState"
    /\ pending = <<>>
    /\ rows = <<>>
    /\ line = 0
    /\ steps = 0
    /\ over = FALSE

PrintState ==
    /\ edge # "none"
    /\ ~over
    /\ PrintRow(edge, pc, Top.regs, Readable(Top.regs))
    /\ line' = line + 1
    /\ edge' = "none"
    /\ UNCHANGED <<prog, pc, pending, steps, over>>

-----------------------------------------------------------------------------
(* Instructions.  New values are numbered by the line that prints them.     *)

At(op) ==
    /\ ~over
    /\ edge = "none"
    /\ steps < MaxSteps
    /\ prog[pc].op = op
    /\ steps' = steps + 1
    /\ line' = line + 1
    /\ UNCHANGED <<prog, over>>

(* An instruction that reads a register it may not read is rejected there,  *)
(* and the log ends.                                                        *)
Reads(operands) == operands \ {0} \subseteq Readable(Top.regs)

(* Behind an instruction, on its line, or after precision marking on a line *)
(* that begins with the next pc.                                            *)
PrintAfter(kind, regs, shown) ==
    \/ PrintRow(kind, pc, regs, shown)
    \/ PrintRow("PcFullState", pc + 1, regs, shown)

(* New values for the registers in R.                                       *)
Renewed(R) ==
    [r \in Regs |-> IF r \in R THEN [Top.regs[r] EXCEPT !.val = line + 1] ELSE Top.regs[r]]

Write ==
    /\ At("set")
    /\ Reads({prog[pc].src})
    /\ PrintAfter("InsnDeltaState", Renewed({prog[pc].reg}),
                  {prog[pc].reg, prog[pc].src} \ {0})
    /\ pc' = pc + 1
    /\ UNCHANGED <<edge, pending>>

Store ==
    /\ At("store")
    /\ Reads({prog[pc].src})
    /\ PrintAfter("InsnDeltaState", Top.regs, {prog[pc].src} \ {0})
    /\ pc' = pc + 1
    /\ UNCHANGED <<edge, pending>>

Helper ==
    /\ At("helper")
    /\ PrintAfter("InsnDeltaState", [Renewed({R0}) EXCEPT ![R1] = Unreadable], {R0})
    /\ pc' = pc + 1
    /\ UNCHANGED <<edge, pending>>

(* A branch refines registers, its operands and others linked with them;    *)
(* only the operands are printed.  The other side waits.                    *)
Branch ==
    /\ At("if")
    /\ Reads({prog[pc].reg, prog[pc].src})
    /\ pending' = Append(pending, [frames |-> frames, pc |-> prog[pc].to])
    /\ \E refined \in SUBSET Readable(Top.regs) :
          PrintAfter("BranchDeltaState", Renewed(refined),
                     {prog[pc].reg, prog[pc].src} \ {0})
    /\ pc' = pc + 1
    /\ UNCHANGED edge

Goto ==
    /\ At("goto")
    /\ pc' = prog[pc].to
    /\ UNCHANGED <<frames, edge, pending, rows>>

(* The callee starts with the argument only.                                *)
Call ==
    /\ At("call")
    /\ Len(frames) = 1
    /\ frames' = Append(frames, [regs |-> [r \in Regs |-> IF r = R1 THEN Top.regs[R1]
                                                          ELSE Unreadable],
                                 ret |-> pc + 1])
    /\ pc' = prog[pc].to
    /\ edge' = "PcFullState"
    /\ UNCHANGED <<pending, rows>>

Return ==
    /\ Len(frames) > 1
    /\ At("exit")
    /\ frames' = <<[frames[1] EXCEPT !.regs[R0] = Top.regs[R0], !.regs[R1] = Unreadable]>>
    /\ pc' = Top.ret
    /\ edge' = "EdgeFullState"
    /\ UNCHANGED <<pending, rows>>

(* A path ends at the exit of the program, or anywhere in a state that was  *)
(* found safe before; the latest branch that waits is resumed.              *)
EndPath ==
    /\ ~over
    /\ edge = "none"
    /\ (prog[pc].op = "exit" /\ Len(frames) = 1) \/ steps > 0
    /\ IF pending = <<>> THEN over' = TRUE /\ UNCHANGED <<frames, pc, edge, pending>>
       ELSE /\ frames' = pending[Len(pending)].frames
            /\ pc' = pending[Len(pending)].pc
            /\ pending' = SubSeq(pending, 1, Len(pending) - 1)
            /\ edge' = "EdgeFullState"
            /\ UNCHANGED over
    /\ UNCHANGED <<prog, rows, line, steps>>

Next ==
    \/ PrintState
    \/ Write \/ Store \/ Helper \/ Branch \/ Goto \/ Call \/ Return
    \/ EndPath

Spec == Init /\ [][Next]_vars

-----------------------------------------------------------------------------
(* The instruction about to be walked, on the line it would be printed on.  *)
AtInstruction == ~over /\ edge = "none"
instruction == [pc |-> pc, line |-> line + 1]

(* Registers whose latest row is at a pc the window admits.  A jump back    *)
(* leaves the rows of the pcs above its target out of the window.           *)
Followed == {r \in Readable(Top.regs) : Top.regs[r].shown <= pc}

(* No row is left out of the window.                                        *)
AheadOfAllRows == \A i \in DOMAIN rows : rows[i].pc <= pc

(* What is read above an instruction is what the verifier last showed of    *)
(* the path it is on: for every register it can read there and whose latest *)
(* row is in the window, the latest state of the register is the one it was *)
(* last printed with in this frame of this path, whatever other paths,      *)
(* calls and frames the log shows before; only a branch that refined the    *)
(* register without printing it makes that older than the current value.    *)
(* The snapshot of the path has the same value, or, only where a row in the *)
(* form of a full state has left the register out since, none.  A callee's  *)
(* register is never taken for the caller's of the same name.  Nor does the *)
(* snapshot give a value to a register that is unreadable there, but for    *)
(* one a call made unreadable without a row.                                *)
StatesReadAreCurrent ==
    AtInstruction =>
        LET snapshot == verifier_path_snapshot(rows, instruction, 1, Regs) IN
        /\ \A r \in Followed :
              /\ latest_reg_state_before_instruction(rows, instruction, 1, r)
                    = Top.regs[r].seen
              /\ \/ snapshot[r] = Top.regs[r].seen
                 \/ snapshot[r] = NotShown /\ Top.regs[r].dropped
        /\ AheadOfAllRows =>
              \A r \in Regs : Top.regs[r] = Unreadable /\ snapshot[r] # NotShown => r = R1

(* The list without branch rows is out of date only where a branch row      *)
(* showed the register: otherwise it too has what the register was last     *)
(* printed with, rows after precision marking included.                     *)
OnlyRefinementsMissed ==
    AtInstruction =>
        \A r \in Followed :
            LET without == latest_reg_state_before_instruction(
                               WithoutBranchDeltas(rows), instruction, 1, r)
                refined == {rows[i].regs[r] : i \in {j \in DOMAIN rows :
                               rows[j].kind = "BranchDeltaState" /\ r \in DOMAIN rows[j].regs}}
            IN  without = Top.regs[r].seen \/ Top.regs[r].seen \in refined

=============================================================================
