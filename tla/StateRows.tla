----------------------------- MODULE StateRows ------------------------------
(***************************************************************************)
(* Reading register states out of a verifier log (verifier_log.rs).  The   *)
(* parsed states are rows, in the order of the log: each has the pc it is  *)
(* printed with, its log line, the frame, its kind and the registers it    *)
(* shows.  A full row shows a whole state; a delta row only what the       *)
(* instruction on its line changed.  Stack slots are read like registers.  *)
(*                                                                         *)
(* A filtered list of rows keeps the rows at the positions they had.       *)
(***************************************************************************)
EXTENDS Integers, Sequences, FiniteSetsExt, Functions

FullKinds == {"EdgeFullState", "PcFullState"}
DeltaKinds == {"InsnDeltaState", "BranchDeltaState"}

(* NotShown stands for a register without a value in what was read.         *)
NotShown == 0

WithoutBranchDeltas_FullOnly(rows) ==
    Restrict(rows, {i \in DOMAIN rows : rows[i].kind \in FullKinds})

(* The rows of the analysis' second list, without those of branches.        *)
WithoutBranchDeltas(rows) ==
    Restrict(rows, {i \in DOMAIN rows : rows[i].kind # "BranchDeltaState"})

states_in_instruction_window_PcBelow(rows, insn, fragment_start) ==
    Restrict(rows, {i \in DOMAIN rows :
        /\ rows[i].line >= fragment_start /\ rows[i].line < insn.line
        /\ rows[i].pc < insn.pc})

(* The rows of the fragment above an instruction, at pcs not above its own. *)
states_in_instruction_window(rows, insn, fragment_start) ==
    Restrict(rows, {i \in DOMAIN rows :
        /\ rows[i].line >= fragment_start /\ rows[i].line < insn.line
        /\ rows[i].pc <= insn.pc})

(* The value of reg in the last of the rows from first on that shows it.    *)
LastShown(rows, first, reg) ==
    LET showing == {i \in DOMAIN rows : i >= first /\ reg \in DOMAIN rows[i].regs} IN
    IF showing = {} THEN NotShown ELSE rows[Max(showing)].regs[reg]

instruction_frame(rows, insn, fragment_start) ==
    LET window == states_in_instruction_window(rows, insn, fragment_start) IN
    IF DOMAIN window = {} THEN NotShown ELSE window[Max(DOMAIN window)].frame

(* The latest state of a register in the frame the instruction runs in.     *)
latest_reg_state_before_instruction(rows, insn, fragment_start, reg) ==
    LET frame  == instruction_frame(rows, insn, fragment_start)
        window == states_in_instruction_window(rows, insn, fragment_start)
        same   == {i \in DOMAIN window : window[i].frame = frame}
    IN  LastShown(Restrict(window, same), 1, reg)

(* Rows at which the snapshot of a path is begun anew: the first, a full    *)
(* one, or one of another frame than the row before it.                     *)
ResetsPath(window, i) ==
    LET before == {j \in DOMAIN window : j < i} IN
    \/ window[i].kind \in FullKinds
    \/ before = {}
    \/ window[Max(before)].frame # window[i].frame

(* The state of the path: a row that resets it replaces what was collected  *)
(* so far; any other adds to it.                                            *)
verifier_path_snapshot(rows, insn, fragment_start, regs) ==
    LET window == states_in_instruction_window(rows, insn, fragment_start)
        resets == {i \in DOMAIN window : ResetsPath(window, i)}
    IN  [r \in regs |-> IF DOMAIN window = {} THEN NotShown
                        ELSE LastShown(window, Max(resets), r)]

=============================================================================
