-------------------------- MODULE VerifierWalkProofs --------------------------
(***************************************************************************)
(* What verifier_log.rs reads above an instruction is what the verifier    *)
(* last showed of the path it is on, for every program and a walk of any   *)
(* length.                                                                 *)
(*                                                                         *)
(* The argument: entering or leaving a function and resuming a branch are  *)
(* followed by a full row before the next instruction, so the rows from    *)
(* that row on belong to the path and the frame being walked, and among    *)
(* them is the last row that shows a register.  Behind it there is no row  *)
(* in the form of a full state unless the register is marked as dropped.   *)
(***************************************************************************)
EXTENDS VerifierWalk, SequenceTheorems, WellFoundedInduction, TLAPS

-----------------------------------------------------------------------------
(* The inductive invariant.                                                 *)

RegState == [val : Int, seen : Int, shown : Nat, dropped : BOOLEAN]

RegFile == [Regs -> RegState]

Frame == [regs : RegFile, ret : Nat]

RowSet == [pc : Nat, line : Nat, frame : Nat, kind : FullKinds \cup DeltaKinds,
           regs : UNION {[R -> Int] : R \in SUBSET Regs}]

(* One or two frames; the callee returns into the program.                  *)
Stack(fs) ==
    /\ fs \in Seq(Frame)
    /\ Len(fs) = 1 \/ (Len(fs) = 2 /\ fs[2].ret \in DOMAIN prog)

Typed ==
    /\ prog \in Programs
    /\ Stack(frames)
    /\ pc \in DOMAIN prog
    /\ edge \in FullKinds \cup {"none"}
    /\ pending \in Seq([frames : Seq(Frame), pc : Nat])
    /\ \A k \in DOMAIN pending : Stack(pending[k].frames) /\ pending[k].pc \in DOMAIN prog
    /\ line \in Nat
    /\ rows \in Seq(RowSet)
    /\ \A i \in DOMAIN rows : rows[i].line \in 1..line

(* Row i is the last of rs that shows r, as r was last seen; behind it no   *)
(* row has the form of a full state unless r was dropped.                   *)
ShowsLast(rs, i, r, now) ==
    /\ r \in DOMAIN rs[i].regs
    /\ rs[i].regs[r] = now.seen
    /\ rs[i].pc = now.shown
    /\ \A j \in DOMAIN rs : j > i => r \notin DOMAIN rs[j].regs
    /\ ~now.dropped => \A j \in DOMAIN rs : j > i => rs[j].kind \in DeltaKinds

(* The path walked in frame number `depth` with registers regs was begun by *)
(* the full row f.                                                          *)
PathSince(rs, f, depth, regs) ==
    /\ f \in DOMAIN rs
    /\ rs[f].kind \in FullKinds
    /\ \A j \in DOMAIN rs : j >= f => rs[j].frame = depth
    /\ \A r \in Regs : regs[r] # Unreadable =>
          \E i \in DOMAIN rs : i >= f /\ ShowsLast(rs, i, r, regs[r])
    /\ \A r \in Regs \ {R1} : regs[r] = Unreadable =>
          \A j \in DOMAIN rs : j >= f => r \notin DOMAIN rs[j].regs

OnPath(rs, depth, regs) == \E f \in DOMAIN rs : PathSince(rs, f, depth, regs)

Inv ==
    /\ Typed
    /\ AtInstruction => OnPath(rows, Len(frames), Top.regs)

-----------------------------------------------------------------------------
(* The largest of some positions.                                           *)

LEMMA MaxIs ==
    ASSUME NEW S \in SUBSET Int, NEW m \in S, \A y \in S : y <= m
    PROVE  Max(S) = m
<1>1. /\ Max(S) \in S /\ \A y \in S : Max(S) >= y
  BY DEF Max
<1>2. Max(S) \in Int /\ m \in Int /\ Max(S) >= m /\ Max(S) <= m
  BY <1>1
<1>. QED
  BY <1>2

LEMMA MaxExists ==
    ASSUME NEW n \in Nat, NEW S \in SUBSET (1..n), S # {}
    PROVE  Max(S) \in S /\ \A y \in S : y <= Max(S)
<1>. DEFINE less == OpToRel(<, Nat)
            T == {n - x : x \in S}
<1>1. \A x, y \in Nat : x < y => <<x, y>> \in less
  BY DEF OpToRel
<1>2. IsWellFoundedOn(less, Nat)
  BY NatLessThanWellFounded
<1>. HIDE DEF less
<1>3. T \subseteq Nat /\ T # {}
  <2>1. \A x \in S : n - x \in Nat
    OBVIOUS
  <2>2. PICK x \in S : TRUE
    OBVIOUS
  <2>3. n - x \in T
    OBVIOUS
  <2>. QED
    BY <2>1, <2>3
<1>4. PICK x \in T : \A y \in T : ~(<<y, x>> \in less)
  BY <1>2, <1>3, WFMin
<1>5. PICK m \in S : x = n - m
  OBVIOUS
<1>6. ASSUME NEW y \in S
      PROVE  y <= m
  <2>1. n - y \in T /\ n - y \in Nat /\ x \in Nat
    BY <1>3
  <2>2. ~(n - y < x)
    BY <1>1, <1>4, <2>1
  <2>. QED
    BY <1>5, <2>2
<1>7. S \in SUBSET Int
  OBVIOUS
<1>8. Max(S) = m
  BY <1>6, <1>7, MaxIs
<1>. QED
  BY <1>6, <1>8

-----------------------------------------------------------------------------
(* What is read from rows the last of which, from f on, are of one frame.   *)

(* The rows above an instruction.                                           *)
LEMMA Window ==
    ASSUME NEW rs, NEW insn, insn.line \in Nat,
           \A i \in DOMAIN rs : rs[i].line \in 1..(insn.line - 1)
    PROVE  /\ states_in_instruction_window(rs, insn, 1)
                = [i \in {j \in DOMAIN rs : rs[j].pc <= insn.pc} |-> rs[i]]
<1>1. {i \in DOMAIN rs : /\ rs[i].line >= 1 /\ rs[i].line < insn.line
                         /\ rs[i].pc <= insn.pc}
        = {j \in DOMAIN rs : rs[j].pc <= insn.pc}
  OBVIOUS
<1>. QED
  BY <1>1 DEF states_in_instruction_window, Restrict

LEMMA LastShownIs ==
    ASSUME NEW rs, NEW r, NEW first \in Int, DOMAIN rs \subseteq Int,
           NEW i \in DOMAIN rs, i >= first, r \in DOMAIN rs[i].regs,
           \A j \in DOMAIN rs : j > i => r \notin DOMAIN rs[j].regs
    PROVE  LastShown(rs, first, r) = rs[i].regs[r]
<1>. DEFINE showing == {j \in DOMAIN rs : j >= first /\ r \in DOMAIN rs[j].regs}
<1>1. showing \in SUBSET Int /\ i \in showing /\ \A y \in showing : y <= i
  OBVIOUS
<1>. HIDE DEF showing
<1>2. Max(showing) = i
  BY <1>1, MaxIs
<1>3. showing # {}
  BY <1>1
<1>4. LastShown(rs, first, r) = IF showing = {} THEN NotShown ELSE rs[Max(showing)].regs[r]
  BY DEF LastShown, showing
<1>. QED
  BY <1>2, <1>3, <1>4

(* The rows rs, at most n, are above insn.                                   *)
Above(rs, n, insn) ==
    /\ n \in Nat /\ DOMAIN rs \subseteq 1..n
    /\ insn.line \in Nat /\ insn.pc \in Nat
    /\ \A j \in DOMAIN rs : rs[j].line \in 1..(insn.line - 1)

(* Row i is the last to show r, the window admits it, and the frame does    *)
(* not change behind it.                                                    *)
LastRow(rs, insn, depth, r, i) ==
    /\ i \in DOMAIN rs /\ rs[i].pc <= insn.pc /\ r \in DOMAIN rs[i].regs
    /\ \A j \in DOMAIN rs : j >= i => rs[j].frame = depth
    /\ \A j \in DOMAIN rs : j > i => r \notin DOMAIN rs[j].regs

(* The latest state of a register: i is the last row that shows it, and the *)
(* window admits i.                                                         *)
LEMMA LatestIs ==
    ASSUME NEW n, NEW rs, NEW insn, Above(rs, n, insn),
           NEW depth, NEW r, NEW i, LastRow(rs, insn, depth, r, i)
    PROVE  latest_reg_state_before_instruction(rs, insn, 1, r) = rs[i].regs[r]
<1>. USE DEF Above, LastRow
<1>. DEFINE w == states_in_instruction_window(rs, insn, 1)
            same == {j \in DOMAIN w : w[j].frame = depth}
            v == [j \in same |-> w[j]]
<1>0. w = [j \in {k \in DOMAIN rs : rs[k].pc <= insn.pc} |-> rs[j]]
  BY Window
<1>. HIDE DEF w
<1>1. /\ DOMAIN w = {j \in DOMAIN rs : rs[j].pc <= insn.pc}
      /\ \A j \in DOMAIN w : w[j] = rs[j]
  BY <1>0
<1>2. i \in DOMAIN w /\ DOMAIN w \in SUBSET (1..n) /\ DOMAIN w # {}
  BY <1>1
<1>3. Max(DOMAIN w) \in DOMAIN w /\ i <= Max(DOMAIN w)
  BY <1>2, MaxExists
<1>4. w[Max(DOMAIN w)].frame = depth
  BY <1>1, <1>2, <1>3
<1>5. instruction_frame(rs, insn, 1) = depth
  BY <1>2, <1>4 DEF instruction_frame, w
<1>6. latest_reg_state_before_instruction(rs, insn, 1, r) = LastShown(v, 1, r)
  BY <1>5 DEF latest_reg_state_before_instruction, Restrict, w
<1>7. /\ DOMAIN v \subseteq Int /\ i \in DOMAIN v /\ i >= 1 /\ v[i] = rs[i]
      /\ \A j \in DOMAIN v : j \in DOMAIN rs /\ v[j] = rs[j]
  BY <1>1, <1>2
<1>. HIDE DEF v
<1>8. LastShown(v, 1, r) = v[i].regs[r]
  BY <1>7, LastShownIs
<1>. QED
  BY <1>6, <1>7, <1>8

(* No row after one of the path begins it anew.                             *)
LEMMA NoResetAfter ==
    ASSUME NEW n \in Nat, NEW w, DOMAIN w \subseteq 1..n, NEW depth, NEW i \in DOMAIN w,
           \A j \in DOMAIN w : j >= i => w[j].frame = depth,
           \A j \in DOMAIN w : j > i => w[j].kind \in DeltaKinds,
           NEW k \in DOMAIN w, k > i
    PROVE  ~ResetsPath(w, k)
<1>. DEFINE before == {j \in DOMAIN w : j < k}
<1>1. before \in SUBSET (1..n) /\ i \in before /\ before # {}
  OBVIOUS
<1>2. Max(before) \in before /\ i <= Max(before)
  BY <1>1, MaxExists
<1>. DEFINE m == Max(before)
<1>3. m \in DOMAIN w /\ m >= i /\ i \in Int /\ m \in Int
  BY <1>2
<1>. HIDE DEF m
<1>4. w[m].frame = depth /\ w[k].frame = depth
  BY <1>3
<1>5. w[k].kind \notin FullKinds
  BY DEF DeltaKinds, FullKinds
<1>6. ResetsPath(w, k) <=> \/ w[k].kind \in FullKinds
                           \/ before = {}
                           \/ w[m].frame # w[k].frame
  BY DEF ResetsPath, m
<1>. HIDE DEF before
<1>. QED
  BY <1>1, <1>4, <1>5, <1>6

(* The first row of a window begins the path.                               *)
LEMMA FirstResets ==
    ASSUME NEW n \in Nat, NEW w, DOMAIN w \subseteq 1..n, DOMAIN w # {}
    PROVE  \E k \in DOMAIN w : ResetsPath(w, k)
<1>. DEFINE less == OpToRel(<, Nat)
<1>1. \A x, y \in Nat : x < y => <<x, y>> \in less
  BY DEF OpToRel
<1>2. IsWellFoundedOn(less, Nat)
  BY NatLessThanWellFounded
<1>. HIDE DEF less
<1>3. DOMAIN w \subseteq Nat
  OBVIOUS
<1>4. PICK k \in DOMAIN w : \A y \in DOMAIN w : ~(<<y, k>> \in less)
  BY <1>2, <1>3, WFMin
<1>5. {j \in DOMAIN w : j < k} = {}
  BY <1>1, <1>3, <1>4
<1>. QED
  BY <1>5 DEF ResetsPath

(* The snapshot of the path, for a register that a row of the window shows. *)
LEMMA SnapshotIs ==
    ASSUME NEW n, NEW rs, NEW insn, Above(rs, n, insn),
           NEW depth, NEW r \in Regs, NEW i, LastRow(rs, insn, depth, r, i),
           \A j \in DOMAIN rs : j > i => rs[j].kind \in DeltaKinds
    PROVE  verifier_path_snapshot(rs, insn, 1, Regs)[r] = rs[i].regs[r]
<1>. USE DEF Above, LastRow
<1>. DEFINE w == states_in_instruction_window(rs, insn, 1)
            resets == {k \in DOMAIN w : ResetsPath(w, k)}
<1>0. w = [j \in {k \in DOMAIN rs : rs[k].pc <= insn.pc} |-> rs[j]]
  BY Window
<1>1. verifier_path_snapshot(rs, insn, 1, Regs)[r]
        = IF DOMAIN w = {} THEN NotShown ELSE LastShown(w, Max(resets), r)
  BY DEF verifier_path_snapshot
<1>. HIDE DEF w
<1>2. /\ DOMAIN w \subseteq DOMAIN rs /\ DOMAIN w \subseteq 1..n /\ i \in DOMAIN w
      /\ DOMAIN w # {} /\ DOMAIN w \subseteq Int
      /\ \A j \in DOMAIN w : w[j] = rs[j]
  BY <1>0
<1>3. \A k \in DOMAIN w : k > i => ~ResetsPath(w, k)
  BY <1>2, NoResetAfter
<1>4. resets \in SUBSET (1..n) /\ resets # {}
  BY <1>2, FirstResets
<1>5. Max(resets) \in resets
  BY <1>4, MaxExists
<1>6. Max(resets) \in Int /\ i >= Max(resets)
  BY <1>2, <1>3, <1>5
<1>. HIDE DEF resets
<1>7. LastShown(w, Max(resets), r) = w[i].regs[r]
  BY <1>2, <1>6, LastShownIs
<1>. QED
  BY <1>1, <1>2, <1>7

(* When a row in the form of a full state may have followed, the snapshot   *)
(* has that value or none.                                                  *)
LEMMA SnapshotIsOrHides ==
    ASSUME NEW n, NEW rs, NEW insn, Above(rs, n, insn),
           NEW depth, NEW r \in Regs, NEW i, LastRow(rs, insn, depth, r, i)
    PROVE  \/ verifier_path_snapshot(rs, insn, 1, Regs)[r] = rs[i].regs[r]
           \/ verifier_path_snapshot(rs, insn, 1, Regs)[r] = NotShown
<1>. USE DEF Above, LastRow
<1>. DEFINE w == states_in_instruction_window(rs, insn, 1)
            resets == {k \in DOMAIN w : ResetsPath(w, k)}
            m == Max(resets)
<1>0. w = [j \in {k \in DOMAIN rs : rs[k].pc <= insn.pc} |-> rs[j]]
  BY Window
<1>1. verifier_path_snapshot(rs, insn, 1, Regs)[r]
        = IF DOMAIN w = {} THEN NotShown ELSE LastShown(w, m, r)
  BY DEF verifier_path_snapshot
<1>. HIDE DEF w
<1>2. /\ DOMAIN w \subseteq DOMAIN rs /\ DOMAIN w \subseteq 1..n /\ i \in DOMAIN w
      /\ DOMAIN w # {} /\ DOMAIN w \subseteq Int
      /\ \A j \in DOMAIN w : w[j] = rs[j]
  BY <1>0
<1>3. resets \in SUBSET (1..n) /\ resets # {}
  BY <1>2, FirstResets
<1>. HIDE DEF resets
<1>4. m \in Int
  <2>1. m \in resets
    BY ONLY <1>3, n \in Nat, MaxExists DEF m, Above
  <2>. HIDE DEF m
  <2>. QED
    BY <1>3, <2>1
<1>. HIDE DEF m
<1>5. CASE i >= m
  <2>1. LastShown(w, m, r) = w[i].regs[r]
    BY <1>2, <1>4, <1>5, LastShownIs
  <2>. QED
    BY <1>1, <1>2, <2>1
<1>6. CASE ~(i >= m)
  <2>1. \A j \in DOMAIN w : j >= m => j > i
    BY <1>2, <1>4, <1>6
  <2>2. {j \in DOMAIN w : j >= m /\ r \in DOMAIN w[j].regs} = {}
    BY <1>2, <2>1
  <2>3. LastShown(w, m, r) = NotShown
    BY <2>2 DEF LastShown
  <2>. QED
    BY <1>1, <2>3
<1>. QED
  BY <1>5, <1>6

(* And for one that no row since the full row f shows, f in the window.     *)
LEMMA SnapshotHides ==
    ASSUME NEW n \in Nat, NEW rs, DOMAIN rs \subseteq 1..n,
           NEW insn, insn.line \in Nat, insn.pc \in Nat,
           \A j \in DOMAIN rs : rs[j].line \in 1..(insn.line - 1),
           NEW r \in Regs, NEW f \in DOMAIN rs, rs[f].pc <= insn.pc,
           rs[f].kind \in FullKinds,
           \A j \in DOMAIN rs : j >= f => r \notin DOMAIN rs[j].regs
    PROVE  verifier_path_snapshot(rs, insn, 1, Regs)[r] = NotShown
<1>. DEFINE w == states_in_instruction_window(rs, insn, 1)
            resets == {k \in DOMAIN w : ResetsPath(w, k)}
            m == Max(resets)
<1>0. w = [j \in {k \in DOMAIN rs : rs[k].pc <= insn.pc} |-> rs[j]]
  BY Window
<1>1. verifier_path_snapshot(rs, insn, 1, Regs)[r]
        = IF DOMAIN w = {} THEN NotShown ELSE LastShown(w, m, r)
  BY DEF verifier_path_snapshot
<1>. HIDE DEF w
<1>2. /\ DOMAIN w \subseteq DOMAIN rs /\ DOMAIN w \subseteq 1..n /\ f \in DOMAIN w
      /\ DOMAIN w \subseteq Int
      /\ \A j \in DOMAIN w : w[j] = rs[j]
  BY <1>0
<1>3. f \in resets
  BY <1>2 DEF ResetsPath
<1>4. resets \in SUBSET (1..n) /\ resets # {}
  BY <1>2, <1>3
<1>. HIDE DEF resets
<1>5. m \in Int /\ f <= m
  <2>1. m \in resets /\ f <= m
    BY ONLY <1>3, <1>4, n \in Nat, MaxExists DEF m
  <2>. HIDE DEF m
  <2>. QED
    BY <1>4, <2>1
<1>. HIDE DEF m
<1>6. {j \in DOMAIN w : j >= m /\ r \in DOMAIN w[j].regs} = {}
  BY <1>2, <1>5
<1>7. LastShown(w, m, r) = NotShown
  BY <1>6 DEF LastShown
<1>. QED
  BY <1>1, <1>7

-----------------------------------------------------------------------------
(* The invariant says what is read.                                         *)

LEMMA CurrentRows ==
    ASSUME Typed
    PROVE  /\ Len(rows) \in Nat /\ DOMAIN rows = 1..Len(rows)
           /\ \A i \in DOMAIN rows : rows[i] \in RowSet /\ rows[i].pc \in Nat
           /\ instruction.pc = pc /\ instruction.line = line + 1
           /\ pc \in Nat /\ line + 1 \in Nat
           /\ \A i \in DOMAIN rows : rows[i].line \in 1..((line + 1) - 1)
           /\ Len(frames) \in Nat \ {0} /\ DOMAIN frames = 1..Len(frames)
           /\ Top \in Frame /\ Top.regs \in RegFile
<1>1. /\ Len(rows) \in Nat /\ DOMAIN rows = 1..Len(rows)
      /\ \A i \in DOMAIN rows : rows[i] \in RowSet
  BY LenProperties, ElementOfSeq DEF Typed
<1>2. \A i \in DOMAIN rows : rows[i].pc \in Nat
  BY <1>1 DEF RowSet
<1>3. instruction.pc = pc /\ instruction.line = line + 1
  BY DEF instruction
<1>4. pc \in Nat
  <2>1. prog \in Seq(Insn)
    BY ProgramsAssumption DEF Typed
  <2>2. DOMAIN prog = 1..Len(prog) /\ Len(prog) \in Nat
    BY <2>1, LenProperties
  <2>. QED
    BY <2>2 DEF Typed
<1>5. line + 1 \in Nat /\ \A i \in DOMAIN rows : rows[i].line \in 1..((line + 1) - 1)
  BY DEF Typed
<1>6. /\ Len(frames) \in Nat \ {0} /\ DOMAIN frames = 1..Len(frames)
      /\ \A k \in DOMAIN frames : frames[k] \in Frame
  <2>1. frames \in Seq(Frame) /\ (Len(frames) = 1 \/ Len(frames) = 2)
    BY DEF Typed, Stack
  <2>2. DOMAIN frames = 1..Len(frames)
    BY <2>1, LenProperties
  <2>. QED
    BY <2>1, <2>2, ElementOfSeq
<1>7. Top \in Frame /\ Top.regs \in RegFile
  BY <1>6 DEF Top, Frame
<1>. QED
  BY <1>1, <1>2, <1>3, <1>4, <1>5, <1>6, <1>7

LEMMA InvReadsCurrent ==
    ASSUME Inv
    PROVE  StatesReadAreCurrent
<1>. SUFFICES ASSUME AtInstruction
              PROVE  LET snapshot == verifier_path_snapshot(rows, instruction, 1, Regs) IN
                     /\ \A r \in Followed :
                           /\ latest_reg_state_before_instruction(rows, instruction, 1, r)
                                 = Top.regs[r].seen
                           /\ \/ snapshot[r] = Top.regs[r].seen
                              \/ snapshot[r] = NotShown /\ Top.regs[r].dropped
                     /\ AheadOfAllRows =>
                           \A r \in Regs :
                              Top.regs[r] = Unreadable /\ snapshot[r] # NotShown => r = R1
  BY DEF StatesReadAreCurrent
<1>. DEFINE n == Len(rows)
            depth == Len(frames)
            regs == Top.regs
            snapshot == verifier_path_snapshot(rows, instruction, 1, Regs)
<1>1. PICK f \in DOMAIN rows : PathSince(rows, f, depth, regs)
  BY DEF Inv, OnPath
<1>2. /\ n \in Nat /\ DOMAIN rows \subseteq 1..n
      /\ instruction.line \in Nat /\ instruction.pc \in Nat /\ instruction.pc = pc
      /\ \A j \in DOMAIN rows : rows[j].line \in 1..(instruction.line - 1)
      /\ \A j \in DOMAIN rows : rows[j].pc \in Nat
  BY CurrentRows DEF Inv
<1>3. \A r \in Followed : r \in Regs /\ regs[r] # Unreadable /\ regs[r].shown <= pc
  BY DEF Followed, Readable
<1>4. /\ rows[f].kind \in FullKinds
      /\ \A j \in DOMAIN rows : j >= f => rows[j].frame = depth
      /\ f \in Int /\ \A j \in DOMAIN rows : j \in Int
  BY <1>1, <1>2 DEF PathSince
<1>5. ASSUME NEW r \in Followed
      PROVE  /\ latest_reg_state_before_instruction(rows, instruction, 1, r) = regs[r].seen
             /\ \/ snapshot[r] = regs[r].seen
                \/ snapshot[r] = NotShown /\ regs[r].dropped
  <2>1. PICK i \in DOMAIN rows : i >= f /\ ShowsLast(rows, i, r, regs[r])
    BY <1>1, <1>3 DEF PathSince
  <2>2. /\ r \in DOMAIN rows[i].regs /\ rows[i].regs[r] = regs[r].seen
        /\ rows[i].pc <= instruction.pc
        /\ \A j \in DOMAIN rows : j > i => r \notin DOMAIN rows[j].regs
    BY <1>2, <1>3, <2>1 DEF ShowsLast
  <2>3. \A j \in DOMAIN rows : j >= i => rows[j].frame = depth
    BY <1>4, <2>1
  <2>4. r \in Regs
    BY <1>3
  <2>5. Above(rows, n, instruction) /\ LastRow(rows, instruction, depth, r, i)
    BY <1>2, <2>2, <2>3 DEF Above, LastRow
  <2>. HIDE DEF n, depth, regs, snapshot
  <2>6. latest_reg_state_before_instruction(rows, instruction, 1, r) = rows[i].regs[r]
    BY ONLY <2>5, LatestIs
  <2>7. CASE regs[r].dropped
    <3>1. snapshot[r] = rows[i].regs[r] \/ snapshot[r] = NotShown
      BY ONLY <2>4, <2>5, SnapshotIsOrHides DEF snapshot
    <3>. QED
      BY <2>2, <2>6, <2>7, <3>1
  <2>8. CASE ~regs[r].dropped
    <3>1. \A j \in DOMAIN rows : j > i => rows[j].kind \in DeltaKinds
      BY <2>1, <2>8 DEF ShowsLast
    <3>2. snapshot[r] = rows[i].regs[r]
      BY ONLY <2>4, <2>5, <3>1, SnapshotIs DEF snapshot
    <3>. QED
      BY <2>2, <2>6, <3>2
  <2>. QED
    BY <2>7, <2>8
<1>6. ASSUME AheadOfAllRows, NEW r \in Regs, regs[r] = Unreadable, snapshot[r] # NotShown
      PROVE  r = R1
  <2>. SUFFICES ASSUME r # R1
                PROVE  FALSE
    OBVIOUS
  <2>1. \A j \in DOMAIN rows : j >= f => r \notin DOMAIN rows[j].regs
    BY <1>1, <1>6 DEF PathSince
  <2>2. rows[f].pc <= instruction.pc
    BY <1>2, <1>6 DEF AheadOfAllRows
  <2>. HIDE DEF n, depth, regs
  <2>3. snapshot[r] = NotShown
    BY <1>2, <1>4, <2>1, <2>2, SnapshotHides
  <2>. QED
    BY <1>6, <2>3
<1>. QED
  BY <1>5, <1>6

LEMMA InvReadsRefined ==
    ASSUME Inv
    PROVE  OnlyRefinementsMissed
<1>. SUFFICES ASSUME AtInstruction, NEW r \in Followed
              PROVE  LET without == latest_reg_state_before_instruction(
                                        WithoutBranchDeltas(rows), instruction, 1, r)
                         refined == {rows[i].regs[r] : i \in {j \in DOMAIN rows :
                                        rows[j].kind = "BranchDeltaState"
                                          /\ r \in DOMAIN rows[j].regs}}
                     IN  without = Top.regs[r].seen \/ Top.regs[r].seen \in refined
  BY DEF OnlyRefinementsMissed
<1>. DEFINE n == Len(rows)
            depth == Len(frames)
            regs == Top.regs
            kept == WithoutBranchDeltas(rows)
<1>1. PICK f \in DOMAIN rows : PathSince(rows, f, depth, regs)
  BY DEF Inv, OnPath
<1>2. /\ n \in Nat /\ DOMAIN rows \subseteq 1..n
      /\ instruction.line \in Nat /\ instruction.pc \in Nat /\ instruction.pc = pc
      /\ \A j \in DOMAIN rows : rows[j].line \in 1..(instruction.line - 1)
      /\ \A j \in DOMAIN rows : rows[j].pc \in Nat
  BY CurrentRows DEF Inv
<1>3. r \in Regs /\ regs[r] # Unreadable /\ regs[r].shown <= pc
  BY DEF Followed, Readable
<1>4. PICK i \in DOMAIN rows : i >= f /\ ShowsLast(rows, i, r, regs[r])
  BY <1>1, <1>3 DEF PathSince
<1>5. /\ r \in DOMAIN rows[i].regs /\ rows[i].regs[r] = regs[r].seen
      /\ rows[i].pc <= instruction.pc
      /\ \A j \in DOMAIN rows : j > i => r \notin DOMAIN rows[j].regs
  BY <1>2, <1>3, <1>4 DEF ShowsLast
<1>6. \A j \in DOMAIN rows : j >= i => rows[j].frame = depth
  BY <1>1, <1>2, <1>4 DEF PathSince
<1>7. CASE rows[i].kind = "BranchDeltaState"
  BY <1>5, <1>7
<1>8. CASE rows[i].kind # "BranchDeltaState"
  <2>1. /\ DOMAIN kept = {j \in DOMAIN rows : rows[j].kind # "BranchDeltaState"}
        /\ \A j \in DOMAIN kept : kept[j] = rows[j]
    BY DEF WithoutBranchDeltas, Restrict
  <2>. HIDE DEF kept, n, depth, regs
  <2>2. i \in DOMAIN kept /\ kept[i] = rows[i] /\ DOMAIN kept \subseteq DOMAIN rows
    BY <1>8, <2>1
  <2>3. Above(kept, n, instruction)
    BY <1>2, <2>1, <2>2 DEF Above
  <2>4. LastRow(kept, instruction, depth, r, i)
    BY <1>5, <1>6, <2>1, <2>2 DEF LastRow
  <2>5. latest_reg_state_before_instruction(kept, instruction, 1, r) = kept[i].regs[r]
    BY ONLY <2>3, <2>4, LatestIs
  <2>. QED
    BY <1>5, <2>2, <2>5 DEF kept, regs
<1>. QED
  BY <1>7, <1>8

-----------------------------------------------------------------------------
(* Every step keeps the invariant.                                          *)

(* Rows and frames are typed when what is added to them is.                 *)
LEMMA ProgFacts ==
    ASSUME Typed
    PROVE  /\ DOMAIN prog = 1..Len(prog) /\ Len(prog) \in Nat \ {0}
           /\ \A k \in DOMAIN prog : prog[k] \in Insn
           /\ prog[Len(prog)].op \in {"goto", "exit"}
           /\ \A k \in DOMAIN prog :
                 /\ prog[k].op \in {"if", "goto", "call"} => prog[k].to \in DOMAIN prog
                 /\ prog[k].op = "set" => prog[k].reg \in Regs
<1>1. prog \in Seq(Insn) /\ prog # <<>>
  BY ProgramsAssumption DEF Typed
<1>2. DOMAIN prog = 1..Len(prog) /\ Len(prog) \in Nat \ {0}
  BY <1>1, LenProperties, EmptySeq, Zenon
<1>3. \A k \in DOMAIN prog : prog[k] \in Insn
  BY <1>1, <1>2, ElementOfSeq
<1>4. /\ prog[Len(prog)].op \in {"goto", "exit"}
      /\ \A k \in DOMAIN prog :
            /\ prog[k].op \in {"if", "goto", "call"} => prog[k].to \in DOMAIN prog
            /\ prog[k].op = "set" => prog[k].reg \in Regs
  <2>1. prog \in Programs
    BY DEF Typed
  <2>. QED
    BY ONLY <2>1, ProgramsAssumption
<1>. QED
  BY <1>2, <1>3, <1>4

(* An instruction that neither jumps nor exits is followed by another.      *)
LEMMA FallsThrough ==
    ASSUME Typed, prog[pc].op \in {"set", "store", "helper", "if", "call"}
    PROVE  pc + 1 \in DOMAIN prog
<1>1. pc \in 1..Len(prog) /\ Len(prog) \in Nat
  BY ProgFacts DEF Typed
<1>2. prog[Len(prog)].op \in {"goto", "exit"} /\ DOMAIN prog = 1..Len(prog)
  BY ProgFacts
<1>3. pc # Len(prog)
  <2>1. \A x \in {"set", "store", "helper", "if", "call"} : x \notin {"goto", "exit"}
    OBVIOUS
  <2>. QED
    BY ONLY <1>2, <2>1, Typed, prog[pc].op \in {"set", "store", "helper", "if", "call"}
<1>4. \A n \in Nat : \A k \in 1..n : k # n => k + 1 \in 1..n
  OBVIOUS
<1>. QED
  BY ONLY <1>1, <1>2, <1>3, <1>4, Zenon

(* A row appended to the rows.                                              *)
LEMMA AppendedRow ==
    ASSUME Typed, NEW row \in RowSet, row.line = line + 1
    PROVE  /\ Append(rows, row) \in Seq(RowSet)
           /\ DOMAIN Append(rows, row) = 1..(Len(rows) + 1)
           /\ \A i \in DOMAIN rows : Append(rows, row)[i] = rows[i]
           /\ Append(rows, row)[Len(rows) + 1] = row
           /\ \A i \in DOMAIN Append(rows, row) : Append(rows, row)[i].line \in 1..(line + 1)
<1>1. rows \in Seq(RowSet) /\ Len(rows) \in Nat /\ DOMAIN rows = 1..Len(rows)
  BY LenProperties DEF Typed
<1>2. /\ Append(rows, row) \in Seq(RowSet)
      /\ Len(Append(rows, row)) = Len(rows) + 1
      /\ \A i \in 1..Len(rows) : Append(rows, row)[i] = rows[i]
      /\ Append(rows, row)[Len(rows) + 1] = row
  BY <1>1, AppendProperties
<1>3. DOMAIN Append(rows, row) = 1..(Len(rows) + 1)
  BY <1>2, LenProperties
<1>4. line \in Nat /\ \A i \in DOMAIN rows : rows[i].line \in 1..line
  BY DEF Typed
<1>5. \A i \in DOMAIN Append(rows, row) : i \in DOMAIN rows \/ i = Len(rows) + 1
  BY <1>1, <1>3
<1>6. \A i \in DOMAIN Append(rows, row) : Append(rows, row)[i].line \in 1..(line + 1)
  BY <1>1, <1>2, <1>4, <1>5
<1>. QED
  BY <1>1, <1>2, <1>3, <1>6

(* The rows that are printed.                                               *)
LEMMA PrintedRow ==
    ASSUME Typed, NEW kind \in FullKinds \cup DeltaKinds, NEW at \in Nat,
           NEW regs \in RegFile, NEW shown \in SUBSET Regs
    PROVE  LET row == Row(kind, at, regs, shown) IN
           /\ row \in RowSet
           /\ row.line = line + 1 /\ row.pc = at /\ row.frame = Len(frames)
           /\ row.kind = kind
           /\ DOMAIN row.regs = shown
           /\ \A r \in shown : row.regs[r] = regs[r].val
<1>. DEFINE vals == [r \in shown |-> regs[r].val]
            row == Row(kind, at, regs, shown)
<1>1. vals \in [shown -> Int]
  BY DEF RegFile, RegState
<1>2. vals \in UNION {[R -> Int] : R \in SUBSET Regs}
  BY <1>1
<1>3. DOMAIN vals = shown /\ \A r \in shown : vals[r] = regs[r].val
  OBVIOUS
<1>4. row = [pc |-> at, line |-> line + 1, frame |-> Len(frames), kind |-> kind,
             regs |-> vals]
  BY DEF Row
<1>. HIDE DEF vals
<1>5. line + 1 \in Nat /\ Len(frames) \in Nat
  BY CurrentRows
<1>. HIDE DEF row
<1>6. row \in RowSet
  BY <1>2, <1>4, <1>5 DEF RowSet
<1>7. /\ row.line = line + 1 /\ row.pc = at /\ row.frame = Len(frames)
      /\ row.kind = kind /\ row.regs = vals
  BY <1>4
<1>8. /\ row \in RowSet
      /\ row.line = line + 1 /\ row.pc = at /\ row.frame = Len(frames)
      /\ row.kind = kind
      /\ DOMAIN row.regs = shown
      /\ \A r \in shown : row.regs[r] = regs[r].val
  BY <1>3, <1>6, <1>7
<1>. QED
  BY <1>8 DEF row

(* And the registers after it.                                              *)
LEMMA PrintedRegs ==
    ASSUME NEW kind \in FullKinds \cup DeltaKinds, NEW at \in Nat \ {0},
           NEW regs \in RegFile, NEW shown \in SUBSET Regs
    PROVE  LET now == Printed(kind, at, regs, shown) IN
           /\ now \in RegFile
           /\ \A r \in shown : /\ now[r] # Unreadable
                                /\ now[r].seen = regs[r].val /\ now[r].shown = at
           /\ \A r \in Regs \ shown : regs[r] = Unreadable <=> now[r] = Unreadable
           /\ \A r \in Regs \ shown : regs[r] # Unreadable =>
                 /\ now[r].seen = regs[r].seen /\ now[r].shown = regs[r].shown
                 /\ ~now[r].dropped => ~regs[r].dropped /\ kind \in DeltaKinds
<1>. DEFINE now == Printed(kind, at, regs, shown)
<1>1. ASSUME NEW r \in shown
      PROVE  now[r] = [val |-> regs[r].val, seen |-> regs[r].val, shown |-> at,
                       dropped |-> FALSE]
  BY DEF Printed
<1>2. ASSUME NEW r \in shown
      PROVE  /\ now[r] \in RegState /\ now[r] # Unreadable
             /\ now[r].seen = regs[r].val /\ now[r].shown = at
  <2>. HIDE DEF now
  <2>1. regs[r].val \in Int
    BY DEF RegFile, RegState
  <2>2. now[r] = [val |-> regs[r].val, seen |-> regs[r].val, shown |-> at,
                  dropped |-> FALSE]
    BY <1>1
  <2>3. now[r].shown = at /\ now[r].seen = regs[r].val
    BY ONLY <2>2
  <2>4. Unreadable.shown = 0
    BY DEF Unreadable
  <2>5. now[r] \in RegState
    BY <2>1, <2>2 DEF RegState
  <2>. QED
    BY <2>3, <2>4, <2>5
<1>3. ASSUME NEW r \in Regs \ shown, regs[r] = Unreadable
      PROVE  now[r] = Unreadable /\ now[r] \in RegState
  BY <1>3 DEF Printed, RegFile
<1>4. ASSUME NEW r \in Regs \ shown, regs[r] # Unreadable
      PROVE  /\ now[r] \in RegState /\ now[r] # Unreadable
             /\ now[r].seen = regs[r].seen /\ now[r].shown = regs[r].shown
             /\ ~now[r].dropped => ~regs[r].dropped /\ kind \in DeltaKinds
  <2>1. regs[r] \in RegState
    BY DEF RegFile
  <2>2. now[r] = [regs[r] EXCEPT !.dropped = regs[r].dropped \/ kind \in FullKinds]
    BY <1>4 DEF Printed
  <2>3. /\ now[r].val = regs[r].val /\ now[r].seen = regs[r].seen
        /\ now[r].shown = regs[r].shown
        /\ now[r].dropped = (regs[r].dropped \/ kind \in FullKinds)
        /\ now[r] \in RegState
    BY <2>1, <2>2 DEF RegState
  <2>4. ~now[r].dropped => ~regs[r].dropped /\ kind \in DeltaKinds
    BY <2>3
  <2>5. now[r] # Unreadable
    <3>. SUFFICES ASSUME now[r] = Unreadable
                  PROVE  FALSE
      OBVIOUS
    <3>1. /\ now[r].val = NotShown /\ now[r].seen = NotShown /\ now[r].shown = 0
          /\ now[r].dropped = FALSE
      BY DEF Unreadable
    <3>2. regs[r].dropped = FALSE
      BY <2>1, <2>3, <3>1 DEF RegState
    <3>. QED
      BY <1>4, <2>1, <2>3, <3>1, <3>2 DEF RegState, Unreadable
  <2>. QED
    BY <2>3, <2>4, <2>5
<1>5. now \in RegFile
  <2>1. \A r \in Regs : now[r] \in RegState
    BY <1>2, <1>3, <1>4
  <2>. QED
    BY <2>1 DEF RegFile, Printed
<1>. HIDE DEF now
<1>6. /\ now \in RegFile
      /\ \A r \in shown : /\ now[r] # Unreadable
                           /\ now[r].seen = regs[r].val /\ now[r].shown = at
      /\ \A r \in Regs \ shown : regs[r] = Unreadable <=> now[r] = Unreadable
      /\ \A r \in Regs \ shown : regs[r] # Unreadable =>
            /\ now[r].seen = regs[r].seen /\ now[r].shown = regs[r].shown
            /\ ~now[r].dropped => ~regs[r].dropped /\ kind \in DeltaKinds
  BY <1>2, <1>3, <1>4, <1>5
<1>. QED
  BY <1>6 DEF now

(* A full row begins the path.                                              *)
LEMMA FullRowBegins ==
    ASSUME Typed, NEW row \in RowSet, row.line = line + 1, row.kind \in FullKinds,
           NEW regs \in RegFile,
           DOMAIN row.regs = {r \in Regs : regs[r] # Unreadable},
           \A r \in DOMAIN row.regs : row.regs[r] = regs[r].seen /\ row.pc = regs[r].shown
    PROVE  OnPath(Append(rows, row), row.frame, regs)
<1>. DEFINE rs == Append(rows, row)
            f == Len(rows) + 1
<1>1. Len(rows) \in Nat /\ DOMAIN rs = 1..f /\ rs[f] = row
  BY AppendedRow, CurrentRows
<1>. HIDE DEF rs
<1>2. f \in DOMAIN rs /\ \A j \in DOMAIN rs : j >= f => j = f
  BY <1>1
<1>3. \A j \in DOMAIN rs : ~(j > f)
  BY <1>1
<1>4. f >= f
  BY <1>1
<1>. HIDE DEF f
<1>5. \A r \in Regs : regs[r] # Unreadable => ShowsLast(rs, f, r, regs[r])
  BY <1>1, <1>3 DEF ShowsLast
<1>6. \A r \in Regs : regs[r] = Unreadable =>
          \A j \in DOMAIN rs : j >= f => r \notin DOMAIN rs[j].regs
  BY <1>1, <1>2
<1>7. PathSince(rs, f, row.frame, regs)
  BY <1>1, <1>2, <1>3, <1>4, <1>5, <1>6 DEF PathSince
<1>. QED
  BY <1>2, <1>7 DEF OnPath, rs

(* A row printed for an instruction continues it.                           *)
LEMMA RowContinues ==
    ASSUME Typed, NEW old \in RegFile, NEW regs \in RegFile,
           NEW row \in RowSet, row.line = line + 1,
           OnPath(rows, row.frame, old),
           DOMAIN row.regs \subseteq Regs,
           \A r \in DOMAIN row.regs : /\ regs[r] # Unreadable
                                      /\ row.regs[r] = regs[r].seen
                                      /\ row.pc = regs[r].shown,
           \A r \in Regs \ DOMAIN row.regs : regs[r] # Unreadable =>
              /\ old[r] # Unreadable
              /\ regs[r].seen = old[r].seen /\ regs[r].shown = old[r].shown
              /\ ~regs[r].dropped => ~old[r].dropped /\ row.kind \in DeltaKinds,
           \A r \in Regs \ {R1} : regs[r] = Unreadable => old[r] = Unreadable
    PROVE  OnPath(Append(rows, row), row.frame, regs)
<1>. DEFINE rs == Append(rows, row)
            l == Len(rows) + 1
<1>1. PICK f \in DOMAIN rows : PathSince(rows, f, row.frame, old)
  BY DEF OnPath
<1>2. /\ Len(rows) \in Nat /\ DOMAIN rs = 1..l /\ rs[l] = row /\ DOMAIN rows = 1..Len(rows)
      /\ \A i \in DOMAIN rows : rs[i] = rows[i]
  BY AppendedRow, CurrentRows
<1>. HIDE DEF rs
<1>3. /\ f \in DOMAIN rs /\ l \in DOMAIN rs /\ l >= f /\ l > f
      /\ \A j \in DOMAIN rs : j \in DOMAIN rows \/ j = l
      /\ \A j \in DOMAIN rows : j \in DOMAIN rs
      /\ \A j \in DOMAIN rs : ~(j > l)
  BY <1>2
<1>. HIDE DEF l
<1>4. rs[f].kind \in FullKinds
  BY <1>1, <1>2 DEF PathSince
<1>5. \A j \in DOMAIN rs : j >= f => rs[j].frame = row.frame
  BY <1>1, <1>2, <1>3 DEF PathSince
<1>7. ASSUME NEW r \in Regs, regs[r] # Unreadable
      PROVE  \E i \in DOMAIN rs : i >= f /\ ShowsLast(rs, i, r, regs[r])
  <2>1. CASE r \in DOMAIN row.regs
    <3>1. ShowsLast(rs, l, r, regs[r])
      BY <1>2, <1>3, <2>1 DEF ShowsLast
    <3>. QED
      BY <1>3, <3>1
  <2>2. CASE r \notin DOMAIN row.regs
    <3>1. /\ old[r] # Unreadable
          /\ regs[r].seen = old[r].seen /\ regs[r].shown = old[r].shown
          /\ ~regs[r].dropped => ~old[r].dropped /\ row.kind \in DeltaKinds
      BY <1>7, <2>2
    <3>2. PICK i \in DOMAIN rows : i >= f /\ ShowsLast(rows, i, r, old[r])
      BY <1>1, <3>1 DEF PathSince
    <3>3. \A j \in DOMAIN rs : j > i => r \notin DOMAIN rs[j].regs
      BY <1>2, <1>3, <2>2, <3>2 DEF ShowsLast
    <3>4. ~regs[r].dropped => \A j \in DOMAIN rs : j > i => rs[j].kind \in DeltaKinds
      BY <1>2, <1>3, <3>1, <3>2 DEF ShowsLast
    <3>5. ShowsLast(rs, i, r, regs[r])
      BY <1>2, <3>1, <3>2, <3>3, <3>4 DEF ShowsLast
    <3>. QED
      BY <1>3, <3>2, <3>5
  <2>. QED
    BY <2>1, <2>2
<1>8. ASSUME NEW r \in Regs \ {R1}, regs[r] = Unreadable, NEW j \in DOMAIN rs, j >= f
      PROVE  r \notin DOMAIN rs[j].regs
  <2>1. r \notin DOMAIN row.regs /\ old[r] = Unreadable
    BY <1>8
  <2>2. CASE j = l
    BY <1>2, <2>1, <2>2
  <2>3. CASE j \in DOMAIN rows
    BY <1>1, <1>2, <1>8, <2>1, <2>3 DEF PathSince
  <2>. QED
    BY <1>3, <2>2, <2>3
<1>9. PathSince(rs, f, row.frame, regs)
  BY <1>3, <1>4, <1>5, <1>7, <1>8 DEF PathSince
<1>. QED
  BY <1>3, <1>9 DEF OnPath, rs

(* The frames with other registers in the one that runs.                    *)
LEMMA NewTop ==
    ASSUME Typed, NEW regs \in RegFile, NEW fs,
           fs = [frames EXCEPT ![Len(frames)].regs = regs]
    PROVE  Stack(fs) /\ Len(fs) = Len(frames) /\ fs[Len(fs)].regs = regs
<1>1. /\ frames \in Seq(Frame) /\ Len(frames) \in Nat \ {0} /\ DOMAIN frames = 1..Len(frames)
      /\ \A k \in 1..Len(frames) : frames[k] \in Frame
      /\ (Len(frames) = 1 \/ (Len(frames) = 2 /\ frames[2].ret \in DOMAIN prog))
  BY CurrentRows, ElementOfSeq DEF Typed, Stack
<1>2. Len(frames) \in 1..Len(frames)
  BY <1>1
<1>. DEFINE l == Len(frames)
            top == [frames[l] EXCEPT !.regs = regs]
<1>3. fs = [frames EXCEPT ![l] = top]
  OBVIOUS
<1>4. top \in Frame /\ top.regs = regs /\ top.ret = frames[l].ret
  BY <1>1, <1>2 DEF Frame
<1>. HIDE DEF top
<1>5. fs \in Seq(Frame) /\ Len(fs) = l
  BY <1>1, <1>2, <1>3, <1>4, ExceptSeq
<1>6. fs[l] = top /\ \A k \in 1..l : k # l => fs[k] = frames[k]
  BY <1>1, <1>2, <1>3
<1>7. l = 2 => fs[2].ret = frames[2].ret
  BY <1>4, <1>6
<1>. QED
  BY <1>1, <1>4, <1>5, <1>6, <1>7 DEF Stack

-----------------------------------------------------------------------------
(* The steps, one lemma each.                                               *)

LEMMA InitInv ==
    ASSUME Init
    PROVE  Inv
<1>. DEFINE regs0 == [r \in Regs |-> IF r = R1 THEN [Unreadable EXCEPT !.val = -1]
                                    ELSE Unreadable]
            frame0 == [regs |-> regs0, ret |-> 0]
<1>1. regs0 \in RegFile
  <2>1. Unreadable \in RegState
    BY DEF Unreadable, RegState, NotShown
  <2>2. [Unreadable EXCEPT !.val = -1] \in RegState
    BY <2>1 DEF RegState
  <2>. QED
    BY <2>1, <2>2 DEF RegFile
<1>2. frame0 \in Frame
  BY <1>1 DEF Frame
<1>. HIDE DEF frame0
<1>3. frames = <<frame0>>
  BY DEF Init, frame0
<1>4. frames \in Seq(Frame) /\ Len(frames) = 1
  BY <1>2, <1>3
<1>5. 1 \in DOMAIN prog
  <2>1. prog \in Seq(Insn) /\ prog # <<>>
    BY ProgramsAssumption DEF Init
  <2>2. DOMAIN prog = 1..Len(prog) /\ Len(prog) \in Nat \ {0}
    BY <2>1, LenProperties, EmptySeq, Zenon
  <2>. QED
    BY <2>2
<1>6. rows = <<>> /\ pending = <<>> /\ line = 0 /\ pc = 1 /\ edge = "PcFullState"
  BY DEF Init
<1>7. rows \in Seq(RowSet) /\ DOMAIN rows = {}
  BY <1>6
<1>8. pending \in Seq([frames : Seq(Frame), pc : Nat]) /\ DOMAIN pending = {}
  BY <1>6
<1>9. Typed
  BY <1>4, <1>5, <1>6, <1>7, <1>8 DEF Typed, Stack, Init, FullKinds
<1>10. ~AtInstruction
  BY <1>6 DEF AtInstruction
<1>. QED
  BY <1>9, <1>10 DEF Inv

(* What a step leaves of the types, with the parts it does not change.      *)
LEMMA TypedAfter ==
    ASSUME Typed, prog' = prog,
           Stack(frames'), pc' \in DOMAIN prog, edge' \in FullKinds \cup {"none"},
           pending' \in Seq([frames : Seq(Frame), pc : Nat]),
           \A k \in DOMAIN pending' :
              Stack(pending'[k].frames) /\ pending'[k].pc \in DOMAIN prog,
           line' \in Nat, rows' \in Seq(RowSet),
           \A i \in DOMAIN rows' : rows'[i].line \in 1..line'
    PROVE  Typed'
  BY DEF Typed, Stack

(* The rows printed before stay above the lines printed later.              *)
LEMMA OlderRows ==
    ASSUME Typed, rows' = rows, line' = line + 1
    PROVE  /\ line' \in Nat /\ rows' \in Seq(RowSet)
           /\ \A i \in DOMAIN rows' : rows'[i].line \in 1..line'
<1>1. line \in Nat /\ rows \in Seq(RowSet) /\ \A i \in DOMAIN rows : rows[i].line \in 1..line
  BY DEF Typed
<1>2. \A m \in Nat : \A k \in 1..m : k \in 1..(m + 1)
  OBVIOUS
<1>. QED
  BY <1>1, <1>2

LEMMA PrintStateInv ==
    ASSUME Inv, PrintState
    PROVE  Inv'
<1>. USE DEF Inv
<1>. DEFINE regs == Printed(edge, pc, Top.regs, Readable(Top.regs))
            row == Row(edge, pc, Top.regs, Readable(Top.regs))
<1>1. Top.regs \in RegFile /\ pc \in Nat \ {0} /\ pc \in Nat
  <2>1. Top.regs \in RegFile
    BY CurrentRows
  <2>2. pc \in Nat /\ pc # 0
    BY ProgFacts DEF Typed
  <2>. QED
    BY <2>1, <2>2
<1>2. edge \in FullKinds /\ edge \in FullKinds \cup DeltaKinds
  BY DEF PrintState, Typed
<1>3. Readable(Top.regs) \in SUBSET Regs
  BY DEF Readable
<1>4. /\ row \in RowSet /\ row.line = line + 1 /\ row.pc = pc /\ row.frame = Len(frames)
      /\ row.kind = edge
      /\ DOMAIN row.regs = Readable(Top.regs)
      /\ \A r \in Readable(Top.regs) : row.regs[r] = Top.regs[r].val
  <2>. DEFINE now == Top.regs
              shown == Readable(now)
  <2>1. Typed /\ now \in RegFile /\ shown \in SUBSET Regs
    BY <1>1, <1>3
  <2>. HIDE DEF Inv, now, shown
  <2>2. LET printed == Row(edge, pc, now, shown) IN
        /\ printed \in RowSet
        /\ printed.line = line + 1 /\ printed.pc = pc /\ printed.frame = Len(frames)
        /\ printed.kind = edge
        /\ DOMAIN printed.regs = shown
        /\ \A r \in shown : printed.regs[r] = now[r].val
    BY <2>1, <1>1, <1>2, PrintedRow
  <2>. QED
    BY <2>2 DEF now, shown
<1>5. /\ regs \in RegFile
      /\ \A r \in Readable(Top.regs) : /\ regs[r] # Unreadable
                                        /\ regs[r].seen = Top.regs[r].val /\ regs[r].shown = pc
      /\ \A r \in Regs \ Readable(Top.regs) : Top.regs[r] = Unreadable <=> regs[r] = Unreadable
  BY <1>1, <1>2, <1>3, PrintedRegs
<1>6. /\ rows' = Append(rows, row) /\ line' = line + 1
      /\ frames' = [frames EXCEPT ![Len(frames)].regs = regs]
  BY DEF PrintState, PrintRow
<1>. HIDE DEF row, regs
<1>7. DOMAIN row.regs = {r \in Regs : regs[r] # Unreadable}
  BY <1>4, <1>5 DEF Readable
<1>8. \A r \in DOMAIN row.regs : row.regs[r] = regs[r].seen /\ row.pc = regs[r].shown
  BY <1>4, <1>5
<1>9. Stack(frames') /\ Len(frames') = Len(frames) /\ frames'[Len(frames')].regs = regs
  BY <1>5, <1>6, NewTop
<1>10. Typed'
  <2>1. /\ rows' \in Seq(RowSet)
        /\ \A i \in DOMAIN rows' : rows'[i].line \in 1..line'
    BY <1>4, <1>6, AppendedRow
  <2>2. line' \in Nat
    BY <1>6 DEF Typed
  <2>. QED
    BY <1>9, <2>1, <2>2, TypedAfter DEF Typed, PrintState
<1>11. OnPath(rows', row.frame, regs)
  BY <1>2, <1>4, <1>5, <1>6, <1>7, <1>8, FullRowBegins
<1>12. OnPath(rows, Len(frames), Top.regs)'
  BY <1>4, <1>9, <1>11 DEF Top, OnPath, PathSince, ShowsLast
<1>. QED
  BY <1>10, <1>12

(* What an instruction may do to a register it does not show.               *)
Kept(now, old) ==
    /\ now # Unreadable /\ old # Unreadable
    /\ now.seen = old.seen /\ now.shown = old.shown /\ now.dropped = old.dropped

Gone(r, now, old) == now = Unreadable /\ (r = R1 \/ old = Unreadable)

Unshown(regs, shown) ==
    \A r \in Regs \ shown : Kept(regs[r], Top.regs[r]) \/ Gone(r, regs[r], Top.regs[r])

(* A row behind an instruction, in either form, continues the path.         *)
LEMMA PrintKeeps ==
    ASSUME Typed, OnPath(rows, Len(frames), Top.regs), line' = line + 1,
           NEW kind \in FullKinds \cup DeltaKinds, NEW at \in Nat \ {0},
           NEW regs \in RegFile, NEW shown \in SUBSET Regs,
           PrintRow(kind, at, regs, shown), Unshown(regs, shown)
    PROVE  /\ Stack(frames') /\ line' \in Nat /\ rows' \in Seq(RowSet)
           /\ \A i \in DOMAIN rows' : rows'[i].line \in 1..line'
           /\ OnPath(rows', Len(frames'), frames'[Len(frames')].regs)
<1>. DEFINE row == Row(kind, at, regs, shown)
            now == Printed(kind, at, regs, shown)
<1>1. /\ row \in RowSet /\ row.line = line + 1 /\ row.pc = at /\ row.frame = Len(frames)
      /\ row.kind = kind
      /\ DOMAIN row.regs = shown
      /\ \A r \in shown : row.regs[r] = regs[r].val
  BY PrintedRow
<1>2. /\ now \in RegFile
      /\ \A r \in shown : /\ now[r] # Unreadable
                           /\ now[r].seen = regs[r].val /\ now[r].shown = at
      /\ \A r \in Regs \ shown : regs[r] = Unreadable <=> now[r] = Unreadable
      /\ \A r \in Regs \ shown : regs[r] # Unreadable =>
            /\ now[r].seen = regs[r].seen /\ now[r].shown = regs[r].shown
            /\ ~now[r].dropped => ~regs[r].dropped /\ kind \in DeltaKinds
  BY PrintedRegs
<1>3. rows' = Append(rows, row) /\ frames' = [frames EXCEPT ![Len(frames)].regs = now]
  BY DEF PrintRow
<1>. HIDE DEF row, now
<1>4. Stack(frames') /\ Len(frames') = Len(frames) /\ frames'[Len(frames')].regs = now
  <2>1. now \in RegFile
    BY <1>2
  <2>2. frames' = [frames EXCEPT ![Len(frames)].regs = now]
    BY <1>3
  <2>. QED
    BY <2>1, <2>2, NewTop
<1>5. /\ rows' \in Seq(RowSet) /\ line' \in Nat
      /\ \A i \in DOMAIN rows' : rows'[i].line \in 1..line'
  BY <1>1, <1>3, AppendedRow DEF Typed
<1>6. Top.regs \in RegFile
  BY CurrentRows
<1>7. \A r \in DOMAIN row.regs : /\ now[r] # Unreadable
                                 /\ row.regs[r] = now[r].seen
                                 /\ row.pc = now[r].shown
  BY <1>1, <1>2
<1>8. ASSUME NEW r \in Regs \ DOMAIN row.regs, now[r] # Unreadable
      PROVE  /\ Top.regs[r] # Unreadable
             /\ now[r].seen = Top.regs[r].seen /\ now[r].shown = Top.regs[r].shown
             /\ ~now[r].dropped => ~Top.regs[r].dropped /\ row.kind \in DeltaKinds
  <2>1. r \in Regs \ shown /\ regs[r] # Unreadable
    BY <1>1, <1>2, <1>8
  <2>2. Kept(regs[r], Top.regs[r])
    BY <2>1 DEF Unshown, Gone
  <2>. QED
    BY <1>1, <1>2, <2>1, <2>2 DEF Kept
<1>9. ASSUME NEW r \in Regs \ {R1}, now[r] = Unreadable
      PROVE  Top.regs[r] = Unreadable
  <2>1. r \in Regs \ shown /\ regs[r] = Unreadable
    BY <1>2, <1>9
  <2>. QED
    BY <2>1 DEF Unshown, Kept, Gone
<1>10. OnPath(Append(rows, row), row.frame, now)
  BY <1>1, <1>2, <1>6, <1>7, <1>8, <1>9, RowContinues
<1>. QED
  BY <1>1, <1>3, <1>4, <1>5, <1>10

LEMMA PrintAfterKeeps ==
    ASSUME Typed, OnPath(rows, Len(frames), Top.regs), line' = line + 1,
           NEW kind \in DeltaKinds, NEW regs \in RegFile, NEW shown \in SUBSET Regs,
           PrintAfter(kind, regs, shown), Unshown(regs, shown)
    PROVE  /\ Stack(frames') /\ line' \in Nat /\ rows' \in Seq(RowSet)
           /\ \A i \in DOMAIN rows' : rows'[i].line \in 1..line'
           /\ OnPath(rows', Len(frames'), frames'[Len(frames')].regs)
<1>1. pc \in Nat \ {0} /\ pc + 1 \in Nat \ {0}
  BY ProgFacts DEF Typed
<1>2. kind \in FullKinds \cup DeltaKinds /\ "PcFullState" \in FullKinds \cup DeltaKinds
  BY DEF FullKinds
<1>3. CASE PrintRow(kind, pc, regs, shown)
  BY <1>1, <1>2, <1>3, PrintKeeps
<1>4. CASE PrintRow("PcFullState", pc + 1, regs, shown)
  BY <1>1, <1>2, <1>4, PrintKeeps
<1>. QED
  BY <1>3, <1>4 DEF PrintAfter

(* Registers with new values are still there, and seen as before.           *)
LEMMA RenewedIs ==
    ASSUME Typed, NEW R \in SUBSET Regs
    PROVE  /\ Renewed(R) \in RegFile
           /\ \A r \in Regs \ R : Renewed(R)[r] = Top.regs[r]
           /\ \A r \in R : Top.regs[r] # Unreadable => Kept(Renewed(R)[r], Top.regs[r])
<1>1. Top.regs \in RegFile /\ line + 1 \in Int /\ line + 1 # 0
  BY CurrentRows DEF Typed
<1>2. \A r \in Regs \ R : Renewed(R)[r] = Top.regs[r]
  BY DEF Renewed
<1>3. ASSUME NEW r \in R
      PROVE  /\ Renewed(R)[r] \in RegState
             /\ Top.regs[r] # Unreadable => Kept(Renewed(R)[r], Top.regs[r])
  <2>1. Top.regs[r] \in RegState
    BY <1>1 DEF RegFile
  <2>2. Renewed(R)[r] = [Top.regs[r] EXCEPT !.val = line + 1]
    BY DEF Renewed
  <2>3. /\ Renewed(R)[r] \in RegState /\ Renewed(R)[r].val = line + 1
        /\ Renewed(R)[r].seen = Top.regs[r].seen /\ Renewed(R)[r].shown = Top.regs[r].shown
        /\ Renewed(R)[r].dropped = Top.regs[r].dropped
    BY <1>1, <2>1, <2>2 DEF RegState
  <2>4. Renewed(R)[r] # Unreadable
    BY <1>1, <2>3 DEF Unreadable, NotShown
  <2>. QED
    BY <2>3, <2>4 DEF Kept
<1>4. Renewed(R) \in RegFile
  <2>1. \A r \in Regs : Renewed(R)[r] \in RegState
    BY <1>1, <1>2, <1>3 DEF RegFile
  <2>. QED
    BY <2>1 DEF RegFile, Renewed
<1>. QED
  BY <1>2, <1>3, <1>4

(* A register that is left as it is is kept, or was unreadable.             *)
LEMMA SameIs ==
    ASSUME NEW r, NEW now, now = Top.regs[r]
    PROVE  Kept(now, Top.regs[r]) \/ Gone(r, now, Top.regs[r])
  BY DEF Kept, Gone

(* A straight-line step keeps the invariant with what it printed.           *)
LEMMA StepInv ==
    ASSUME Inv, Typed, prog' = prog, pc' \in DOMAIN prog, edge' = edge, pending' = pending,
           Stack(frames'), line' \in Nat, rows' \in Seq(RowSet),
           \A i \in DOMAIN rows' : rows'[i].line \in 1..line',
           OnPath(rows', Len(frames'), frames'[Len(frames')].regs)
    PROVE  Inv'
<1>1. Typed'
  BY TypedAfter DEF Typed
<1>2. OnPath(rows, Len(frames), Top.regs)'
  BY DEF Top, OnPath, PathSince, ShowsLast
<1>. QED
  BY <1>1, <1>2 DEF Inv

(* An instruction's register operands are registers.                        *)
LEMMA OperandsAre ==
    ASSUME Typed
    PROVE  /\ prog[pc].src \in Regs \cup {0} /\ prog[pc].reg \in Regs \cup {0}
           /\ ({prog[pc].reg, prog[pc].src} \ {0}) \in SUBSET Regs
           /\ ({prog[pc].src} \ {0}) \in SUBSET Regs
<1>1. prog[pc] \in Insn
  BY ProgFacts DEF Typed
<1>2. prog[pc].src \in Regs \cup {0} /\ prog[pc].reg \in Regs \cup {0}
  BY <1>1 DEF Insn
<1>. QED
  BY <1>2

LEMMA WriteInv ==
    ASSUME Inv, Write
    PROVE  Inv'
<1>. DEFINE r0 == prog[pc].reg
            shown == {prog[pc].reg, prog[pc].src} \ {0}
<1>1. Typed /\ OnPath(rows, Len(frames), Top.regs) /\ line' = line + 1
  BY DEF Inv, Write, At, AtInstruction
<1>2. r0 \in Regs /\ pc + 1 \in DOMAIN prog
  BY <1>1, ProgFacts, FallsThrough DEF Write, At, Typed
<1>3. shown \in SUBSET Regs /\ r0 \in shown
  <2>1. r0 # 0
    BY <1>2 DEF Regs
  <2>. QED
    BY <1>1, <2>1, OperandsAre
<1>4. Renewed({r0}) \in RegFile /\ \A r \in Regs \ {r0} : Renewed({r0})[r] = Top.regs[r]
  BY <1>1, <1>2, RenewedIs
<1>5. PrintAfter("InsnDeltaState", Renewed({r0}), shown)
  BY DEF Write
<1>. HIDE DEF r0, shown
<1>6. Unshown(Renewed({r0}), shown)
  BY <1>3, <1>4, SameIs DEF Unshown
<1>7. /\ Stack(frames') /\ line' \in Nat /\ rows' \in Seq(RowSet)
      /\ \A i \in DOMAIN rows' : rows'[i].line \in 1..line'
      /\ OnPath(rows', Len(frames'), frames'[Len(frames')].regs)
  BY <1>1, <1>3, <1>4, <1>5, <1>6, PrintAfterKeeps DEF DeltaKinds
<1>8. prog' = prog /\ pc' = pc + 1 /\ edge' = edge /\ pending' = pending
  BY DEF Write, At
<1>. QED
  BY <1>1, <1>2, <1>7, <1>8, StepInv

LEMMA StoreInv ==
    ASSUME Inv, Store
    PROVE  Inv'
<1>. DEFINE shown == {prog[pc].src} \ {0}
<1>1. Typed /\ OnPath(rows, Len(frames), Top.regs) /\ line' = line + 1
  BY DEF Inv, Store, At, AtInstruction
<1>2. pc + 1 \in DOMAIN prog
  BY <1>1, FallsThrough DEF Store, At
<1>3. shown \in SUBSET Regs
  BY <1>1, OperandsAre
<1>4. Top.regs \in RegFile
  BY <1>1, CurrentRows
<1>5. PrintAfter("InsnDeltaState", Top.regs, shown)
  BY DEF Store
<1>. HIDE DEF shown
<1>6. Unshown(Top.regs, shown)
  BY SameIs DEF Unshown
<1>7. /\ Stack(frames') /\ line' \in Nat /\ rows' \in Seq(RowSet)
      /\ \A i \in DOMAIN rows' : rows'[i].line \in 1..line'
      /\ OnPath(rows', Len(frames'), frames'[Len(frames')].regs)
  BY <1>1, <1>3, <1>4, <1>5, <1>6, PrintAfterKeeps DEF DeltaKinds
<1>8. prog' = prog /\ pc' = pc + 1 /\ edge' = edge /\ pending' = pending
  BY DEF Store, At
<1>. QED
  BY <1>1, <1>2, <1>7, <1>8, StepInv

LEMMA HelperInv ==
    ASSUME Inv, Helper
    PROVE  Inv'
<1>. DEFINE new == Renewed({R0})
            regs == [new EXCEPT ![R1] = Unreadable]
<1>1. Typed /\ OnPath(rows, Len(frames), Top.regs) /\ line' = line + 1
  BY DEF Inv, Helper, At, AtInstruction
<1>2. pc + 1 \in DOMAIN prog
  BY <1>1, FallsThrough DEF Helper, At
<1>3. {R0} \in SUBSET Regs /\ R1 \in Regs /\ R1 # R0
  BY DEF Regs, R0, R1
<1>4. new \in RegFile /\ \A r \in Regs \ {R0} : new[r] = Top.regs[r]
  BY <1>1, <1>3, RenewedIs
<1>5. PrintAfter("InsnDeltaState", regs, {R0})
  BY DEF Helper
<1>. HIDE DEF new
<1>6. /\ regs \in RegFile /\ regs[R1] = Unreadable
      /\ \A r \in Regs \ {R0, R1} : regs[r] = Top.regs[r]
  <2>1. Unreadable \in RegState
    BY DEF Unreadable, RegState, NotShown
  <2>. QED
    BY <1>3, <1>4, <2>1 DEF RegFile
<1>. HIDE DEF regs
<1>7. Unshown(regs, {R0})
  <2>. SUFFICES ASSUME NEW r \in Regs \ {R0}
                PROVE  Kept(regs[r], Top.regs[r]) \/ Gone(r, regs[r], Top.regs[r])
    BY DEF Unshown
  <2>1. CASE r = R1
    BY <1>6, <2>1 DEF Gone
  <2>2. CASE r # R1
    BY <1>6, <2>2, SameIs
  <2>. QED
    BY <2>1, <2>2
<1>8. /\ Stack(frames') /\ line' \in Nat /\ rows' \in Seq(RowSet)
      /\ \A i \in DOMAIN rows' : rows'[i].line \in 1..line'
      /\ OnPath(rows', Len(frames'), frames'[Len(frames')].regs)
  BY <1>1, <1>3, <1>5, <1>6, <1>7, PrintAfterKeeps DEF DeltaKinds
<1>9. prog' = prog /\ pc' = pc + 1 /\ edge' = edge /\ pending' = pending
  BY DEF Helper, At
<1>. QED
  BY <1>1, <1>2, <1>8, <1>9, StepInv

LEMMA BranchInv ==
    ASSUME Inv, Branch
    PROVE  Inv'
<1>. DEFINE shown == {prog[pc].reg, prog[pc].src} \ {0}
            item == [frames |-> frames, pc |-> prog[pc].to]
<1>1. Typed /\ OnPath(rows, Len(frames), Top.regs) /\ line' = line + 1
  BY DEF Inv, Branch, At, AtInstruction
<1>2. pc + 1 \in DOMAIN prog /\ prog[pc].to \in DOMAIN prog
  BY <1>1, ProgFacts, FallsThrough DEF Branch, At, Typed
<1>4. /\ pending' \in Seq([frames : Seq(Frame), pc : Nat])
      /\ \A k \in DOMAIN pending' :
            Stack(pending'[k].frames) /\ pending'[k].pc \in DOMAIN prog
  <2>1. /\ pending \in Seq([frames : Seq(Frame), pc : Nat])
        /\ \A k \in DOMAIN pending :
              Stack(pending[k].frames) /\ pending[k].pc \in DOMAIN prog
        /\ Stack(frames) /\ frames \in Seq(Frame)
    BY <1>1 DEF Typed, Stack
  <2>2. prog[pc].to \in Nat
    BY <1>1, <1>2, ProgFacts
  <2>3. item \in [frames : Seq(Frame), pc : Nat]
    BY <2>1, <2>2
  <2>4. Stack(item.frames) /\ item.pc \in DOMAIN prog
    BY <1>2, <2>1
  <2>5. pending' = Append(pending, item)
    BY DEF Branch
  <2>. HIDE DEF item
  <2>6. /\ pending' \in Seq([frames : Seq(Frame), pc : Nat])
        /\ Len(pending) \in Nat /\ DOMAIN pending = 1..Len(pending)
        /\ DOMAIN pending' = 1..(Len(pending) + 1)
        /\ pending'[Len(pending) + 1] = item
        /\ \A k \in 1..Len(pending) : pending'[k] = pending[k]
    <3>1. /\ pending' \in Seq([frames : Seq(Frame), pc : Nat])
          /\ Len(pending') = Len(pending) + 1
          /\ pending'[Len(pending) + 1] = item
          /\ \A k \in 1..Len(pending) : pending'[k] = pending[k]
      BY <2>1, <2>3, <2>5, AppendProperties
    <3>. QED
      BY <2>1, <3>1, LenProperties
  <2>7. \A k \in DOMAIN pending' : k \in DOMAIN pending \/ k = Len(pending) + 1
    BY <2>6
  <2>. QED
    BY <2>1, <2>4, <2>6, <2>7
<1>5. prog' = prog /\ pc' = pc + 1 /\ edge' = edge
  BY DEF Branch, At
<1>6. /\ Stack(frames') /\ line' \in Nat /\ rows' \in Seq(RowSet)
      /\ \A i \in DOMAIN rows' : rows'[i].line \in 1..line'
      /\ OnPath(rows', Len(frames'), frames'[Len(frames')].regs)
  <2>1. PICK refined \in SUBSET Readable(Top.regs) :
           PrintAfter("BranchDeltaState", Renewed(refined), shown)
    BY DEF Branch
  <2>2. refined \in SUBSET Regs /\ \A r \in refined : Top.regs[r] # Unreadable
    BY DEF Readable
  <2>3. shown \in SUBSET Regs
    BY <1>1, OperandsAre
  <2>4. /\ Renewed(refined) \in RegFile
        /\ \A r \in Regs \ refined : Renewed(refined)[r] = Top.regs[r]
        /\ \A r \in refined : Kept(Renewed(refined)[r], Top.regs[r])
    BY <1>1, <2>2, RenewedIs
  <2>. HIDE DEF shown
  <2>5. Unshown(Renewed(refined), shown)
    BY <2>4, SameIs DEF Unshown
  <2>. QED
    BY <1>1, <2>1, <2>3, <2>4, <2>5, PrintAfterKeeps DEF DeltaKinds
<1>7. Typed'
  BY <1>1, <1>2, <1>4, <1>5, <1>6, TypedAfter DEF Typed
<1>8. OnPath(rows, Len(frames), Top.regs)'
  BY <1>6 DEF Top, OnPath, PathSince, ShowsLast
<1>. QED
  BY <1>7, <1>8 DEF Inv

LEMMA GotoInv ==
    ASSUME Inv, Goto
    PROVE  Inv'
<1>1. /\ Typed /\ OnPath(rows, Len(frames), Top.regs) /\ line' = line + 1
      /\ prog' = prog /\ frames' = frames /\ edge' = edge /\ pending' = pending /\ rows' = rows
  BY DEF Inv, Goto, At, AtInstruction
<1>2. pc' \in DOMAIN prog
  BY <1>1, ProgFacts DEF Goto, At, Typed
<1>3. Typed'
  BY <1>1, <1>2, OlderRows, TypedAfter DEF Typed
<1>4. OnPath(rows, Len(frames), Top.regs)'
  BY <1>1 DEF Top, OnPath, PathSince, ShowsLast
<1>. QED
  BY <1>3, <1>4 DEF Inv

(* After a call, a return or the end of a path a full state is due.         *)
LEMMA CallInv ==
    ASSUME Inv, Call
    PROVE  Inv'
<1>. DEFINE regs == [r \in Regs |-> IF r = R1 THEN Top.regs[R1] ELSE Unreadable]
            callee == [regs |-> regs, ret |-> pc + 1]
<1>1. /\ Typed /\ line' = line + 1 /\ Len(frames) = 1
      /\ prog' = prog /\ pending' = pending /\ rows' = rows /\ edge' = "PcFullState"
  BY DEF Inv, Call, At
<1>2. pc + 1 \in DOMAIN prog /\ pc' \in DOMAIN prog
  BY <1>1, ProgFacts, FallsThrough DEF Call, At, Typed
<1>3. Top.regs \in RegFile /\ pc \in Nat
  BY <1>1, CurrentRows
<1>4. regs \in RegFile
  BY <1>3 DEF RegFile, RegState, Unreadable, NotShown, Regs, R1
<1>5. callee \in Frame /\ callee.ret = pc + 1
  BY <1>3, <1>4 DEF Frame
<1>6. frames' = Append(frames, callee)
  BY DEF Call
<1>. HIDE DEF callee
<1>7. frames \in Seq(Frame)
  BY <1>1 DEF Typed, Stack
<1>8. /\ frames' \in Seq(Frame) /\ Len(frames') = Len(frames) + 1
      /\ frames'[Len(frames) + 1] = callee
  BY <1>5, <1>6, <1>7, AppendProperties
<1>9. Stack(frames')
  BY <1>1, <1>2, <1>5, <1>8 DEF Stack
<1>10. Typed'
  BY <1>1, <1>2, <1>9, OlderRows, TypedAfter DEF Typed, FullKinds
<1>11. ~AtInstruction'
  BY <1>1 DEF AtInstruction
<1>. QED
  BY <1>10, <1>11 DEF Inv

LEMMA ReturnInv ==
    ASSUME Inv, Return
    PROVE  Inv'
<1>. DEFINE caller == [frames[1] EXCEPT !.regs[R0] = Top.regs[R0], !.regs[R1] = Unreadable]
<1>1. /\ Typed /\ line' = line + 1 /\ Len(frames) > 1
      /\ prog' = prog /\ pending' = pending /\ rows' = rows /\ edge' = "EdgeFullState"
  BY DEF Inv, Return, At
<1>2. /\ frames \in Seq(Frame) /\ Len(frames) = 2 /\ frames[2].ret \in DOMAIN prog
  BY <1>1 DEF Typed, Stack
<1>3. frames[1] \in Frame /\ Top.regs \in RegFile /\ Unreadable \in RegState
  <2>1. 1 \in 1..Len(frames)
    BY <1>2
  <2>2. frames[1] \in Frame
    BY ONLY <1>2, <2>1, ElementOfSeq
  <2>. QED
    BY <1>1, <2>2, CurrentRows DEF Unreadable, RegState, NotShown
<1>4. caller \in Frame
  <2>1. R0 \in Regs /\ R1 \in Regs
    BY DEF R0, R1, Regs
  <2>2. frames[1].regs \in RegFile /\ Top.regs[R0] \in RegState
    BY <1>3, <2>1 DEF Frame, RegFile
  <2>3. [frames[1].regs EXCEPT ![R0] = Top.regs[R0], ![R1] = Unreadable] \in RegFile
    BY <1>3, <2>1, <2>2 DEF RegFile
  <2>4. caller = [frames[1] EXCEPT !.regs =
                     [frames[1].regs EXCEPT ![R0] = Top.regs[R0], ![R1] = Unreadable]]
    BY <1>3 DEF Frame
  <2>. QED
    BY <1>3, <2>3, <2>4 DEF Frame
<1>5. frames' = <<caller>> /\ pc' = Top.ret
  BY DEF Return
<1>. HIDE DEF caller
<1>6. Stack(frames')
  BY <1>4, <1>5 DEF Stack
<1>7. pc' \in DOMAIN prog
  <2>1. Top = frames[2]
    BY ONLY <1>2 DEF Top
  <2>. QED
    BY ONLY <1>2, <1>5, <2>1
<1>8. Typed'
  BY <1>1, <1>6, <1>7, OlderRows, TypedAfter DEF Typed, FullKinds
<1>9. ~AtInstruction'
  BY <1>1 DEF AtInstruction
<1>. QED
  BY <1>8, <1>9 DEF Inv

LEMMA EndPathInv ==
    ASSUME Inv, EndPath
    PROVE  Inv'
<1>1. /\ Typed /\ prog' = prog /\ rows' = rows /\ line' = line
  BY DEF Inv, EndPath
<1>2. CASE pending = <<>>
  <2>1. over' = TRUE /\ frames' = frames /\ pc' = pc /\ edge' = edge /\ pending' = pending
    BY <1>2 DEF EndPath
  <2>2. Typed'
    BY <1>1, <2>1, TypedAfter DEF Typed
  <2>3. ~AtInstruction'
    BY <2>1 DEF AtInstruction
  <2>. QED
    BY <2>2, <2>3 DEF Inv
<1>3. CASE pending # <<>>
  <2>. DEFINE l == Len(pending)
              Item == [frames : Seq(Frame), pc : Nat]
  <2>1. /\ pending \in Seq(Item)
        /\ \A k \in DOMAIN pending :
              Stack(pending[k].frames) /\ pending[k].pc \in DOMAIN prog
    BY <1>1 DEF Typed
  <2>2. l \in Nat \ {0} /\ DOMAIN pending = 1..l
    <3>. HIDE DEF Item
    <3>. QED
      BY <1>3, <2>1, LenProperties, EmptySeq, Zenon
  <2>3. /\ frames' = pending[l].frames /\ pc' = pending[l].pc
        /\ pending' = SubSeq(pending, 1, l - 1) /\ edge' = "EdgeFullState"
    BY <1>3 DEF EndPath
  <2>. HIDE DEF l, Item
  <2>4. Stack(frames') /\ pc' \in DOMAIN prog
    BY <2>1, <2>2, <2>3
  <2>5. /\ pending' \in Seq(Item)
        /\ \A k \in DOMAIN pending' : k \in DOMAIN pending /\ pending'[k] = pending[k]
    <3>1. \A i \in 1..(l - 1) : pending[i] \in Item
      <4>1. \A i \in 1..(l - 1) : i \in 1..l
        BY <2>2
      <4>. QED
        BY <2>1, <4>1, ElementOfSeq DEF l
    <3>2. /\ pending' \in Seq(Item)
          /\ Len(pending') = IF 1 <= l - 1 THEN (l - 1) - 1 + 1 ELSE 0
          /\ \A i \in 1..((l - 1) - 1 + 1) : pending'[i] = pending[1 + i - 1]
      BY <2>2, <2>3, <3>1, SubSeqProperties
    <3>3. Len(pending') = l - 1
      BY <2>2, <3>2
    <3>4. DOMAIN pending' = 1..(l - 1)
      BY <3>2, <3>3, LenProperties
    <3>. QED
      BY <2>2, <3>2, <3>4
  <2>6. Typed'
    <3>1. /\ pending' \in Seq([frames : Seq(Frame), pc : Nat])
          /\ \A k \in DOMAIN pending' :
                Stack(pending'[k].frames) /\ pending'[k].pc \in DOMAIN prog
      BY <2>1, <2>5 DEF Item
    <3>2. edge' \in FullKinds \cup {"none"}
      BY <2>3 DEF FullKinds
    <3>. QED
      BY <1>1, <2>4, <3>1, <3>2, TypedAfter DEF Typed
  <2>7. ~AtInstruction'
    BY <2>3 DEF AtInstruction
  <2>. QED
    BY <2>6, <2>7 DEF Inv
<1>. QED
  BY <1>2, <1>3

LEMMA StutterInv ==
    ASSUME Inv, UNCHANGED vars
    PROVE  Inv'
BY DEF Inv, vars, Typed, Stack, AtInstruction, Top, OnPath, PathSince, ShowsLast

-----------------------------------------------------------------------------
(* Theorems.                                                                *)

(* The walk and its log keep the inductive invariant: the rows from the     *)
(* full row that began the path on are those of the path and the frame      *)
(* being walked.                                                            *)
THEOREM InvHolds == Spec => []Inv
<1>1. Init => Inv
  BY InitInv
<1>2. Inv /\ [Next]_vars => Inv'
  BY PrintStateInv, WriteInv, StoreInv, HelperInv, BranchInv, GotoInv, CallInv, ReturnInv,
     EndPathInv, StutterInv DEF Next
<1>. QED
  BY <1>1, <1>2, PTL DEF Spec

(* For every program and a walk of any length: the latest state of a        *)
(* register that verifier_log.rs reads above an instruction is what the     *)
(* verifier last showed of it on the path it is on, across branches, calls  *)
(* and returns; the snapshot of the path has the same value, or none where  *)
(* a row after precision marking left the register out, and it hides        *)
(* registers not written.                                                   *)
THEOREM ReadsCurrent == Spec => []StatesReadAreCurrent
<1>1. Inv => StatesReadAreCurrent
  BY InvReadsCurrent
<1>. QED
  BY <1>1, InvHolds, PTL

(* For every program and a walk of any length: reading without the rows of  *)
(* branches misses no more than what a branch row showed of the register.   *)
THEOREM MissesOnlyRefinements == Spec => []OnlyRefinementsMissed
<1>1. Inv => OnlyRefinementsMissed
  BY InvReadsRefined
<1>. QED
  BY <1>1, InvHolds, PTL

=============================================================================
