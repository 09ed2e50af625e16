-------------------------- MODULE ProgramCFGProofs --------------------------
(***************************************************************************)
(* Theorems about ProgramCFG, and about the batches of PassBatch, for      *)
(* every set of programs, every choice of operations and every bound.  The *)
(* lemmas about the operators of BpfProgram come first: ranks in finite    *)
(* orders, sorted sequences, renumbering after a removal, and the shape of *)
(* a lifted program.                                                       *)
(***************************************************************************)
EXTENDS PassBatch, FiniteSetTheorems, SequenceTheorems, TLAPS

-----------------------------------------------------------------------------
(* Ranks.                                                                   *)

(* A total order on a finite set, given by the set down[x] of elements up   *)
(* to x: every number from 1 to the size of the set is the rank of some     *)
(* element.                                                                 *)
LEMMA RankOnto ==
    ASSUME NEW S, IsFiniteSet(S), NEW down \in [S -> SUBSET S],
           \A x \in S : x \in down[x],
           \A x, y \in S : x \in down[y] \/ y \in down[x],
           \A x, y \in S : x \in down[y] /\ y \in down[x] => x = y,
           \A x, y \in S : x \in down[y] => down[x] \subseteq down[y]
    PROVE  \A k \in 1..Cardinality(S) : \E x \in S : Cardinality(down[x]) = k
<1>. DEFINE n == Cardinality(S)
            rank == [x \in S |-> Cardinality(down[x])]
<1>1. n \in Nat
  BY FS_CardinalityType
<1>2. ASSUME NEW x \in S
      PROVE  IsFiniteSet(down[x]) /\ Cardinality(down[x]) \in 1..n
  <2>1. IsFiniteSet(down[x]) /\ Cardinality(down[x]) <= n
    BY FS_Subset
  <2>2. Cardinality(down[x]) \in Nat
    BY <2>1, FS_CardinalityType
  <2>3. Cardinality(down[x]) # 0
    BY <2>1, FS_EmptySet
  <2>. QED
    BY <1>1, <2>1, <2>2, <2>3
<1>3. ASSUME NEW x \in S, NEW y \in S, x \in down[y], x # y
      PROVE  Cardinality(down[x]) # Cardinality(down[y])
  <2>1. down[x] \in SUBSET down[y] /\ y \in down[y] /\ y \notin down[x]
    BY <1>3
  <2>2. Cardinality(down[y]) = Cardinality(down[x]) => down[y] = down[x]
    BY <1>2, <2>1, FS_Subset
  <2>. QED
    BY <2>1, <2>2
<1>4. rank \in [S -> 1..n]
  BY <1>2
<1>5. \A x, y \in S : rank[x] = rank[y] => x = y
  BY <1>3
<1>6. rank \in Injection(S, 1..n)
  BY <1>4, <1>5 DEF Injection, IsInjective
<1>7. IsFiniteSet(1..n) /\ Cardinality(1..n) = n
  BY <1>1, FS_Interval
<1>8. rank \in Surjection(S, 1..n)
  BY <1>6, <1>7, FS_Injection
<1>. QED
  BY <1>8 DEF Surjection

(* The elements of a finite set of numbers, in order.                       *)
LEMMA KthElement ==
    ASSUME NEW S \in SUBSET Int, IsFiniteSet(S), NEW k \in 1..Cardinality(S)
    PROVE  Kth(S, k) \in S /\ Cardinality({t \in S : t <= Kth(S, k)}) = k
<1>. DEFINE down == [s \in S |-> {t \in S : t <= s}]
<1>1. down \in [S -> SUBSET S]
  OBVIOUS
<1>2. \A x \in S : down[x] = {t \in S : t <= x}
  OBVIOUS
<1>. HIDE DEF down
<1>3. \A x, y \in S : x \in down[y] <=> x <= y
  BY <1>2
<1>4. PICK x \in S : Cardinality(down[x]) = k
  <2>0. \A x \in S : x <= x
    OBVIOUS
  <2>1. \A x \in S : x \in down[x]
    BY ONLY <1>3, <2>0
  <2>2. \A x, y \in S : x \in down[y] \/ y \in down[x]
    BY <1>3
  <2>3. \A x, y \in S : x \in down[y] /\ y \in down[x] => x = y
    BY <1>3
  <2>4. \A x, y \in S : x \in down[y] => down[x] \subseteq down[y]
    <3>. SUFFICES ASSUME NEW x \in S, NEW y \in S, x \in down[y], NEW t \in down[x]
                  PROVE  t \in down[y]
      OBVIOUS
    <3>. QED
      BY <1>1, <1>3
  <2>5. \A j \in 1..Cardinality(S) : \E x \in S : Cardinality(down[x]) = j
    BY ONLY IsFiniteSet(S), <1>1, <2>1, <2>2, <2>3, <2>4, RankOnto
  <2>. QED
    BY <2>5
<1>5. Cardinality({t \in S : t <= x}) = k
  BY <1>2, <1>4
<1>. QED
  BY <1>5 DEF Kth

(* An element is found under its rank.                                      *)
LEMMA KthOfRank ==
    ASSUME NEW S \in SUBSET Int, IsFiniteSet(S), NEW x \in S
    PROVE  /\ Cardinality({t \in S : t <= x}) \in 1..Cardinality(S)
           /\ Kth(S, Cardinality({t \in S : t <= x})) = x
<1>. DEFINE Upto(y) == {t \in S : t <= y}
            k == Cardinality(Upto(x))
            z == Kth(S, k)
<1>1. \A y : IsFiniteSet(Upto(y)) /\ Cardinality(Upto(y)) <= Cardinality(S)
  BY FS_Subset
<1>2. k \in 1..Cardinality(S)
  <2>1. x \in Upto(x)
    OBVIOUS
  <2>2. k \in Nat /\ k # 0
    BY <1>1, <2>1, FS_CardinalityType, FS_EmptySet
  <2>3. Cardinality(S) \in Nat
    BY FS_CardinalityType
  <2>. QED
    BY <1>1, <2>2, <2>3
<1>3. z \in S /\ Cardinality(Upto(z)) = k
  <2>. HIDE DEF k
  <2>. QED
    BY <1>2, KthElement
<1>. HIDE DEF z, k
<1>4. Upto(z) = Upto(x)
  <2>0. IsFiniteSet(Upto(x)) /\ IsFiniteSet(Upto(z)) /\ Cardinality(Upto(x)) = Cardinality(Upto(z))
    BY <1>1, <1>3 DEF k
  <2>1. ASSUME NEW y \in S, NEW w \in S, y <= w
        PROVE  Upto(y) \in SUBSET Upto(w)
    <3>. SUFFICES ASSUME NEW t \in S, t <= y PROVE t <= w
      OBVIOUS
    <3>1. t \in Int /\ y \in Int /\ w \in Int
      OBVIOUS
    <3>. QED
      BY <2>1, <3>1
  <2>2. z <= x \/ x <= z
    BY <1>3
  <2>3. Upto(z) \in SUBSET Upto(x) \/ Upto(x) \in SUBSET Upto(z)
    BY <1>3, <2>1, <2>2
  <2>. HIDE DEF Upto
  <2>. QED
    BY <2>0, <2>3, FS_Subset
<1>5. z \in Upto(x) /\ x \in Upto(z)
  <2>1. z \in Upto(z) /\ x \in Upto(x)
    BY <1>3
  <2>. QED
    BY <1>4, <2>1
<1>6. z = x
  BY <1>3, <1>5
<1>. QED
  BY <1>2, <1>6 DEF z, k

LEMMA SortedSeqType ==
    ASSUME NEW S \in SUBSET Int, IsFiniteSet(S)
    PROVE  /\ SortedSeq(S) \in Seq(S)
           /\ Len(SortedSeq(S)) = Cardinality(S)
           /\ DOMAIN SortedSeq(S) = 1..Cardinality(S)
           /\ \A k \in 1..Cardinality(S) : SortedSeq(S)[k] = Kth(S, k)
<1>1. Cardinality(S) \in Nat
  BY FS_CardinalityType
<1>2. SortedSeq(S) \in [1..Cardinality(S) -> S]
  BY KthElement DEF SortedSeq
<1>. QED
  BY <1>1, <1>2 DEF SortedSeq

(* A sorted sequence increases.                                             *)
LEMMA SortedSeqIncreases ==
    ASSUME NEW S \in SUBSET Int, IsFiniteSet(S),
           NEW j \in 1..Cardinality(S), NEW k \in 1..Cardinality(S), j < k
    PROVE  SortedSeq(S)[j] < SortedSeq(S)[k]
<1>. DEFINE x == Kth(S, j)
            y == Kth(S, k)
<1>1. SortedSeq(S)[j] = x /\ SortedSeq(S)[k] = y
  BY SortedSeqType
<1>2. /\ x \in S /\ Cardinality({t \in S : t <= x}) = j
      /\ y \in S /\ Cardinality({t \in S : t <= y}) = k
  BY KthElement
<1>. HIDE DEF x, y
<1>3. ASSUME y <= x PROVE FALSE
  <2>1. {t \in S : t <= y} \in SUBSET {t \in S : t <= x}
    <3>. SUFFICES ASSUME NEW t \in S, t <= y PROVE t <= x
      OBVIOUS
    <3>1. t \in Int /\ y \in Int /\ x \in Int
      BY <1>2
    <3>. QED
      BY <1>3, <3>1
  <2>2. IsFiniteSet({t \in S : t <= x})
    BY FS_Subset
  <2>3. Cardinality({t \in S : t <= y}) <= Cardinality({t \in S : t <= x})
    BY <2>1, <2>2, FS_Subset
  <2>4. Cardinality(S) \in Nat
    BY FS_CardinalityType
  <2>. QED
    BY <1>2, <2>3, <2>4
<1>4. x \in Int /\ y \in Int
  BY <1>2
<1>. QED
  BY <1>1, <1>3, <1>4

-----------------------------------------------------------------------------
(* Sequences.                                                               *)

LEMMA FunctionIsSeq ==
    ASSUME NEW S, NEW n \in Nat, NEW f \in [1..n -> S]
    PROVE  f \in Seq(S) /\ Len(f) = n /\ DOMAIN f = 1..n
OBVIOUS

LEMMA SeqIsFunction ==
    ASSUME NEW S, NEW s \in Seq(S)
    PROVE  /\ Len(s) \in Nat
           /\ DOMAIN s = 1..Len(s)
           /\ s \in [1..Len(s) -> S]
           /\ \A i \in 1..Len(s) : s[i] \in S
BY LenProperties, ElementOfSeq

-----------------------------------------------------------------------------
(* Renumbering after a removal.                                             *)

(* The blocks up to b split into the removed ones below b and the kept ones *)
(* up to b, so the new number of a kept block is its rank among the kept.   *)
LEMMA RemovalRank ==
    ASSUME NEW n \in Nat, NEW R \in SUBSET (1..n), NEW b \in (1..n) \ R
    PROVE  /\ IsFiniteSet((1..n) \ R)
           /\ b - Cardinality({r \in R : r < b}) \in 1..Cardinality((1..n) \ R)
           /\ b - Cardinality({r \in R : r < b}) = Cardinality({k \in (1..n) \ R : k <= b})
<1>. DEFINE kept == (1..n) \ R
            below == {r \in R : r < b}
            upto == {k \in kept : k <= b}
<1>1. IsFiniteSet(1..n) /\ IsFiniteSet(1..b) /\ Cardinality(1..b) = b
  BY FS_Interval
<1>2. IsFiniteSet(kept) /\ IsFiniteSet(below) /\ IsFiniteSet(upto)
  <2>1. kept \in SUBSET (1..n) /\ below \in SUBSET (1..n) /\ upto \in SUBSET (1..n)
    OBVIOUS
  <2>. QED
    BY <1>1, <2>1, FS_Subset
<1>3. below \cup upto = 1..b /\ below \cap upto = {}
  <2>1. ASSUME NEW x \in below \cup upto
        PROVE  x \in 1..b
    <3>1. x \in 1..n /\ x <= b
      OBVIOUS
    <3>. QED
      BY <3>1
  <2>2. ASSUME NEW x \in 1..b
        PROVE  x \in below \cup upto
    <3>1. x \in 1..n
      OBVIOUS
    <3>2. CASE x \in R
      <4>1. x # b
        BY <3>2
      <4>2. x < b
        BY <4>1
      <4>. QED
        BY <3>2, <4>2
    <3>3. CASE x \notin R
      BY <3>1, <3>3
    <3>. QED
      BY <3>2, <3>3
  <2>3. \A x : ~(x \in below /\ x \in upto)
    OBVIOUS
  <2>. HIDE DEF below, upto
  <2>. QED
    BY <2>1, <2>2, <2>3
<1>4. upto \in SUBSET kept /\ upto # {}
  <2>1. b \in upto
    OBVIOUS
  <2>. QED
    BY <2>1
<1>. HIDE DEF kept, below, upto
<1>5. b = Cardinality(below) + Cardinality(upto) - 0
  <2>1. Cardinality(below \cup upto)
          = Cardinality(below) + Cardinality(upto) - Cardinality(below \cap upto)
    BY <1>2, FS_Union
  <2>. QED
    BY <1>1, <1>3, <2>1, FS_EmptySet
<1>6. Cardinality(upto) <= Cardinality(kept)
  BY <1>2, <1>4, FS_Subset
<1>7. Cardinality(upto) # 0
  BY <1>2, <1>4, FS_EmptySet
<1>8. /\ Cardinality(below) \in Nat
      /\ Cardinality(upto) \in Nat
      /\ Cardinality(kept) \in Nat
  BY <1>2, FS_CardinalityType
<1>9. b - Cardinality(below) \in 1..Cardinality(kept)
  BY <1>5, <1>6, <1>7, <1>8
<1>10. b - Cardinality(below) = Cardinality(upto)
  BY <1>5, <1>8
<1>. QED
  BY <1>2, <1>9, <1>10 DEF kept, below, upto

-----------------------------------------------------------------------------
(* Blocks of a program of n blocks: every reference is None or one of them. *)

NodeIn(n) == {x \in Node : x.target \in 0..n}

TerminatorIn(n) == {t \in Terminator : t.to \in 0..n /\ t.next \in 0..n}

BlockIn(n) ==
    {blk \in BasicBlock : blk.insns \in Seq(NodeIn(n)) /\ blk.terminator \in TerminatorIn(n)}

ProgramOf(n) == [1..n -> BlockIn(n)]

LEMMA NewNode ==
    ASSUME NEW n \in Nat, NEW op \in BodyOps, NEW i \in Nat
    PROVE  InsnNode(op, i) \in NodeIn(n)
BY DEF InsnNode, NodeIn, Node, None

(* Recomputing the edges touches nothing but the predecessors.              *)
LEMMA RebuildShape ==
    ASSUME NEW n \in Nat, NEW bs \in ProgramOf(n)
    PROVE  /\ rebuild_cfg_edges(bs) \in ProgramOf(n)
           /\ \A b \in 1..n :
                /\ rebuild_cfg_edges(bs)[b].terminator = bs[b].terminator
                /\ rebuild_cfg_edges(bs)[b].insns = bs[b].insns
                /\ rebuild_cfg_edges(bs)[b].predecessors =
                       {p \in 1..n : b \in successors(bs[p].terminator)}
<1>1. DOMAIN bs = 1..n
  BY DEF ProgramOf
<1>2. ASSUME NEW b \in 1..n
      PROVE  /\ rebuild_cfg_edges(bs)[b] \in BlockIn(n)
             /\ rebuild_cfg_edges(bs)[b].terminator = bs[b].terminator
             /\ rebuild_cfg_edges(bs)[b].insns = bs[b].insns
             /\ rebuild_cfg_edges(bs)[b].predecessors =
                    {p \in 1..n : b \in successors(bs[p].terminator)}
  <2>. DEFINE preds == {p \in 1..n : b \in successors(bs[p].terminator)}
  <2>1. rebuild_cfg_edges(bs)[b] = [bs[b] EXCEPT !.predecessors = preds]
    BY <1>1 DEF rebuild_cfg_edges
  <2>2. preds \in SUBSET Nat
    OBVIOUS
  <2>3. bs[b] \in BlockIn(n)
    BY DEF ProgramOf
  <2>. HIDE DEF preds
  <2>4. /\ [bs[b] EXCEPT !.predecessors = preds] \in BlockIn(n)
        /\ [bs[b] EXCEPT !.predecessors = preds].terminator = bs[b].terminator
        /\ [bs[b] EXCEPT !.predecessors = preds].insns = bs[b].insns
        /\ [bs[b] EXCEPT !.predecessors = preds].predecessors = preds
    BY <2>2, <2>3 DEF BlockIn, BasicBlock
  <2>. QED
    BY <2>1, <2>4 DEF preds
<1>. QED
  BY <1>1, <1>2 DEF rebuild_cfg_edges, ProgramOf

-----------------------------------------------------------------------------
(* Lifting.                                                                 *)

(* Bytecode that lift accepts and whose LD_IMM64 slots pair up.             *)
Liftable(raw) ==
    /\ raw \in Seq(Slot)
    /\ \A pc \in instruction_boundaries(raw) : raw[pc].op # "hi"
    /\ LiftOk(raw)

NumBlocks(raw) == Cardinality(collect_block_starts(raw))

(* No element of a set lies between its k-th and its next one.              *)
LEMMA KthConsecutive ==
    ASSUME NEW S \in SUBSET Int, IsFiniteSet(S), NEW k \in 1..Cardinality(S), NEW x \in S,
           x > Kth(S, k)
    PROVE  k < Cardinality(S) /\ ~(x < Kth(S, k + 1))
<1>. DEFINE Upto(y) == {t \in S : t <= y}
<1>0. Cardinality(S) \in Nat
  BY FS_CardinalityType
<1>1. \A y : IsFiniteSet(Upto(y)) /\ Upto(y) \in SUBSET S
             /\ Cardinality(Upto(y)) \in Nat /\ Cardinality(Upto(y)) <= Cardinality(S)
  <2>. SUFFICES ASSUME NEW y
                PROVE  /\ IsFiniteSet(Upto(y)) /\ Upto(y) \in SUBSET S
                       /\ Cardinality(Upto(y)) \in Nat /\ Cardinality(Upto(y)) <= Cardinality(S)
    OBVIOUS
  <2>1. Upto(y) \in SUBSET S
    OBVIOUS
  <2>2. IsFiniteSet(Upto(y)) /\ Cardinality(Upto(y)) <= Cardinality(S)
    BY <2>1, FS_Subset
  <2>. QED
    BY <2>1, <2>2, FS_CardinalityType
<1>2. \A y, z \in S : y < z => Cardinality(Upto(y)) < Cardinality(Upto(z))
  <2>. SUFFICES ASSUME NEW y \in S, NEW z \in S, y < z
                PROVE  Cardinality(Upto(y)) < Cardinality(Upto(z))
    OBVIOUS
  <2>0. z \in Upto(z) /\ z \notin Upto(y)
    OBVIOUS
  <2>1. ASSUME NEW t \in Upto(y)
        PROVE  t \in Upto(z)
    <3>1. t \in S /\ t <= y
      OBVIOUS
    <3>2. t <= z
      BY <3>1
    <3>. QED
      BY <3>1, <3>2
  <2>. HIDE DEF Upto
  <2>2. Upto(y) # Upto(z) /\ Upto(y) \in SUBSET Upto(z)
    BY <2>0, <2>1
  <2>3. Cardinality(Upto(y)) <= Cardinality(Upto(z)) /\ Cardinality(Upto(y)) # Cardinality(Upto(z))
    BY <1>1, <2>2, FS_Subset
  <2>. QED
    BY <1>1, <2>3
<1>3. Kth(S, k) \in S /\ Cardinality(Upto(Kth(S, k))) = k
  BY KthElement
<1>. HIDE DEF Upto
<1>4. k < Cardinality(Upto(x))
  BY <1>2, <1>3
<1>5. k < Cardinality(S)
  BY <1>0, <1>1, <1>4
<1>6. k + 1 \in 1..Cardinality(S)
  BY <1>0, <1>5
<1>7. Kth(S, k + 1) \in S /\ Cardinality(Upto(Kth(S, k + 1))) = k + 1
  BY <1>6, KthElement DEF Upto
<1>8. ASSUME x < Kth(S, k + 1)
      PROVE  FALSE
  <2>1. Cardinality(Upto(x)) < k + 1
    BY <1>2, <1>7, <1>8
  <2>. QED
    BY <1>1, <1>4, <2>1
<1>. QED
  BY <1>5, <1>8

LEMMA StartsType ==
    ASSUME NEW raw, Liftable(raw)
    PROVE  /\ Len(raw) \in Nat /\ Len(raw) > 0 /\ DOMAIN raw = 1..Len(raw)
           /\ instruction_boundaries(raw) \in SUBSET (1..Len(raw))
           /\ collect_block_starts(raw) \in SUBSET (1..(Len(raw) + 1))
           /\ collect_block_starts(raw) \in SUBSET Int
           /\ IsFiniteSet(collect_block_starts(raw))
           /\ NumBlocks(raw) \in Nat /\ NumBlocks(raw) > 0
<1>1. Len(raw) \in Nat /\ Len(raw) > 0 /\ DOMAIN raw = 1..Len(raw)
  BY SeqIsFunction DEF Liftable, LiftOk
<1>2. instruction_boundaries(raw) \in SUBSET (1..Len(raw))
  BY DEF instruction_boundaries
<1>3. collect_block_starts(raw) \subseteq instruction_boundaries(raw) \cup {Len(raw) + 1}
  BY DEF Liftable, LiftOk
<1>4. collect_block_starts(raw) \in SUBSET (1..(Len(raw) + 1))
  BY <1>1, <1>2, <1>3
<1>5. IsFiniteSet(1..(Len(raw) + 1))
  BY <1>1, FS_Interval
<1>6. IsFiniteSet(collect_block_starts(raw))
  BY <1>4, <1>5, FS_Subset
<1>7. 1 \in collect_block_starts(raw)
  BY DEF collect_block_starts
<1>8. NumBlocks(raw) \in Nat /\ NumBlocks(raw) # 0
  BY <1>6, <1>7, FS_CardinalityType, FS_EmptySet DEF NumBlocks
<1>9. collect_block_starts(raw) \in SUBSET Int
  BY <1>1, <1>4
<1>. QED
  BY <1>1, <1>2, <1>4, <1>6, <1>8, <1>9

(* A slot that starts a block has a block number.                           *)
LEMMA StartHasBlock ==
    ASSUME NEW raw, Liftable(raw), NEW pc \in collect_block_starts(raw)
    PROVE  pc_to_block(raw, pc) \in 1..NumBlocks(raw)
<1>. DEFINE S == collect_block_starts(raw)
            T == {s \in S : s <= pc}
<1>1. S \in SUBSET Int /\ IsFiniteSet(S) /\ NumBlocks(raw) \in Nat
  BY StartsType
<1>2. T \in SUBSET S /\ pc \in T
  BY <1>1
<1>3. pc_to_block(raw, pc) = Cardinality(T) + 0
  BY DEF pc_to_block
<1>. HIDE DEF T, S
<1>4. IsFiniteSet(T) /\ Cardinality(T) <= Cardinality(S)
  BY <1>1, <1>2, FS_Subset
<1>5. Cardinality(T) \in Nat /\ Cardinality(T) # 0
  BY <1>2, <1>4, FS_CardinalityType, FS_EmptySet
<1>6. Cardinality(S) = NumBlocks(raw)
  BY DEF S, NumBlocks
<1>. QED
  BY <1>1, <1>3, <1>4, <1>5, <1>6

LEMMA FrameType ==
    ASSUME NEW raw, Liftable(raw), NEW pc \in 1..(Len(raw) + 1)
    PROVE  frame_by_pc(raw, pc) \in Nat
<1>. DEFINE S == collect_subprog_starts(raw)
            T == {s \in S : s <= pc}
<1>1. Len(raw) \in Nat /\ instruction_boundaries(raw) \in SUBSET (1..Len(raw))
  BY StartsType
<1>2. S \subseteq instruction_boundaries(raw)
  BY DEF Liftable, LiftOk
<1>3. 1 \in S
  BY DEF collect_subprog_starts
<1>. HIDE DEF S
<1>4. T \in SUBSET (1..Len(raw)) /\ 1 \in T
  BY <1>1, <1>2, <1>3
<1>5. IsFiniteSet(1..Len(raw))
  BY <1>1, FS_Interval
<1>6. IsFiniteSet(T)
  BY <1>4, <1>5, FS_Subset
<1>7. Cardinality(T) \in Nat /\ Cardinality(T) # 0
  BY <1>4, <1>6, FS_CardinalityType, FS_EmptySet
<1>8. frame_by_pc(raw, pc) = IF pc > Len(raw) THEN 0 ELSE Cardinality(T) - 1
  BY DEF frame_by_pc, S
<1>. QED
  BY <1>7, <1>8

(* Branch targets and the slots after branches start blocks.                *)
LEMMA BranchesStartBlocks ==
    ASSUME NEW raw, Liftable(raw), NEW pc \in instruction_boundaries(raw)
    PROVE  /\ raw[pc].op \in {"func", "ja", "jcc", "call"}
                => TargetPc(raw, pc) \in collect_block_starts(raw)
           /\ raw[pc].op \in TermOps /\ pc < Len(raw) => pc + 1 \in collect_block_starts(raw)
           /\ raw[pc].op \in {"jcc", "call"} => pc + 1 \in collect_block_starts(raw)
           /\ raw[pc] \in Slot /\ raw[pc].op # "hi"
<1>1. Len(raw) \in Nat /\ pc \in 1..Len(raw)
  BY StartsType
<1>2. raw[pc] \in Slot /\ raw[pc].op # "hi"
  BY <1>1, SeqIsFunction DEF Liftable
<1>3. raw[pc].op \in {"func", "ja", "jcc", "call"} => TargetPc(raw, pc) \in collect_block_starts(raw)
  BY DEF collect_block_starts
<1>4. raw[pc].op \in TermOps /\ pc < Len(raw) => pc + 1 \in collect_block_starts(raw)
  BY DEF collect_block_starts
<1>5. raw[pc].op \in {"jcc", "call"} => pc < Len(raw) /\ raw[pc].op \in TermOps
  BY <1>1 DEF Liftable, LiftOk, TermOps
<1>. QED
  BY <1>2, <1>3, <1>4, <1>5

LEMMA LiftTerminatorType ==
    ASSUME NEW raw, Liftable(raw), NEW pc \in instruction_boundaries(raw), raw[pc].op \in TermOps
    PROVE  lift_terminator(raw, pc) \in TerminatorIn(NumBlocks(raw))
<1>. DEFINE target == pc_to_block(raw, TargetPc(raw, pc))
            after == pc_to_block(raw, pc + 1)
            n == NumBlocks(raw)
<1>1. n \in Nat /\ raw[pc].insn \in Nat
  BY StartsType, BranchesStartBlocks DEF Slot
<1>2. raw[pc].op \in {"ja", "jcc", "call"} => target \in 1..n
  BY BranchesStartBlocks, StartHasBlock
<1>3. raw[pc].op \in {"jcc", "call"} => after \in 1..n
  BY BranchesStartBlocks, StartHasBlock
<1>4. /\ raw[pc].op = "exit" => lift_terminator(raw, pc) = Exit(raw[pc].insn)
      /\ raw[pc].op = "call" => lift_terminator(raw, pc) = Call(raw[pc].insn, target, after)
      /\ raw[pc].op = "ja" => lift_terminator(raw, pc) = Jump(raw[pc].insn, target)
      /\ raw[pc].op = "jcc" => lift_terminator(raw, pc) = CondBranch(raw[pc].insn, target, after)
  BY DEF lift_terminator
<1>. HIDE DEF target, after, n
<1>5. CASE raw[pc].op = "exit"
  <2>1. Exit(raw[pc].insn) \in TerminatorIn(n)
    BY <1>1 DEF Exit, TerminatorIn, Terminator, TermOps, None
  <2>. QED
    BY <1>4, <1>5, <2>1 DEF n
<1>6. CASE raw[pc].op = "call"
  <2>1. Call(raw[pc].insn, target, after) \in TerminatorIn(n)
    BY <1>1, <1>2, <1>3, <1>6 DEF Call, TerminatorIn, Terminator, TermOps
  <2>. QED
    BY <1>4, <1>6, <2>1 DEF n
<1>7. CASE raw[pc].op = "ja"
  <2>1. Jump(raw[pc].insn, target) \in TerminatorIn(n)
    BY <1>1, <1>2, <1>7 DEF Jump, TerminatorIn, Terminator, TermOps, None
  <2>. QED
    BY <1>4, <1>7, <2>1 DEF n
<1>8. CASE raw[pc].op = "jcc"
  <2>1. CondBranch(raw[pc].insn, target, after) \in TerminatorIn(n)
    BY <1>1, <1>2, <1>3, <1>8 DEF CondBranch, TerminatorIn, Terminator, TermOps
  <2>. QED
    BY <1>4, <1>8, <2>1 DEF n
<1>. QED
  BY <1>5, <1>6, <1>7, <1>8 DEF TermOps

(* The op of an instruction that LiftBlock puts in the body: an instruction *)
(* that must end a block is the last one before the next block start.       *)
LEMMA BodyOpType ==
    ASSUME NEW raw, Liftable(raw), NEW s \in 1..(Len(raw) + 1), NEW e \in 1..(Len(raw) + 1),
           \A x \in collect_block_starts(raw) : ~(s < x /\ x < e),
           NEW pc \in instruction_boundaries(raw), s <= pc, pc < e,
           pc = e - 1 => raw[pc].op \notin TermOps
    PROVE  raw[pc].op \in BodyOps
<1>1. Len(raw) \in Nat /\ pc \in 1..Len(raw)
  BY StartsType
<1>2. raw[pc].op \in BodyOps \cup TermOps
  BY BranchesStartBlocks DEF Slot
<1>3. ASSUME raw[pc].op \in TermOps
      PROVE  FALSE
  <2>1. pc + 1 < e /\ pc < Len(raw)
    BY <1>1, <1>3
  <2>2. pc + 1 \in collect_block_starts(raw)
    BY <1>3, <2>1, BranchesStartBlocks
  <2>. QED
    BY <1>1, <2>1, <2>2
<1>. QED
  BY <1>2, <1>3

LEMMA LiftNodeType ==
    ASSUME NEW raw, Liftable(raw), NEW pc \in instruction_boundaries(raw),
           raw[pc].op \in BodyOps, NEW states \in BOOLEAN
    PROVE  LiftNode(raw, pc, states) \in NodeIn(NumBlocks(raw))
<1>. DEFINE n == NumBlocks(raw)
            tgt == IF raw[pc].op = "func" THEN pc_to_block(raw, TargetPc(raw, pc)) ELSE None
<1>1. n \in Nat /\ pc \in Nat /\ raw[pc].insn \in Nat
  BY StartsType, BranchesStartBlocks DEF Slot
<1>2. tgt \in 0..n
  <2>1. CASE raw[pc].op = "func"
    <3>1. pc_to_block(raw, TargetPc(raw, pc)) \in 1..n
      BY <2>1, BranchesStartBlocks, StartHasBlock
    <3>. QED
      BY <1>1, <2>1, <3>1
  <2>2. CASE raw[pc].op # "func"
    BY <1>1, <2>2 DEF None
  <2>. QED
    BY <2>1, <2>2
<1>3. InsnNode(raw[pc].op, raw[pc].insn) \in NodeIn(n)
  BY <1>1, NewNode
<1>4. LiftNode(raw, pc, states) =
        [InsnNode(raw[pc].op, raw[pc].insn) EXCEPT
            !.btf_pc = pc, !.states = states, !.target = tgt]
  BY DEF LiftNode
<1>. HIDE DEF tgt, n
<1>5. ASSUME NEW x \in NodeIn(n)
      PROVE  [x EXCEPT !.btf_pc = pc, !.states = states, !.target = tgt] \in NodeIn(n)
  <2>1. x \in Node /\ tgt \in Nat
    BY <1>2 DEF NodeIn
  <2>2. /\ [x EXCEPT !.btf_pc = pc, !.states = states, !.target = tgt] \in Node
        /\ [x EXCEPT !.btf_pc = pc, !.states = states, !.target = tgt].target = tgt
    BY <1>1, <2>1 DEF Node
  <2>. QED
    BY <1>2, <2>2 DEF NodeIn
<1>. QED
  BY <1>3, <1>4, <1>5 DEF n

(* A block lifted from the slots between two neighbouring block starts.     *)
LEMMA LiftBlockType ==
    ASSUME NEW raw, Liftable(raw), NEW s \in collect_block_starts(raw),
           NEW e \in collect_block_starts(raw) \cup {Len(raw) + 1},
           \A x \in collect_block_starts(raw) : ~(s < x /\ x < e),
           NEW states \in BOOLEAN, NEW profiled
    PROVE  LiftBlock(raw, s, e, states, profiled) \in BlockIn(NumBlocks(raw))
<1>. DEFINE n       == NumBlocks(raw)
            at      == {pc \in instruction_boundaries(raw) : s <= pc /\ pc < e}
            hasTerm == s < e /\ (e - 1) \in at /\ raw[e - 1].op \in TermOps
            pcs     == IF hasTerm THEN at \ {e - 1} ELSE at
            body    == SortedSeq(pcs)
            insns   == [i \in DOMAIN body |-> LiftNode(raw, body[i], states)]
            term    == IF hasTerm THEN lift_terminator(raw, e - 1)
                       ELSE IF e <= Len(raw) THEN Fallthrough(pc_to_block(raw, e))
                       ELSE End
<1>1. /\ Len(raw) \in Nat /\ n \in Nat
      /\ instruction_boundaries(raw) \in SUBSET (1..Len(raw))
      /\ s \in 1..(Len(raw) + 1) /\ e \in 1..(Len(raw) + 1)
  BY StartsType
<1>2. ASSUME NEW pc \in pcs
      PROVE  LiftNode(raw, pc, states) \in NodeIn(n)
  <2>1. pc \in at /\ (hasTerm => pc # e - 1)
    OBVIOUS
  <2>2. pc \in instruction_boundaries(raw) /\ s <= pc /\ pc < e
    BY <2>1
  <2>3. pc = e - 1 => raw[pc].op \notin TermOps
    BY <1>1, <2>1, <2>2
  <2>4. raw[pc].op \in BodyOps
    BY ONLY Liftable(raw), <1>1, <2>2, <2>3, BodyOpType,
            \A x \in collect_block_starts(raw) : ~(s < x /\ x < e)
  <2>. QED
    BY <2>2, <2>4, LiftNodeType
<1>3. pcs \in SUBSET (1..Len(raw))
  BY <1>1
<1>4. hasTerm => term \in TerminatorIn(n)
  BY LiftTerminatorType
<1>5. ~hasTerm => term \in TerminatorIn(n)
  <2>1. CASE e <= Len(raw)
    <3>1. e \in collect_block_starts(raw)
      BY <1>1, <2>1
    <3>2. pc_to_block(raw, e) \in 1..n
      BY <3>1, StartHasBlock
    <3>3. Fallthrough(pc_to_block(raw, e)) \in TerminatorIn(n)
      BY <1>1, <3>2 DEF Fallthrough, TerminatorIn, Terminator, None
    <3>. QED
      BY <2>1, <3>3
  <2>2. CASE ~(e <= Len(raw))
    <3>1. End \in TerminatorIn(n)
      BY <1>1 DEF End, TerminatorIn, Terminator, None
    <3>. QED
      BY <2>2, <3>1
  <2>. QED
    BY <2>1, <2>2
<1>6. frame_by_pc(raw, s) \in Nat
  BY <1>1, FrameType
<1>7. hasTerm => e - 1 \in Nat
  BY <1>1
<1>8. LiftBlock(raw, s, e, states, profiled) =
        [insns |-> insns, terminator |-> term,
         btf_pc |-> IF hasTerm THEN e - 1 ELSE None,
         states |-> hasTerm /\ states,
         profile |-> hasTerm /\ (e - 1) \in profiled,
         frame |-> frame_by_pc(raw, s), predecessors |-> {}, lead |-> s]
  BY DEF LiftBlock
<1>. HIDE DEF n, hasTerm, term, pcs
<1>9. IsFiniteSet(pcs) /\ pcs \in SUBSET Int
  <2>1. IsFiniteSet(1..Len(raw))
    BY <1>1, FS_Interval
  <2>2. IsFiniteSet(pcs)
    BY <1>3, <2>1, FS_Subset
  <2>. QED
    BY <1>1, <1>3, <2>2
<1>10. body \in Seq(pcs)
  BY <1>9, SortedSeqType
<1>. HIDE DEF body
<1>11. /\ Len(body) \in Nat /\ DOMAIN body = 1..Len(body)
       /\ \A i \in 1..Len(body) : body[i] \in pcs
  BY <1>10, SeqIsFunction
<1>12. insns \in [1..Len(body) -> NodeIn(n)]
  BY <1>2, <1>11
<1>13. insns \in Seq(NodeIn(n))
  BY <1>11, <1>12, FunctionIsSeq
<1>. HIDE DEF insns
<1>14. insns \in Seq(Node)
  BY <1>13, SeqMonotonic DEF NodeIn
<1>15. term \in TerminatorIn(n) /\ term \in Terminator
  BY <1>4, <1>5 DEF TerminatorIn
<1>16. (IF hasTerm THEN e - 1 ELSE None) \in Nat
  BY <1>7 DEF None
<1>17. s \in Nat /\ (hasTerm /\ states) \in BOOLEAN /\ (hasTerm /\ (e - 1) \in profiled) \in BOOLEAN
  BY <1>1
<1>18. [insns |-> insns, terminator |-> term,
        btf_pc |-> IF hasTerm THEN e - 1 ELSE None,
        states |-> hasTerm /\ states,
        profile |-> hasTerm /\ (e - 1) \in profiled,
        frame |-> frame_by_pc(raw, s), predecessors |-> {}, lead |-> s] \in BlockIn(n)
  BY <1>6, <1>13, <1>14, <1>15, <1>16, <1>17 DEF BlockIn, BasicBlock
<1>. QED
  BY <1>8, <1>18 DEF n

(* First slot of the k-th block, and the slot after its last one.           *)
StartOf(raw, k) == SortedSeq(collect_block_starts(raw))[k]

StopOf(raw, k) ==
    IF k < NumBlocks(raw) THEN StartOf(raw, k + 1) ELSE Len(raw) + 1

Lifted(raw, k, states, profiled) ==
    LiftBlock(raw, StartOf(raw, k), StopOf(raw, k), states, profiled)

LEMMA LiftedType ==
    ASSUME NEW raw, Liftable(raw), NEW k \in 1..NumBlocks(raw),
           NEW states \in BOOLEAN, NEW profiled
    PROVE  Lifted(raw, k, states, profiled) \in BlockIn(NumBlocks(raw))
<1>. DEFINE S == collect_block_starts(raw)
            n == NumBlocks(raw)
            s == StartOf(raw, k)
            e == StopOf(raw, k)
<1>1. /\ S \in SUBSET Int /\ IsFiniteSet(S) /\ n \in Nat /\ n = Cardinality(S)
      /\ S \in SUBSET (1..(Len(raw) + 1)) /\ Len(raw) \in Nat
  BY StartsType DEF NumBlocks
<1>2. \A j \in 1..n : StartOf(raw, j) = Kth(S, j) /\ Kth(S, j) \in S
  BY <1>1, SortedSeqType, KthElement DEF StartOf
<1>3. e \in S \cup {Len(raw) + 1} /\ s \in S
  BY <1>1, <1>2 DEF StopOf
<1>4. ASSUME NEW x \in S, s < x, x < e
      PROVE  FALSE
  <2>1. k < n /\ ~(x < Kth(S, k + 1))
    BY <1>1, <1>2, <1>4, KthConsecutive
  <2>2. e = Kth(S, k + 1)
    BY <1>1, <1>2, <2>1 DEF StopOf
  <2>. QED
    BY <1>4, <2>1, <2>2
<1>. HIDE DEF s, e, n
<1>5. LiftBlock(raw, s, e, states, profiled) \in BlockIn(NumBlocks(raw))
  BY <1>3, <1>4, LiftBlockType
<1>. QED
  BY <1>5 DEF Lifted, s, e

(* The program that lift returns.                                           *)
LEMMA LiftShape ==
    ASSUME NEW raw, Liftable(raw), NEW states \in BOOLEAN, NEW profiled
    PROVE  /\ lift(raw, states, profiled) \in ProgramOf(NumBlocks(raw))
           /\ \A k \in 1..NumBlocks(raw) :
                lift(raw, states, profiled)[k].predecessors =
                     {p \in 1..NumBlocks(raw) :
                        k \in successors(lift(raw, states, profiled)[p].terminator)}
<1>. DEFINE n == NumBlocks(raw)
            bs == [k \in 1..n |-> Lifted(raw, k, states, profiled)]
<1>1. n \in Nat
  BY StartsType
<1>2. bs \in ProgramOf(n)
  BY LiftedType DEF ProgramOf
<1>3. lift(raw, states, profiled) = rebuild_cfg_edges(bs)
  <2>. DEFINE starts == SortedSeq(collect_block_starts(raw))
  <2>1. Len(starts) = n /\ DOMAIN starts = 1..n
    BY StartsType, SortedSeqType DEF NumBlocks
  <2>2. bs = [k \in DOMAIN starts |->
                LiftBlock(raw, starts[k],
                          IF k < Len(starts) THEN starts[k + 1] ELSE Len(raw) + 1,
                          states, profiled)]
    BY <2>1 DEF Lifted, StartOf, StopOf
  <2>. QED
    BY <2>2 DEF lift
<1>. HIDE DEF bs, n
<1>5. lift(raw, states, profiled) \in ProgramOf(n)
  BY <1>1, <1>2, <1>3, RebuildShape
<1>6. ASSUME NEW k \in 1..n
      PROVE  lift(raw, states, profiled)[k].predecessors =
                  {p \in 1..n : k \in successors(lift(raw, states, profiled)[p].terminator)}
  BY <1>1, <1>2, <1>3, RebuildShape
<1>. QED
  BY <1>5, <1>6 DEF n

(* The blocks of lift, but for their predecessors.                          *)
LEMMA LiftBlocks ==
    ASSUME NEW raw, Liftable(raw), NEW states, NEW profiled
    PROVE  /\ DOMAIN lift(raw, states, profiled) = 1..NumBlocks(raw)
           /\ \A k \in 1..NumBlocks(raw) :
                /\ lift(raw, states, profiled)[k].insns
                     = Lifted(raw, k, states, profiled).insns
                /\ lift(raw, states, profiled)[k].terminator
                     = Lifted(raw, k, states, profiled).terminator
                /\ lift(raw, states, profiled)[k].lead = StartOf(raw, k)
<1>. DEFINE n == NumBlocks(raw)
            bs == [k \in 1..n |-> Lifted(raw, k, states, profiled)]
            starts == SortedSeq(collect_block_starts(raw))
            Preds(k) == {p \in DOMAIN bs : k \in successors(bs[p].terminator)}
<1>1. Len(starts) = n /\ DOMAIN starts = 1..n
  BY StartsType, SortedSeqType DEF NumBlocks
<1>2. bs = [k \in DOMAIN starts |->
              LiftBlock(raw, starts[k],
                        IF k < Len(starts) THEN starts[k + 1] ELSE Len(raw) + 1,
                        states, profiled)]
  BY <1>1 DEF Lifted, StartOf, StopOf
<1>3. lift(raw, states, profiled) = rebuild_cfg_edges(bs)
  BY <1>2 DEF lift
<1>4. rebuild_cfg_edges(bs) = [k \in 1..n |-> [bs[k] EXCEPT !.predecessors = Preds(k)]]
  BY DEF rebuild_cfg_edges
<1>. HIDE DEF Preds, n
<1>5. ASSUME NEW k \in 1..n
      PROVE  /\ [bs[k] EXCEPT !.predecessors = Preds(k)].insns
                  = Lifted(raw, k, states, profiled).insns
             /\ [bs[k] EXCEPT !.predecessors = Preds(k)].terminator
                  = Lifted(raw, k, states, profiled).terminator
             /\ [bs[k] EXCEPT !.predecessors = Preds(k)].lead = StartOf(raw, k)
  BY DEF Lifted, LiftBlock
<1>. HIDE DEF bs
<1>. QED
  BY <1>3, <1>4, <1>5 DEF n

(* The block of a slot that starts one was lifted at that slot.             *)
LEMMA LiftedAt ==
    ASSUME NEW raw, Liftable(raw), NEW pc \in collect_block_starts(raw), NEW states, NEW profiled
    PROVE  lift(raw, states, profiled)[pc_to_block(raw, pc)].lead = pc
<1>. DEFINE S == collect_block_starts(raw)
            k == Cardinality({s \in S : s <= pc})
<1>1. S \in SUBSET Int /\ IsFiniteSet(S)
  BY StartsType
<1>2. pc_to_block(raw, pc) = k + 0
  BY DEF pc_to_block
<1>3. k \in 1..Cardinality(S) /\ Kth(S, k) = pc
  BY <1>1, KthOfRank
<1>4. StartOf(raw, k) = Kth(S, k)
  BY <1>1, <1>3, SortedSeqType DEF StartOf
<1>. HIDE DEF k
<1>5. pc_to_block(raw, pc) = k /\ k \in 1..NumBlocks(raw)
  BY <1>2, <1>3 DEF NumBlocks
<1>. QED
  BY <1>3, <1>4, <1>5, LiftBlocks

(* Verifier states and profiles are all that lift's other arguments change. *)
LEMMA LiftedSameCode ==
    ASSUME NEW raw, NEW k, NEW states, NEW profiled, NEW states2, NEW profiled2
    PROVE  /\ Lifted(raw, k, states, profiled).terminator
                = Lifted(raw, k, states2, profiled2).terminator
           /\ DOMAIN Lifted(raw, k, states, profiled).insns
                = DOMAIN Lifted(raw, k, states2, profiled2).insns
           /\ \A i \in DOMAIN Lifted(raw, k, states, profiled).insns :
                /\ Lifted(raw, k, states, profiled).insns[i].op
                     = Lifted(raw, k, states2, profiled2).insns[i].op
                /\ Lifted(raw, k, states, profiled).insns[i].insn
                     = Lifted(raw, k, states2, profiled2).insns[i].insn
                /\ Lifted(raw, k, states, profiled).insns[i].target
                     = Lifted(raw, k, states2, profiled2).insns[i].target
<1>1. \A pc : /\ LiftNode(raw, pc, states).op = LiftNode(raw, pc, states2).op
              /\ LiftNode(raw, pc, states).insn = LiftNode(raw, pc, states2).insn
              /\ LiftNode(raw, pc, states).target = LiftNode(raw, pc, states2).target
  BY DEF LiftNode, InsnNode
<1>. QED
  BY <1>1 DEF Lifted, LiftBlock

-----------------------------------------------------------------------------
(* The mutation API.                                                        *)

(* Every disjunct of Next but the accessor ends in Mutate.                  *)
LEMMA MutationMutates ==
    ASSUME Mutation
    PROVE  /\ derived_facts_dirty' = TRUE
           /\ \E bs : blocks' = invalidate_verifier_states(bs)
           /\ UNCHANGED <<source, prog_type, facts>>
<1>. USE DEF Mutate
<1>1. ASSUME NEW b, NEW i, delete_insn(b, i)
      PROVE  \E bs, e : Mutate(bs, e)
  BY <1>1 DEF delete_insn
<1>2. ASSUME NEW b, NEW i, NEW old_len, NEW ops, try_replace_range(b, i, old_len, ops)
      PROVE  \E bs, e : Mutate(bs, e)
  BY <1>2 DEF try_replace_range
<1>3. ASSUME NEW b, delete_cond_branch(b)
      PROVE  \E bs, e : Mutate(bs, e)
  BY <1>3 DEF delete_cond_branch, MutateEdges
<1>4. ASSUME NEW b, NEW t, replace_terminator(b, t)
      PROVE  \E bs, e : Mutate(bs, e)
  BY <1>4 DEF replace_terminator, MutateEdges
<1>5. ASSUME NEW order, permute_blocks(order)
      PROVE  \E bs, e : Mutate(bs, e)
  BY <1>5 DEF permute_blocks, MutateEdges
<1>6. ASSUME NEW first, NEW end, merge_linear_chain(first, end)
      PROVE  \E bs, e : Mutate(bs, e)
  BY <1>6 DEF merge_linear_chain, remove_blocks_in_place, MutateEdges
<1>7. ASSUME delete_unreachable_blocks
      PROVE  \E bs, e : Mutate(bs, e)
  BY <1>7 DEF delete_unreachable_blocks, remove_blocks_in_place, MutateEdges
<1>8. ASSUME NEW b, NEW i, split_block(b, i)
      PROVE  \E bs, e : Mutate(bs, e)
  BY <1>8 DEF split_block, MutateEdges
<1>9. ASSUME NEW pred, NEW tb, NEW fb, NEW join, NEW ops,
             replace_diamond_with_insns(pred, tb, fb, join, ops)
      PROVE  \E bs, e : Mutate(bs, e)
  BY <1>9 DEF replace_diamond_with_insns, remove_blocks_in_place, MutateEdges
<1>10. \E bs, e : Mutate(bs, e)
  BY <1>1, <1>2, <1>3, <1>4, <1>5, <1>6, <1>7, <1>8, <1>9 DEF Mutation
<1>. QED
  BY <1>10

(* The dirty flag is enough: no accessor of derived facts ever serves a     *)
(* fact computed for an earlier program or another program type.            *)
THEOREM FactsAlwaysFresh == Spec => []FactsFresh
<1>1. Init => FactsFresh
  BY DEF Init, FactsFresh
<1>2. FactsFresh /\ [Next]_vars => FactsFresh'
  <2>. SUFFICES ASSUME FactsFresh, [Next]_vars
                PROVE  FactsFresh'
    OBVIOUS
  <2>1. CASE Mutation
    BY <2>1, MutationMutates DEF FactsFresh
  <2>2. CASE ensure_derived_facts_fresh
    BY <2>2 DEF ensure_derived_facts_fresh, FactsFresh
  <2>3. CASE UNCHANGED vars
    BY <2>3 DEF FactsFresh, vars
  <2>. QED
    BY <2>1, <2>2, <2>3 DEF Next
<1>. QED
  BY <1>1, <1>2, PTL DEF Spec

-----------------------------------------------------------------------------
(* The shape of the program is inductive: a sequence of blocks that refer   *)
(* only to one another, with the right predecessors, verifier states only   *)
(* on the code that was lifted, and references that lead where they led.    *)

Shape(bs, e) == Len(bs) \in Nat /\ bs \in ProgramOf(Len(bs)) /\ e \in 1..Len(bs)

(* Where references lead.  A block is named by the slot it was lifted at    *)
(* (`lead`), an instruction by its own slot; src is the lifted bytecode.    *)
NodeKept(x, bs, src) ==
    x.target # None => bs[x.target].lead = TargetPc(src, x.insn)

TermKept(t, bs, src) ==
    t.insn # None => /\ t.to # None => bs[t.to].lead = TargetPc(src, t.insn)
                     /\ t.next # None => bs[t.next].lead = t.insn + 1

BlockKept(blk, bs, src) ==
    /\ TermKept(blk.terminator, bs, src)
    /\ \A i \in DOMAIN blk.insns : NodeKept(blk.insns[i], bs, src)

KeptIn(bs, e, src) == bs[e].lead = 1 /\ \A b \in DOMAIN bs : BlockKept(bs[b], bs, src)

(* Instructions and terminators that may stand in a program of n blocks     *)
(* whose leads are those of bs.                                             *)
KeptNodes(n, bs) == {x \in NodeIn(n) : NodeKept(x, bs, source)}

KeptTerminators(n, bs) == {t \in TerminatorIn(n) : TermKept(t, bs, source)}

(* Where instructions come from.  An instruction that was spliced in has    *)
(* neither an original slot nor a position for BTF records.                 *)
Fresh(x) == x.insn = None /\ x.btf_pc = None

SameOrigin(x, y) == x.insn = y.insn /\ x.btf_pc = y.btf_pc

(* g says for every site of blocks K of bs whose instruction is not new     *)
(* which site of the current program it was taken from.                     *)
Drawn(K, bs, g) ==
    \A s \in BodySites(bs) :
        s[1] \in K /\ ~Fresh(NodeAt(bs, s))
          => g[s] \in BodySites(blocks) /\ SameOrigin(NodeAt(bs, s), NodeAt(blocks, g[s]))

(* ... keeping the order.                                                   *)
InOrder(K, bs, g) ==
    \A s, t \in BodySites(bs) :
        (/\ s[1] \in K /\ ~Fresh(NodeAt(bs, s))
         /\ t[1] \in K /\ ~Fresh(NodeAt(bs, t))
         /\ SiteBefore(s, t)) => SiteBefore(g[s], g[t])

(* ... or at least not taking an instruction twice.                         *)
OnceEach(bs, g) ==
    \A s, t \in BodySites(bs) :
        ~Fresh(NodeAt(bs, s)) /\ ~Fresh(NodeAt(bs, t)) /\ g[s] = g[t] => s = t

(* Every instruction of bs is new or was taken from the current program,    *)
(* in the order it had there unless the blocks are being permuted.          *)
Taken(bs) ==
    \E g : /\ Drawn(DOMAIN bs, bs, g)
           /\ InOrder(DOMAIN bs, bs, g) \/ (last' = "permute_blocks" /\ OnceEach(bs, g))

(* The same for one body that replaces another: the k-th instruction was    *)
(* the h[k]-th.                                                             *)
TakenFrom(insns, old, h) ==
    \A k \in DOMAIN insns : ~Fresh(insns[k]) =>
        /\ h[k] \in DOMAIN old /\ SameOrigin(insns[k], old[h[k]])
        /\ \A l \in DOMAIN insns : k < l /\ ~Fresh(insns[l]) => h[k] < h[l]

(* No instruction of the lifted bytecode is in the program twice.           *)
OriginalsOnce(bs) ==
    \A s, t \in BodySites(bs) :
        NodeAt(bs, s).insn = NodeAt(bs, t).insn /\ NodeAt(bs, s).insn # None => s = t

Inv ==
    /\ TypeOK
    /\ Shape(blocks, entry)
    /\ PredecessorsInvertSuccessors
    /\ VerifierStatesMatchCode
    /\ TargetsKept
    /\ OriginalsOnce(blocks)

(* What a mutation does to blocks of the right shape.  An operation that    *)
(* leaves the edges alone does not recompute them.                          *)
SameEdges(bs) ==
    /\ Len(bs) = Len(blocks)
    /\ \A b \in 1..Len(bs) :
          /\ bs[b].terminator = blocks[b].terminator
          /\ bs[b].predecessors = blocks[b].predecessors

GoodMutation ==
    \E bs, e : /\ Shape(bs, e)
               /\ KeptIn(bs, e, source)
               /\ Taken(bs)
               /\ \/ MutateEdges(bs, e)
                  \/ Mutate(bs, e) /\ SameEdges(bs)

(* Clearing the verifier states touches nothing else.                       *)
LEMMA InvalidateShape ==
    ASSUME NEW n \in Nat, NEW bs \in ProgramOf(n)
    PROVE  /\ invalidate_verifier_states(bs) \in ProgramOf(n)
           /\ \A b \in 1..n :
                /\ invalidate_verifier_states(bs)[b].terminator = bs[b].terminator
                /\ invalidate_verifier_states(bs)[b].predecessors = bs[b].predecessors
                /\ ~HasVerifierState(invalidate_verifier_states(bs)[b])
<1>1. DOMAIN bs = 1..n
  BY DEF ProgramOf
<1>2. ASSUME NEW b \in 1..n
      PROVE  /\ invalidate_verifier_states(bs)[b] \in BlockIn(n)
             /\ invalidate_verifier_states(bs)[b].terminator = bs[b].terminator
             /\ invalidate_verifier_states(bs)[b].predecessors = bs[b].predecessors
             /\ ~HasVerifierState(invalidate_verifier_states(bs)[b])
  <2>. DEFINE old == bs[b].insns
              new == [i \in DOMAIN old |-> [old[i] EXCEPT !.states = FALSE]]
              blk == [bs[b] EXCEPT !.states = FALSE, !.profile = FALSE, !.insns = new]
  <2>1. invalidate_verifier_states(bs)[b] = blk
    BY <1>1 DEF invalidate_verifier_states
  <2>2. bs[b] \in BlockIn(n) /\ old \in Seq(NodeIn(n))
    BY DEF ProgramOf, BlockIn
  <2>3. /\ Len(old) \in Nat /\ DOMAIN old = 1..Len(old)
        /\ \A i \in 1..Len(old) : old[i] \in NodeIn(n)
    BY <2>2, SeqIsFunction
  <2>4. \A x \in NodeIn(n) : [x EXCEPT !.states = FALSE] \in NodeIn(n)
                              /\ ~[x EXCEPT !.states = FALSE].states
    BY DEF NodeIn, Node
  <2>. HIDE DEF old
  <2>5. new \in [1..Len(old) -> NodeIn(n)] /\ \A i \in 1..Len(old) : ~new[i].states
    BY <2>3, <2>4
  <2>6. new \in Seq(NodeIn(n)) /\ DOMAIN new = 1..Len(old)
    BY <2>3, <2>5, FunctionIsSeq
  <2>7. new \in Seq(Node)
    BY <2>6, SeqMonotonic DEF NodeIn
  <2>. HIDE DEF new
  <2>8. /\ blk \in BlockIn(n)
        /\ blk.terminator = bs[b].terminator
        /\ blk.predecessors = bs[b].predecessors
        /\ ~blk.states /\ ~blk.profile /\ blk.insns = new
    BY <2>2, <2>6, <2>7 DEF BlockIn, BasicBlock
  <2>. QED
    BY <2>1, <2>5, <2>6, <2>8 DEF HasVerifierState
<1>. QED
  BY <1>1, <1>2 DEF invalidate_verifier_states, ProgramOf

(* Clearing verifier states leaves the instructions.                        *)
LEMMA InvalidateInsns ==
    ASSUME NEW n \in Nat, NEW bs \in ProgramOf(n), NEW b \in 1..n
    PROVE  /\ DOMAIN invalidate_verifier_states(bs)[b].insns = DOMAIN bs[b].insns
           /\ \A i \in DOMAIN bs[b].insns :
                 LET was == bs[b].insns[i]
                     is == invalidate_verifier_states(bs)[b].insns[i]
                 IN  /\ is.op = was.op /\ is.insn = was.insn /\ is.target = was.target
                     /\ is.btf_pc = was.btf_pc
<1> DEFINE old == bs[b].insns
           new == [i \in DOMAIN old |-> [old[i] EXCEPT !.states = FALSE]]
           blk == [bs[b] EXCEPT !.states = FALSE, !.profile = FALSE, !.insns = new]
<1>1. invalidate_verifier_states(bs)[b] = blk
  BY DEF invalidate_verifier_states, ProgramOf
<1>2. bs[b] \in BlockIn(n) /\ old \in Seq(NodeIn(n))
  BY DEF ProgramOf, BlockIn
<1>3. \A i \in DOMAIN old : old[i] \in NodeIn(n)
  BY <1>2, SeqIsFunction
<1>4. \A x \in NodeIn(n) : LET y == [x EXCEPT !.states = FALSE]
                           IN  /\ y.op = x.op /\ y.insn = x.insn /\ y.target = x.target
                               /\ y.btf_pc = x.btf_pc
  BY DEF NodeIn, Node
<1> HIDE DEF old
<1>5. /\ DOMAIN new = DOMAIN old
      /\ \A i \in DOMAIN old : new[i] = [old[i] EXCEPT !.states = FALSE]
  OBVIOUS
<1> HIDE DEF new
<1>6. blk.insns = new
  BY <1>2 DEF BlockIn, BasicBlock
<1> HIDE DEF blk
<1> QED
  BY <1>1, <1>3, <1>4, <1>5, <1>6 DEF old

(* A program of the right shape is a sequence of blocks.                    *)
LEMMA ShapeIsSeq ==
    ASSUME NEW bs, NEW e, Shape(bs, e)
    PROVE  /\ bs \in Seq(BasicBlock)
           /\ DOMAIN bs = 1..Len(bs)
           /\ \A b \in 1..Len(bs) : bs[b] \in BlockIn(Len(bs)) /\ bs[b] \in BasicBlock
           /\ bs \in Seq(BlockIn(Len(bs)))
<1>1. bs \in [1..Len(bs) -> BlockIn(Len(bs))]
  BY DEF Shape, ProgramOf
<1>2. BlockIn(Len(bs)) \subseteq BasicBlock
  BY DEF BlockIn
<1>3. bs \in [1..Len(bs) -> BasicBlock]
  BY <1>1, <1>2
<1>4. Len(bs) \in Nat
  BY DEF Shape
<1>. QED
  BY <1>1, <1>2, <1>3, <1>4, FunctionIsSeq

LEMMA BodySiteIs ==
    ASSUME NEW bs, NEW s
    PROVE  s \in BodySites(bs) <=> /\ s = <<s[1], s[2]>>
                                   /\ s[1] \in DOMAIN bs
                                   /\ s[2] \in DOMAIN bs[s[1]].insns
BY DEF BodySites

(* The sites of a program are pairs of numbers.                             *)
LEMMA SiteNumbers ==
    ASSUME NEW bs, NEW e, Shape(bs, e), NEW s \in BodySites(bs)
    PROVE  s = <<s[1], s[2]>> /\ s[1] \in Nat /\ s[2] \in Nat
<1>1. s = <<s[1], s[2]>> /\ s[1] \in DOMAIN bs /\ s[2] \in DOMAIN bs[s[1]].insns
  BY BodySiteIs
<1>2. Len(bs) \in Nat /\ s[1] \in 1..Len(bs) /\ bs[s[1]].insns \in Seq(NodeIn(Len(bs)))
  BY <1>1, ShapeIsSeq DEF Shape, BlockIn
<1>3. DOMAIN bs[s[1]].insns = 1..Len(bs[s[1]].insns) /\ Len(bs[s[1]].insns) \in Nat
  BY <1>2, SeqIsFunction
<1>. QED
  BY <1>1, <1>2, <1>3

LEMMA SitesTotal ==
    ASSUME NEW bs, NEW e, Shape(bs, e), NEW s \in BodySites(bs), NEW t \in BodySites(bs)
    PROVE  s = t \/ SiteBefore(s, t) \/ SiteBefore(t, s)
<1>1. /\ s = <<s[1], s[2]>> /\ s[1] \in Nat /\ s[2] \in Nat
      /\ t = <<t[1], t[2]>> /\ t[1] \in Nat /\ t[2] \in Nat
  BY SiteNumbers
<1>2. SiteBefore(s, t) \/ SiteBefore(t, s) \/ (s[1] = t[1] /\ s[2] = t[2])
  BY <1>1 DEF SiteBefore
<1>. QED
  BY <1>1, <1>2

(* Programs whose bodies say the same of where they come from.              *)
LEMMA SameOriginsTaken ==
    ASSUME NEW bs, NEW cs, DOMAIN cs = DOMAIN bs,
           \A b \in DOMAIN bs :
              /\ DOMAIN cs[b].insns = DOMAIN bs[b].insns
              /\ \A i \in DOMAIN bs[b].insns : SameOrigin(cs[b].insns[i], bs[b].insns[i]),
           Taken(bs)
    PROVE  Taken(cs)
<1>1. PICK g : /\ Drawn(DOMAIN bs, bs, g)
               /\ InOrder(DOMAIN bs, bs, g) \/ (last' = "permute_blocks" /\ OnceEach(bs, g))
  BY DEF Taken
<1>2. BodySites(cs) = BodySites(bs)
  BY DEF BodySites
<1>3. ASSUME NEW s \in BodySites(bs)
      PROVE  /\ SameOrigin(NodeAt(cs, s), NodeAt(bs, s))
             /\ Fresh(NodeAt(cs, s)) <=> Fresh(NodeAt(bs, s))
  <2>1. s[1] \in DOMAIN bs /\ s[2] \in DOMAIN bs[s[1]].insns
    BY BodySiteIs
  <2>2. SameOrigin(NodeAt(cs, s), NodeAt(bs, s))
    BY <2>1 DEF NodeAt
  <2>. QED
    BY <2>2 DEF SameOrigin, Fresh
<1>4. Drawn(DOMAIN cs, cs, g)
  BY <1>1, <1>2, <1>3 DEF Drawn, SameOrigin
<1>5. InOrder(DOMAIN bs, bs, g) => InOrder(DOMAIN cs, cs, g)
  BY <1>2, <1>3 DEF InOrder
<1>6. OnceEach(bs, g) => OnceEach(cs, g)
  BY <1>2, <1>3 DEF OnceEach
<1>. QED
  BY <1>1, <1>4, <1>5, <1>6 DEF Taken

(* What was there once is there at most once in what is taken from it.      *)
LEMMA TakenOnce ==
    ASSUME Shape(blocks, entry), OriginalsOnce(blocks), NEW cs, NEW e, Shape(cs, e), Taken(cs)
    PROVE  OriginalsOnce(cs)
<1>1. PICK g : /\ Drawn(DOMAIN cs, cs, g)
               /\ InOrder(DOMAIN cs, cs, g) \/ (last' = "permute_blocks" /\ OnceEach(cs, g))
  BY DEF Taken
<1>. SUFFICES ASSUME NEW s \in BodySites(cs), NEW t \in BodySites(cs),
                     NodeAt(cs, s).insn = NodeAt(cs, t).insn, NodeAt(cs, s).insn # None,
                     s # t
              PROVE  FALSE
  BY DEF OriginalsOnce
<1>2. /\ s[1] \in DOMAIN cs /\ t[1] \in DOMAIN cs
      /\ ~Fresh(NodeAt(cs, s)) /\ ~Fresh(NodeAt(cs, t))
  BY BodySiteIs DEF Fresh
<1>3. /\ g[s] \in BodySites(blocks) /\ NodeAt(cs, s).insn = NodeAt(blocks, g[s]).insn
      /\ g[t] \in BodySites(blocks) /\ NodeAt(cs, t).insn = NodeAt(blocks, g[t]).insn
  BY <1>1, <1>2 DEF Drawn, SameOrigin
<1>4. g[s] = g[t]
  BY <1>3 DEF OriginalsOnce
<1>5. SiteBefore(s, t) \/ SiteBefore(t, s)
  BY SitesTotal
<1>6. ~SiteBefore(g[s], g[s])
  BY <1>3, SiteNumbers DEF SiteBefore
<1>7. CASE InOrder(DOMAIN cs, cs, g)
  BY <1>2, <1>4, <1>5, <1>6, <1>7 DEF InOrder
<1>8. CASE OnceEach(cs, g)
  BY <1>2, <1>4, <1>8 DEF OnceEach
<1>. QED
  BY <1>1, <1>7, <1>8

(* What was in order stays in order.                                        *)
LEMMA TakenInOrder ==
    ASSUME NEW cs, Taken(cs), last' # "permute_blocks", RecordsInOrder(blocks)
    PROVE  RecordsInOrder(cs)
<1>1. PICK g : Drawn(DOMAIN cs, cs, g) /\ InOrder(DOMAIN cs, cs, g)
  BY DEF Taken
<1>. SUFFICES ASSUME NEW s \in BodySites(cs), NEW t \in BodySites(cs), SiteBefore(s, t),
                     NodeAt(cs, s).btf_pc # None, NodeAt(cs, t).btf_pc # None
              PROVE  NodeAt(cs, s).btf_pc < NodeAt(cs, t).btf_pc
  BY DEF RecordsInOrder
<1>2. /\ s[1] \in DOMAIN cs /\ t[1] \in DOMAIN cs
      /\ ~Fresh(NodeAt(cs, s)) /\ ~Fresh(NodeAt(cs, t))
  BY BodySiteIs DEF Fresh
<1>3. /\ g[s] \in BodySites(blocks) /\ NodeAt(cs, s).btf_pc = NodeAt(blocks, g[s]).btf_pc
      /\ g[t] \in BodySites(blocks) /\ NodeAt(cs, t).btf_pc = NodeAt(blocks, g[t]).btf_pc
      /\ SiteBefore(g[s], g[t])
  BY <1>1, <1>2 DEF Drawn, SameOrigin, InOrder
<1>. QED
  BY <1>3 DEF RecordsInOrder

LEMMA TargetsKeptIs ==
    TargetsKept <=> KeptIn(blocks, entry, source)
BY DEF TargetsKept, KeptIn, BlockKept, TermKept, NodeKept

(* A sequence of instructions, each of which leads where it led.            *)
LEMMA KeptBody ==
    ASSUME NEW n \in Nat, NEW bs, NEW insns \in Seq(NodeIn(n))
    PROVE  (\A i \in DOMAIN insns : NodeKept(insns[i], bs, source))
             <=> insns \in Seq(KeptNodes(n, bs))
<1>1. /\ Len(insns) \in Nat /\ DOMAIN insns = 1..Len(insns)
      /\ insns \in [1..Len(insns) -> NodeIn(n)]
  BY SeqIsFunction
<1>2. ASSUME \A i \in DOMAIN insns : NodeKept(insns[i], bs, source)
      PROVE  insns \in Seq(KeptNodes(n, bs))
  <2>1. insns \in [1..Len(insns) -> KeptNodes(n, bs)]
    BY <1>1, <1>2 DEF KeptNodes
  <2>. QED
    BY <1>1, <2>1, FunctionIsSeq
<1>3. ASSUME insns \in Seq(KeptNodes(n, bs))
      PROVE  \A i \in DOMAIN insns : NodeKept(insns[i], bs, source)
  <2>1. \A i \in 1..Len(insns) : insns[i] \in KeptNodes(n, bs)
    BY <1>3, SeqIsFunction
  <2>. QED
    BY <1>1, <2>1 DEF KeptNodes
<1>. QED
  BY <1>2, <1>3

(* Blocks that keep their leads and their references keep where these lead. *)
SameReferences(blk, old) ==
    /\ blk.lead = old.lead
    /\ blk.terminator = old.terminator
    /\ DOMAIN blk.insns = DOMAIN old.insns
    /\ \A i \in DOMAIN old.insns : /\ blk.insns[i].insn = old.insns[i].insn
                                    /\ blk.insns[i].target = old.insns[i].target

LEMMA LeadsKept ==
    ASSUME NEW n \in Nat, NEW blk \in BlockIn(n), NEW bs, NEW src, BlockKept(blk, bs, src),
           NEW cs, \A r \in 1..n : cs[r].lead = bs[r].lead
    PROVE  BlockKept(blk, cs, src)
<1>. DEFINE t == blk.terminator
            insns == blk.insns
<1>1. /\ t \in TerminatorIn(n) /\ TermKept(t, bs, src)
      /\ \A i \in DOMAIN insns : insns[i] \in NodeIn(n) /\ NodeKept(insns[i], bs, src)
  BY SeqIsFunction DEF BlockIn, BlockKept
<1>. HIDE DEF t, insns
<1>2. TermKept(t, cs, src)
  <2>1. /\ t.to # None => t.to \in 1..n
        /\ t.next # None => t.next \in 1..n
    BY <1>1 DEF TerminatorIn, None
  <2>. QED
    BY <1>1, <2>1 DEF TermKept
<1>3. ASSUME NEW i \in DOMAIN insns
      PROVE  NodeKept(insns[i], cs, src)
  <2>1. insns[i].target # None => insns[i].target \in 1..n
    BY <1>1 DEF NodeIn, None
  <2>. QED
    BY <1>1, <2>1 DEF NodeKept
<1>. QED
  BY <1>2, <1>3 DEF BlockKept, t, insns

LEMMA SameReferencesKept ==
    ASSUME NEW bs, NEW e, Shape(bs, e), NEW src, KeptIn(bs, e, src),
           NEW cs, DOMAIN cs = DOMAIN bs,
           \A b \in DOMAIN bs : SameReferences(cs[b], bs[b])
    PROVE  KeptIn(cs, e, src)
<1>. DEFINE n == Len(bs)
<1>1. n \in Nat /\ DOMAIN bs = 1..n /\ e \in 1..n /\ \A b \in 1..n : bs[b] \in BlockIn(n)
  BY ShapeIsSeq DEF Shape
<1>2. \A b \in 1..n : cs[b].lead = bs[b].lead
  BY <1>1 DEF SameReferences
<1>3. ASSUME NEW b \in 1..n
      PROVE  BlockKept(cs[b], cs, src)
  <2>1. /\ bs[b].terminator \in TerminatorIn(n) /\ BlockKept(bs[b], bs, src)
        /\ \A i \in DOMAIN bs[b].insns : bs[b].insns[i] \in NodeIn(n)
    BY <1>1, SeqIsFunction DEF BlockIn, KeptIn
  <2>2. TermKept(cs[b].terminator, cs, src)
    <3>1. cs[b].terminator = bs[b].terminator /\ TermKept(bs[b].terminator, bs, src)
      BY <1>1, <2>1 DEF SameReferences, BlockKept
    <3>2. /\ bs[b].terminator.to # None => bs[b].terminator.to \in 1..n
          /\ bs[b].terminator.next # None => bs[b].terminator.next \in 1..n
      BY <1>1, <2>1 DEF TerminatorIn, None
    <3>. QED
      BY <1>2, <3>1, <3>2 DEF TermKept
  <2>3. ASSUME NEW i \in DOMAIN cs[b].insns
        PROVE  NodeKept(cs[b].insns[i], cs, src)
    <3>1. /\ i \in DOMAIN bs[b].insns /\ cs[b].insns[i].insn = bs[b].insns[i].insn
          /\ cs[b].insns[i].target = bs[b].insns[i].target
          /\ NodeKept(bs[b].insns[i], bs, src)
      BY <1>1, <2>1 DEF SameReferences, BlockKept
    <3>2. bs[b].insns[i].target # None => bs[b].insns[i].target \in 1..n
      BY <1>1, <2>1, <3>1 DEF NodeIn, None
    <3>. QED
      BY <1>2, <3>1, <3>2 DEF NodeKept
  <2>. QED
    BY <2>2, <2>3 DEF BlockKept
<1>. QED
  BY <1>1, <1>2, <1>3 DEF KeptIn

(* Recomputing edges and dropping verifier states touch no reference.       *)
LEMMA InvalidateKept ==
    ASSUME NEW bs, NEW e, Shape(bs, e), NEW src, KeptIn(bs, e, src)
    PROVE  KeptIn(invalidate_verifier_states(bs), e, src)
<1>. DEFINE cs == invalidate_verifier_states(bs)
<1>1. /\ Len(bs) \in Nat /\ DOMAIN bs = 1..Len(bs) /\ bs \in ProgramOf(Len(bs))
      /\ \A b \in 1..Len(bs) : bs[b] \in BasicBlock
  BY ShapeIsSeq DEF Shape
<1>2. DOMAIN cs = DOMAIN bs
  BY DEF invalidate_verifier_states
<1>3. ASSUME NEW b \in DOMAIN bs
      PROVE  SameReferences(cs[b], bs[b])
  <2>1. cs[b].lead = bs[b].lead
    BY <1>1 DEF invalidate_verifier_states, BasicBlock
  <2>2. cs[b].terminator = bs[b].terminator
    BY <1>1, InvalidateShape
  <2>3. /\ DOMAIN cs[b].insns = DOMAIN bs[b].insns
        /\ \A i \in DOMAIN bs[b].insns : /\ cs[b].insns[i].insn = bs[b].insns[i].insn
                                          /\ cs[b].insns[i].target = bs[b].insns[i].target
    BY <1>1, InvalidateInsns
  <2>. QED
    BY <2>1, <2>2, <2>3 DEF SameReferences
<1>. HIDE DEF cs
<1>4. KeptIn(cs, e, src)
  BY <1>2, <1>3, SameReferencesKept
<1>. QED
  BY <1>4 DEF cs

LEMMA MutateKept ==
    ASSUME NEW bs, NEW e, Shape(bs, e), KeptIn(bs, e, source),
           Mutate(bs, e) \/ MutateEdges(bs, e)
    PROVE  TargetsKept'
<1>. DEFINE n == Len(bs)
<1>1. n \in Nat /\ DOMAIN bs = 1..n /\ bs \in ProgramOf(n) /\ e \in 1..n
  BY ShapeIsSeq DEF Shape
<1>2. ASSUME NEW cs, Shape(cs, e), KeptIn(cs, e, source), Mutate(cs, e)
      PROVE  TargetsKept'
  <2>1. blocks' = invalidate_verifier_states(cs) /\ entry' = e /\ source' = source
    BY <1>2 DEF Mutate
  <2>2. KeptIn(blocks', e, source)
    BY <1>2, <2>1, InvalidateKept
  <2>3. KeptIn(blocks', entry', source')
    BY <2>1, <2>2
  <2>. QED
    BY <2>3 DEF TargetsKept, KeptIn, BlockKept, TermKept, NodeKept
<1>3. CASE MutateEdges(bs, e)
  <2>. DEFINE cs == rebuild_cfg_edges(bs)
  <2>1. /\ cs \in ProgramOf(n)
        /\ \A b \in 1..n : cs[b].terminator = bs[b].terminator /\ cs[b].insns = bs[b].insns
    BY <1>1, RebuildShape
  <2>2. \A b \in 1..n : bs[b] \in BasicBlock
    BY ShapeIsSeq
  <2>3. \A b \in 1..n : cs[b].lead = bs[b].lead
    BY <1>1, <2>2 DEF rebuild_cfg_edges, BasicBlock
  <2>4. Mutate(cs, e)
    BY <1>3 DEF MutateEdges
  <2>. HIDE DEF cs
  <2>5. Len(cs) = n /\ DOMAIN cs = 1..n
    BY <1>1, <2>1, FunctionIsSeq DEF ProgramOf
  <2>6. Shape(cs, e)
    BY <1>1, <2>1, <2>5 DEF Shape
  <2>7. \A b \in DOMAIN bs : SameReferences(cs[b], bs[b])
    BY <1>1, <2>1, <2>3 DEF SameReferences
  <2>8. KeptIn(cs, e, source)
    BY <1>1, <2>5, <2>7, SameReferencesKept
  <2>. QED
    BY <1>2, <2>4, <2>6, <2>8
<1>. QED
  BY <1>2, <1>3

(* The shape of what a good mutation leaves.                                *)
LEMMA GoodMutationResult ==
    ASSUME Inv, GoodMutation
    PROVE  /\ Shape(blocks', entry')
           /\ PredecessorsInvertSuccessors'
           /\ VerifierStatesMatchCode'
           /\ TargetsKept'
           /\ Taken(blocks')
           /\ OriginalsOnce(blocks)'
<1>1. PICK bs, e : /\ Shape(bs, e)
                   /\ KeptIn(bs, e, source)
                   /\ Taken(bs)
                   /\ \/ MutateEdges(bs, e)
                      \/ Mutate(bs, e) /\ SameEdges(bs)
  BY DEF GoodMutation
<1>. DEFINE n == Len(bs)
<1>2. n \in Nat /\ bs \in ProgramOf(n) /\ e \in 1..n
  BY <1>1 DEF Shape
<1>3. PICK cs : /\ cs \in ProgramOf(n)
                /\ Mutate(cs, e)
                /\ \A b \in 1..n : cs[b].insns = bs[b].insns
                /\ \A b \in 1..n : cs[b].predecessors =
                        {p \in 1..n : b \in successors(cs[p].terminator)}
  <2>1. CASE MutateEdges(bs, e)
    <3>1. Mutate(rebuild_cfg_edges(bs), e)
      BY <2>1 DEF MutateEdges
    <3>2. /\ rebuild_cfg_edges(bs) \in ProgramOf(n)
          /\ \A b \in 1..n : rebuild_cfg_edges(bs)[b].insns = bs[b].insns
      BY <1>2, RebuildShape
    <3>3. ASSUME NEW b \in 1..n
          PROVE  rebuild_cfg_edges(bs)[b].predecessors =
                   {p \in 1..n : b \in successors(rebuild_cfg_edges(bs)[p].terminator)}
      BY <1>2, RebuildShape
    <3>. QED
      BY <3>1, <3>2, <3>3
  <2>2. CASE Mutate(bs, e) /\ SameEdges(bs)
    <3>1. n = Len(blocks) /\ DOMAIN blocks = 1..n
      BY <2>2, ShapeIsSeq DEF SameEdges, Inv
    <3>2. ASSUME NEW b \in 1..n
          PROVE  bs[b].predecessors = {p \in 1..n : b \in successors(bs[p].terminator)}
      BY <2>2, <3>1 DEF SameEdges, Inv, PredecessorsInvertSuccessors
    <3>. QED
      BY <1>2, <2>2, <3>2
  <2>. QED
    BY <1>1, <2>1, <2>2
<1>. HIDE DEF n
<1>4. /\ blocks' = invalidate_verifier_states(cs)
      /\ entry' = e
      /\ blocks' \in ProgramOf(n)
      /\ \A b \in 1..n : /\ blocks'[b].terminator = cs[b].terminator
                          /\ blocks'[b].predecessors = cs[b].predecessors
                          /\ ~HasVerifierState(blocks'[b])
  BY <1>2, <1>3, InvalidateShape DEF Mutate
<1>5. Len(blocks') = n /\ DOMAIN blocks' = 1..n
  BY <1>2, <1>4, FunctionIsSeq DEF ProgramOf
<1>6. Shape(blocks', entry')
  BY <1>2, <1>4, <1>5 DEF Shape
<1>7. PredecessorsInvertSuccessors'
  <2>1. ASSUME NEW b \in 1..n
        PROVE  blocks'[b].predecessors = {p \in 1..n : b \in successors(blocks'[p].terminator)}
    BY <1>3, <1>4
  <2>. QED
    BY <1>5, <2>1 DEF PredecessorsInvertSuccessors
<1>8. VerifierStatesMatchCode'
  BY <1>4, <1>5 DEF VerifierStatesMatchCode, HasVerifierState
<1>9. TargetsKept'
  BY <1>1, MutateKept
<1>10. Taken(blocks')
  <2>1. DOMAIN bs = 1..n
    BY <1>2 DEF ProgramOf
  <2>2. ASSUME NEW b \in 1..n
        PROVE  /\ DOMAIN blocks'[b].insns = DOMAIN bs[b].insns
               /\ \A i \in DOMAIN bs[b].insns : SameOrigin(blocks'[b].insns[i], bs[b].insns[i])
    <3>1. /\ DOMAIN invalidate_verifier_states(cs)[b].insns = DOMAIN cs[b].insns
          /\ \A i \in DOMAIN cs[b].insns :
                SameOrigin(invalidate_verifier_states(cs)[b].insns[i], cs[b].insns[i])
      BY <1>2, <1>3, InvalidateInsns DEF SameOrigin
    <3>. QED
      BY <1>3, <1>4, <3>1
  <2>. QED
    BY <1>1, <1>5, <2>1, <2>2, SameOriginsTaken
<1>11. OriginalsOnce(blocks')
  BY <1>6, <1>10, TakenOnce DEF Inv
<1>. QED
  BY <1>6, <1>7, <1>8, <1>9, <1>10, <1>11 DEF OriginalsOnce, NodeAt, BodySites

-----------------------------------------------------------------------------
(* Operators of the operations.                                             *)

LEMMA SpliceType ==
    ASSUME NEW S, NEW insns \in Seq(S), NEW new \in Seq(S),
           NEW i \in 1..(Len(insns) + 1), NEW old_len \in Nat,
           i - 1 + old_len <= Len(insns)
    PROVE  Splice(insns, i, old_len, new) \in Seq(S)
<1>1. Len(insns) \in Nat /\ \A k \in 1..Len(insns) : insns[k] \in S
  BY SeqIsFunction
<1>2. SubSeq(insns, 1, i - 1) \in Seq(S)
  BY <1>1, SubSeqProperties
<1>3. SubSeq(insns, i + old_len, Len(insns)) \in Seq(S)
  <2>1. i + old_len \in Int /\ \A k \in (i + old_len)..Len(insns) : insns[k] \in S
    BY <1>1
  <2>. QED
    BY <1>1, <2>1, SubSeqProperties
<1>. QED
  BY <1>2, <1>3, ConcatProperties DEF Splice

(* The front, what was spliced in, and the rest.                            *)
LEMMA SpliceAt ==
    ASSUME NEW S, NEW insns \in Seq(S), NEW new \in Seq(S),
           NEW i \in 1..(Len(insns) + 1), NEW old_len \in Nat,
           i - 1 + old_len <= Len(insns)
    PROVE  LET r == Splice(insns, i, old_len, new) IN
           /\ Len(r) = Len(insns) - old_len + Len(new)
           /\ DOMAIN r = 1..(Len(insns) - old_len + Len(new))
           /\ \A k \in DOMAIN r :
                 r[k] = IF k < i THEN insns[k]
                        ELSE IF k < i + Len(new) THEN new[k - i + 1]
                        ELSE insns[k - Len(new) + old_len]
<1>. DEFINE front == SubSeq(insns, 1, i - 1)
            back == SubSeq(insns, i + old_len, Len(insns))
            r == Splice(insns, i, old_len, new)
<1>1. Len(insns) \in Nat /\ Len(new) \in Nat /\ \A k \in 1..Len(insns) : insns[k] \in S
  BY SeqIsFunction
<1>2. front \in Seq(S) /\ Len(front) = i - 1 /\ \A k \in 1..(i - 1) : front[k] = insns[k]
  BY <1>1, SubSeqProperties
<1>3. /\ back \in Seq(S) /\ Len(back) = Len(insns) - (i - 1 + old_len)
      /\ \A k \in 1..Len(back) : back[k] = insns[i + old_len + k - 1]
  <2>1. i + old_len \in Int /\ i + old_len <= Len(insns) + 1
        /\ \A k \in (i + old_len)..Len(insns) : insns[k] \in S
    BY <1>1
  <2>2. /\ back \in Seq(S)
        /\ Len(back) = IF i + old_len <= Len(insns) THEN Len(insns) - (i + old_len) + 1 ELSE 0
        /\ \A k \in 1..(Len(insns) - (i + old_len) + 1) : back[k] = insns[i + old_len + k - 1]
    BY <1>1, <2>1, SubSeqProperties
  <2>3. Len(back) = Len(insns) - (i - 1 + old_len)
    BY <1>1, <2>1, <2>2
  <2>. HIDE DEF back
  <2>. QED
    BY <1>1, <2>1, <2>2, <2>3
<1>. HIDE DEF front, back
<1>4. /\ front \o new \in Seq(S) /\ Len(front \o new) = Len(front) + Len(new)
      /\ \A k \in 1..(Len(front) + Len(new)) :
            (front \o new)[k] = IF k <= Len(front) THEN front[k] ELSE new[k - Len(front)]
  BY <1>2, ConcatProperties
<1>5. r = (front \o new) \o back
  BY DEF Splice, front, back
<1>. DEFINE fn == front \o new
<1>. HIDE DEF fn, r
<1>6. /\ fn \in Seq(S) /\ Len(fn) = i - 1 + Len(new)
      /\ \A k \in 1..(i - 1 + Len(new)) :
            fn[k] = IF k <= i - 1 THEN insns[k] ELSE new[k - (i - 1)]
  BY <1>1, <1>2, <1>4 DEF fn
<1>7. /\ r \in Seq(S) /\ Len(r) = Len(fn) + Len(back)
      /\ \A k \in 1..(Len(fn) + Len(back)) :
            r[k] = IF k <= Len(fn) THEN fn[k] ELSE back[k - Len(fn)]
  <2>1. r = fn \o back
    BY <1>5 DEF fn
  <2>. QED
    BY ONLY <1>3, <1>6, <2>1, ConcatProperties
<1>8. Len(r) = Len(insns) - old_len + Len(new) /\ DOMAIN r = 1..Len(r)
  BY <1>1, <1>3, <1>6, <1>7, SeqIsFunction
<1>9. ASSUME NEW k \in 1..Len(r)
      PROVE  r[k] = IF k < i THEN insns[k]
                    ELSE IF k < i + Len(new) THEN new[k - i + 1]
                    ELSE insns[k - Len(new) + old_len]
  <2>1. r[k] = IF k <= Len(fn) THEN fn[k] ELSE back[k - Len(fn)]
    BY <1>7
  <2>2. CASE k < i
    <3>1. k \in 1..(i - 1 + Len(new)) /\ k <= Len(fn) /\ k <= i - 1
      BY <1>1, <1>6, <2>2
    <3>. QED
      BY <1>6, <2>1, <2>2, <3>1
  <2>3. CASE ~(k < i) /\ k < i + Len(new)
    <3>1. k \in 1..(i - 1 + Len(new)) /\ k <= Len(fn) /\ ~(k <= i - 1) /\ k - (i - 1) = k - i + 1
      BY <1>1, <1>6, <2>3
    <3>. QED
      BY <1>6, <2>1, <2>3, <3>1
  <2>4. CASE ~(k < i) /\ ~(k < i + Len(new))
    <3>1. /\ ~(k <= Len(fn)) /\ k - Len(fn) \in 1..Len(back)
          /\ i + old_len + (k - Len(fn)) - 1 = k - Len(new) + old_len
      BY <1>1, <1>3, <1>6, <1>7, <2>4
    <3>. QED
      BY <1>3, <2>1, <2>4, <3>1
  <2>. QED
    BY <2>2, <2>3, <2>4
<1>. QED
  BY <1>8, <1>9 DEF r

LEMMA SpliceTaken ==
    ASSUME NEW S, NEW insns \in Seq(S), NEW new \in Seq(S), \A k \in DOMAIN new : Fresh(new[k]),
           NEW i \in 1..(Len(insns) + 1), NEW old_len \in Nat,
           i - 1 + old_len <= Len(insns)
    PROVE  \E h : TakenFrom(Splice(insns, i, old_len, new), insns, h)
<1>. DEFINE r == Splice(insns, i, old_len, new)
            h == [k \in DOMAIN r |-> IF k < i THEN k ELSE k - Len(new) + old_len]
<1>1. /\ Len(insns) \in Nat /\ DOMAIN insns = 1..Len(insns)
      /\ Len(new) \in Nat /\ DOMAIN new = 1..Len(new)
  BY SeqIsFunction
<1>2. /\ DOMAIN r = 1..(Len(insns) - old_len + Len(new))
      /\ \A k \in DOMAIN r :
            r[k] = IF k < i THEN insns[k]
                   ELSE IF k < i + Len(new) THEN new[k - i + 1]
                   ELSE insns[k - Len(new) + old_len]
  BY SpliceAt
<1>. HIDE DEF r
<1>3. \A k \in DOMAIN r : h[k] = IF k < i THEN k ELSE k - Len(new) + old_len
  OBVIOUS
<1>. HIDE DEF h
<1>4. ASSUME NEW k \in DOMAIN r, ~Fresh(r[k])
      PROVE  (k < i \/ k >= i + Len(new)) /\ h[k] \in DOMAIN insns /\ r[k] = insns[h[k]]
  <2>1. CASE k < i
    BY <1>1, <1>2, <1>3, <2>1
  <2>2. CASE ~(k < i) /\ k < i + Len(new)
    <3>1. k - i + 1 \in DOMAIN new
      BY <1>1, <1>2, <2>2
    <3>. QED
      BY <1>2, <1>4, <2>2, <3>1
  <2>3. CASE ~(k < i) /\ ~(k < i + Len(new))
    <3>1. k - Len(new) + old_len \in DOMAIN insns /\ k >= i + Len(new)
      BY <1>1, <1>2, <2>3
    <3>. QED
      BY <1>2, <1>3, <2>3, <3>1
  <2>. QED
    BY <2>1, <2>2, <2>3
<1>5. ASSUME NEW k \in DOMAIN r, NEW l \in DOMAIN r, k < l, ~Fresh(r[k]), ~Fresh(r[l])
      PROVE  h[k] < h[l]
  <2>1. (k < i \/ k >= i + Len(new)) /\ (l < i \/ l >= i + Len(new))
    BY <1>4, <1>5
  <2>2. h[k] = (IF k < i THEN k ELSE k - Len(new) + old_len)
        /\ h[l] = (IF l < i THEN l ELSE l - Len(new) + old_len)
    BY <1>3
  <2>. QED
    BY <1>1, <1>2, <1>5, <2>1, <2>2
<1>6. TakenFrom(r, insns, h)
  BY <1>4, <1>5 DEF TakenFrom, SameOrigin
<1>. QED
  BY <1>6 DEF r

(* Slots that can be spliced in: none of them starts with the second half   *)
(* of a two-slot load.                                                      *)
Insertable(ops) ==
    /\ ops \in Seq(BodyOps \cup {"hi"})
    /\ \A k \in ReplacementStarts(ops) : ops[k] # "hi"

LEMMA ReplacementsInsertable ==
    /\ \A ops \in Replacements : Insertable(ops)
    /\ Insertable(<<>>)
<1>1. \A ops \in Replacements : Insertable(ops)
  BY ProgramsAssumption DEF Insertable
<1>2. Insertable(<<>>)
  <2>1. <<>> \in Seq(BodyOps \cup {"hi"}) /\ DOMAIN <<>> = {}
    BY EmptySeq
  <2>. QED
    BY <2>1 DEF Insertable, ReplacementStarts
<1>. QED
  BY <1>1, <1>2

(* What is spliced in has no original bytecode position.                    *)
LEMMA ReplacementType ==
    ASSUME NEW ops, Insertable(ops), NEW n \in Nat
    PROVE  /\ logical_replacement(ops) \in Seq(NodeIn(n))
           /\ \A k \in DOMAIN logical_replacement(ops) :
                 /\ logical_replacement(ops)[k].insn = None
                 /\ logical_replacement(ops)[k].target = None
                 /\ Fresh(logical_replacement(ops)[k])
<1>. DEFINE starts == ReplacementStarts(ops)
            at == SortedSeq(starts)
<1>1. /\ ops \in Seq(BodyOps \cup {"hi"})
      /\ \A k \in starts : ops[k] # "hi"
  BY DEF Insertable
<1>2. Len(ops) \in Nat /\ DOMAIN ops = 1..Len(ops)
      /\ \A k \in 1..Len(ops) : ops[k] \in BodyOps \cup {"hi"}
  BY <1>1, SeqIsFunction
<1>3. starts \in SUBSET (1..Len(ops))
  BY <1>2 DEF ReplacementStarts
<1>4. IsFiniteSet(starts) /\ starts \in SUBSET Int
  <2>1. IsFiniteSet(1..Len(ops))
    BY <1>2, FS_Interval
  <2>2. IsFiniteSet(starts)
    BY <1>3, <2>1, FS_Subset
  <2>. QED
    BY <1>3, <2>2
<1>. HIDE DEF starts
<1>5. /\ Cardinality(starts) \in Nat
      /\ DOMAIN at = 1..Cardinality(starts)
      /\ \A k \in 1..Cardinality(starts) : at[k] \in starts
  <2>1. Cardinality(starts) \in Nat
    BY <1>4, FS_CardinalityType
  <2>2. \A k \in 1..Cardinality(starts) : Kth(starts, k) \in starts
    BY <1>4, KthElement
  <2>3. /\ DOMAIN at = 1..Cardinality(starts)
        /\ \A k \in 1..Cardinality(starts) : at[k] = Kth(starts, k)
    BY <1>4, SortedSeqType
  <2>. HIDE DEF at
  <2>. QED
    BY <2>1, <2>2, <2>3
<1>. HIDE DEF at
<1>6. \A k \in 1..Cardinality(starts) : InsnNode(ops[at[k]], None) \in NodeIn(n)
  BY <1>1, <1>2, <1>3, <1>5, NewNode DEF None
<1>7. logical_replacement(ops) = [k \in 1..Cardinality(starts) |-> InsnNode(ops[at[k]], None)]
  BY <1>5 DEF logical_replacement, at, starts
<1>8. logical_replacement(ops) \in [1..Cardinality(starts) -> NodeIn(n)]
  BY <1>6, <1>7
<1>9. \A k \in 1..Cardinality(starts) :
          /\ logical_replacement(ops)[k].insn = None
          /\ logical_replacement(ops)[k].target = None
          /\ Fresh(logical_replacement(ops)[k])
  BY <1>7 DEF InsnNode, Fresh
<1>. QED
  BY <1>5, <1>8, <1>9, FunctionIsSeq

LEMMA ReplacementKept ==
    ASSUME NEW ops, Insertable(ops), NEW n \in Nat, NEW bs
    PROVE  logical_replacement(ops) \in Seq(KeptNodes(n, bs))
<1>1. /\ logical_replacement(ops) \in Seq(NodeIn(n))
      /\ \A k \in DOMAIN logical_replacement(ops) : logical_replacement(ops)[k].target = None
  BY ReplacementType
<1>2. \A k \in DOMAIN logical_replacement(ops) : NodeKept(logical_replacement(ops)[k], bs, source)
  BY <1>1 DEF NodeKept
<1>. QED
  BY <1>1, <1>2, KeptBody

LEMMA ReferencesInside ==
    ASSUME NEW n \in Nat, NEW blk \in BlockIn(n)
    PROVE  References(blk) \subseteq 1..n
<1>1. blk.terminator \in TerminatorIn(n) /\ blk.insns \in Seq(NodeIn(n))
  BY DEF BlockIn
<1>2. \A i \in DOMAIN blk.insns : blk.insns[i] \in NodeIn(n)
  BY <1>1, SeqIsFunction
<1>. QED
  BY <1>1, <1>2 DEF References, successors, TerminatorIn, NodeIn, None

(* A block whose references are sent into 1..m belongs to a program of m    *)
(* blocks.                                                                  *)
LEMMA RemapType ==
    ASSUME NEW n \in Nat, NEW m \in Nat, NEW blk \in BlockIn(n), NEW f,
           \A r \in References(blk) : f[r] \in 1..m
    PROVE  RemapBlock(blk, f) \in BlockIn(m)
<1>. DEFINE insns == blk.insns
            t == blk.terminator
<1>1. blk \in BasicBlock /\ insns \in Seq(NodeIn(n)) /\ t \in TerminatorIn(n)
  BY DEF BlockIn
<1>2. /\ Len(insns) \in Nat /\ DOMAIN insns = 1..Len(insns)
      /\ \A i \in 1..Len(insns) : insns[i] \in NodeIn(n)
  BY <1>1, SeqIsFunction
<1>3. MapTarget(t.to, f) \in 0..m /\ MapTarget(t.next, f) \in 0..m
  BY DEF References, successors, MapTarget, None
<1>4. remap_terminator(t, f) \in TerminatorIn(m)
  <2>1. ASSUME NEW x \in 0..m, NEW y \in 0..m, NEW u \in TerminatorIn(n)
        PROVE  [u EXCEPT !.to = x, !.next = y] \in TerminatorIn(m)
    <3>1. u \in Terminator /\ x \in Nat /\ y \in Nat
      BY DEF TerminatorIn
    <3>2. /\ [u EXCEPT !.to = x, !.next = y] \in Terminator
          /\ [u EXCEPT !.to = x, !.next = y].to = x
          /\ [u EXCEPT !.to = x, !.next = y].next = y
      BY <3>1 DEF Terminator
    <3>. QED
      BY <3>2 DEF TerminatorIn
  <2>. QED
    BY <1>1, <1>3, <2>1 DEF remap_terminator
<1>5. ASSUME NEW i \in 1..Len(insns)
      PROVE  [insns[i] EXCEPT !.target = MapTarget(@, f)] \in NodeIn(m)
  <2>1. insns[i].target # None => insns[i].target \in References(blk)
    BY <1>2 DEF References
  <2>2. MapTarget(insns[i].target, f) \in 0..m
    BY <2>1 DEF MapTarget, None
  <2>. QED
    BY <1>2, <2>2 DEF NodeIn, Node
<1>6. RemapInsns(insns, f) \in [1..Len(insns) -> NodeIn(m)]
  BY <1>2, <1>5 DEF RemapInsns
<1>7. RemapInsns(insns, f) \in Seq(NodeIn(m))
  BY <1>2, <1>6, FunctionIsSeq
<1>8. RemapInsns(insns, f) \in Seq(Node)
  BY <1>7, SeqMonotonic DEF NodeIn
<1>9. remap_terminator(t, f) \in Terminator
  BY <1>4 DEF TerminatorIn
<1>10. RemapBlock(blk, f) =
        [blk EXCEPT !.terminator = remap_terminator(t, f), !.insns = RemapInsns(insns, f)]
  BY <1>1 DEF RemapBlock, BasicBlock
<1>. HIDE DEF insns, t
<1>. QED
  BY <1>1, <1>4, <1>7, <1>8, <1>9, <1>10 DEF BlockIn, BasicBlock

(* References sent to the new numbers of their blocks lead where they led.  *)
LEMMA RemapKept ==
    ASSUME NEW n \in Nat, NEW blk \in BlockIn(n), NEW f, NEW bs, NEW cs, NEW src,
           BlockKept(blk, bs, src),
           \A r \in References(blk) : f[r] # None /\ cs[f[r]].lead = bs[r].lead
    PROVE  /\ BlockKept(RemapBlock(blk, f), cs, src)
           /\ RemapBlock(blk, f).lead = blk.lead
<1>. DEFINE insns == blk.insns
            t == blk.terminator
<1>1. /\ blk \in BasicBlock /\ t \in Terminator
      /\ \A i \in DOMAIN insns : insns[i] \in Node
  BY SeqIsFunction DEF BlockIn, TerminatorIn, NodeIn
<1>2. /\ RemapBlock(blk, f).terminator = remap_terminator(t, f)
      /\ RemapBlock(blk, f).insns = RemapInsns(insns, f)
      /\ RemapBlock(blk, f).lead = blk.lead
  BY <1>1 DEF RemapBlock, BasicBlock
<1>3. TermKept(remap_terminator(t, f), cs, src)
  <2>1. /\ remap_terminator(t, f).insn = t.insn
        /\ remap_terminator(t, f).to = MapTarget(t.to, f)
        /\ remap_terminator(t, f).next = MapTarget(t.next, f)
    BY <1>1 DEF remap_terminator, Terminator
  <2>2. /\ t.to # None => cs[f[t.to]].lead = bs[t.to].lead
        /\ t.next # None => cs[f[t.next]].lead = bs[t.next].lead
    BY DEF References, successors
  <2>3. TermKept(t, bs, src)
    BY DEF BlockKept
  <2>. HIDE DEF t
  <2>. QED
    BY <2>1, <2>2, <2>3 DEF TermKept, MapTarget
<1>4. ASSUME NEW i \in DOMAIN insns
      PROVE  NodeKept(RemapInsns(insns, f)[i], cs, src)
  <2>1. /\ RemapInsns(insns, f)[i].insn = insns[i].insn
        /\ RemapInsns(insns, f)[i].target = MapTarget(insns[i].target, f)
    BY <1>1 DEF RemapInsns, Node
  <2>2. insns[i].target # None => cs[f[insns[i].target]].lead = bs[insns[i].target].lead
    BY DEF References
  <2>3. NodeKept(insns[i], bs, src)
    BY DEF BlockKept
  <2>. QED
    BY <2>1, <2>2, <2>3 DEF NodeKept, MapTarget
<1>5. DOMAIN RemapInsns(insns, f) = DOMAIN insns
  BY DEF RemapInsns
<1>. HIDE DEF insns, t
<1>. QED
  BY <1>2, <1>3, <1>4, <1>5 DEF BlockKept

(* Blocks taken in another order, some left out: f is the way back.         *)
LEMMA RenumberKept ==
    ASSUME NEW bs, NEW e, Shape(bs, e), NEW src, KeptIn(bs, e, src),
           NEW m \in Nat, NEW kept \in SUBSET (1..Len(bs)), e \in kept,
           NEW order, DOMAIN order = 1..m, \A k \in 1..m : order[k] \in kept,
           \A b \in kept : References(bs[b]) \subseteq kept,
           NEW f, \A b \in kept : f[b] \in 1..m /\ order[f[b]] = b
    PROVE  KeptIn(Renumber(bs, order, f), f[e], src)
<1>. DEFINE n == Len(bs)
            cs == Renumber(bs, order, f)
<1>1. n \in Nat /\ DOMAIN bs = 1..n /\ \A b \in 1..n : bs[b] \in BlockIn(n) /\ bs[b] \in BasicBlock
  BY ShapeIsSeq DEF Shape
<1>2. DOMAIN cs = 1..m /\ \A k \in 1..m : cs[k] = RemapBlock(bs[order[k]], f)
  BY DEF Renumber
<1>3. \A k \in 1..m : RemapBlock(bs[order[k]], f).lead = bs[order[k]].lead
  BY <1>1 DEF RemapBlock, BasicBlock
<1>. HIDE DEF cs
<1>4. \A b \in kept : cs[f[b]].lead = bs[b].lead
  BY <1>2, <1>3
<1>5. ASSUME NEW k \in 1..m
      PROVE  BlockKept(cs[k], cs, src)
  <2>1. /\ bs[order[k]] \in BlockIn(n) /\ BlockKept(bs[order[k]], bs, src)
        /\ References(bs[order[k]]) \subseteq kept
    BY <1>1 DEF KeptIn
  <2>2. \A r \in kept : f[r] # None
    BY DEF None
  <2>3. \A r \in References(bs[order[k]]) : f[r] # None /\ cs[f[r]].lead = bs[r].lead
    BY <1>4, <2>1, <2>2
  <2>4. BlockKept(RemapBlock(bs[order[k]], f), cs, src)
    BY <1>1, <2>1, <2>3, RemapKept
  <2>. QED
    BY <1>2, <2>4
<1>6. cs[f[e]].lead = 1
  BY <1>4 DEF KeptIn
<1>. QED
  BY <1>2, <1>5, <1>6 DEF KeptIn, cs

(* One block replaced by another of the same lead.                          *)
LEMMA EditKept ==
    ASSUME NEW bs, NEW e, Shape(bs, e), NEW src, KeptIn(bs, e, src), NEW b \in 1..Len(bs),
           NEW blk \in BlockIn(Len(bs)), blk.lead = bs[b].lead, BlockKept(blk, bs, src)
    PROVE  KeptIn([bs EXCEPT ![b] = blk], e, src)
<1>. DEFINE n == Len(bs)
            cs == [bs EXCEPT ![b] = blk]
<1>1. n \in Nat /\ DOMAIN bs = 1..n /\ e \in 1..n /\ \A k \in 1..n : bs[k] \in BlockIn(n)
  BY ShapeIsSeq DEF Shape
<1>2. DOMAIN cs = 1..n /\ cs[b] = blk /\ \A k \in 1..n : k # b => cs[k] = bs[k]
  BY <1>1
<1>. HIDE DEF cs
<1>3. \A k \in 1..n : cs[k].lead = bs[k].lead
  BY <1>2
<1>4. \A k \in 1..n : cs[k] \in BlockIn(n) /\ BlockKept(cs[k], bs, src)
  BY <1>1, <1>2 DEF KeptIn
<1>5. \A k \in 1..n : BlockKept(cs[k], cs, src)
  BY <1>1, <1>3, <1>4, LeadsKept
<1>6. cs[e].lead = 1
  BY <1>1, <1>3 DEF KeptIn
<1>. QED
  BY <1>2, <1>5, <1>6 DEF KeptIn, cs

(* A block with another body, another terminator, or both.                  *)
LEMMA BodyEdit ==
    ASSUME NEW n \in Nat, NEW blk \in BlockIn(n), NEW bs, NEW insns \in Seq(KeptNodes(n, bs)),
           blk.terminator \in KeptTerminators(n, bs)
    PROVE  /\ [blk EXCEPT !.insns = insns] \in BlockIn(n)
           /\ [blk EXCEPT !.insns = insns].terminator = blk.terminator
           /\ [blk EXCEPT !.insns = insns].predecessors = blk.predecessors
           /\ [blk EXCEPT !.insns = insns].lead = blk.lead
           /\ BlockKept([blk EXCEPT !.insns = insns], bs, source)
<1>. DEFINE new == [blk EXCEPT !.insns = insns]
<1>1. KeptNodes(n, bs) \subseteq NodeIn(n) /\ NodeIn(n) \subseteq Node
  BY DEF KeptNodes, NodeIn
<1>2. insns \in Seq(NodeIn(n)) /\ insns \in Seq(Node)
  BY <1>1, SeqMonotonic
<1>3. /\ new \in BlockIn(n)
      /\ new.terminator = blk.terminator
      /\ new.predecessors = blk.predecessors
      /\ new.lead = blk.lead
      /\ new.insns = insns
  BY <1>2 DEF BlockIn, BasicBlock
<1>. HIDE DEF new
<1>4. BlockKept(new, bs, source)
  BY <1>2, <1>3, KeptBody DEF BlockKept, KeptTerminators
<1>. QED
  BY <1>3, <1>4 DEF new

LEMMA TerminatorEdit ==
    ASSUME NEW n \in Nat, NEW blk \in BlockIn(n), NEW bs, NEW t \in KeptTerminators(n, bs),
           blk.insns \in Seq(KeptNodes(n, bs)), NEW pc \in Nat
    PROVE  LET new == [blk EXCEPT !.terminator = t, !.btf_pc = pc]
           IN  new \in BlockIn(n) /\ new.lead = blk.lead /\ BlockKept(new, bs, source)
<1>. DEFINE new == [blk EXCEPT !.terminator = t, !.btf_pc = pc]
<1>1. t \in TerminatorIn(n) /\ t \in Terminator /\ TermKept(t, bs, source)
  BY DEF TerminatorIn, KeptTerminators
<1>2. /\ new \in BlockIn(n) /\ new.lead = blk.lead
      /\ new.insns = blk.insns /\ new.terminator = t
      /\ blk.insns \in Seq(NodeIn(n))
  BY <1>1 DEF BlockIn, BasicBlock
<1>. HIDE DEF new
<1>3. BlockKept(new, bs, source)
  BY <1>1, <1>2, KeptBody DEF BlockKept
<1>. QED
  BY <1>2, <1>3 DEF new

LEMMA ProgramEdit ==
    ASSUME NEW bs, NEW e, Shape(bs, e), NEW b \in 1..Len(bs), NEW blk \in BlockIn(Len(bs))
    PROVE  /\ Shape([bs EXCEPT ![b] = blk], e)
           /\ Len([bs EXCEPT ![b] = blk]) = Len(bs)
<1>1. bs \in Seq(BlockIn(Len(bs))) /\ DOMAIN bs = 1..Len(bs)
  BY ShapeIsSeq
<1>2. /\ [bs EXCEPT ![b] = blk] \in Seq(BlockIn(Len(bs)))
      /\ Len([bs EXCEPT ![b] = blk]) = Len(bs)
  BY <1>1, ExceptSeq
<1>3. [bs EXCEPT ![b] = blk] \in [1..Len(bs) -> BlockIn(Len(bs))]
  BY DEF Shape, ProgramOf
<1>. QED
  BY <1>2, <1>3 DEF Shape, ProgramOf

(* Renumbering moves instructions with the positions they carry.            *)
LEMMA RemapOrigin ==
    ASSUME NEW n \in Nat, NEW blk \in BlockIn(n), NEW f
    PROVE  /\ DOMAIN RemapBlock(blk, f).insns = DOMAIN blk.insns
           /\ \A i \in DOMAIN blk.insns : SameOrigin(RemapBlock(blk, f).insns[i], blk.insns[i])
<1>. DEFINE insns == blk.insns
<1>1. blk \in BasicBlock /\ insns \in Seq(NodeIn(n))
  BY DEF BlockIn
<1>2. RemapBlock(blk, f).insns = RemapInsns(insns, f)
  BY <1>1 DEF RemapBlock, BasicBlock
<1>. HIDE DEF insns
<1>3. \A i \in DOMAIN insns : insns[i] \in NodeIn(n)
  BY <1>1, SeqIsFunction
<1>4. \A x \in NodeIn(n) : SameOrigin([x EXCEPT !.target = MapTarget(@, f)], x)
  BY DEF NodeIn, Node, SameOrigin
<1>5. DOMAIN RemapInsns(insns, f) = DOMAIN insns
  BY DEF RemapInsns
<1>6. \A i \in DOMAIN insns :
         RemapInsns(insns, f)[i] = [insns[i] EXCEPT !.target = MapTarget(@, f)]
  BY DEF RemapInsns
<1>7. \A i \in DOMAIN insns : SameOrigin(RemapInsns(insns, f)[i], insns[i])
  BY <1>3, <1>4, <1>6
<1>. QED
  BY <1>2, <1>5, <1>7 DEF insns

(* Blocks taken in another order bring their instructions with them.        *)
LEMMA RenumberDrawn ==
    ASSUME NEW bs, NEW e, Shape(bs, e), NEW m \in Nat, NEW K \in SUBSET (1..Len(bs)),
           NEW order, DOMAIN order = 1..m, \A k \in 1..m : order[k] \in K,
           NEW f, NEW g, Drawn(K, bs, g)
    PROVE  LET cs == Renumber(bs, order, f)
               At(s) == <<order[s[1]], s[2]>>
               h == [s \in BodySites(cs) |-> g[At(s)]]
           IN  /\ Drawn(DOMAIN cs, cs, h)
               /\ \A s \in BodySites(cs) :
                    /\ s = <<s[1], s[2]>> /\ s[1] \in 1..m
                    /\ At(s) \in BodySites(bs) /\ At(s)[1] = order[s[1]] /\ At(s)[2] = s[2]
                    /\ order[s[1]] \in K /\ h[s] = g[At(s)]
                    /\ Fresh(NodeAt(bs, At(s))) <=> Fresh(NodeAt(cs, s))
<1>. DEFINE cs == Renumber(bs, order, f)
            At(s) == <<order[s[1]], s[2]>>
            h == [s \in BodySites(cs) |-> g[At(s)]]
            n == Len(bs)
<1>1. n \in Nat /\ DOMAIN bs = 1..n /\ \A b \in 1..n : bs[b] \in BlockIn(n)
  BY ShapeIsSeq DEF Shape
<1>2. DOMAIN cs = 1..m /\ \A k \in 1..m : cs[k] = RemapBlock(bs[order[k]], f)
  BY DEF Renumber
<1>3. \A s \in BodySites(cs) : h[s] = g[At(s)]
  OBVIOUS
<1>. HIDE DEF cs, h, n
<1>4. ASSUME NEW s \in BodySites(cs)
      PROVE  /\ s = <<s[1], s[2]>> /\ s[1] \in 1..m
             /\ At(s) \in BodySites(bs) /\ At(s)[1] = order[s[1]] /\ At(s)[2] = s[2]
             /\ order[s[1]] \in K
             /\ SameOrigin(NodeAt(cs, s), NodeAt(bs, At(s)))
  <2>1. s = <<s[1], s[2]>> /\ s[1] \in 1..m /\ s[2] \in DOMAIN cs[s[1]].insns
    BY <1>2, BodySiteIs
  <2>2. order[s[1]] \in K /\ order[s[1]] \in 1..n /\ cs[s[1]] = RemapBlock(bs[order[s[1]]], f)
    BY <1>2, <2>1 DEF n
  <2>3. bs[order[s[1]]] \in BlockIn(n)
    BY <1>1, <2>2
  <2>4. /\ s[2] \in DOMAIN bs[order[s[1]]].insns
        /\ SameOrigin(cs[s[1]].insns[s[2]], bs[order[s[1]]].insns[s[2]])
    BY <1>1, <2>1, <2>2, <2>3, RemapOrigin
  <2>5. At(s)[1] = order[s[1]] /\ At(s)[2] = s[2] /\ At(s) = <<At(s)[1], At(s)[2]>>
    OBVIOUS
  <2>. HIDE DEF At
  <2>6. At(s) \in BodySites(bs)
    BY <1>1, <2>2, <2>4, <2>5, BodySiteIs
  <2>. QED
    BY <2>1, <2>2, <2>4, <2>5, <2>6 DEF NodeAt
<1>. HIDE DEF At
<1>5. \A s \in BodySites(cs) : Fresh(NodeAt(bs, At(s))) <=> Fresh(NodeAt(cs, s))
  BY <1>4 DEF SameOrigin, Fresh
<1>6. Drawn(DOMAIN cs, cs, h)
  BY <1>3, <1>4, <1>5 DEF Drawn, SameOrigin
<1>. QED
  BY <1>3, <1>4, <1>5, <1>6 DEF cs, h, At

(* Removing blocks that nothing kept refers to.                             *)
LEMMA RemovalGood ==
    ASSUME NEW bs, NEW e, Shape(bs, e), NEW removed \in SUBSET (1..Len(bs)),
           KeptIn(bs, e, source), remove_blocks_in_place(bs, e, removed),
           NEW g, Drawn((1..Len(bs)) \ removed, bs, g), InOrder((1..Len(bs)) \ removed, bs, g)
    PROVE  GoodMutation
<1>. DEFINE n == Len(bs)
            kept == (1..n) \ removed
            m == Cardinality(kept)
            f == [b \in DOMAIN bs |-> remap_block_after_remove(b, removed)]
            order == SortedSeq(kept)
            cs == Renumber(bs, order, f)
<1>1. n \in Nat /\ DOMAIN bs = 1..n /\ e \in 1..n /\ \A b \in 1..n : bs[b] \in BlockIn(n)
  BY ShapeIsSeq DEF Shape
<1>2. RemoveOk(bs, e, removed) /\ MutateEdges(cs, f[e])
  BY <1>1 DEF remove_blocks_in_place
<1>3. e \in kept /\ \A b \in kept : References(bs[b]) \cap removed = {}
  BY <1>1, <1>2 DEF RemoveOk
<1>4. IsFiniteSet(kept) /\ m \in Nat
  <2>1. IsFiniteSet(kept)
    BY <1>1, <1>3, RemovalRank
  <2>. QED
    BY <2>1, FS_CardinalityType
<1>5. \A b \in kept : f[b] \in 1..m
  BY <1>1, RemovalRank DEF remap_block_after_remove
<1>6. DOMAIN order = 1..m /\ \A k \in 1..m : order[k] \in kept
  <2>1. kept \in SUBSET Int
    BY <1>1
  <2>2. /\ DOMAIN order = 1..m
        /\ \A k \in 1..m : order[k] = Kth(kept, k)
    BY <1>4, <2>1, SortedSeqType
  <2>3. \A k \in 1..m : Kth(kept, k) \in kept
    BY <1>4, <2>1, KthElement
  <2>. HIDE DEF order, kept
  <2>. QED
    BY <2>2, <2>3
<1>7. ASSUME NEW b \in kept
      PROVE  RemapBlock(bs[b], f) \in BlockIn(m)
  <2>1. bs[b] \in BlockIn(n)
    BY <1>1
  <2>2. References(bs[b]) \subseteq 1..n
    BY <1>1, <2>1, ReferencesInside
  <2>3. \A r \in References(bs[b]) : f[r] \in 1..m
    BY <1>3, <1>5, <2>2
  <2>. HIDE DEF f
  <2>. QED
    BY <1>1, <1>4, <2>1, <2>3, RemapType
<1>. HIDE DEF f, m, order, kept
<1>8. cs \in [1..m -> BlockIn(m)]
  BY <1>6, <1>7 DEF Renumber
<1>9. Len(cs) = m
  BY <1>4, <1>8, FunctionIsSeq
<1>10. Shape(cs, f[e])
  BY <1>3, <1>4, <1>5, <1>8, <1>9 DEF Shape, ProgramOf
<1>11. \A b \in kept : order[f[b]] = b
  <2>1. kept \in SUBSET Int
    BY <1>1 DEF kept
  <2>. SUFFICES ASSUME NEW b \in kept
                PROVE  order[f[b]] = b
    OBVIOUS
  <2>2. f[b] = Cardinality({k \in kept : k <= b})
    BY <1>1, RemovalRank DEF f, kept, remap_block_after_remove
  <2>3. Kth(kept, f[b]) = b
    BY <1>4, <2>1, <2>2, KthOfRank
  <2>4. order[f[b]] = Kth(kept, f[b])
    BY <1>4, <1>5, <2>1, SortedSeqType DEF order, m
  <2>. QED
    BY <2>3, <2>4
<1>12. KeptIn(cs, f[e], source)
  <2>1. kept \in SUBSET (1..Len(bs))
    BY DEF kept
  <2>2. \A b \in kept : References(bs[b]) \subseteq kept
    <3>1. \A b \in kept : References(bs[b]) \subseteq 1..n
      BY <1>1, ReferencesInside DEF kept
    <3>. QED
      BY <1>3, <3>1 DEF kept
  <2>. QED
    BY <1>3, <1>4, <1>5, <1>6, <1>11, <2>1, <2>2, RenumberKept
<1>13. Taken(cs)
  <2>. DEFINE At(s) == <<order[s[1]], s[2]>>
              h == [s \in BodySites(cs) |-> g[At(s)]]
  <2>1. kept \in SUBSET (1..Len(bs)) /\ Drawn(kept, bs, g) /\ InOrder(kept, bs, g)
    BY DEF kept
  <2>2. /\ Drawn(DOMAIN cs, cs, h)
        /\ \A s \in BodySites(cs) :
             /\ s = <<s[1], s[2]>> /\ s[1] \in 1..m
             /\ At(s) \in BodySites(bs) /\ At(s)[1] = order[s[1]] /\ At(s)[2] = s[2]
             /\ order[s[1]] \in kept /\ h[s] = g[At(s)]
             /\ Fresh(NodeAt(bs, At(s))) <=> Fresh(NodeAt(cs, s))
    BY <1>4, <1>6, <2>1, RenumberDrawn
  <2>3. \A j, k \in 1..m : j < k => order[j] < order[k]
    <3>1. kept \in SUBSET Int
      BY <1>1 DEF kept
    <3>. QED
      BY <1>4, <3>1, SortedSeqIncreases DEF m, order
  <2>. HIDE DEF At, h, cs
  <2>4. InOrder(DOMAIN cs, cs, h)
    <3>. SUFFICES ASSUME NEW s \in BodySites(cs), NEW t \in BodySites(cs),
                         ~Fresh(NodeAt(cs, s)), ~Fresh(NodeAt(cs, t)), SiteBefore(s, t)
                  PROVE  SiteBefore(h[s], h[t])
      BY DEF InOrder
    <3>1. SiteBefore(At(s), At(t))
      BY <2>2, <2>3 DEF SiteBefore
    <3>. QED
      BY <2>1, <2>2, <3>1 DEF InOrder
  <2>. QED
    BY <2>2, <2>4 DEF Taken
<1>. QED
  BY <1>2, <1>10, <1>12, <1>13 DEF GoodMutation

-----------------------------------------------------------------------------
(* One lemma per operation: it is a good mutation.                          *)

(* Facts about the current program that all of them use.                    *)
LEMMA CurrentProgram ==
    ASSUME Inv
    PROVE  /\ Shape(blocks, entry)
           /\ Len(blocks) \in Nat
           /\ DOMAIN blocks = 1..Len(blocks)
           /\ entry \in 1..Len(blocks)
           /\ \A b \in 1..Len(blocks) :
                /\ blocks[b] \in BlockIn(Len(blocks))
                /\ blocks[b].terminator \in TerminatorIn(Len(blocks))
                /\ blocks[b].insns \in Seq(NodeIn(Len(blocks)))
BY ShapeIsSeq DEF Inv, Shape, BlockIn

LEMMA CurrentKept ==
    ASSUME Inv
    PROVE  /\ KeptIn(blocks, entry, source)
           /\ \A b \in 1..Len(blocks) :
                /\ BlockKept(blocks[b], blocks, source)
                /\ blocks[b].terminator \in KeptTerminators(Len(blocks), blocks)
                /\ blocks[b].insns \in Seq(KeptNodes(Len(blocks), blocks))
<1>1. KeptIn(blocks, entry, source)
  BY TargetsKeptIs DEF Inv
<1>2. ASSUME NEW b \in 1..Len(blocks)
      PROVE  /\ BlockKept(blocks[b], blocks, source)
             /\ blocks[b].terminator \in KeptTerminators(Len(blocks), blocks)
             /\ blocks[b].insns \in Seq(KeptNodes(Len(blocks), blocks))
  <2>1. BlockKept(blocks[b], blocks, source)
    BY <1>1, CurrentProgram DEF KeptIn
  <2>2. blocks[b].terminator \in KeptTerminators(Len(blocks), blocks)
    BY <2>1, CurrentProgram DEF BlockKept, KeptTerminators
  <2>3. blocks[b].insns \in Seq(KeptNodes(Len(blocks), blocks))
    BY <2>1, CurrentProgram, KeptBody DEF BlockKept
  <2>. QED
    BY <2>1, <2>2, <2>3
<1>. QED
  BY <1>1, <1>2

(* The program as it is, taken from itself.                                 *)
LEMMA CurrentDrawn ==
    ASSUME Inv, NEW bs, DOMAIN bs = DOMAIN blocks,
           \A b \in DOMAIN blocks : bs[b].insns = blocks[b].insns, NEW K
    PROVE  \E g : Drawn(K, bs, g) /\ InOrder(K, bs, g)
<1>. DEFINE g == [s \in BodySites(blocks) |-> s]
<1>1. BodySites(bs) = BodySites(blocks)
  BY DEF BodySites
<1>2. \A s \in BodySites(blocks) : g[s] = s /\ NodeAt(bs, s) = NodeAt(blocks, s)
  BY BodySiteIs DEF NodeAt
<1>. HIDE DEF g
<1>3. Drawn(K, bs, g) /\ InOrder(K, bs, g)
  BY <1>1, <1>2 DEF Drawn, InOrder, SameOrigin
<1>. QED
  BY <1>3

(* A program that differs from the current one in one body, whose           *)
(* instructions are new or come, in order, from the sites h.                *)
LEMMA EditDrawn ==
    ASSUME Inv, NEW b \in DOMAIN blocks, NEW bs, DOMAIN bs = DOMAIN blocks,
           \A c \in DOMAIN blocks : c # b => bs[c].insns = blocks[c].insns,
           NEW insns, bs[b].insns = insns,
           NEW K \in SUBSET DOMAIN blocks, NEW h,
           \A k \in DOMAIN insns :
              Fresh(insns[k]) \/ /\ h[k] \in BodySites(blocks)
                                 /\ SameOrigin(insns[k], NodeAt(blocks, h[k]))
                                 /\ b <= h[k][1]
                                 /\ \A c \in K : c > b => c > h[k][1],
           \A k, l \in DOMAIN insns :
              k < l /\ ~Fresh(insns[k]) /\ ~Fresh(insns[l]) => SiteBefore(h[k], h[l])
    PROVE  \E g : Drawn(K, bs, g) /\ InOrder(K, bs, g)
<1>. DEFINE g == [s \in BodySites(bs) |-> IF s[1] = b THEN h[s[2]] ELSE s]
<1>1. ASSUME NEW s \in BodySites(bs)
      PROVE  /\ g[s] = IF s[1] = b THEN h[s[2]] ELSE s
             /\ s[1] \in DOMAIN blocks
             /\ s[1] = b => s[2] \in DOMAIN insns /\ NodeAt(bs, s) = insns[s[2]]
             /\ s[1] # b => s \in BodySites(blocks) /\ NodeAt(bs, s) = NodeAt(blocks, s)
  <2>1. s = <<s[1], s[2]>> /\ s[1] \in DOMAIN blocks /\ s[2] \in DOMAIN bs[s[1]].insns
    BY BodySiteIs
  <2>2. s[1] # b => s \in BodySites(blocks)
    BY <2>1, BodySiteIs
  <2>. QED
    BY <2>1, <2>2 DEF NodeAt
<1>. HIDE DEF g
<1>2. Drawn(K, bs, g)
  BY <1>1 DEF Drawn, SameOrigin
<1>3. InOrder(K, bs, g)
  <2>. SUFFICES ASSUME NEW s \in BodySites(bs), NEW t \in BodySites(bs),
                       s[1] \in K, t[1] \in K,
                       ~Fresh(NodeAt(bs, s)), ~Fresh(NodeAt(bs, t)), SiteBefore(s, t)
                PROVE  SiteBefore(g[s], g[t])
    BY DEF InOrder
  <2>0. DOMAIN blocks \subseteq Nat
    BY CurrentProgram
  <2>1. CASE s[1] = b /\ t[1] = b
    <3>1. s[2] < t[2]
      BY <2>0, <2>1 DEF SiteBefore
    <3>. QED
      BY <1>1, <2>1, <3>1
  <2>2. CASE s[1] = b /\ t[1] # b
    <3>1. /\ h[s[2]] \in BodySites(blocks) /\ t[1] \in K /\ b < t[1]
          /\ (t[1] > b => t[1] > h[s[2]][1])
      BY <1>1, <2>0, <2>2 DEF SiteBefore
    <3>2. h[s[2]][1] \in Nat /\ t[1] \in Nat
      BY <2>0, <3>1, BodySiteIs
    <3>. QED
      BY <1>1, <2>0, <2>2, <3>1, <3>2 DEF SiteBefore
  <2>3. CASE s[1] # b /\ t[1] = b
    <3>1. h[t[2]] \in BodySites(blocks) /\ s[1] < b /\ b <= h[t[2]][1]
      BY <1>1, <2>0, <2>3 DEF SiteBefore
    <3>2. h[t[2]][1] \in Nat /\ s[1] \in Nat
      BY <2>0, <3>1, BodySiteIs
    <3>. QED
      BY <1>1, <2>0, <2>3, <3>1, <3>2 DEF SiteBefore
  <2>4. CASE s[1] # b /\ t[1] # b
    BY <1>1, <2>4
  <2>. QED
    BY <2>1, <2>2, <2>3, <2>4
<1>. QED
  BY <1>2, <1>3

LEMMA InBlockEditGood ==
    ASSUME Inv, NEW b \in DOMAIN blocks, NEW insns \in Seq(KeptNodes(Len(blocks), blocks)),
           Mutate(WithInsns(blocks, b, insns), entry),
           NEW h, TakenFrom(insns, blocks[b].insns, h)
    PROVE  GoodMutation
<1>. DEFINE n == Len(blocks)
            blk == [blocks[b] EXCEPT !.insns = insns]
            bs == [blocks EXCEPT ![b] = blk]
<1>1. /\ b \in 1..n /\ n \in Nat /\ blocks[b] \in BlockIn(n)
      /\ blocks[b].terminator \in KeptTerminators(n, blocks)
  BY CurrentProgram, CurrentKept
<1>2. /\ blk \in BlockIn(n)
      /\ blk.terminator = blocks[b].terminator
      /\ blk.predecessors = blocks[b].predecessors
      /\ blk.lead = blocks[b].lead /\ BlockKept(blk, blocks, source)
  BY <1>1, BodyEdit
<1>3. WithInsns(blocks, b, insns) = bs
  BY DEF WithInsns
<1>. HIDE DEF blk
<1>4. Shape(bs, entry) /\ Len(bs) = n
  BY <1>1, <1>2, CurrentProgram, ProgramEdit
<1>5. SameEdges(bs)
  BY <1>2, <1>4, CurrentProgram DEF SameEdges
<1>6. KeptIn(bs, entry, source)
  BY <1>1, <1>2, CurrentProgram, CurrentKept, EditKept
<1>7. DOMAIN bs = DOMAIN blocks /\ bs[b].insns = insns
      /\ \A c \in DOMAIN blocks : c # b => bs[c].insns = blocks[c].insns
  BY <1>1 DEF blk, BlockIn, BasicBlock
<1>8. Taken(bs)
  <2>. DEFINE from == [k \in DOMAIN insns |-> <<b, h[k]>>]
  <2>1. ASSUME NEW k \in DOMAIN insns, ~Fresh(insns[k])
        PROVE  /\ from[k] \in BodySites(blocks)
               /\ SameOrigin(insns[k], NodeAt(blocks, from[k]))
               /\ b <= from[k][1]
               /\ \A c \in DOMAIN blocks : c > b => c > from[k][1]
    <3>1. from[k][1] = b /\ from[k][2] = h[k] /\ from[k] = <<from[k][1], from[k][2]>>
      OBVIOUS
    <3>2. h[k] \in DOMAIN blocks[b].insns /\ SameOrigin(insns[k], blocks[b].insns[h[k]])
      BY <2>1 DEF TakenFrom
    <3>3. b <= b
      BY <1>1
    <3>. HIDE DEF from
    <3>. QED
      BY <3>1, <3>2, <3>3, BodySiteIs DEF NodeAt
  <2>2. ASSUME NEW k \in DOMAIN insns, NEW l \in DOMAIN insns, k < l,
               ~Fresh(insns[k]), ~Fresh(insns[l])
        PROVE  SiteBefore(from[k], from[l])
    BY <2>2 DEF TakenFrom, SiteBefore
  <2>. HIDE DEF from, bs
  <2>3. \E g : Drawn(DOMAIN blocks, bs, g) /\ InOrder(DOMAIN blocks, bs, g)
    BY <1>7, <2>1, <2>2, EditDrawn
  <2>. QED
    BY <1>7, <2>3 DEF Taken
<1>. QED
  BY <1>3, <1>4, <1>5, <1>6, <1>8 DEF GoodMutation

LEMMA DeleteInsnGood ==
    ASSUME Inv, NEW b \in DOMAIN blocks, NEW i \in Sites(b), delete_insn(b, i)
    PROVE  GoodMutation
<1>. DEFINE insns == blocks[b].insns
<1>1. insns \in Seq(KeptNodes(Len(blocks), blocks))
  BY CurrentProgram, CurrentKept
<1>2. i \in DOMAIN insns /\ Mutate(WithInsns(blocks, b, Splice(insns, i, 1, <<>>)), entry)
  BY DEF delete_insn
<1>3. DOMAIN insns = 1..Len(insns) /\ Len(insns) \in Nat
  BY <1>1, SeqIsFunction
<1>. HIDE DEF insns
<1>4. i \in 1..(Len(insns) + 1) /\ i - 1 + 1 <= Len(insns)
  BY <1>2, <1>3
<1>5. <<>> \in Seq(KeptNodes(Len(blocks), blocks))
  BY EmptySeq
<1>6. Splice(insns, i, 1, <<>>) \in Seq(KeptNodes(Len(blocks), blocks))
  BY <1>1, <1>4, <1>5, SpliceType
<1>7. PICK h : TakenFrom(Splice(insns, i, 1, <<>>), insns, h)
  <2>1. \A k \in DOMAIN <<>> : Fresh(<<>>[k])
    BY EmptySeq
  <2>. QED
    BY <1>1, <1>4, <1>5, <2>1, SpliceTaken
<1>. QED
  BY <1>2, <1>6, <1>7, InBlockEditGood DEF insns

LEMMA ReplaceRangeGood ==
    ASSUME Inv, NEW b \in DOMAIN blocks, NEW i \in Sites(b), NEW old_len \in Nat,
           NEW ops, Insertable(ops), try_replace_range(b, i, old_len, ops)
    PROVE  GoodMutation
<1>. DEFINE insns == blocks[b].insns
            new == logical_replacement(ops)
<1>1. insns \in Seq(KeptNodes(Len(blocks), blocks)) /\ Len(blocks) \in Nat
  BY CurrentProgram, CurrentKept
<1>2. /\ i - 1 + old_len <= Len(insns)
      /\ Mutate(WithInsns(blocks, b, Splice(insns, i, old_len, new)), entry)
  BY DEF try_replace_range
<1>3. i \in 1..(Len(insns) + 1)
  BY DEF Sites
<1>4. new \in Seq(KeptNodes(Len(blocks), blocks))
  BY <1>1, ReplacementKept
<1>. HIDE DEF insns, new
<1>5. Splice(insns, i, old_len, new) \in Seq(KeptNodes(Len(blocks), blocks))
  BY <1>1, <1>2, <1>3, <1>4, SpliceType
<1>6. PICK h : TakenFrom(Splice(insns, i, old_len, new), insns, h)
  <2>1. \A k \in DOMAIN new : Fresh(new[k])
    BY <1>1, ReplacementType DEF new
  <2>. QED
    BY <1>1, <1>2, <1>3, <1>4, <2>1, SpliceTaken
<1>. QED
  BY <1>2, <1>5, <1>6, InBlockEditGood DEF insns

LEMMA TerminatorEditGood ==
    ASSUME Inv, NEW b \in DOMAIN blocks,
           NEW t \in KeptTerminators(Len(blocks), blocks),
           MutateEdges(WithTerminator(blocks, b, t), entry)
    PROVE  GoodMutation
<1>. DEFINE n == Len(blocks)
            blk == [blocks[b] EXCEPT !.terminator = t, !.btf_pc = None]
            bs == [blocks EXCEPT ![b] = blk]
<1>1. /\ b \in 1..n /\ n \in Nat
      /\ blocks[b] \in BlockIn(n) /\ blocks[b].insns \in Seq(KeptNodes(n, blocks))
      /\ None \in Nat
  BY CurrentProgram, CurrentKept DEF None
<1>2. blk \in BlockIn(n) /\ blk.lead = blocks[b].lead /\ BlockKept(blk, blocks, source)
  BY <1>1, TerminatorEdit
<1>3. WithTerminator(blocks, b, t) = bs
  BY <1>1, CurrentProgram DEF WithTerminator
<1>. HIDE DEF blk
<1>4. Shape(bs, entry) /\ KeptIn(bs, entry, source)
  BY <1>1, <1>2, CurrentProgram, CurrentKept, ProgramEdit, EditKept
<1>5. Taken(bs)
  <2>1. DOMAIN bs = DOMAIN blocks /\ \A c \in DOMAIN blocks : bs[c].insns = blocks[c].insns
    BY <1>1 DEF blk, BlockIn, BasicBlock
  <2>2. \E g : Drawn(DOMAIN bs, bs, g) /\ InOrder(DOMAIN bs, bs, g)
    BY <2>1, CurrentDrawn
  <2>. QED
    BY <2>2 DEF Taken
<1>. QED
  BY <1>3, <1>4, <1>5 DEF GoodMutation

LEMMA DeleteCondBranchGood ==
    ASSUME Inv, NEW b \in DOMAIN blocks, delete_cond_branch(b)
    PROVE  GoodMutation
<1>1. blocks[b].terminator \in TerminatorIn(Len(blocks)) /\ Len(blocks) \in Nat
  BY CurrentProgram
<1>2. Fallthrough(blocks[b].terminator.next) \in TerminatorIn(Len(blocks))
  BY <1>1 DEF Fallthrough, TerminatorIn, Terminator, None
<1>3. Fallthrough(blocks[b].terminator.next) \in KeptTerminators(Len(blocks), blocks)
  BY <1>2 DEF Fallthrough, KeptTerminators, TermKept
<1>. QED
  BY <1>3, TerminatorEditGood DEF delete_cond_branch

LEMMA ReplaceTerminatorGood ==
    ASSUME Inv, NEW b \in DOMAIN blocks, NEW t \in NewTerminators(b), replace_terminator(b, t)
    PROVE  GoodMutation
<1>1. /\ blocks[b].terminator \in TerminatorIn(Len(blocks))
      /\ Len(blocks) \in Nat /\ DOMAIN blocks = 1..Len(blocks)
  BY CurrentProgram
<1>2. ASSUME NEW x \in 0..Len(blocks), NEW y \in 0..Len(blocks)
      PROVE  /\ Exit(None) \in TerminatorIn(Len(blocks))
             /\ Jump(None, x) \in TerminatorIn(Len(blocks))
             /\ CondBranch(None, x, y) \in TerminatorIn(Len(blocks))
  BY <1>1 DEF Exit, Jump, CondBranch, TerminatorIn, Terminator, TermOps, None
<1>3. t \in TerminatorIn(Len(blocks))
  <2>1. /\ blocks[b].terminator.to \in 0..Len(blocks)
        /\ blocks[b].terminator.next \in 0..Len(blocks)
    BY <1>1 DEF TerminatorIn
  <2>2. 1..Len(blocks) \subseteq 0..Len(blocks) /\ 0 \in 0..Len(blocks)
    BY <1>1
  <2>. QED
    BY <1>1, <1>2, <2>1, <2>2 DEF NewTerminators
<1>4. t.insn = None
  BY DEF NewTerminators, Exit, Jump, CondBranch
<1>5. t \in KeptTerminators(Len(blocks), blocks)
  BY <1>3, <1>4 DEF KeptTerminators, TermKept
<1>. QED
  BY <1>5, TerminatorEditGood DEF replace_terminator

LEMMA PermuteGood ==
    ASSUME Inv, NEW order \in Orders, permute_blocks(order)
    PROVE  GoodMutation
<1>. DEFINE n == Len(blocks)
            f == [b \in DOMAIN blocks |-> CHOOSE k \in DOMAIN order : order[k] = b]
            cs == Renumber(blocks, order, f)
<1>1. n \in Nat /\ DOMAIN blocks = 1..n /\ entry \in 1..n
  BY CurrentProgram
<1>2. order \in [1..n -> 1..n] /\ \A b \in 1..n : \E k \in 1..n : order[k] = b
  <2>1. order \in Injection(1..n, 1..n)
    BY <1>1 DEF Orders, Injection, IsInjective
  <2>2. order \in Surjection(1..n, 1..n)
    BY <1>1, <2>1, FS_Interval, FS_Injection
  <2>. QED
    BY <2>2 DEF Surjection
<1>3. \A b \in 1..n : f[b] \in 1..n /\ order[f[b]] = b
  BY <1>1, <1>2
<1>. HIDE DEF f
<1>4. ASSUME NEW k \in 1..n
      PROVE  RemapBlock(blocks[order[k]], f) \in BlockIn(n)
  <2>1. blocks[order[k]] \in BlockIn(n) /\ References(blocks[order[k]]) \subseteq 1..n
    BY <1>2, CurrentProgram, ReferencesInside
  <2>. QED
    BY <1>1, <1>3, <2>1, RemapType
<1>5. cs \in [1..n -> BlockIn(n)]
  BY <1>2, <1>4 DEF Renumber
<1>6. Len(cs) = n
  BY <1>1, <1>5, FunctionIsSeq
<1>7. Shape(cs, f[entry])
  BY <1>1, <1>3, <1>5, <1>6 DEF Shape, ProgramOf
<1>8. MutateEdges(cs, f[entry])
  BY DEF permute_blocks, f
<1>9. KeptIn(cs, f[entry], source)
  <2>1. \A b \in 1..n : References(blocks[b]) \subseteq 1..n
    BY <1>1, CurrentProgram, ReferencesInside
  <2>2. DOMAIN order = 1..n /\ \A k \in 1..n : order[k] \in 1..n
    BY <1>2
  <2>. QED
    BY <1>1, <1>3, <2>1, <2>2, CurrentProgram, CurrentKept, RenumberKept
<1>10. Taken(cs)
  <2>. DEFINE g == [s \in BodySites(blocks) |-> s]
              At(s) == <<order[s[1]], s[2]>>
              h == [s \in BodySites(cs) |-> g[At(s)]]
  <2>1. Drawn(1..n, blocks, g)
    BY DEF Drawn, SameOrigin
  <2>2. \A s \in BodySites(blocks) : g[s] = s
    OBVIOUS
  <2>. HIDE DEF g
  <2>3. DOMAIN order = 1..n /\ \A k \in 1..n : order[k] \in 1..n
    BY <1>2
  <2>4. /\ Drawn(DOMAIN cs, cs, h)
        /\ \A s \in BodySites(cs) :
             /\ s = <<s[1], s[2]>> /\ s[1] \in 1..n
             /\ At(s) \in BodySites(blocks) /\ At(s)[1] = order[s[1]] /\ At(s)[2] = s[2]
             /\ order[s[1]] \in 1..n /\ h[s] = g[At(s)]
             /\ Fresh(NodeAt(blocks, At(s))) <=> Fresh(NodeAt(cs, s))
    <3>1. 1..n \in SUBSET (1..Len(blocks)) /\ Shape(blocks, entry)
      BY CurrentProgram
    <3>. QED
      BY <1>1, <2>1, <2>3, <3>1, RenumberDrawn
  <2>. HIDE DEF At, h, cs
  <2>5. OnceEach(cs, h)
    <3>. SUFFICES ASSUME NEW s \in BodySites(cs), NEW t \in BodySites(cs), h[s] = h[t]
                  PROVE  s = t
      BY DEF OnceEach
    <3>1. At(s) = At(t)
      BY <2>2, <2>4
    <3>2. order[s[1]] = order[t[1]] /\ s[2] = t[2]
      BY <2>4, <3>1
    <3>3. s[1] = t[1]
      BY <1>1, <2>4, <3>2 DEF Orders
    <3>. QED
      BY <2>4, <3>2, <3>3
  <2>6. last' = "permute_blocks"
    BY DEF permute_blocks, Calling
  <2>. QED
    BY <2>4, <2>5, <2>6 DEF Taken
<1>. QED
  BY <1>7, <1>8, <1>9, <1>10 DEF GoodMutation

(* The body of a merged chain consists of the instructions of its blocks,   *)
(* in the order of the layout.                                              *)
LEMMA ChainInsnsType ==
    ASSUME Inv, NEW first \in DOMAIN blocks, NEW end \in DOMAIN blocks
    PROVE  /\ ChainInsns(first, end) \in Seq(KeptNodes(Len(blocks), blocks))
           /\ \E h : /\ \A k \in DOMAIN ChainInsns(first, end) :
                           /\ h[k] \in BodySites(blocks) /\ h[k][1] \in first..end
                           /\ ChainInsns(first, end)[k] = NodeAt(blocks, h[k])
                     /\ \A k, l \in DOMAIN ChainInsns(first, end) :
                           k < l => SiteBefore(h[k], h[l])
<1>. DEFINE n == Len(blocks)
            sites == ChainSites(first, end)
            body == [b \in first..end |-> {b} \X DOMAIN blocks[b].insns]
            bodies == {body[b] : b \in first..end}
            down == [s \in sites |-> {t \in sites : SiteLeq(t, s)}]
<1>1. n \in Nat /\ first \in 1..n /\ end \in 1..n
  BY CurrentProgram
<1>2. ASSUME NEW b \in first..end
      PROVE  /\ Len(blocks[b].insns) \in Nat
             /\ DOMAIN blocks[b].insns = 1..Len(blocks[b].insns)
             /\ \A i \in DOMAIN blocks[b].insns : blocks[b].insns[i] \in KeptNodes(n, blocks)
  <2>1. b \in 1..n
    BY <1>1
  <2>. QED
    BY <2>1, CurrentKept, SeqIsFunction
<1>3. IsFiniteSet(sites)
  <2>1. body \in Surjection(first..end, bodies)
    BY DEF Surjection
  <2>2. IsFiniteSet(first..end)
    BY <1>1, FS_Interval
  <2>3. IsFiniteSet(bodies)
    BY <2>1, <2>2, FS_Surjection
  <2>4. ASSUME NEW b \in first..end
        PROVE  IsFiniteSet(body[b])
    <3>1. IsFiniteSet({b})
      BY FS_Singleton
    <3>2. IsFiniteSet(1..Len(blocks[b].insns))
      BY <1>2, FS_Interval
    <3>3. IsFiniteSet(DOMAIN blocks[b].insns)
      BY <1>2, <3>2
    <3>. QED
      BY <3>1, <3>3, FS_Product
  <2>5. \A T \in bodies : IsFiniteSet(T)
    BY <2>4
  <2>6. sites = UNION bodies
    BY DEF ChainSites
  <2>. QED
    BY <2>3, <2>5, <2>6, FS_UNION
<1>4. \A s \in sites : /\ s = <<s[1], s[2]>>
                       /\ s[1] \in first..end
                       /\ s[2] \in DOMAIN blocks[s[1]].insns
  BY DEF ChainSites
<1>5. \A s \in sites : s[1] \in Nat /\ s[2] \in Nat
  BY <1>1, <1>2, <1>4
<1>. HIDE DEF sites
<1>6. down \in [sites -> SUBSET sites] /\ \A s \in sites : down[s] = {t \in sites : SiteLeq(t, s)}
  OBVIOUS
<1>. HIDE DEF down
<1>7. \A s, t \in sites : t \in down[s] <=> SiteLeq(t, s)
  BY <1>6
<1>8. \A k \in 1..Cardinality(sites) : \E s \in sites : Cardinality(down[s]) = k
  <2>1. \A s \in sites : s \in down[s]
    BY <1>5, <1>7 DEF SiteLeq
  <2>2. \A s, t \in sites : s \in down[t] \/ t \in down[s]
    BY <1>5, <1>7 DEF SiteLeq
  <2>3. \A s, t \in sites : s \in down[t] /\ t \in down[s] => s = t
    <3>. SUFFICES ASSUME NEW s \in sites, NEW t \in sites, SiteLeq(s, t), SiteLeq(t, s)
                  PROVE  s = t
      BY <1>7
    <3>1. s[1] = t[1] /\ s[2] = t[2]
      BY <1>5 DEF SiteLeq
    <3>. QED
      BY <1>4, <3>1
  <2>4. \A s, t \in sites : s \in down[t] => down[s] \subseteq down[t]
    <3>. SUFFICES ASSUME NEW s \in sites, NEW t \in sites, s \in down[t], NEW u \in down[s]
                  PROVE  u \in down[t]
      OBVIOUS
    <3>1. u \in sites
      BY <1>6
    <3>. QED
      BY <1>5, <1>7, <3>1 DEF SiteLeq
  <2>. QED
    BY ONLY <1>3, <1>6, <2>1, <2>2, <2>3, <2>4, RankOnto
<1>. DEFINE Nth(k) == CHOOSE s \in sites : Cardinality({t \in sites : SiteLeq(t, s)}) = k
<1>9. \A k \in 1..Cardinality(sites) : Nth(k) \in sites /\ Cardinality(down[Nth(k)]) = k
  <2>. SUFFICES ASSUME NEW k \in 1..Cardinality(sites)
                PROVE  Nth(k) \in sites /\ Cardinality(down[Nth(k)]) = k
    OBVIOUS
  <2>1. PICK s \in sites : Cardinality(down[s]) = k
    BY <1>8
  <2>2. Cardinality({t \in sites : SiteLeq(t, s)}) = k
    BY <1>6, <2>1
  <2>3. Nth(k) \in sites /\ Cardinality({t \in sites : SiteLeq(t, Nth(k))}) = k
    BY <2>2
  <2>. HIDE DEF Nth
  <2>. QED
    BY <1>6, <2>3
<1>10. ChainInsns(first, end) =
         [k \in 1..Cardinality(sites) |-> blocks[Nth(k)[1]].insns[Nth(k)[2]]]
  BY DEF ChainInsns, sites
<1>. HIDE DEF Nth
<1>11. \A k \in 1..Cardinality(sites) : blocks[Nth(k)[1]].insns[Nth(k)[2]]
                                            \in KeptNodes(n, blocks)
  BY <1>2, <1>4, <1>9
<1>12. Cardinality(sites) \in Nat
  BY <1>3, FS_CardinalityType
<1>13. ChainInsns(first, end) \in [1..Cardinality(sites) -> KeptNodes(n, blocks)]
  BY <1>10, <1>11
<1>. DEFINE h == [k \in 1..Cardinality(sites) |-> Nth(k)]
<1>14. ASSUME NEW k \in 1..Cardinality(sites)
       PROVE  /\ h[k] \in BodySites(blocks) /\ h[k][1] \in first..end
              /\ ChainInsns(first, end)[k] = NodeAt(blocks, h[k])
  <2>1. /\ h[k] = Nth(k) /\ Nth(k) \in sites
        /\ ChainInsns(first, end)[k] = blocks[Nth(k)[1]].insns[Nth(k)[2]]
    BY <1>9, <1>10
  <2>. HIDE DEF h
  <2>2. Nth(k)[1] \in first..end /\ first..end \subseteq DOMAIN blocks
    BY <1>1, <1>4, <2>1, CurrentProgram
  <2>. QED
    BY <1>4, <2>1, <2>2, BodySiteIs DEF NodeAt
<1>15. ASSUME NEW k \in 1..Cardinality(sites), NEW l \in 1..Cardinality(sites), k < l
       PROVE  SiteBefore(h[k], h[l])
  <2>1. /\ Nth(k) \in sites /\ Cardinality(down[Nth(k)]) = k
        /\ Nth(l) \in sites /\ Cardinality(down[Nth(l)]) = l
    BY <1>9
  <2>2. ASSUME SiteLeq(Nth(l), Nth(k)) PROVE FALSE
    <3>1. down[Nth(l)] \subseteq down[Nth(k)]
      <4>. SUFFICES ASSUME NEW u \in down[Nth(l)] PROVE u \in down[Nth(k)]
        OBVIOUS
      <4>1. u \in sites
        BY <1>6, <2>1
      <4>. QED
        BY <1>5, <1>7, <2>1, <2>2, <4>1 DEF SiteLeq
    <3>2. IsFiniteSet(down[Nth(k)])
      BY <1>3, <1>6, <2>1, FS_Subset
    <3>3. Cardinality(down[Nth(l)]) <= Cardinality(down[Nth(k)])
      BY <3>1, <3>2, FS_Subset
    <3>. QED
      BY <1>12, <1>15, <2>1, <3>3
  <2>3. SiteBefore(Nth(k), Nth(l))
    BY <1>5, <2>1, <2>2 DEF SiteLeq, SiteBefore
  <2>. QED
    BY <2>3
<1>16. DOMAIN ChainInsns(first, end) = 1..Cardinality(sites)
  BY <1>13
<1>. HIDE DEF h
<1>. QED
  BY <1>12, <1>13, <1>14, <1>15, <1>16, FunctionIsSeq

(* Giving a block a new body and terminator, then removing blocks.          *)
LEMMA EditAndRemoveGood ==
    ASSUME Inv, NEW b \in DOMAIN blocks,
           NEW insns \in Seq(KeptNodes(Len(blocks), blocks)),
           NEW t \in KeptTerminators(Len(blocks), blocks),
           NEW removed \in SUBSET (DOMAIN blocks),
           remove_blocks_in_place([blocks EXCEPT ![b].insns = insns, ![b].terminator = t],
                                  entry, removed),
           NEW h,
           \A k \in DOMAIN insns :
              Fresh(insns[k]) \/ /\ h[k] \in BodySites(blocks)
                                 /\ SameOrigin(insns[k], NodeAt(blocks, h[k]))
                                 /\ b <= h[k][1]
                                 /\ \A c \in DOMAIN blocks \ removed : c > b => c > h[k][1],
           \A k, l \in DOMAIN insns :
              k < l /\ ~Fresh(insns[k]) /\ ~Fresh(insns[l]) => SiteBefore(h[k], h[l])
    PROVE  GoodMutation
<1>. DEFINE n == Len(blocks)
            old == blocks[b]
            mid == [old EXCEPT !.insns = insns]
            blk == [mid EXCEPT !.terminator = t, !.btf_pc = old.btf_pc]
            bs == [blocks EXCEPT ![b] = blk]
<1>1. /\ b \in 1..n /\ n \in Nat /\ DOMAIN blocks = 1..n /\ old \in BlockIn(n)
      /\ old.terminator \in KeptTerminators(n, blocks)
      /\ insns \in Seq(KeptNodes(n, blocks)) /\ t \in KeptTerminators(n, blocks)
  BY CurrentProgram, CurrentKept
<1>2. blk \in BlockIn(n) /\ blk.lead = old.lead /\ BlockKept(blk, blocks, source)
  <2>. HIDE DEF n, old
  <2>0. mid \in BlockIn(n)
    BY ONLY <1>1, BodyEdit DEF mid
  <2>1. mid.insns = insns /\ mid.lead = old.lead
    BY <1>1 DEF BlockIn, BasicBlock
  <2>2. old.btf_pc \in Nat
    BY <1>1 DEF BlockIn, BasicBlock
  <2>. HIDE DEF mid
  <2>3. mid.insns \in Seq(KeptNodes(n, blocks))
    BY <1>1, <2>1
  <2>4. blk \in BlockIn(n) /\ blk.lead = mid.lead /\ BlockKept(blk, blocks, source)
    BY ONLY <1>1, <2>0, <2>2, <2>3, TerminatorEdit DEF blk
  <2>. QED
    BY <2>1, <2>4
<1>3. [blocks EXCEPT ![b].insns = insns, ![b].terminator = t] = bs
  BY <1>1 DEF BlockIn, BasicBlock
<1>. HIDE DEF blk
<1>4. Shape(bs, entry) /\ Len(bs) = n /\ KeptIn(bs, entry, source)
  BY <1>1, <1>2, CurrentProgram, CurrentKept, ProgramEdit, EditKept
<1>5. DOMAIN bs = DOMAIN blocks /\ bs[b].insns = insns
      /\ \A c \in DOMAIN blocks : c # b => bs[c].insns = blocks[c].insns
  BY <1>1 DEF blk, mid, BlockIn, BasicBlock
<1>. HIDE DEF bs
<1>6. PICK g : Drawn(DOMAIN blocks \ removed, bs, g) /\ InOrder(DOMAIN blocks \ removed, bs, g)
  <2>1. DOMAIN blocks \ removed \in SUBSET DOMAIN blocks
    OBVIOUS
  <2>. QED
    BY <1>5, <2>1, EditDrawn
<1>. QED
  BY <1>1, <1>3, <1>4, <1>6, RemovalGood

LEMMA MergeGood ==
    ASSUME Inv, NEW first \in DOMAIN blocks, NEW end \in DOMAIN blocks,
           merge_linear_chain(first, end)
    PROVE  GoodMutation
<1>1. /\ ChainInsns(first, end) \in Seq(KeptNodes(Len(blocks), blocks))
      /\ blocks[end].terminator \in KeptTerminators(Len(blocks), blocks)
      /\ (first + 1)..end \in SUBSET (DOMAIN blocks)
  BY ChainInsnsType, CurrentProgram, CurrentKept
<1>2. PICK h : /\ \A k \in DOMAIN ChainInsns(first, end) :
                   /\ h[k] \in BodySites(blocks) /\ h[k][1] \in first..end
                   /\ ChainInsns(first, end)[k] = NodeAt(blocks, h[k])
               /\ \A k, l \in DOMAIN ChainInsns(first, end) :
                   k < l => SiteBefore(h[k], h[l])
  BY ChainInsnsType
<1>3. ASSUME NEW k \in DOMAIN ChainInsns(first, end)
      PROVE  /\ h[k] \in BodySites(blocks)
             /\ SameOrigin(ChainInsns(first, end)[k], NodeAt(blocks, h[k]))
             /\ first <= h[k][1]
             /\ \A c \in DOMAIN blocks \ ((first + 1)..end) : c > first => c > h[k][1]
  <2>1. /\ h[k] \in BodySites(blocks) /\ h[k][1] \in first..end
        /\ ChainInsns(first, end)[k] = NodeAt(blocks, h[k])
    BY <1>2
  <2>2. DOMAIN blocks \subseteq Nat
    BY CurrentProgram
  <2>3. \A x \in first..end : first <= x /\ \A c \in DOMAIN blocks \ ((first + 1)..end) :
                                                c > first => c > x
    BY <2>2
  <2>. QED
    BY <2>1, <2>3 DEF SameOrigin
<1>. QED
  BY <1>1, <1>2, <1>3, EditAndRemoveGood DEF merge_linear_chain

LEMMA DeleteUnreachableGood ==
    ASSUME Inv, delete_unreachable_blocks
    PROVE  GoodMutation
<1>. DEFINE dead == DOMAIN blocks \ Reachable(blocks, entry)
<1>1. PICK g : Drawn((1..Len(blocks)) \ dead, blocks, g)
               /\ InOrder((1..Len(blocks)) \ dead, blocks, g)
  BY CurrentDrawn
<1>2. remove_blocks_in_place(blocks, entry, dead) /\ dead \in SUBSET (1..Len(blocks))
  BY CurrentProgram DEF delete_unreachable_blocks
<1>. HIDE DEF dead
<1>. QED
  BY <1>1, <1>2, CurrentProgram, CurrentKept, RemovalGood

LEMMA DiamondGood ==
    ASSUME Inv, NEW pred \in DOMAIN blocks, NEW tb \in Arms(pred), NEW fb \in Arms(pred),
           NEW join \in DOMAIN blocks \cup {None}, NEW ops \in Replacements,
           replace_diamond_with_insns(pred, tb, fb, join, ops)
    PROVE  GoodMutation
<1>. DEFINE n == Len(blocks)
            removed == {b \in {tb, fb} \ {pred} : blocks[b].predecessors \subseteq {pred}}
            term == IF join # None THEN Jump(None, join) ELSE blocks[tb].terminator
<1>1. n \in Nat /\ DOMAIN blocks = 1..n /\ pred \in 1..n
      /\ blocks[pred].terminator \in TerminatorIn(n)
  BY CurrentProgram
<1>2. tb \in 1..n /\ fb \in 1..n
  BY <1>1 DEF Arms, TerminatorIn, None
<1>3. removed \in SUBSET (DOMAIN blocks)
  BY <1>1, <1>2
<1>4. term \in KeptTerminators(n, blocks)
  <2>1. blocks[tb].terminator \in KeptTerminators(n, blocks)
    BY <1>2, CurrentKept
  <2>2. join # None => Jump(None, join) \in KeptTerminators(n, blocks)
    BY <1>1 DEF Jump, TerminatorIn, Terminator, TermOps, None, KeptTerminators, TermKept
  <2>. QED
    BY <2>1, <2>2
<1>5. logical_replacement(ops) \in Seq(KeptNodes(n, blocks))
  BY <1>1, ReplacementsInsertable, ReplacementKept
<1>6. remove_blocks_in_place(
          [blocks EXCEPT ![pred].insns = logical_replacement(ops), ![pred].terminator = term],
          entry, removed)
  BY DEF replace_diamond_with_insns
<1>7. \A k \in DOMAIN logical_replacement(ops) : Fresh(logical_replacement(ops)[k])
  BY <1>1, ReplacementsInsertable, ReplacementType
<1>. DEFINE new == logical_replacement(ops)
            none == [k \in DOMAIN new |-> k]
<1>. HIDE DEF removed, term, new
<1>8. /\ \A k \in DOMAIN new :
            Fresh(new[k]) \/ /\ none[k] \in BodySites(blocks)
                              /\ SameOrigin(new[k], NodeAt(blocks, none[k]))
                              /\ pred <= none[k][1]
                              /\ \A c \in DOMAIN blocks \ removed : c > pred => c > none[k][1]
      /\ \A k, l \in DOMAIN new :
            k < l /\ ~Fresh(new[k]) /\ ~Fresh(new[l]) => SiteBefore(none[k], none[l])
  BY <1>7 DEF new
<1>. HIDE DEF none
<1>. QED
  BY <1>3, <1>4, <1>5, <1>6, <1>8, EditAndRemoveGood DEF new

(* A block put in at the tail moves every reference by at most one.         *)
LEMMA SplitGood ==
    ASSUME Inv, NEW head \in DOMAIN blocks, NEW i \in Sites(head), split_block(head, i)
    PROVE  GoodMutation
<1>. DEFINE n == Len(blocks)
            tail == head + 1
            f == [b \in DOMAIN blocks |-> TailShift(b, tail)]
            old == RemapBlock(blocks[head], f)
            low == [old EXCEPT !.insns = SubSeq(@, 1, i - 1), !.terminator = Fallthrough(tail)]
            high == [old EXCEPT !.insns = SubSeq(@, i, Len(@)),
                                !.btf_pc = None, !.states = FALSE,
                                !.profile = FALSE, !.lead = None]
            Moved(k) == CASE k < head -> RemapBlock(blocks[k], f)
                          [] k = head -> low
                          [] k = tail -> high
                          [] OTHER    -> RemapBlock(blocks[k - 1], f)
            cs == [k \in 1..(n + 1) |-> Moved(k)]
<1>1. n \in Nat /\ n + 1 \in Nat /\ DOMAIN blocks = 1..n /\ head \in 1..n /\ entry \in 1..n
  BY CurrentProgram
<1>2. /\ \A b \in 1..n : f[b] \in 1..(n + 1)
      /\ \A b \in 1..head : f[b] = b
      /\ \A b \in (head + 1)..n : f[b] = b + 1
  BY <1>1 DEF TailShift
<1>3. MutateEdges(cs, f[entry])
  BY DEF split_block
<1>. HIDE DEF f
<1>4. ASSUME NEW b \in 1..n
      PROVE  /\ RemapBlock(blocks[b], f) \in BlockIn(n + 1)
             /\ RemapBlock(blocks[b], f).lead = blocks[b].lead
  <2>1. blocks[b] \in BlockIn(n) /\ References(blocks[b]) \subseteq 1..n
    BY <1>1, CurrentProgram, ReferencesInside
  <2>2. \A r \in References(blocks[b]) : f[r] \in 1..(n + 1)
    BY <1>2, <2>1
  <2>3. RemapBlock(blocks[b], f) \in BlockIn(n + 1)
    BY <1>1, <2>1, <2>2, RemapType
  <2>. QED
    BY <2>1, <2>3 DEF RemapBlock, BlockIn, BasicBlock
<1>5. /\ old \in BlockIn(n + 1) /\ old.insns \in Seq(NodeIn(n + 1))
      /\ old.lead = blocks[head].lead
  BY <1>1, <1>4 DEF BlockIn
<1>6. Len(old.insns) = Len(blocks[head].insns) /\ i \in 1..(Len(old.insns) + 1)
  <2>1. blocks[head] \in BasicBlock /\ blocks[head].insns \in Seq(NodeIn(n))
    BY <1>1, CurrentProgram DEF BlockIn
  <2>2. old.insns = RemapInsns(blocks[head].insns, f)
    BY <2>1 DEF RemapBlock, BasicBlock
  <2>3. Len(blocks[head].insns) \in Nat
        /\ DOMAIN blocks[head].insns = 1..Len(blocks[head].insns)
    BY <2>1, SeqIsFunction
  <2>4. DOMAIN old.insns = 1..Len(blocks[head].insns)
    BY <2>2, <2>3 DEF RemapInsns
  <2>5. DOMAIN old.insns = 1..Len(old.insns) /\ Len(old.insns) \in Nat
    BY <1>5, SeqIsFunction
  <2>6. Len(old.insns) = Len(blocks[head].insns)
    BY <2>3, <2>4, <2>5
  <2>. QED
    BY <2>6 DEF Sites
<1>7. /\ DOMAIN cs = 1..(n + 1) /\ cs[head] = low /\ cs[tail] = high
      /\ \A b \in 1..n : b # head => cs[f[b]] = RemapBlock(blocks[b], f)
      /\ \A k \in 1..(n + 1) : k = head \/ k = tail \/ \E b \in 1..n : b # head /\ k = f[b]
  <2>. HIDE DEF old, low, high
  <2>1. DOMAIN cs = 1..(n + 1) /\ \A k \in 1..(n + 1) : cs[k] = Moved(k)
    OBVIOUS
  <2>2. head \in 1..(n + 1) /\ tail \in 1..(n + 1)
    BY <1>1
  <2>. HIDE DEF cs
  <2>3. cs[head] = low /\ cs[tail] = high
    BY <1>1, <2>1, <2>2
  <2>4. ASSUME NEW b \in 1..n, b # head
        PROVE  cs[f[b]] = RemapBlock(blocks[b], f)
    <3>1. CASE b < head
      BY <1>1, <1>2, <2>1, <2>4, <3>1
    <3>2. CASE b > head
      BY <1>1, <1>2, <2>1, <2>4, <3>2
    <3>. QED
      BY <1>1, <2>4, <3>1, <3>2
  <2>5. ASSUME NEW k \in 1..(n + 1)
        PROVE  k = head \/ k = tail \/ \E b \in 1..n : b # head /\ k = f[b]
    <3>1. CASE k < head
      BY <1>1, <1>2, <3>1
    <3>2. CASE k > tail
      <4>1. k - 1 \in (head + 1)..n /\ k - 1 # head /\ k - 1 \in 1..n
        BY <1>1, <3>2
      <4>2. f[k - 1] = (k - 1) + 1 /\ (k - 1) + 1 = k
        BY <1>2, <4>1
      <4>. QED
        BY <4>1, <4>2
    <3>. QED
      BY <1>1, <3>1, <3>2
  <2>. QED
    BY <2>1, <2>3, <2>4, <2>5
<1>. HIDE DEF cs
<1>8. \A b \in 1..n : cs[f[b]].lead = blocks[b].lead
  <2>1. low.lead = old.lead
    BY <1>5 DEF BlockIn, BasicBlock
  <2>2. cs[f[head]] = low
    BY <1>1, <1>2, <1>7
  <2>. HIDE DEF low, old
  <2>. QED
    BY <1>4, <1>5, <1>7, <2>1, <2>2
<1>9. ASSUME NEW b \in 1..n
      PROVE  BlockKept(RemapBlock(blocks[b], f), cs, source)
  <2>1. /\ blocks[b] \in BlockIn(n) /\ BlockKept(blocks[b], blocks, source)
        /\ References(blocks[b]) \subseteq 1..n
    BY <1>1, CurrentProgram, CurrentKept, ReferencesInside
  <2>2. \A r \in 1..n : f[r] # None
    BY <1>1, <1>2 DEF None
  <2>3. \A r \in References(blocks[b]) : f[r] # None /\ cs[f[r]].lead = blocks[r].lead
    BY <1>8, <2>1, <2>2
  <2>. QED
    BY <1>1, <2>1, <2>3, RemapKept
<1>10. /\ old.insns \in Seq(KeptNodes(n + 1, cs))
       /\ old.terminator \in KeptTerminators(n + 1, cs)
  <2>1. BlockKept(old, cs, source)
    BY <1>1, <1>9
  <2>. HIDE DEF old
  <2>2. old.insns \in Seq(KeptNodes(n + 1, cs))
    BY <1>1, <1>5, <2>1, KeptBody DEF BlockKept
  <2>3. old.terminator \in KeptTerminators(n + 1, cs)
    BY <1>5, <2>1 DEF BlockKept, KeptTerminators, BlockIn
  <2>. QED
    BY <2>2, <2>3
<1>. HIDE DEF old
<1>11. /\ SubSeq(old.insns, 1, i - 1) \in Seq(KeptNodes(n + 1, cs))
       /\ SubSeq(old.insns, i, Len(old.insns)) \in Seq(KeptNodes(n + 1, cs))
  <2>1. /\ Len(old.insns) \in Nat
        /\ \A k \in 1..Len(old.insns) : old.insns[k] \in KeptNodes(n + 1, cs)
    BY <1>10, SeqIsFunction
  <2>. QED
    BY <1>6, <2>1, SubSeqProperties
<1>12. Fallthrough(tail) \in KeptTerminators(n + 1, cs)
  <2>1. Fallthrough(tail) \in TerminatorIn(n + 1)
    BY <1>1 DEF Fallthrough, TerminatorIn, Terminator, None
  <2>. QED
    BY <2>1 DEF KeptTerminators, TermKept, Fallthrough
<1>13. low \in BlockIn(n + 1) /\ BlockKept(low, cs, source)
  <2>. DEFINE front == SubSeq(old.insns, 1, i - 1)
              body == [old EXCEPT !.insns = front]
  <2>1. front \in Seq(KeptNodes(n + 1, cs))
    BY <1>11
  <2>. HIDE DEF front
  <2>0. body \in BlockIn(n + 1)
    BY ONLY <1>1, <1>5, <1>10, <2>1, BodyEdit DEF body
  <2>2. body \in BlockIn(n + 1) /\ body.insns = front
    BY <1>5, <2>0 DEF BlockIn, BasicBlock
  <2>3. low = [body EXCEPT !.terminator = Fallthrough(tail)]
    BY DEF front
  <2>. HIDE DEF body, low
  <2>4. low = [body EXCEPT !.terminator = Fallthrough(tail), !.btf_pc = body.btf_pc]
    BY <2>2, <2>3 DEF BlockIn, BasicBlock
  <2>5. body.btf_pc \in Nat
    BY <2>2 DEF BlockIn, BasicBlock
  <2>. QED
    BY <1>1, <1>12, <2>1, <2>2, <2>4, <2>5, TerminatorEdit
<1>14. high \in BlockIn(n + 1) /\ BlockKept(high, cs, source)
  <2>. DEFINE back == SubSeq(old.insns, i, Len(old.insns))
              new == [old EXCEPT !.insns = back]
  <2>1. back \in Seq(KeptNodes(n + 1, cs))
    BY <1>11
  <2>. HIDE DEF back
  <2>2. new \in BlockIn(n + 1) /\ BlockKept(new, cs, source)
    BY ONLY <1>1, <1>5, <1>10, <2>1, BodyEdit DEF new
  <2>3. high = [new EXCEPT !.btf_pc = None, !.states = FALSE, !.profile = FALSE, !.lead = None]
    BY DEF back
  <2>. HIDE DEF new, high
  <2>4. high \in BlockIn(n + 1) /\ high.insns = new.insns /\ high.terminator = new.terminator
    BY <2>2, <2>3 DEF BlockIn, BasicBlock, None
  <2>. QED
    BY <2>2, <2>4 DEF BlockKept
<1>. HIDE DEF low, high
<1>15. \A k \in 1..(n + 1) : cs[k] \in BlockIn(n + 1) /\ BlockKept(cs[k], cs, source)
  BY <1>4, <1>7, <1>9, <1>13, <1>14
<1>16. cs \in [1..(n + 1) -> BlockIn(n + 1)]
  <2>1. cs = [k \in 1..(n + 1) |-> cs[k]]
    BY DEF cs
  <2>. QED
    BY <1>15, <2>1
<1>17. Len(cs) = n + 1
  BY <1>1, <1>16, FunctionIsSeq
<1>18. Shape(cs, f[entry])
  BY <1>1, <1>2, <1>16, <1>17 DEF Shape, ProgramOf
<1>19. KeptIn(cs, f[entry], source)
  BY <1>1, <1>7, <1>8, <1>15, CurrentKept DEF KeptIn
<1>20. Taken(cs)
  <2>. DEFINE At(s) == IF s[1] < tail THEN s
                       ELSE IF s[1] = tail THEN <<head, s[2] + i - 1>>
                       ELSE <<s[1] - 1, s[2]>>
              g == [s \in BodySites(cs) |-> At(s)]
              size == Len(blocks[head].insns)
  <2>1. /\ size \in Nat /\ i \in 1..(size + 1) /\ Len(old.insns) = size
        /\ DOMAIN blocks[head].insns = 1..size
    <3>1. size \in Nat /\ DOMAIN blocks[head].insns = 1..size
      BY <1>1, CurrentProgram, SeqIsFunction
    <3>. QED
      BY <1>6, <3>1
  <2>2. \A k \in 1..size : SameOrigin(old.insns[k], blocks[head].insns[k])
    BY <1>1, <2>1, CurrentProgram, RemapOrigin DEF old
  <2>3. /\ low.insns = SubSeq(old.insns, 1, i - 1)
        /\ high.insns = SubSeq(old.insns, i, size)
    BY <1>5, <2>1 DEF low, high, BlockIn, BasicBlock
  <2>4. /\ DOMAIN low.insns = 1..(i - 1)
        /\ \A k \in 1..(i - 1) : low.insns[k] = old.insns[k]
        /\ DOMAIN high.insns = 1..(size - i + 1)
        /\ \A k \in 1..(size - i + 1) : high.insns[k] = old.insns[i + k - 1]
    <3>1. \A k \in 1..size : old.insns[k] \in NodeIn(n + 1)
      BY <1>5, <2>1, SeqIsFunction
    <3>2. /\ low.insns \in Seq(NodeIn(n + 1)) /\ Len(low.insns) = i - 1
          /\ \A k \in 1..(i - 1) : low.insns[k] = old.insns[k]
      BY <2>1, <2>3, <3>1, SubSeqProperties
    <3>3. /\ high.insns \in Seq(NodeIn(n + 1)) /\ Len(high.insns) = size - i + 1
          /\ \A k \in 1..(size - i + 1) : high.insns[k] = old.insns[i + k - 1]
      BY <2>1, <2>3, <3>1, SubSeqProperties
    <3>. QED
      BY <3>2, <3>3, SeqIsFunction
  <2>. HIDE DEF size
  <2>5. ASSUME NEW s \in BodySites(cs)
        PROVE  /\ s[1] \in 1..(n + 1) /\ s[2] \in Nat /\ g[s] = At(s)
               /\ At(s) \in BodySites(blocks)
               /\ s[1] = head => s[2] < i
               /\ SameOrigin(NodeAt(cs, s), NodeAt(blocks, At(s)))
    <3>0. g[s] = At(s)
      OBVIOUS
    <3>1. s = <<s[1], s[2]>> /\ s[1] \in 1..(n + 1) /\ s[2] \in DOMAIN cs[s[1]].insns
      BY <1>7, BodySiteIs
    <3>2. s[2] \in Nat
      BY <1>18, SiteNumbers
    <3>3. ASSUME NEW c \in 1..n, c # head, s[1] = f[c]
          PROVE  <<c, s[2]>> \in BodySites(blocks)
                 /\ SameOrigin(NodeAt(cs, s), NodeAt(blocks, <<c, s[2]>>))
      <4>1. cs[s[1]] = RemapBlock(blocks[c], f)
        BY <1>7, <3>3
      <4>2. s[2] \in DOMAIN blocks[c].insns /\ SameOrigin(cs[s[1]].insns[s[2]], blocks[c].insns[s[2]])
        BY <1>1, <3>1, <4>1, CurrentProgram, RemapOrigin
      <4>. QED
        BY <1>1, <4>2, BodySiteIs DEF NodeAt
    <3>4. CASE s[1] < head
      <4>1. s[1] \in 1..n /\ s[1] # head /\ s[1] = f[s[1]] /\ s[1] < tail
        BY <1>1, <1>2, <3>1, <3>4
      <4>. QED
        BY <3>0, <3>1, <3>2, <3>3, <4>1
    <3>5. CASE s[1] = head
      <4>1. s[2] \in 1..(i - 1) /\ cs[s[1]].insns[s[2]] = old.insns[s[2]]
        BY <1>7, <2>4, <3>1, <3>5
      <4>2. s[2] \in 1..size /\ s[2] < i /\ s[1] < tail
        BY <1>1, <2>1, <3>5, <4>1
      <4>3. s \in BodySites(blocks)
        BY <1>1, <2>1, <3>1, <3>5, <4>2, BodySiteIs
      <4>. QED
        BY <2>2, <3>0, <3>1, <3>2, <3>5, <4>1, <4>2, <4>3 DEF NodeAt
    <3>6. CASE s[1] = tail
      <4>1. s[2] \in 1..(size - i + 1) /\ cs[s[1]].insns[s[2]] = old.insns[i + s[2] - 1]
        BY <1>7, <2>4, <3>1, <3>6
      <4>2. /\ i + s[2] - 1 \in 1..size /\ i + s[2] - 1 = s[2] + i - 1
            /\ ~(s[1] < tail) /\ s[1] # head
        BY <1>1, <2>1, <3>6, <4>1
      <4>3. At(s) = <<head, s[2] + i - 1>>
        BY <3>6, <4>2
      <4>4. <<head, s[2] + i - 1>> \in BodySites(blocks)
        BY <1>1, <2>1, <4>2, BodySiteIs
      <4>5. SameOrigin(NodeAt(cs, s), NodeAt(blocks, <<head, s[2] + i - 1>>))
        BY <2>2, <4>1, <4>2 DEF NodeAt
      <4>. QED
        BY <3>0, <3>1, <3>2, <4>2, <4>3, <4>4, <4>5
    <3>7. CASE s[1] > tail
      <4>1. /\ s[1] - 1 \in (head + 1)..n /\ s[1] - 1 \in 1..n /\ s[1] - 1 # head
            /\ s[1] = (s[1] - 1) + 1 /\ ~(s[1] < tail) /\ s[1] # tail /\ s[1] # head
        BY <1>1, <3>1, <3>7
      <4>2. s[1] = f[s[1] - 1]
        BY <1>2, <4>1
      <4>3. At(s) = <<s[1] - 1, s[2]>>
        BY <4>1
      <4>. QED
        BY <3>0, <3>1, <3>2, <3>3, <4>1, <4>2, <4>3
    <3>. QED
      BY <1>1, <3>1, <3>4, <3>5, <3>6, <3>7
  <2>. HIDE DEF g
  <2>6. Drawn(DOMAIN cs, cs, g)
    BY <2>5 DEF Drawn
  <2>7. InOrder(DOMAIN cs, cs, g)
    <3>. SUFFICES ASSUME NEW s \in BodySites(cs), NEW t \in BodySites(cs), SiteBefore(s, t)
                  PROVE  SiteBefore(At(s), At(t))
      BY <2>5 DEF InOrder
    <3>0. \A u \in BodySites(cs) : u[1] \in 1..(n + 1) /\ u[2] \in Nat /\ (u[1] = head => u[2] < i)
      BY <2>5
    <3>1. /\ s[1] \in Nat /\ s[2] \in Nat /\ t[1] \in Nat /\ t[2] \in Nat
          /\ head \in Nat /\ i \in Nat
          /\ (s[1] = head => s[2] < i) /\ (t[1] = head => t[2] < i)
      <4>1. 1..(n + 1) \subseteq Nat /\ head \in Nat /\ i \in Nat
        BY <1>1, <2>1
      <4>. QED
        BY ONLY <3>0, <4>1, s \in BodySites(cs), t \in BodySites(cs)
    <3>2. /\ t[2] \in Nat /\ t[1] = tail => t[2] > 0
      <4>1. t[2] \in DOMAIN cs[t[1]].insns
        BY BodySiteIs
      <4>. QED
        BY <1>7, <2>1, <2>4, <3>1, <4>1
    <3>. QED
      BY <3>1, <3>2 DEF SiteBefore
  <2>. QED
    BY <2>6, <2>7 DEF Taken
<1>. QED
  BY <1>3, <1>18, <1>19, <1>20 DEF GoodMutation

-----------------------------------------------------------------------------
(* Every operation is a good mutation, and so keeps the invariant.          *)
LEMMA MutationGood ==
    ASSUME Inv, Mutation
    PROVE  GoodMutation
<1>1. ASSUME NEW b \in DOMAIN blocks, NEW i \in Sites(b), delete_insn(b, i)
      PROVE  GoodMutation
  BY <1>1, DeleteInsnGood
<1>2. ASSUME NEW b \in DOMAIN blocks, NEW i \in Sites(b), NEW old_len \in 0..MaxBody,
             NEW ops \in Replacements, try_replace_range(b, i, old_len, ops)
      PROVE  GoodMutation
  <2>1. old_len \in Nat /\ Insertable(ops)
    BY BoundsAssumption, ReplacementsInsertable
  <2>. QED
    BY <1>2, <2>1, ReplaceRangeGood
<1>3. ASSUME NEW b \in DOMAIN blocks, delete_cond_branch(b)
      PROVE  GoodMutation
  BY <1>3, DeleteCondBranchGood
<1>4. ASSUME NEW b \in DOMAIN blocks, NEW t \in NewTerminators(b), replace_terminator(b, t)
      PROVE  GoodMutation
  BY <1>4, ReplaceTerminatorGood
<1>5. ASSUME NEW order \in Orders, permute_blocks(order)
      PROVE  GoodMutation
  BY <1>5, PermuteGood
<1>6. ASSUME NEW first \in DOMAIN blocks, NEW end \in DOMAIN blocks, merge_linear_chain(first, end)
      PROVE  GoodMutation
  BY <1>6, MergeGood
<1>7. ASSUME delete_unreachable_blocks
      PROVE  GoodMutation
  BY <1>7, DeleteUnreachableGood
<1>8. ASSUME NEW b \in DOMAIN blocks, NEW i \in Sites(b), split_block(b, i)
      PROVE  GoodMutation
  BY <1>8, SplitGood
<1>9. ASSUME NEW pred \in DOMAIN blocks, NEW tb \in Arms(pred), NEW fb \in Arms(pred),
             NEW join \in DOMAIN blocks \cup {None}, NEW ops \in Replacements,
             replace_diamond_with_insns(pred, tb, fb, join, ops)
      PROVE  GoodMutation
  BY <1>9, DiamondGood
<1>. QED
  BY <1>1, <1>2, <1>3, <1>4, <1>5, <1>6, <1>7, <1>8, <1>9 DEF Mutation

(* Every operation counts itself as one call of an operation of the API.    *)
LEMMA MutationCalls ==
    ASSUME Mutation
    PROVE  \E op \in Ops : calls' = calls + 1 /\ last' = op
<1>. USE DEF Calling
<1>1. ASSUME NEW b, NEW i, delete_insn(b, i)
      PROVE  \E op \in Ops : Calling(op)
  BY <1>1 DEF delete_insn
<1>2. ASSUME NEW b, NEW i, NEW old_len, NEW ops, try_replace_range(b, i, old_len, ops)
      PROVE  \E op \in Ops : Calling(op)
  BY <1>2 DEF try_replace_range
<1>3. ASSUME NEW b, delete_cond_branch(b)
      PROVE  \E op \in Ops : Calling(op)
  BY <1>3 DEF delete_cond_branch
<1>4. ASSUME NEW b, NEW t, replace_terminator(b, t)
      PROVE  \E op \in Ops : Calling(op)
  BY <1>4 DEF replace_terminator
<1>5. ASSUME NEW order, permute_blocks(order)
      PROVE  \E op \in Ops : Calling(op)
  BY <1>5 DEF permute_blocks
<1>6. ASSUME NEW first, NEW end, merge_linear_chain(first, end)
      PROVE  \E op \in Ops : Calling(op)
  BY <1>6 DEF merge_linear_chain
<1>7. ASSUME delete_unreachable_blocks
      PROVE  \E op \in Ops : Calling(op)
  BY <1>7 DEF delete_unreachable_blocks
<1>8. ASSUME NEW b, NEW i, split_block(b, i)
      PROVE  \E op \in Ops : Calling(op)
  BY <1>8 DEF split_block
<1>9. ASSUME NEW pred, NEW tb, NEW fb, NEW join, NEW ops,
             replace_diamond_with_insns(pred, tb, fb, join, ops)
      PROVE  \E op \in Ops : Calling(op)
  BY <1>9 DEF replace_diamond_with_insns
<1>. QED
  BY <1>1, <1>2, <1>3, <1>4, <1>5, <1>6, <1>7, <1>8, <1>9 DEF Mutation

(* The same bytecode, whatever metadata was attached when it was lifted.    *)
LEMMA LiftCode ==
    ASSUME NEW raw, Liftable(raw), NEW states, NEW profiled, NEW states2, NEW profiled2
    PROVE  Code(lift(raw, states, profiled)) = Code(lift(raw, states2, profiled2))
<1>. DEFINE n == NumBlocks(raw)
            one == lift(raw, states, profiled)
            two == lift(raw, states2, profiled2)
<1>2. DOMAIN one = 1..n /\ DOMAIN two = 1..n
  BY LiftBlocks
<1>3. ASSUME NEW b \in 1..n
      PROVE  /\ one[b].terminator = two[b].terminator
             /\ DOMAIN one[b].insns = DOMAIN two[b].insns
             /\ \A i \in DOMAIN one[b].insns :
                   /\ one[b].insns[i].op = two[b].insns[i].op
                   /\ one[b].insns[i].insn = two[b].insns[i].insn
                   /\ one[b].insns[i].target = two[b].insns[i].target
  <2>1. /\ one[b].insns = Lifted(raw, b, states, profiled).insns
        /\ one[b].terminator = Lifted(raw, b, states, profiled).terminator
    BY LiftBlocks
  <2>2. /\ two[b].insns = Lifted(raw, b, states2, profiled2).insns
        /\ two[b].terminator = Lifted(raw, b, states2, profiled2).terminator
    BY LiftBlocks
  <2>. HIDE DEF one, two
  <2>. QED
    BY <2>1, <2>2, LiftedSameCode
<1>. HIDE DEF one, two, n
<1>4. ASSUME NEW b \in 1..n
      PROVE  [i \in DOMAIN one[b].insns |->
                 [op |-> one[b].insns[i].op, insn |-> one[b].insns[i].insn,
                  target |-> one[b].insns[i].target]]
             = [i \in DOMAIN two[b].insns |->
                 [op |-> two[b].insns[i].op, insn |-> two[b].insns[i].insn,
                  target |-> two[b].insns[i].target]]
  BY <1>3
<1>5. Code(one) = Code(two)
  BY <1>2, <1>3, <1>4 DEF Code
<1>. QED
  BY <1>5 DEF one, two

(* Every reference of a lifted program leads to the block of its target.    *)
LEMMA LiftKept ==
    ASSUME NEW raw, Liftable(raw), \A pc \in instruction_boundaries(raw) : raw[pc].insn = pc,
           NEW states, NEW profiled
    PROVE  KeptIn(lift(raw, states, profiled), 1, raw)
<1>. DEFINE bs == lift(raw, states, profiled)
            n == NumBlocks(raw)
            S == collect_block_starts(raw)
            at == instruction_boundaries(raw)
<1>1. /\ Len(raw) \in Nat /\ Len(raw) > 0 /\ at \in SUBSET (1..Len(raw))
      /\ S \in SUBSET (1..(Len(raw) + 1)) /\ n \in Nat /\ n > 0
  BY StartsType
<1>2. DOMAIN bs = 1..n
  BY LiftBlocks
<1>3. \A pc \in S : bs[pc_to_block(raw, pc)].lead = pc
  BY LiftedAt
<1>4. ASSUME NEW k \in 1..n
      PROVE  /\ bs[k].insns = Lifted(raw, k, states, profiled).insns
             /\ bs[k].terminator = Lifted(raw, k, states, profiled).terminator
  BY LiftBlocks
<1>. HIDE DEF bs, n
<1>5. bs[1].lead = 1
  <2>1. 1 \in S
    BY DEF collect_block_starts
  <2>2. {s \in S : s <= 1} = {1}
    BY <1>1, <2>1
  <2>3. Cardinality({s \in S : s <= 1}) = 1
    BY <2>2, FS_Singleton
  <2>4. pc_to_block(raw, 1) = 1
    BY <2>1, <2>3 DEF pc_to_block
  <2>. QED
    BY <1>3, <2>1, <2>4
<1>6. ASSUME NEW pc \in at, raw[pc].op \in TermOps
      PROVE  TermKept(lift_terminator(raw, pc), bs, raw)
  <2>1. raw[pc].insn = pc
    OBVIOUS
  <2>2. raw[pc].op \in {"ja", "jcc", "call"} => bs[pc_to_block(raw, TargetPc(raw, pc))].lead = TargetPc(raw, pc)
    BY <1>3, BranchesStartBlocks
  <2>3. raw[pc].op \in {"jcc", "call"} => bs[pc_to_block(raw, pc + 1)].lead = pc + 1
    BY <1>3, BranchesStartBlocks
  <2>4. CASE raw[pc].op = "exit"
    <3>1. lift_terminator(raw, pc) = Exit(pc)
      BY <2>1, <2>4 DEF lift_terminator
    <3>. QED
      BY <3>1 DEF TermKept, Exit
  <2>5. CASE raw[pc].op = "ja"
    <3>1. lift_terminator(raw, pc) = Jump(pc, pc_to_block(raw, TargetPc(raw, pc)))
      BY <2>1, <2>5 DEF lift_terminator
    <3>. QED
      BY <2>2, <2>5, <3>1 DEF TermKept, Jump
  <2>6. CASE raw[pc].op = "jcc"
    <3>1. lift_terminator(raw, pc) =
            CondBranch(pc, pc_to_block(raw, TargetPc(raw, pc)), pc_to_block(raw, pc + 1))
      BY <2>1, <2>6 DEF lift_terminator
    <3>. QED
      BY <2>2, <2>3, <2>6, <3>1 DEF TermKept, CondBranch
  <2>7. CASE raw[pc].op = "call"
    <3>1. lift_terminator(raw, pc) =
            Call(pc, pc_to_block(raw, TargetPc(raw, pc)), pc_to_block(raw, pc + 1))
      BY <2>1, <2>7 DEF lift_terminator
    <3>. QED
      BY <2>2, <2>3, <2>7, <3>1 DEF TermKept, Call
  <2>. QED
    BY <1>6, <2>4, <2>5, <2>6, <2>7 DEF TermOps
<1>7. ASSUME NEW pc \in at
      PROVE  NodeKept(LiftNode(raw, pc, states), bs, raw)
  <2>1. /\ LiftNode(raw, pc, states).insn = pc
        /\ LiftNode(raw, pc, states).target =
              IF raw[pc].op = "func" THEN pc_to_block(raw, TargetPc(raw, pc)) ELSE None
    BY DEF LiftNode, InsnNode
  <2>2. raw[pc].op = "func" => bs[pc_to_block(raw, TargetPc(raw, pc))].lead = TargetPc(raw, pc)
    BY <1>3, BranchesStartBlocks
  <2>. QED
    BY <2>1, <2>2 DEF NodeKept
<1>8. ASSUME NEW k \in 1..n
      PROVE  BlockKept(bs[k], bs, raw)
  <2>. DEFINE s == StartOf(raw, k)
              e == StopOf(raw, k)
              mine    == {pc \in at : s <= pc /\ pc < e}
              hasTerm == s < e /\ (e - 1) \in mine /\ raw[e - 1].op \in TermOps
              pcs     == IF hasTerm THEN mine \ {e - 1} ELSE mine
              body    == SortedSeq(pcs)
  <2>1. /\ bs[k].insns = [i \in DOMAIN body |-> LiftNode(raw, body[i], states)]
        /\ bs[k].terminator = IF hasTerm THEN lift_terminator(raw, e - 1)
                              ELSE IF e <= Len(raw) THEN Fallthrough(pc_to_block(raw, e))
                              ELSE End
    BY <1>4 DEF Lifted, LiftBlock
  <2>2. pcs \in SUBSET at
    OBVIOUS
  <2>3. hasTerm => e - 1 \in at /\ raw[e - 1].op \in TermOps
    OBVIOUS
  <2>. HIDE DEF pcs, hasTerm, e
  <2>4. IsFiniteSet(pcs) /\ pcs \in SUBSET Int
    <3>1. pcs \in SUBSET (1..Len(raw)) /\ IsFiniteSet(1..Len(raw))
      BY <1>1, <2>2, FS_Interval
    <3>2. IsFiniteSet(pcs)
      BY <3>1, FS_Subset
    <3>. QED
      BY <1>1, <3>1, <3>2
  <2>5. \A i \in DOMAIN body : body[i] \in pcs
    <3>1. body \in Seq(pcs)
      BY <2>4, SortedSeqType
    <3>. HIDE DEF body
    <3>. QED
      BY <3>1, SeqIsFunction
  <2>. HIDE DEF body
  <2>6. TermKept(bs[k].terminator, bs, raw)
    <3>1. CASE hasTerm
      BY <1>6, <2>1, <2>3, <3>1
    <3>2. CASE ~hasTerm
      BY <2>1, <3>2 DEF TermKept, Fallthrough, End
    <3>. QED
      BY <3>1, <3>2
  <2>7. \A i \in DOMAIN bs[k].insns : NodeKept(bs[k].insns[i], bs, raw)
    BY <1>7, <2>1, <2>2, <2>5
  <2>. QED
    BY <2>6, <2>7 DEF BlockKept
<1>. QED
  BY <1>2, <1>5, <1>8 DEF KeptIn, bs

(* Lifting cuts the bytecode into consecutive ranges and keeps its order:   *)
(* the instructions of a lifted program stand in the order of their slots.  *)
LEMMA LiftInOrder ==
    ASSUME NEW raw, Liftable(raw), \A pc \in instruction_boundaries(raw) : raw[pc].insn = pc,
           NEW states, NEW profiled,
           NEW s \in BodySites(lift(raw, states, profiled)),
           NEW t \in BodySites(lift(raw, states, profiled)), SiteBefore(s, t)
    PROVE  LET x == NodeAt(lift(raw, states, profiled), s)
               y == NodeAt(lift(raw, states, profiled), t)
           IN  /\ x.insn < y.insn /\ x.insn \in Int /\ y.insn \in Int
               /\ x.btf_pc = x.insn /\ y.btf_pc = y.insn
<1>. DEFINE bs == lift(raw, states, profiled)
            n == NumBlocks(raw)
            S == collect_block_starts(raw)
            at == instruction_boundaries(raw)
<1>1. /\ Len(raw) \in Nat /\ at \in SUBSET (1..Len(raw)) /\ n \in Nat
      /\ S \in SUBSET (1..(Len(raw) + 1)) /\ S \in SUBSET Int /\ IsFiniteSet(S)
  BY StartsType
<1>2. DOMAIN bs = 1..n
  BY LiftBlocks
<1>3. \A k \in 1..n : bs[k].insns = Lifted(raw, k, states, profiled).insns
  BY LiftBlocks
<1>. HIDE DEF bs
<1>4. \A k \in 1..n : StartOf(raw, k) \in S
  BY <1>1, SortedSeqType, KthElement DEF StartOf, n, NumBlocks
<1>5. \A j, k \in 1..n : j < k => StartOf(raw, j) < StartOf(raw, k)
  BY <1>1, SortedSeqIncreases DEF StartOf, n, NumBlocks
<1>. HIDE DEF n, S
<1>6. \A j, k \in 1..n : j < k => StopOf(raw, j) <= StartOf(raw, k)
  <2>. SUFFICES ASSUME NEW j \in 1..n, NEW k \in 1..n, j < k
                PROVE  StopOf(raw, j) <= StartOf(raw, k)
    OBVIOUS
  <2>1. j + 1 \in 1..n /\ (j + 1 = k \/ j + 1 < k) /\ j < n
    BY <1>1
  <2>2. StopOf(raw, j) = StartOf(raw, j + 1)
    BY <2>1 DEF StopOf, n
  <2>3. StartOf(raw, j + 1) \in Int /\ StartOf(raw, k) \in Int
    BY <1>1, <1>4, <2>1
  <2>4. j + 1 = k \/ StartOf(raw, j + 1) < StartOf(raw, k)
    BY <1>5, <2>1
  <2>. QED
    BY <2>2, <2>3, <2>4
<1>7. ASSUME NEW k \in 1..n
      PROVE  \E body : /\ DOMAIN bs[k].insns = DOMAIN body
                       /\ \A i \in DOMAIN body :
                            /\ body[i] \in Int /\ StartOf(raw, k) <= body[i] /\ body[i] < StopOf(raw, k)
                            /\ bs[k].insns[i].insn = body[i] /\ bs[k].insns[i].btf_pc = body[i]
                       /\ \A i, j \in DOMAIN body : i < j => body[i] < body[j]
  <2>. DEFINE b == StartOf(raw, k)
              e == StopOf(raw, k)
              mine    == {pc \in at : b <= pc /\ pc < e}
              hasTerm == b < e /\ (e - 1) \in mine /\ raw[e - 1].op \in TermOps
              pcs     == IF hasTerm THEN mine \ {e - 1} ELSE mine
              body    == SortedSeq(pcs)
  <2>1. bs[k].insns = [i \in DOMAIN body |-> LiftNode(raw, body[i], states)]
    BY <1>3 DEF Lifted, LiftBlock
  <2>2. pcs \in SUBSET at /\ \A pc \in pcs : b <= pc /\ pc < e
    OBVIOUS
  <2>. HIDE DEF pcs
  <2>3. IsFiniteSet(pcs) /\ pcs \in SUBSET Int
    <3>1. pcs \in SUBSET (1..Len(raw)) /\ IsFiniteSet(1..Len(raw))
      BY <1>1, <2>2, FS_Interval
    <3>2. IsFiniteSet(pcs)
      BY <3>1, FS_Subset
    <3>. QED
      BY <1>1, <3>1, <3>2
  <2>4. DOMAIN body = 1..Cardinality(pcs) /\ \A i \in DOMAIN body : body[i] \in pcs
    <3>1. DOMAIN body = 1..Cardinality(pcs) /\ \A i \in 1..Cardinality(pcs) : body[i] = Kth(pcs, i)
      BY <2>3, SortedSeqType
    <3>2. \A i \in 1..Cardinality(pcs) : Kth(pcs, i) \in pcs
      BY <2>3, KthElement
    <3>. HIDE DEF body
    <3>. QED
      BY <3>1, <3>2
  <2>5. \A i, j \in DOMAIN body : i < j => body[i] < body[j]
    BY <2>3, <2>4, SortedSeqIncreases
  <2>. HIDE DEF body
  <2>6. ASSUME NEW i \in DOMAIN body
        PROVE  /\ body[i] \in Int /\ b <= body[i] /\ body[i] < e
               /\ bs[k].insns[i].insn = body[i] /\ bs[k].insns[i].btf_pc = body[i]
    <3>1. body[i] \in at /\ body[i] \in Int /\ b <= body[i] /\ body[i] < e
      BY <2>2, <2>3, <2>4
    <3>2. bs[k].insns[i] = LiftNode(raw, body[i], states)
      BY <2>1
    <3>3. raw[body[i]].insn = body[i]
      BY <3>1
    <3>. QED
      BY <3>1, <3>2, <3>3 DEF LiftNode, InsnNode
  <2>7. DOMAIN bs[k].insns = DOMAIN body
    BY <2>1
  <2>. QED
    BY <2>5, <2>6, <2>7
<1>8. /\ s[1] \in 1..n /\ s[2] \in DOMAIN bs[s[1]].insns
      /\ t[1] \in 1..n /\ t[2] \in DOMAIN bs[t[1]].insns
  BY <1>2, BodySiteIs DEF bs
<1>. DEFINE x == bs[s[1]].insns[s[2]]
            y == bs[t[1]].insns[t[2]]
<1>9. /\ x.insn \in Int /\ y.insn \in Int
      /\ x.btf_pc = x.insn /\ y.btf_pc = y.insn
      /\ x.insn < StopOf(raw, s[1]) /\ StartOf(raw, t[1]) <= y.insn
  BY <1>7, <1>8
<1>10. CASE s[1] < t[1]
  <2>1. StopOf(raw, s[1]) <= StartOf(raw, t[1])
    BY <1>6, <1>8, <1>10
  <2>2. StopOf(raw, s[1]) \in Int /\ StartOf(raw, t[1]) \in Int
    <3>1. \A k \in 1..n : StartOf(raw, k) \in Int
      BY <1>1, <1>4
    <3>2. s[1] + 1 \in 1..n /\ s[1] < n
      BY <1>1, <1>8, <1>10
    <3>. QED
      BY <1>8, <3>1, <3>2 DEF StopOf, n
  <2>. HIDE DEF x, y
  <2>3. x.insn < y.insn
    BY <1>9, <2>1, <2>2
  <2>. QED
    BY <1>9, <2>3 DEF NodeAt, bs, x, y
<1>11. CASE s[1] = t[1] /\ s[2] < t[2]
  <2>1. x.insn < y.insn
    BY <1>7, <1>8, <1>11
  <2>. QED
    BY <1>9, <2>1 DEF NodeAt, bs, x, y
<1>. QED
  BY <1>10, <1>11 DEF SiteBefore

(* A freshly lifted program has the right shape.                            *)
LEMMA InitInv ==
    ASSUME Init
    PROVE  Inv
<1>1. PICK states \in BOOLEAN, profiled \in {{}, BranchPcs(source)} :
        blocks = lift(source, states, profiled)
  BY DEF Init
<1>. DEFINE n == NumBlocks(source)
<1>2. Liftable(source)
  BY ProgramsAssumption DEF Init, Liftable
<1>3. n \in Nat /\ n > 0
  BY <1>2, StartsType
<1>4. /\ blocks \in ProgramOf(n)
      /\ \A b \in 1..n : blocks[b].predecessors =
                            {p \in 1..n : b \in successors(blocks[p].terminator)}
  BY <1>1, <1>2, LiftShape
<1>. HIDE DEF n
<1>5. Len(blocks) = n /\ DOMAIN blocks = 1..n
  BY <1>3, <1>4, FunctionIsSeq DEF ProgramOf
<1>6. Shape(blocks, entry)
  BY <1>3, <1>4, <1>5 DEF Shape, Init
<1>7. PredecessorsInvertSuccessors
  BY <1>4, <1>5 DEF PredecessorsInvertSuccessors
<1>8. VerifierStatesMatchCode
  BY <1>1, <1>2, LiftCode DEF VerifierStatesMatchCode
<1>9. blocks \in Seq(BasicBlock) /\ entry \in DOMAIN blocks
  BY <1>3, <1>5, <1>6, ShapeIsSeq DEF Init
<1>10. derived_facts_dirty \in BOOLEAN
  BY DEF Init
<1>11. TypeOK
  BY <1>9, <1>10, BoundsAssumption DEF TypeOK, Init
<1>12. TargetsKept
  <2>1. \A pc \in instruction_boundaries(source) : source[pc].insn = pc
    BY ProgramsAssumption DEF Init
  <2>2. KeptIn(blocks, 1, source)
    BY <1>1, <1>2, <2>1, LiftKept
  <2>. QED
    BY <2>2, TargetsKeptIs DEF Init
<1>13. OriginalsOnce(blocks)
  <2>1. \A pc \in instruction_boundaries(source) : source[pc].insn = pc
    BY ProgramsAssumption DEF Init
  <2>2. ASSUME NEW s \in BodySites(blocks), NEW t \in BodySites(blocks), SiteBefore(s, t)
        PROVE  NodeAt(blocks, s).insn # NodeAt(blocks, t).insn
    BY <1>1, <1>2, <2>1, <2>2, LiftInOrder
  <2>. QED
    BY <1>6, <2>2, SitesTotal DEF OriginalsOnce
<1>. QED
  BY <1>6, <1>7, <1>8, <1>11, <1>12, <1>13 DEF Inv

LEMMA NextKeepsInv ==
    ASSUME Inv, [Next]_vars
    PROVE  Inv'
<1>1. CASE calls < MaxCalls /\ Mutation
  <2>1. GoodMutation
    BY <1>1, MutationGood
  <2>2. /\ Shape(blocks', entry')
        /\ PredecessorsInvertSuccessors'
        /\ VerifierStatesMatchCode'
        /\ TargetsKept'
        /\ OriginalsOnce(blocks)'
    BY <2>1, GoodMutationResult
  <2>3. blocks' \in Seq(BasicBlock) /\ entry' \in DOMAIN blocks'
    BY <2>2, ShapeIsSeq DEF Shape
  <2>4. derived_facts_dirty' = TRUE /\ source' = source /\ prog_type' = prog_type
    BY <1>1, MutationMutates
  <2>5. calls' \in 0..MaxCalls /\ last' \in AllOps
    BY <1>1, MutationCalls, ProgramsAssumption, BoundsAssumption DEF Inv, TypeOK
  <2>6. TypeOK'
    BY <2>3, <2>4, <2>5 DEF TypeOK, Inv
  <2>. QED
    BY <2>2, <2>6 DEF Inv
<1>2. CASE ensure_derived_facts_fresh
  <2>1. UNCHANGED <<source, blocks, entry, prog_type, calls, last>>
        /\ derived_facts_dirty' \in BOOLEAN
    BY <1>2 DEF ensure_derived_facts_fresh, Inv, TypeOK
  <2>2. TypeOK'
    BY <2>1 DEF Inv, TypeOK
  <2>3. Shape(blocks', entry') /\ PredecessorsInvertSuccessors' /\ VerifierStatesMatchCode'
    BY <2>1 DEF Inv, PredecessorsInvertSuccessors, VerifierStatesMatchCode
  <2>4. TargetsKept'
    BY <2>1 DEF Inv, TargetsKept
  <2>5. OriginalsOnce(blocks)'
    BY <2>1 DEF Inv, OriginalsOnce, BodySites, NodeAt
  <2>. QED
    BY <2>2, <2>3, <2>4, <2>5 DEF Inv
<1>3. CASE UNCHANGED vars
  <2>1. OriginalsOnce(blocks)'
    BY <1>3 DEF Inv, vars, OriginalsOnce, BodySites, NodeAt
  <2>. QED
    BY <1>3, <2>1
       DEF vars, Inv, TypeOK, PredecessorsInvertSuccessors, VerifierStatesMatchCode, TargetsKept
<1>. QED
  BY <1>1, <1>2, <1>3 DEF Next

(* The inductive invariant holds throughout.                                *)
THEOREM InvHolds == Spec => []Inv
<1>1. Init => Inv
  BY InitInv
<1>2. Inv /\ [Next]_vars => Inv'
  BY NextKeepsInv
<1>. QED
  BY <1>1, <1>2, PTL DEF Spec

(* However many operations of the mutation API are called and in whatever   *)
(* order, the program is a sequence of blocks with a live entry.            *)
THEOREM TypeCorrect == Spec => []TypeOK
<1>1. Inv => TypeOK
  BY DEF Inv
<1>. QED
  BY <1>1, InvHolds, PTL

(* No renumbering (removal, split, permutation) leaves a branch, call or    *)
(* callback load that refers to a block the program no longer has.          *)
THEOREM NeverDangling == Spec => []NoDanglingReference
<1>1. Inv => NoDanglingReference
  <2>. SUFFICES ASSUME Inv, NEW b \in DOMAIN blocks
                PROVE  References(blocks[b]) \subseteq DOMAIN blocks
    BY DEF NoDanglingReference
  <2>. QED
    BY CurrentProgram, ReferencesInside
<1>. QED
  BY <1>1, InvHolds, PTL

(* The predecessor lists by which merge_linear_chain and                    *)
(* replace_diamond_with_insns decide what to delete are always right, the   *)
(* operations that do not recompute them included.                          *)
THEOREM PredecessorsAlwaysRight == Spec => []PredecessorsInvertSuccessors
<1>1. Inv => PredecessorsInvertSuccessors
  BY DEF Inv
<1>. QED
  BY <1>1, InvHolds, PTL

(* A verifier state or branch profile is never attached to bytecode other   *)
(* than the one the verifier or the profiler saw.                           *)
THEOREM VerifierStatesAlwaysMatch == Spec => []VerifierStatesMatchCode
<1>1. Inv => VerifierStatesMatchCode
  BY DEF Inv
<1>. QED
  BY <1>1, InvHolds, PTL

(* Through any sequence of splits, merges, removals and permutations, every *)
(* branch, call and callback load that survives from the lifted bytecode    *)
(* leads to the block lifted at its target, and the entry is the block      *)
(* lifted at the first slot.                                                *)
THEOREM TargetsAlwaysKept == Spec => []TargetsKept
<1>1. Inv => TargetsKept
  BY DEF Inv
<1>. QED
  BY <1>1, InvHolds, PTL

(* Only permute_blocks can put the original positions of body instructions  *)
(* out of order: splices, removals, merges, splits and the replacement of a *)
(* diamond bring the instructions they keep with them in layout order.      *)
THEOREM RecordsStayOrdered == Spec => BodyRecordsStayOrdered
<1>1. Inv /\ [Next]_vars =>
        (RecordsInOrder(blocks) /\ Called(AllOps \ {"permute_blocks"})
           => RecordsInOrder(blocks'))
  <2>. SUFFICES ASSUME Inv, [Next]_vars, RecordsInOrder(blocks),
                       Called(AllOps \ {"permute_blocks"})
                PROVE  RecordsInOrder(blocks')
    OBVIOUS
  <2>1. calls' # calls
    BY DEF Called, Inv, TypeOK
  <2>2. Mutation
    BY <2>1 DEF Next, ensure_derived_facts_fresh, vars
  <2>3. Taken(blocks')
    BY <2>2, MutationGood, GoodMutationResult
  <2>. QED
    BY <2>3, TakenInOrder DEF Called
<1>. QED
  BY <1>1, InvHolds, PTL DEF BodyRecordsStayOrdered, Spec

(* A transformation that does not permute blocks never loses the order in   *)
(* which lift put the positions: whatever else it calls, the line and       *)
(* function records of body instructions can be remapped at every moment.   *)
THEOREM RecordsAlwaysOrdered ==
    "permute_blocks" \notin Ops => (Spec => []RecordsInOrder(blocks))
<1>. SUFFICES ASSUME "permute_blocks" \notin Ops PROVE Spec => []RecordsInOrder(blocks)
  OBVIOUS
<1>1. Init => RecordsInOrder(blocks)
  <2>. SUFFICES ASSUME Init, NEW s \in BodySites(blocks), NEW t \in BodySites(blocks),
                       SiteBefore(s, t)
                PROVE  NodeAt(blocks, s).btf_pc < NodeAt(blocks, t).btf_pc
    BY DEF RecordsInOrder
  <2>1. Liftable(source) /\ \A pc \in instruction_boundaries(source) : source[pc].insn = pc
    BY ProgramsAssumption DEF Init, Liftable
  <2>. QED
    BY <2>1, LiftInOrder DEF Init
<1>2. Inv /\ RecordsInOrder(blocks) /\ [Next]_vars => RecordsInOrder(blocks)'
  <2>. SUFFICES ASSUME Inv, [Next]_vars, RecordsInOrder(blocks) PROVE RecordsInOrder(blocks')
    BY DEF RecordsInOrder, BodySites, NodeAt
  <2>1. CASE Mutation
    <3>1. Taken(blocks')
      BY <2>1, MutationGood, GoodMutationResult
    <3>2. last' # "permute_blocks"
      BY <2>1, MutationCalls
    <3>. QED
      BY <3>1, <3>2, TakenInOrder
  <2>2. CASE blocks' = blocks
    BY <2>2
  <2>. QED
    BY <2>1, <2>2 DEF Next, ensure_derived_facts_fresh, vars
<1>. QED
  BY <1>1, <1>2, InvHolds, PTL DEF Spec

-----------------------------------------------------------------------------
(* Batches.  A batch of edits keeps what the operations keep one by one,    *)
(* and the sites a pass collected stay valid under its own edits, for every *)
(* program, every batch size and every replacement.                         *)

Positions == Nat \ {0}

Windows == {1, 2}

Inserted == Replacements \cup {<<>>}

Candidates ==
    [b: Nat, i: Positions, old_len: Windows, ops: Inserted, matched: Seq(Nat)]

(* Within a block the later site comes first, and the ranges do not meet.   *)
LastFirst(q) ==
    \A j, k \in DOMAIN q :
        j < k /\ q[j].b = q[k].b => q[k].i + q[k].old_len <= q[j].i

(* The candidates left, and the calls they will make.                       *)
QueueOk ==
    /\ queue \in Seq(Candidates)
    /\ ~running => queue = <<>>
    /\ calls + Len(queue) <= MaxCalls
    /\ \A k \in DOMAIN queue : queue[k].b \in DOMAIN blocks
    /\ \A k \in DOMAIN queue : DOMAIN queue[k].matched = 1..queue[k].old_len
    /\ LastFirst(queue)

(* What committed candidates matched is not in the program any more.        *)
GoneOk ==
    /\ ~running => gone = {}
    /\ gone \cap OriginalsIn(blocks) = {}

BatchInv == Inv /\ FactsFresh /\ QueueOk /\ PendingStillMatch /\ GoneOk

-----------------------------------------------------------------------------
(* The order of the edits.                                                  *)

(* The sites of a finite set, each once, from the last to the first.        *)
LEMMA ReverseOrderIs ==
    ASSUME NEW S, IsFiniteSet(S),
           \A s \in S : s = <<s[1], s[2]>> /\ s[1] \in Nat /\ s[2] \in Nat
    PROVE  /\ Cardinality(S) \in Nat
           /\ DOMAIN ReverseOrder(S) = 1..Cardinality(S)
           /\ \A k \in 1..Cardinality(S) : ReverseOrder(S)[k] \in S
           /\ \A j, k \in 1..Cardinality(S) :
                 j < k => SiteBefore(ReverseOrder(S)[k], ReverseOrder(S)[j])
<1> DEFINE n == Cardinality(S)
           above == [s \in S |-> {t \in S : SiteBefore(s, t)}]
           from == [s \in S |-> above[s] \cup {s}]
<1>1. n \in Nat
  BY FS_CardinalityType
<1>2. /\ above \in [S -> SUBSET S]
      /\ \A s, t \in S : t \in above[s] <=> SiteBefore(s, t)
      /\ \A s \in S : above[s] = {t \in S : SiteBefore(s, t)}
  OBVIOUS
<1> HIDE DEF above
<1>3. /\ from \in [S -> SUBSET S]
      /\ \A s \in S : from[s] = above[s] \cup {s}
  BY <1>2
<1> HIDE DEF from
<1>4. /\ \A s \in S : ~SiteBefore(s, s)
      /\ \A s, t \in S : s = t \/ SiteBefore(s, t) \/ SiteBefore(t, s)
      /\ \A s, t, u \in S : SiteBefore(s, t) /\ SiteBefore(t, u) => SiteBefore(s, u)
      /\ \A s, t \in S : ~(SiteBefore(s, t) /\ SiteBefore(t, s))
  <2>1. \A s \in S : ~SiteBefore(s, s)
    BY DEF SiteBefore
  <2>2. \A s, t \in S : s = t \/ SiteBefore(s, t) \/ SiteBefore(t, s)
    <3> SUFFICES ASSUME NEW s \in S, NEW t \in S, ~SiteBefore(s, t), ~SiteBefore(t, s)
                 PROVE  s = t
      OBVIOUS
    <3>1. s[1] = t[1] /\ s[2] = t[2]
      BY DEF SiteBefore
    <3> QED
      BY <3>1
  <2>3. \A s, t, u \in S : SiteBefore(s, t) /\ SiteBefore(t, u) => SiteBefore(s, u)
    BY DEF SiteBefore
  <2>4. \A s, t \in S : ~(SiteBefore(s, t) /\ SiteBefore(t, s))
    BY DEF SiteBefore
  <2> QED
    BY <2>1, <2>2, <2>3, <2>4
<1>5. \A k \in 1..n : \E s \in S : Cardinality(from[s]) = k
  <2>1. \A s \in S : s \in from[s]
    BY <1>3
  <2>2. \A s, t \in S : s \in from[t] \/ t \in from[s]
    BY <1>2, <1>3, <1>4
  <2>3. \A s, t \in S : s \in from[t] /\ t \in from[s] => s = t
    BY <1>2, <1>3, <1>4
  <2>4. \A s, t \in S : s \in from[t] => from[s] \subseteq from[t]
    BY <1>2, <1>3, <1>4
  <2> QED
    BY ONLY IsFiniteSet(S), <1>3, <2>1, <2>2, <2>3, <2>4, RankOnto
<1>6. ASSUME NEW s \in S
      PROVE  /\ IsFiniteSet(above[s]) /\ Cardinality(above[s]) \in Nat
             /\ Cardinality(from[s]) = Cardinality(above[s]) + 1
  <2>1. IsFiniteSet(above[s]) /\ Cardinality(above[s]) \in Nat
    BY <1>2, FS_Subset, FS_CardinalityType
  <2>2. s \notin above[s]
    BY <1>2, <1>4
  <2> QED
    BY <1>3, <2>1, <2>2, FS_AddElement
<1> DEFINE Nth(k) == CHOOSE s \in S : Cardinality({t \in S : SiteBefore(s, t)}) = k - 1
<1>7. ASSUME NEW k \in 1..n
      PROVE  Nth(k) \in S /\ Cardinality(above[Nth(k)]) = k - 1
  <2>1. PICK s \in S : Cardinality(from[s]) = k
    BY <1>5
  <2>2. Cardinality(above[s]) = k - 1
    BY <1>6, <2>1
  <2>3. Cardinality({t \in S : SiteBefore(s, t)}) = k - 1
    BY <1>2, <2>2
  <2>4. Nth(k) \in S /\ Cardinality({t \in S : SiteBefore(Nth(k), t)}) = k - 1
    BY <2>3
  <2> HIDE DEF Nth
  <2> QED
    BY <1>2, <2>4
<1>8. ReverseOrder(S) = [k \in 1..n |-> Nth(k)]
  BY DEF ReverseOrder
<1> HIDE DEF Nth
<1>9. ASSUME NEW j \in 1..n, NEW k \in 1..n, j < k
      PROVE  SiteBefore(Nth(k), Nth(j))
  <2>1. /\ Nth(j) \in S /\ Cardinality(above[Nth(j)]) = j - 1
        /\ Nth(k) \in S /\ Cardinality(above[Nth(k)]) = k - 1
    BY <1>7
  <2>2. Nth(j) # Nth(k)
    BY <1>1, <1>9, <2>1
  <2>3. ASSUME SiteBefore(Nth(j), Nth(k)) PROVE FALSE
    <3>1. above[Nth(k)] \subseteq above[Nth(j)]
      BY <1>2, <1>4, <2>1, <2>3
    <3>2. Cardinality(above[Nth(k)]) <= Cardinality(above[Nth(j)])
      BY <1>6, <2>1, <3>1, FS_Subset
    <3> QED
      BY <1>1, <1>9, <2>1, <3>2
  <2> QED
    BY <1>4, <2>1, <2>2, <2>3
<1> QED
  BY <1>1, <1>7, <1>8, <1>9

(* The sites of a program are finitely many.                                *)
LEMMA SitesFinite ==
    ASSUME Inv
    PROVE  IsFiniteSet(UNION {{b} \X Sites(b) : b \in DOMAIN blocks})
<1> DEFINE body == [b \in DOMAIN blocks |-> {b} \X Sites(b)]
           bodies == {body[b] : b \in DOMAIN blocks}
<1>1. Len(blocks) \in Nat /\ DOMAIN blocks = 1..Len(blocks)
  BY CurrentProgram
<1>2. body \in Surjection(DOMAIN blocks, bodies)
  BY DEF Surjection
<1>3. IsFiniteSet(DOMAIN blocks)
  BY <1>1, FS_Interval
<1>4. IsFiniteSet(bodies)
  BY <1>2, <1>3, FS_Surjection
<1>5. ASSUME NEW b \in DOMAIN blocks
      PROVE  IsFiniteSet(body[b])
  <2>1. Len(blocks[b].insns) \in Nat
    BY <1>1, CurrentProgram, SeqIsFunction
  <2>2. IsFiniteSet(Sites(b))
    BY <2>1, FS_Interval DEF Sites
  <2>3. IsFiniteSet({b})
    BY FS_Singleton
  <2> QED
    BY <2>2, <2>3, FS_Product
<1>6. \A T \in bodies : IsFiniteSet(T)
  BY <1>5
<1>7. UNION {{b} \X Sites(b) : b \in DOMAIN blocks} = UNION bodies
  OBVIOUS
<1> QED
  BY <1>4, <1>6, <1>7, FS_UNION

-----------------------------------------------------------------------------
(* What an edit leaves where it was.                                        *)

LEMMA ConcatFront ==
    ASSUME NEW S, NEW s \in Seq(S), NEW t \in Seq(S), NEW p \in 1..Len(s)
    PROVE  s \o t \in Seq(S) /\ p \in 1..Len(s \o t) /\ (s \o t)[p] = s[p]
<1>1. /\ s \o t \in Seq(S)
      /\ Len(s \o t) = Len(s) + Len(t)
      /\ \A i \in 1..Len(s) + Len(t) : (s \o t)[i] = IF i <= Len(s) THEN s[i] ELSE t[i - Len(s)]
  BY ConcatProperties
<1>2. Len(s) \in Nat /\ Len(t) \in Nat
  BY SeqIsFunction
<1>3. p \in 1..Len(s) + Len(t) /\ p <= Len(s)
  BY <1>2
<1> QED
  BY <1>1, <1>3

(* In front of the range, nothing moves.                                    *)
LEMMA SpliceFront ==
    ASSUME NEW S, NEW insns \in Seq(S), NEW new \in Seq(S),
           NEW i \in 1..(Len(insns) + 1), NEW old_len \in Nat,
           i - 1 + old_len <= Len(insns), NEW p \in 1..(i - 1)
    PROVE  /\ p \in DOMAIN Splice(insns, i, old_len, new)
           /\ Splice(insns, i, old_len, new)[p] = insns[p]
<1> DEFINE front == SubSeq(insns, 1, i - 1)
           back == SubSeq(insns, i + old_len, Len(insns))
<1>1. Len(insns) \in Nat /\ \A k \in 1..Len(insns) : insns[k] \in S
  BY SeqIsFunction
<1>2. front \in Seq(S) /\ Len(front) = i - 1 /\ front[p] = insns[p]
  BY <1>1, SubSeqProperties
<1>3. back \in Seq(S)
  <2>1. i + old_len \in Int /\ \A k \in (i + old_len)..Len(insns) : insns[k] \in S
    BY <1>1
  <2> QED
    BY <1>1, <2>1, SubSeqProperties
<1> HIDE DEF front, back
<1>4. p \in 1..Len(front)
  BY <1>2
<1>5. /\ front \o new \in Seq(S) /\ p \in 1..Len(front \o new)
      /\ (front \o new)[p] = insns[p]
  BY <1>2, <1>4, ConcatFront
<1>6. /\ (front \o new) \o back \in Seq(S) /\ p \in 1..Len((front \o new) \o back)
      /\ ((front \o new) \o back)[p] = insns[p]
  BY ONLY <1>3, <1>5, ConcatFront
<1>7. Splice(insns, i, old_len, new) = (front \o new) \o back
  BY DEF Splice, front, back
<1>8. DOMAIN ((front \o new) \o back) = 1..Len((front \o new) \o back)
  BY <1>6, SeqIsFunction
<1> QED
  BY <1>6, <1>7, <1>8

(* Clearing verifier states leaves the code.                                *)
LEMMA InvalidateCode ==
    ASSUME NEW n \in Nat, NEW bs \in ProgramOf(n)
    PROVE  Code(invalidate_verifier_states(bs)) = Code(bs)
<1> DEFINE cs == invalidate_verifier_states(bs)
<1>1. DOMAIN bs = 1..n /\ DOMAIN cs = 1..n
  BY InvalidateShape DEF ProgramOf
<1>2. ASSUME NEW b \in 1..n
      PROVE  /\ cs[b].terminator = bs[b].terminator
             /\ DOMAIN cs[b].insns = DOMAIN bs[b].insns
             /\ \A i \in DOMAIN bs[b].insns :
                   /\ cs[b].insns[i].op = bs[b].insns[i].op
                   /\ cs[b].insns[i].insn = bs[b].insns[i].insn
                   /\ cs[b].insns[i].target = bs[b].insns[i].target
  BY InvalidateShape, InvalidateInsns
<1> HIDE DEF cs
<1> QED
  BY <1>1, <1>2 DEF Code, cs

-----------------------------------------------------------------------------
(* The start of a batch.                                                    *)

(* What the candidates of a fresh batch say of the program.                 *)
LEMMA CandidateIs ==
    ASSUME Inv, NEW b \in DOMAIN blocks, NEW i \in Positions, NEW old_len \in Windows,
           NEW ops \in Inserted
    PROVE  /\ Candidate(b, i, old_len, ops) \in Candidates
           /\ Candidate(b, i, old_len, ops).b = b
           /\ Candidate(b, i, old_len, ops).i = i
           /\ Candidate(b, i, old_len, ops).old_len = old_len
           /\ DOMAIN Candidate(b, i, old_len, ops).matched = 1..old_len
           /\ \A k \in 1..old_len :
                i + k - 1 <= Len(blocks[b].insns)
                  => blocks[b].insns[i + k - 1].insn
                       = Candidate(b, i, old_len, ops).matched[k]
<1> DEFINE insns == blocks[b].insns
           At(k) == IF i + k - 1 <= Len(insns) THEN insns[i + k - 1].insn ELSE None
           matched == [k \in 1..old_len |-> At(k)]
           c == [b |-> b, i |-> i, old_len |-> old_len, ops |-> ops, matched |-> matched]
<1>1. Candidate(b, i, old_len, ops) = c
  BY DEF Candidate
<1>2. b \in Nat /\ old_len \in Nat /\ i \in Nat \ {0}
  BY CurrentProgram DEF Windows, Positions
<1>3. /\ Len(insns) \in Nat
      /\ \A p \in 1..Len(insns) : insns[p].insn \in Nat
  <2>1. insns \in Seq(NodeIn(Len(blocks)))
    BY CurrentProgram
  <2> HIDE DEF insns
  <2>2. Len(insns) \in Nat /\ \A p \in 1..Len(insns) : insns[p] \in NodeIn(Len(blocks))
    BY <2>1, SeqIsFunction
  <2> QED
    BY <2>2 DEF NodeIn, Node
<1> HIDE DEF insns
<1>4. \A k \in 1..old_len : At(k) \in Nat
  <2> SUFFICES ASSUME NEW k \in 1..old_len PROVE At(k) \in Nat
    OBVIOUS
  <2>1. CASE i + k - 1 <= Len(insns)
    <3>1. i + k - 1 \in 1..Len(insns)
      BY <1>2, <1>3, <2>1
    <3> QED
      BY <1>3, <2>1, <3>1
  <2>2. CASE ~(i + k - 1 <= Len(insns))
    BY <2>2 DEF None
  <2> QED
    BY <2>1, <2>2
<1>5. \A k \in 1..old_len : i + k - 1 <= Len(insns) => At(k) = insns[i + k - 1].insn
  OBVIOUS
<1> HIDE DEF At
<1>6. matched \in [1..old_len -> Nat] /\ DOMAIN matched = 1..old_len
      /\ \A k \in 1..old_len : matched[k] = At(k)
  BY <1>4
<1>7. matched \in Seq(Nat)
  BY <1>2, <1>6, FunctionIsSeq
<1> HIDE DEF matched
<1>8. /\ c \in Candidates /\ c.b = b /\ c.i = i /\ c.old_len = old_len
      /\ c.matched = matched
  BY <1>2, <1>7 DEF Candidates
<1> HIDE DEF c
<1> QED
  BY <1>1, <1>5, <1>6, <1>8 DEF insns

(* A pass that starts on sites whose ranges do not meet.                    *)
LEMMA StartInv ==
    ASSUME BatchInv, NEW sites, CanStart(sites),
           sites \subseteq UNION {{b} \X Sites(b) : b \in DOMAIN blocks},
           NEW old_len \in Windows, NEW ops \in Inserted,
           \A s, t \in sites : SiteBefore(s, t) /\ s[1] = t[1] => s[2] + old_len <= t[2],
           Start(sites, old_len, ops)
    PROVE  BatchInv'
<1> DEFINE all == UNION {{b} \X Sites(b) : b \in DOMAIN blocks}
           n == Cardinality(sites)
           order == ReverseOrder(sites)
           At(k) == Candidate(order[k][1], order[k][2], old_len, ops)
<1>1. Inv /\ FactsFresh
  BY DEF BatchInv
<1>2. \A s \in sites : /\ s = <<s[1], s[2]>> /\ s[1] \in DOMAIN blocks /\ s[2] \in Sites(s[1])
                        /\ s[1] \in Nat /\ s[2] \in Nat \ {0}
  <2>1. \A b \in DOMAIN blocks : b \in Nat /\ Sites(b) \subseteq Nat \ {0}
    <3> SUFFICES ASSUME NEW b \in DOMAIN blocks
                 PROVE  b \in Nat /\ Sites(b) \subseteq Nat \ {0}
      OBVIOUS
    <3>1. b \in 1..Len(blocks) /\ Len(blocks) \in Nat /\ blocks[b].insns \in Seq(NodeIn(Len(blocks)))
      BY <1>1, CurrentProgram
    <3>2. Len(blocks[b].insns) \in Nat
      BY <3>1, SeqIsFunction
    <3> QED
      BY <3>1, <3>2 DEF Sites
  <2>2. \A s \in sites : \E b \in DOMAIN blocks : s \in {b} \X Sites(b)
    OBVIOUS
  <2> QED
    BY <2>1, <2>2
<1>3. IsFiniteSet(sites)
  BY <1>1, SitesFinite, FS_Subset
<1>4. /\ n \in Nat /\ DOMAIN order = 1..n
      /\ \A k \in 1..n : order[k] \in sites
      /\ \A j, k \in 1..n : j < k => SiteBefore(order[k], order[j])
  BY <1>2, <1>3, ReverseOrderIs
<1>5. queue' = [k \in 1..n |-> At(k)]
  BY <1>4 DEF Start
<1> HIDE DEF n, order
<1>6. ASSUME NEW k \in 1..n
      PROVE  /\ At(k) \in Candidates
             /\ At(k).b = order[k][1] /\ At(k).i = order[k][2] /\ At(k).old_len = old_len
             /\ DOMAIN At(k).matched = 1..old_len
             /\ At(k).b \in DOMAIN blocks
             /\ \A j \in 1..old_len :
                  order[k][2] + j - 1 <= Len(blocks[order[k][1]].insns)
                    => blocks[order[k][1]].insns[order[k][2] + j - 1].insn = At(k).matched[j]
  <2>1. order[k][1] \in DOMAIN blocks /\ order[k][2] \in Nat \ {0}
    BY <1>2, <1>4
  <2>2. PICK b \in DOMAIN blocks, i \in Positions : b = order[k][1] /\ i = order[k][2]
    BY <2>1 DEF Positions
  <2>3. At(k) = Candidate(b, i, old_len, ops)
    BY <2>2
  <2> HIDE DEF At
  <2>4. /\ Candidate(b, i, old_len, ops) \in Candidates
        /\ Candidate(b, i, old_len, ops).b = b
        /\ Candidate(b, i, old_len, ops).i = i
        /\ Candidate(b, i, old_len, ops).old_len = old_len
        /\ DOMAIN Candidate(b, i, old_len, ops).matched = 1..old_len
        /\ \A j \in 1..old_len :
              i + j - 1 <= Len(blocks[b].insns)
                => blocks[b].insns[i + j - 1].insn
                     = Candidate(b, i, old_len, ops).matched[j]
    BY <1>1, CandidateIs
  <2>5. \A j \in 1..old_len :
           order[k][2] + j - 1 <= Len(blocks[order[k][1]].insns)
             => blocks[order[k][1]].insns[order[k][2] + j - 1].insn = At(k).matched[j]
    BY ONLY <2>2, <2>3, <2>4, Zenon
  <2> QED
    BY <2>2, <2>3, <2>4, <2>5
<1> HIDE DEF At
<1>7. /\ queue' \in [1..n -> Candidates]
      /\ \A k \in 1..n : queue'[k] = At(k)
  BY <1>5, <1>6
<1>8. queue' \in Seq(Candidates) /\ Len(queue') = n /\ DOMAIN queue' = 1..n
  BY <1>4, <1>7, FunctionIsSeq
<1>9. LastFirst(queue')
  <2> SUFFICES ASSUME NEW j \in 1..n, NEW k \in 1..n, j < k, queue'[j].b = queue'[k].b
               PROVE  queue'[k].i + queue'[k].old_len <= queue'[j].i
    BY <1>8 DEF LastFirst
  <2>1. order[j] \in sites /\ order[k] \in sites /\ SiteBefore(order[k], order[j])
    BY <1>4
  <2>2. order[k][1] = order[j][1]
    BY <1>6, <1>7
  <2>3. order[k][2] + old_len <= order[j][2]
    BY <2>1, <2>2
  <2> QED
    BY <1>6, <1>7, <2>3
<1>10. UNCHANGED vars /\ running' = TRUE
  BY DEF Start
<1>11. Inv'
  BY <1>1, <1>10, NextKeepsInv
<1>12. FactsFresh'
  BY <1>1, <1>10 DEF FactsFresh, vars
<1>13. QueueOk'
  <2>1. calls' + Len(queue') <= MaxCalls
    BY <1>8, <1>10 DEF CanStart, vars, n
  <2>2. \A k \in DOMAIN queue' : queue'[k].b \in DOMAIN blocks'
    BY <1>6, <1>7, <1>8, <1>10 DEF vars
  <2>3. \A k \in DOMAIN queue' : DOMAIN queue'[k].matched = 1..queue'[k].old_len
    BY <1>6, <1>7, <1>8
  <2> QED
    BY <1>8, <1>9, <1>10, <2>1, <2>2, <2>3 DEF QueueOk
<1>14. PendingStillMatch'
  <2>1. blocks' = blocks
    BY <1>10 DEF vars
  <2>2. ASSUME NEW k \in 1..n
        PROVE  \A j \in 1..queue'[k].old_len :
                  queue'[k].i + j - 1 <= Len(blocks[queue'[k].b].insns)
                    => blocks[queue'[k].b].insns[queue'[k].i + j - 1].insn = queue'[k].matched[j]
    BY <1>6, <1>7
  <2> QED
    BY <1>8, <2>1, <2>2 DEF PendingStillMatch
<1>15. GoneOk'
  BY DEF Start, GoneOk
<1> QED
  BY <1>11, <1>12, <1>13, <1>14, <1>15 DEF BatchInv

(* Both helpers hand Start sites whose ranges do not meet.                  *)
LEMMA BatchStarts ==
    ASSUME BatchInv, delete_body_sites_reverse \/ apply_candidates_reverse
    PROVE  BatchInv'
<1> DEFINE all == UNION {{b} \X Sites(b) : b \in DOMAIN blocks}
<1>1. Inv
  BY DEF BatchInv
<1>2. \A b \in DOMAIN blocks : b \in Nat /\ Len(blocks[b].insns) \in Nat
  <2> SUFFICES ASSUME NEW b \in DOMAIN blocks PROVE b \in Nat /\ Len(blocks[b].insns) \in Nat
    OBVIOUS
  <2>1. b \in 1..Len(blocks) /\ Len(blocks) \in Nat /\ blocks[b].insns \in Seq(NodeIn(Len(blocks)))
    BY <1>1, CurrentProgram
  <2> QED
    BY <2>1, SeqIsFunction
<1>3. \A s \in all : s[1] \in Nat /\ s[2] \in Nat
  BY <1>2 DEF Sites
<1>4. CASE delete_body_sites_reverse
  <2>1. PICK S \in UNION {kSubset(m, all) : m \in 1..MaxSites} : CanStart(S) /\ Start(S, 1, <<>>)
    BY <1>4 DEF delete_body_sites_reverse
  <2>2. S \subseteq all
    BY <2>1 DEF kSubset
  <2>3. 1 \in Windows /\ <<>> \in Inserted
    BY DEF Windows, Inserted
  <2>4. \A s, t \in S : SiteBefore(s, t) /\ s[1] = t[1] => s[2] + 1 <= t[2]
    BY <1>3, <2>2 DEF SiteBefore
  <2> HIDE DEF all
  <2> QED
    BY <2>1, <2>2, <2>3, <2>4, StartInv DEF all
<1>5. CASE apply_candidates_reverse
  <2>1. PICK old_len \in 1..2, ops \in Replacements :
          \E S \in UNION {kSubset(m, scan_block_starts(old_len)) : m \in 1..MaxSites} :
            CanStart(S) /\ Apart(S, old_len) /\ Start(S, old_len, ops)
    BY <1>5 DEF apply_candidates_reverse
  <2>2. PICK S \in UNION {kSubset(m, scan_block_starts(old_len)) : m \in 1..MaxSites} :
          CanStart(S) /\ Apart(S, old_len) /\ Start(S, old_len, ops)
    BY <2>1
  <2>3. scan_block_starts(old_len) \subseteq all
    <3>1. \A b \in DOMAIN blocks : 1..(Len(blocks[b].insns) - old_len + 1) \subseteq Sites(b)
      BY <1>2 DEF Sites
    <3> QED
      BY <3>1 DEF scan_block_starts
  <2>4. S \subseteq all
    BY <2>2, <2>3 DEF kSubset
  <2>5. old_len \in Windows /\ ops \in Inserted
    BY DEF Windows, Inserted
  <2>6. \A s, t \in S : SiteBefore(s, t) /\ s[1] = t[1] => s[2] + old_len <= t[2]
    <3> SUFFICES ASSUME NEW s \in S, NEW t \in S, SiteBefore(s, t), s[1] = t[1]
                 PROVE  s[2] + old_len <= t[2]
      OBVIOUS
    <3>1. s[2] \in Nat /\ t[2] \in Nat /\ s[2] < t[2]
      BY <1>3, <2>4 DEF SiteBefore
    <3>2. s # t
      BY <3>1
    <3>3. s[2] >= t[2] + old_len \/ t[2] >= s[2] + old_len
      BY <2>2, <3>2 DEF Apart
    <3> QED
      BY <3>1, <3>3
  <2> HIDE DEF all
  <2> QED
    BY <2>2, <2>4, <2>5, <2>6, StartInv DEF all
<1> QED
  BY <1>4, <1>5

-----------------------------------------------------------------------------
(* One edit of a batch.                                                     *)

(* Where no edit happens, and in front of the edit, the program keeps its   *)
(* instructions.                                                            *)
LEMMA EditKeepsFront ==
    ASSUME Inv, NEW b \in DOMAIN blocks, NEW i \in Sites(b), NEW old_len \in Nat,
           NEW ops, Insertable(ops), try_replace_range(b, i, old_len, ops),
           NEW d \in DOMAIN blocks
    PROVE  /\ d # b => DOMAIN blocks'[d].insns = DOMAIN blocks[d].insns
           /\ \A p \in DOMAIN blocks[d].insns :
                 (d = b => p < i) => blocks'[d].insns[p].insn = blocks[d].insns[p].insn
<1> DEFINE n == Len(blocks)
           insns == blocks[b].insns
           new == logical_replacement(ops)
           cs == WithInsns(blocks, b, Splice(insns, i, old_len, new))
<1>1. /\ n \in Nat /\ b \in 1..n /\ d \in 1..n /\ DOMAIN blocks = 1..n
      /\ insns \in Seq(NodeIn(n)) /\ blocks[d].insns \in Seq(NodeIn(n))
      /\ insns \in Seq(KeptNodes(n, blocks))
      /\ blocks[b].terminator \in KeptTerminators(n, blocks)
      /\ blocks[b] \in BlockIn(n) /\ Shape(blocks, entry)
  BY CurrentProgram, CurrentKept
<1>2. /\ i - 1 + old_len <= Len(insns)
      /\ blocks' = invalidate_verifier_states(cs)
  BY DEF try_replace_range, Mutate
<1>3. i \in 1..(Len(insns) + 1)
  BY DEF Sites
<1>4. new \in Seq(NodeIn(n)) /\ new \in Seq(KeptNodes(n, blocks))
  BY <1>1, ReplacementType, ReplacementKept
<1> HIDE DEF new
<1>5. Splice(insns, i, old_len, new) \in Seq(KeptNodes(n, blocks))
  BY <1>1, <1>2, <1>3, <1>4, SpliceType
<1>6. cs \in ProgramOf(n)
  <2>1. [blocks[b] EXCEPT !.insns = Splice(insns, i, old_len, new)] \in BlockIn(n)
    BY <1>1, <1>5, BodyEdit
  <2>2. cs = [blocks EXCEPT ![b] = [blocks[b] EXCEPT !.insns = Splice(insns, i, old_len, new)]]
    BY DEF WithInsns
  <2> HIDE DEF cs
  <2> QED
    BY <1>1, <2>1, <2>2, ProgramEdit DEF Shape, ProgramOf
<1>7. ASSUME NEW p \in DOMAIN blocks[d].insns, d = b => p < i
      PROVE  p \in DOMAIN cs[d].insns /\ cs[d].insns[p] = blocks[d].insns[p]
  <2>1. CASE d = b
    <3>1. cs[d].insns = Splice(insns, i, old_len, new)
      BY <1>1, <2>1 DEF WithInsns, BlockIn, BasicBlock
    <3>2. p \in 1..(i - 1)
      <4>1. p \in 1..Len(insns) /\ Len(insns) \in Nat
        BY <1>1, <2>1, SeqIsFunction
      <4> QED
        BY <1>3, <1>7, <2>1, <4>1
    <3> HIDE DEF cs
    <3>3. /\ p \in DOMAIN Splice(insns, i, old_len, new)
          /\ Splice(insns, i, old_len, new)[p] = insns[p]
      <4>1. insns \in Seq(NodeIn(n)) /\ i - 1 + old_len <= Len(insns)
        BY <1>1, <1>2
      <4> HIDE DEF insns, n
      <4> QED
        BY <1>3, <1>4, <3>2, <4>1, SpliceFront
    <3> QED
      BY <2>1, <3>1, <3>3
  <2>2. CASE d # b
    BY <1>1, <2>2 DEF WithInsns
  <2> QED
    BY <2>1, <2>2
<1>8. d # b => cs[d] = blocks[d]
  BY <1>1 DEF WithInsns
<1> HIDE DEF cs
<1>9. /\ DOMAIN blocks'[d].insns = DOMAIN cs[d].insns
      /\ \A p \in DOMAIN cs[d].insns : blocks'[d].insns[p].insn = cs[d].insns[p].insn
  BY <1>1, <1>2, <1>6, InvalidateInsns
<1> QED
  BY <1>7, <1>8, <1>9

(* An edit removes the original instructions of its range and no other.     *)
LEMMA EditOriginals ==
    ASSUME Inv, NEW b \in DOMAIN blocks, NEW i \in Sites(b), NEW old_len \in Nat,
           NEW ops, Insertable(ops), try_replace_range(b, i, old_len, ops)
    PROVE  LET hit == {blocks[b].insns[i + j - 1].insn : j \in 1..old_len}
           IN  /\ OriginalsIn(blocks') = OriginalsIn(blocks) \ hit
               /\ hit \ {None} \subseteq OriginalsIn(blocks)
<1> DEFINE n == Len(blocks)
           insns == blocks[b].insns
           new == logical_replacement(ops)
           r == Splice(insns, i, old_len, new)
           cs == WithInsns(blocks, b, r)
           hit == {insns[i + j - 1].insn : j \in 1..old_len}
<1>1. /\ n \in Nat /\ b \in 1..n /\ DOMAIN blocks = 1..n
      /\ insns \in Seq(NodeIn(n)) /\ insns \in Seq(KeptNodes(n, blocks))
      /\ blocks[b].terminator \in KeptTerminators(n, blocks)
      /\ blocks[b] \in BlockIn(n) /\ Shape(blocks, entry) /\ OriginalsOnce(blocks)
  BY CurrentProgram, CurrentKept DEF Inv
<1>2. /\ i - 1 + old_len <= Len(insns)
      /\ blocks' = invalidate_verifier_states(cs)
  BY DEF try_replace_range, Mutate
<1>3. /\ i \in 1..(Len(insns) + 1) /\ Len(insns) \in Nat
      /\ DOMAIN insns = 1..Len(insns)
  BY <1>1, SeqIsFunction DEF Sites
<1>4. /\ new \in Seq(NodeIn(n)) /\ new \in Seq(KeptNodes(n, blocks))
      /\ \A k \in DOMAIN new : new[k].insn = None
  BY <1>1, ReplacementType, ReplacementKept
<1>5. Len(new) \in Nat /\ DOMAIN new = 1..Len(new)
  BY <1>4, SeqIsFunction
<1> HIDE DEF new
<1>6. r \in Seq(KeptNodes(n, blocks))
  BY <1>1, <1>2, <1>3, <1>4, SpliceType
<1>7. /\ DOMAIN r = 1..(Len(insns) - old_len + Len(new))
      /\ \A k \in DOMAIN r :
            r[k] = IF k < i THEN insns[k]
                   ELSE IF k < i + Len(new) THEN new[k - i + 1]
                   ELSE insns[k - Len(new) + old_len]
  <2>1. /\ insns \in Seq(NodeIn(n)) /\ new \in Seq(NodeIn(n))
        /\ i \in 1..(Len(insns) + 1) /\ i - 1 + old_len <= Len(insns)
    BY <1>1, <1>2, <1>3, <1>4
  <2> HIDE DEF insns, n
  <2> QED
    BY <2>1, SpliceAt
<1> HIDE DEF r
<1>8. cs \in ProgramOf(n)
  <2>1. [blocks[b] EXCEPT !.insns = r] \in BlockIn(n)
    BY <1>1, <1>6, BodyEdit
  <2>2. cs = [blocks EXCEPT ![b] = [blocks[b] EXCEPT !.insns = r]]
    BY DEF WithInsns
  <2> HIDE DEF cs
  <2> QED
    BY <1>1, <2>1, <2>2, ProgramEdit DEF Shape, ProgramOf
<1>9. cs[b].insns = r /\ DOMAIN cs = 1..n /\ \A d \in 1..n : d # b => cs[d] = blocks[d]
  BY <1>1 DEF WithInsns, BlockIn, BasicBlock
<1> HIDE DEF cs, insns
<1>10. /\ DOMAIN blocks' = 1..n
       /\ \A d \in 1..n : /\ DOMAIN blocks'[d].insns = DOMAIN cs[d].insns
                            /\ \A p \in DOMAIN cs[d].insns :
                                  blocks'[d].insns[p].insn = cs[d].insns[p].insn
  <2>1. DOMAIN invalidate_verifier_states(cs) = 1..n
    BY <1>9 DEF invalidate_verifier_states
  <2>2. n \in Nat /\ blocks' = invalidate_verifier_states(cs)
    BY <1>1, <1>2
  <2> HIDE DEF n
  <2>3. ASSUME NEW d \in 1..n
        PROVE  /\ DOMAIN invalidate_verifier_states(cs)[d].insns = DOMAIN cs[d].insns
               /\ \A p \in DOMAIN cs[d].insns :
                     invalidate_verifier_states(cs)[d].insns[p].insn = cs[d].insns[p].insn
    BY <1>8, <2>2, InvalidateInsns
  <2> QED
    BY <2>1, <2>2, <2>3
<1>11. ASSUME NEW x
       PROVE  x \in OriginalsIn(blocks') <=>
                x # None /\ \E d \in 1..n : \E p \in DOMAIN cs[d].insns : cs[d].insns[p].insn = x
  <2>1. x \in OriginalsIn(blocks') <=>
          x # None /\ \E s \in BodySites(blocks') : NodeAt(blocks', s).insn = x
    BY DEF OriginalsIn
  <2>2. ASSUME NEW s \in BodySites(blocks')
        PROVE  \E d \in 1..n : \E p \in DOMAIN cs[d].insns :
                  cs[d].insns[p].insn = NodeAt(blocks', s).insn
    <3>1. s[1] \in 1..n /\ s[2] \in DOMAIN cs[s[1]].insns
      BY <1>10, BodySiteIs
    <3>2. NodeAt(blocks', s).insn = cs[s[1]].insns[s[2]].insn
      BY <1>10, <3>1 DEF NodeAt
    <3> QED
      BY <3>1, <3>2
  <2>3. ASSUME NEW d \in 1..n, NEW p \in DOMAIN cs[d].insns
        PROVE  \E s \in BodySites(blocks') : NodeAt(blocks', s).insn = cs[d].insns[p].insn
    <3>1. <<d, p>> \in BodySites(blocks')
      BY <1>10, BodySiteIs
    <3>2. NodeAt(blocks', <<d, p>>).insn = cs[d].insns[p].insn
      BY <1>10 DEF NodeAt
    <3> QED
      BY <3>1, <3>2
  <2> QED
    BY <2>1, <2>2, <2>3
<1>12. ASSUME NEW d \in 1..n, NEW p \in DOMAIN blocks[d].insns
       PROVE  <<d, p>> \in BodySites(blocks) /\ NodeAt(blocks, <<d, p>>) = blocks[d].insns[p]
  BY <1>1, BodySiteIs DEF NodeAt
<1>13. ASSUME NEW d \in 1..n, NEW p \in DOMAIN blocks[d].insns,
              NEW e \in 1..n, NEW q \in DOMAIN blocks[e].insns,
              blocks[d].insns[p].insn = blocks[e].insns[q].insn, blocks[d].insns[p].insn # None
       PROVE  d = e /\ p = q
  <2>1. <<d, p>> = <<e, q>>
    BY <1>1, <1>12, <1>13 DEF OriginalsOnce
  <2> QED
    BY <2>1
<1>14. \A j \in 1..old_len : i + j - 1 \in DOMAIN insns
  BY <1>2, <1>3
<1>15. ASSUME NEW x \in OriginalsIn(blocks')
       PROVE  x \in OriginalsIn(blocks) /\ x \notin hit
  <2>a. PICK d \in 1..n : \E p \in DOMAIN cs[d].insns : cs[d].insns[p].insn = x
    BY <1>11
  <2>1. PICK p \in DOMAIN cs[d].insns : cs[d].insns[p].insn = x
    BY <2>a
  <2>2. x # None
    BY <1>11
  <2>3. PICK q : /\ q \in DOMAIN blocks[d].insns /\ blocks[d].insns[q].insn = x
                 /\ d = b => (q < i \/ q >= i + old_len) /\ q \in Int
    <3>1. CASE d # b
      BY <1>9, <2>1, <3>1
    <3>2. CASE d = b
      <4>1. p \in DOMAIN r /\ r[p].insn = x
        BY <1>9, <2>1, <3>2
      <4>2. CASE p < i
        <5>1. p \in DOMAIN insns /\ r[p] = insns[p] /\ p \in Int
          BY <1>2, <1>3, <1>7, <4>1, <4>2
        <5> QED
          BY <3>2, <4>1, <4>2, <5>1 DEF insns
      <4>3. CASE ~(p < i) /\ p < i + Len(new)
        <5>1. p - i + 1 \in DOMAIN new /\ r[p] = new[p - i + 1]
          BY <1>3, <1>5, <1>7, <4>1, <4>3
        <5> QED
          BY <1>4, <2>2, <4>1, <5>1
      <4>4. CASE ~(p < i) /\ ~(p < i + Len(new))
        <5>1. /\ p - Len(new) + old_len \in DOMAIN insns /\ r[p] = insns[p - Len(new) + old_len]
              /\ p - Len(new) + old_len >= i + old_len /\ p - Len(new) + old_len \in Int
          BY <1>3, <1>5, <1>7, <4>1, <4>4
        <5> QED
          BY <3>2, <4>1, <5>1 DEF insns
      <4> QED
        BY <4>2, <4>3, <4>4
    <3> QED
      BY <3>1, <3>2
  <2>4. x \in OriginalsIn(blocks)
    BY <1>12, <2>2, <2>3 DEF OriginalsIn
  <2>5. ASSUME NEW j \in 1..old_len, x = insns[i + j - 1].insn PROVE FALSE
    <3>1. d = b /\ q = i + j - 1
      BY <1>1, <1>13, <1>14, <2>2, <2>3, <2>5 DEF insns
    <3> QED
      BY <1>3, <2>3, <3>1
  <2> QED
    BY <2>4, <2>5
<1>16. ASSUME NEW x \in OriginalsIn(blocks), x \notin hit
       PROVE  x \in OriginalsIn(blocks')
  <2>1. x # None /\ \E s \in BodySites(blocks) : NodeAt(blocks, s).insn = x
    BY DEF OriginalsIn
  <2>a. PICK d \in 1..n : \E p \in DOMAIN blocks[d].insns : blocks[d].insns[p].insn = x
    BY <1>1, <2>1, BodySiteIs DEF NodeAt
  <2>2. PICK p \in DOMAIN blocks[d].insns : blocks[d].insns[p].insn = x
    BY <2>a
  <2>3. CASE d # b
    BY <1>9, <1>11, <2>1, <2>2, <2>3
  <2>4. CASE d = b
    <3>1. p \in 1..Len(insns) /\ insns[p].insn = x
      BY <1>3, <2>2, <2>4 DEF insns
    <3>2. CASE p < i
      <4>1. p \in DOMAIN r /\ r[p] = insns[p]
        BY <1>2, <1>3, <1>5, <1>7, <3>1, <3>2
      <4> QED
        BY <1>1, <1>9, <1>11, <2>1, <3>1, <4>1
    <3>3. CASE ~(p < i) /\ p < i + old_len
      <4>1. p - i + 1 \in 1..old_len /\ i + (p - i + 1) - 1 = p
        BY <1>3, <3>1, <3>3
      <4> QED
        BY <1>16, <3>1, <4>1
    <3>4. CASE ~(p < i) /\ ~(p < i + old_len)
      <4> DEFINE q == p - old_len + Len(new)
      <4>1. q \in DOMAIN r /\ ~(q < i) /\ ~(q < i + Len(new)) /\ q - Len(new) + old_len = p
        <5> DEFINE m == Len(insns)
                   l == Len(new)
        <5>1. m \in Nat /\ l \in Nat /\ i \in Nat /\ i >= 1
          BY <1>3, <1>5
        <5>2. p \in 1..m /\ ~(p < i + old_len)
          BY <3>1, <3>4
        <5>3. DOMAIN r = 1..(m - old_len + l)
          BY <1>7
        <5> HIDE DEF m, l
        <5>4. /\ p - old_len + l \in 1..(m - old_len + l)
              /\ ~(p - old_len + l < i) /\ ~(p - old_len + l < i + l)
              /\ p - old_len + l - l + old_len = p
          BY <5>1, <5>2
        <5>5. q = p - old_len + l
          BY DEF l
        <5> HIDE DEF q
        <5>6. q \in DOMAIN r
          BY <5>3, <5>4, <5>5
        <5>7. ~(q < i) /\ ~(q < i + l) /\ q - l + old_len = p
          BY <5>1, <5>2, <5>5
        <5> QED
          BY <5>6, <5>7 DEF l
      <4> HIDE DEF q
      <4>2. r[q] = insns[p]
        BY <1>7, <4>1
      <4> QED
        BY <1>1, <1>9, <1>11, <2>1, <3>1, <4>1, <4>2
    <3> QED
      BY <3>2, <3>3, <3>4
  <2> QED
    BY <2>3, <2>4
<1>17. ASSUME NEW x \in hit, x # None
       PROVE  x \in OriginalsIn(blocks)
  <2>1. PICK j \in 1..old_len : x = insns[i + j - 1].insn
    OBVIOUS
  <2>2. i + j - 1 \in DOMAIN blocks[b].insns /\ x = blocks[b].insns[i + j - 1].insn
    BY <1>14, <2>1 DEF insns
  <2> QED
    BY <1>1, <1>12, <1>17, <2>2 DEF OriginalsIn
<1>18. OriginalsIn(blocks') = OriginalsIn(blocks) \ hit /\ hit \ {None} \subseteq OriginalsIn(blocks)
  <2> HIDE DEF hit
  <2> QED
    BY <1>15, <1>16, <1>17
<1> QED
  BY <1>18 DEF hit, insns

LEMMA TailQueue ==
    ASSUME NEW S, NEW q \in Seq(S), q # <<>>
    PROVE  /\ Tail(q) \in Seq(S) /\ Len(Tail(q)) = Len(q) - 1 /\ Len(q) \in Nat \ {0}
           /\ DOMAIN Tail(q) = 1..(Len(q) - 1) /\ DOMAIN q = 1..Len(q)
           /\ Head(q) = q[1] /\ q[1] \in S
           /\ \A k \in 1..(Len(q) - 1) : Tail(q)[k] = q[k + 1]
<1>1. /\ Tail(q) \in Seq(S) /\ Len(Tail(q)) = Len(q) - 1
      /\ \A k \in 1..Len(Tail(q)) : Tail(q)[k] = q[k + 1]
      /\ Head(q) = q[1]
  BY HeadTailProperties
<1>2. Len(q) \in Nat \ {0} /\ DOMAIN q = 1..Len(q) /\ q[1] \in S
  <2>1. Len(q) \in Nat /\ DOMAIN q = 1..Len(q) /\ \A k \in 1..Len(q) : q[k] \in S
    BY SeqIsFunction
  <2>2. Len(q) # 0
    BY EmptySeq
  <2> QED
    BY <2>1, <2>2
<1>3. DOMAIN Tail(q) = 1..(Len(q) - 1)
  BY <1>1, SeqIsFunction
<1> QED
  BY <1>1, <1>2, <1>3

(* What the head of the queue matched is what stands in its range.          *)
LEMMA HeadMatched ==
    ASSUME BatchInv, queue # <<>>,
           try_replace_range(Head(queue).b, Head(queue).i, Head(queue).old_len, Head(queue).ops)
    PROVE  LET c == Head(queue) IN
           ToSet(c.matched) = {blocks[c.b].insns[c.i + j - 1].insn : j \in 1..c.old_len}
<1> DEFINE c == Head(queue)
<1>1. /\ queue \in Seq(Candidates) /\ PendingStillMatch
      /\ \A k \in DOMAIN queue : DOMAIN queue[k].matched = 1..queue[k].old_len
      /\ \A k \in DOMAIN queue : queue[k].b \in DOMAIN blocks
  BY DEF BatchInv, QueueOk
<1>2. /\ c = queue[1] /\ 1 \in DOMAIN queue /\ c \in Candidates
  <2>1. /\ Len(queue) \in Nat \ {0} /\ DOMAIN queue = 1..Len(queue)
        /\ Head(queue) = queue[1] /\ queue[1] \in Candidates
    BY <1>1, TailQueue
  <2> QED
    BY <2>1
<1>3. c.i - 1 + c.old_len <= Len(blocks[c.b].insns)
  BY DEF try_replace_range
<1> HIDE DEF c
<1>4. c.i \in Nat /\ c.old_len \in Nat /\ DOMAIN c.matched = 1..c.old_len /\ c.b \in DOMAIN blocks
  <2>1. c.i \in Positions /\ c.old_len \in Windows
    BY <1>2 DEF Candidates
  <2> QED
    BY <1>1, <1>2, <2>1 DEF Positions, Windows
<1>5. Len(blocks[c.b].insns) \in Nat
  BY <1>4, CurrentProgram, SeqIsFunction DEF BatchInv
<1>6. \A j \in 1..c.old_len : c.i + j - 1 <= Len(blocks[c.b].insns)
  BY <1>3, <1>4, <1>5
<1>7. \A j \in 1..c.old_len : blocks[c.b].insns[c.i + j - 1].insn = c.matched[j]
  BY <1>1, <1>2, <1>6 DEF PendingStillMatch
<1>8. ToSet(c.matched) = {c.matched[j] : j \in 1..c.old_len}
  BY <1>4 DEF ToSet
<1>9. {c.matched[j] : j \in 1..c.old_len}
        = {blocks[c.b].insns[c.i + j - 1].insn : j \in 1..c.old_len}
  BY <1>7
<1> QED
  BY <1>8, <1>9 DEF c

LEMMA ApplyNextInv ==
    ASSUME BatchInv, ApplyNext
    PROVE  BatchInv'
<1> DEFINE c == Head(queue)
<1>1. /\ Inv /\ FactsFresh /\ PendingStillMatch
      /\ queue \in Seq(Candidates) /\ calls + Len(queue) <= MaxCalls
      /\ \A k \in DOMAIN queue : queue[k].b \in DOMAIN blocks
      /\ \A k \in DOMAIN queue : DOMAIN queue[k].matched = 1..queue[k].old_len
      /\ LastFirst(queue) /\ queue # <<>> /\ running
  BY DEF BatchInv, QueueOk, ApplyNext
<1>2. CASE Fail
  <2>1. UNCHANGED vars /\ queue' = <<>> /\ gone' = {}
    BY <1>2 DEF Fail, PassEnds
  <2>2. Inv'
    BY <1>1, <2>1, NextKeepsInv
  <2>3. FactsFresh'
    BY <1>1, <2>1 DEF FactsFresh, vars
  <2>4. queue' \in Seq(Candidates) /\ Len(queue') = 0 /\ DOMAIN queue' = {}
    BY <2>1, EmptySeq
  <2>5. calls' + Len(queue') <= MaxCalls
    <3>1. calls' \in 0..MaxCalls
      BY <2>2 DEF Inv, TypeOK
    <3>2. Len(queue') = 0
      BY <2>4
    <3>3. \A m \in 0..MaxCalls : m + 0 <= MaxCalls
      BY BoundsAssumption
    <3> QED
      BY ONLY <3>1, <3>2, <3>3, Zenon
  <2>6. QueueOk' /\ PendingStillMatch'
    BY <2>1, <2>4, <2>5 DEF QueueOk, LastFirst, PendingStillMatch
  <2> QED
    BY <2>1, <2>2, <2>3, <2>6 DEF BatchInv, GoneOk
<1>3. CASE ~Fail
  <2>1. /\ c.i <= Len(blocks[c.b].insns) \/ ~(c.i > Len(blocks[c.b].insns))
        /\ try_replace_range(c.b, c.i, c.old_len, c.ops)
        /\ queue' = Tail(queue) /\ running' = running
        /\ gone' = gone \cup ToSet(c.matched)
    BY <1>3 DEF ApplyNext
  <2>2. /\ Tail(queue) \in Seq(Candidates) /\ Len(Tail(queue)) = Len(queue) - 1
        /\ Len(queue) \in Nat \ {0} /\ DOMAIN Tail(queue) = 1..(Len(queue) - 1)
        /\ DOMAIN queue = 1..Len(queue)
        /\ c = queue[1] /\ queue[1] \in Candidates
        /\ \A k \in 1..(Len(queue) - 1) : Tail(queue)[k] = queue[k + 1]
    BY <1>1, TailQueue
  <2> HIDE DEF c
  <2>3. c.b \in DOMAIN blocks /\ c.i \in Nat \ {0} /\ c.old_len \in Nat /\ Insertable(c.ops)
    <3>1. c.i \in Positions /\ c.old_len \in Windows /\ c.ops \in Inserted
      BY <2>2 DEF Candidates
    <3>2. Insertable(c.ops)
      BY <3>1, ReplacementsInsertable DEF Inserted
    <3> QED
      BY <1>1, <2>2, <3>1, <3>2 DEF Positions, Windows
  <2>4. /\ Len(blocks[c.b].insns) \in Nat /\ c.i \in 1..Len(blocks[c.b].insns)
        /\ c.i \in Sites(c.b)
    <3>1. Len(blocks[c.b].insns) \in Nat
      BY <1>1, <2>3, CurrentProgram, SeqIsFunction
    <3> QED
      BY <2>1, <2>3, <3>1 DEF Sites
  <2>5. GoodMutation
    BY <1>1, <2>1, <2>3, <2>4, ReplaceRangeGood
  <2>6. /\ Shape(blocks', entry')
        /\ PredecessorsInvertSuccessors'
        /\ VerifierStatesMatchCode'
        /\ TargetsKept'
        /\ OriginalsOnce(blocks)'
    BY <1>1, <2>5, GoodMutationResult
  <2>7. /\ derived_facts_dirty' = TRUE /\ source' = source /\ prog_type' = prog_type
        /\ calls' = calls + 1 /\ last' = "try_replace_range"
        /\ DOMAIN blocks' = DOMAIN blocks
    BY <2>1 DEF try_replace_range, Calling, Mutate, invalidate_verifier_states, WithInsns
  <2>8. Inv'
    <3>1. blocks' \in Seq(BasicBlock) /\ entry' \in DOMAIN blocks'
      BY <2>6, ShapeIsSeq DEF Shape
    <3>2. calls' \in 0..MaxCalls
      BY <1>1, <2>2, <2>7, BoundsAssumption DEF Inv, TypeOK
    <3>3. last' \in AllOps
      BY <2>7 DEF AllOps, EditOps
    <3>4. TypeOK'
      BY <1>1, <2>7, <3>1, <3>2, <3>3 DEF TypeOK, Inv
    <3> QED
      BY <2>6, <3>4 DEF Inv
  <2>9. FactsFresh'
    BY <2>7 DEF FactsFresh
  <2>10. ASSUME NEW k \in DOMAIN queue'
         PROVE  /\ k + 1 \in DOMAIN queue /\ 1 \in DOMAIN queue
                /\ queue'[k] = queue[k + 1]
    BY <2>1, <2>2
  <2>11. QueueOk'
    <3>1. calls' + Len(queue') <= MaxCalls
      <4>1. calls \in Nat
        BY <1>1 DEF Inv, TypeOK
      <4> QED
        BY <1>1, <2>1, <2>2, <2>7, <4>1, BoundsAssumption
    <3>2. \A k \in DOMAIN queue' : queue'[k].b \in DOMAIN blocks'
      BY <1>1, <2>7, <2>10
    <3>3. LastFirst(queue')
      <4> SUFFICES ASSUME NEW j \in DOMAIN queue', NEW k \in DOMAIN queue', j < k,
                          queue'[j].b = queue'[k].b
                   PROVE  queue'[k].i + queue'[k].old_len <= queue'[j].i
        BY DEF LastFirst
      <4>1. j + 1 < k + 1
        BY <2>1, <2>2
      <4> QED
        BY <1>1, <2>10, <4>1 DEF LastFirst
    <3>4. \A k \in DOMAIN queue' : DOMAIN queue'[k].matched = 1..queue'[k].old_len
      BY <1>1, <2>10
    <3> QED
      BY <1>1, <2>1, <2>2, <3>1, <3>2, <3>3, <3>4 DEF QueueOk
  <2>12. PendingStillMatch'
    <3> SUFFICES ASSUME NEW k \in DOMAIN queue', NEW j \in 1..queue'[k].old_len,
                        queue'[k].i + j - 1 <= Len(blocks'[queue'[k].b].insns)
                 PROVE  blocks'[queue'[k].b].insns[queue'[k].i + j - 1].insn
                          = queue'[k].matched[j]
      BY DEF PendingStillMatch
    <3> DEFINE d == queue'[k]
               p == d.i + j - 1
    <3>1. /\ k + 1 \in DOMAIN queue /\ d = queue[k + 1] /\ d \in Candidates
          /\ d.b \in DOMAIN blocks /\ d.i \in Nat \ {0} /\ d.old_len \in Nat
      <4>1. k + 1 \in DOMAIN queue /\ d = queue[k + 1] /\ d \in Candidates
        BY <1>1, <2>2, <2>10, SeqIsFunction
      <4>2. d.i \in Positions /\ d.old_len \in Windows
        BY <4>1 DEF Candidates
      <4> QED
        BY <1>1, <4>1, <4>2 DEF Positions, Windows
    <3>2. d.b = c.b => d.i + d.old_len <= c.i
      <4>1. 1 < k + 1 /\ 1 \in DOMAIN queue
        BY <2>1, <2>2, <2>10
      <4>2. queue[1].b = queue[k + 1].b
              => queue[k + 1].i + queue[k + 1].old_len <= queue[1].i
        BY <1>1, <3>1, <4>1 DEF LastFirst
      <4> HIDE DEF d
      <4> QED
        BY <2>2, <3>1, <4>2
    <3>3. Len(blocks[d.b].insns) \in Nat /\ DOMAIN blocks[d.b].insns = 1..Len(blocks[d.b].insns)
      BY <1>1, <3>1, CurrentProgram, SeqIsFunction
    <3>4. p <= Len(blocks[d.b].insns) => blocks[d.b].insns[p].insn = d.matched[j]
      BY <1>1, <3>1 DEF PendingStillMatch
    <3>5. p \in Nat \ {0} /\ (d.b = c.b => p < c.i)
      BY <2>3, <3>1, <3>2
    <3>6. /\ d.b # c.b => DOMAIN blocks'[d.b].insns = DOMAIN blocks[d.b].insns
          /\ \A q \in DOMAIN blocks[d.b].insns :
                (d.b = c.b => q < c.i)
                  => blocks'[d.b].insns[q].insn = blocks[d.b].insns[q].insn
      BY <1>1, <2>1, <2>3, <2>4, <3>1, EditKeepsFront
    <3>7. p <= Len(blocks[d.b].insns)
      <4>1. CASE d.b = c.b
        BY <2>3, <2>4, <3>5, <4>1
      <4>2. CASE d.b # c.b
        <5>1. blocks'[d.b].insns \in Seq(NodeIn(Len(blocks')))
          BY <2>6, <2>7, <3>1, ShapeIsSeq DEF BlockIn
        <5>2. /\ Len(blocks'[d.b].insns) \in Nat
              /\ DOMAIN blocks'[d.b].insns = 1..Len(blocks'[d.b].insns)
          BY <5>1, SeqIsFunction
        <5>3. p \in 1..Len(blocks'[d.b].insns)
          BY <3>5, <5>2
        <5> QED
          BY <3>3, <3>6, <4>2, <5>2, <5>3
      <4> QED
        BY <4>1, <4>2
    <3>8. p \in DOMAIN blocks[d.b].insns
      BY <3>3, <3>5, <3>7
    <3> QED
      BY <3>4, <3>5, <3>6, <3>7, <3>8
  <2>13. GoneOk'
    <3> DEFINE hit == {blocks[c.b].insns[c.i + j - 1].insn : j \in 1..c.old_len}
    <3>1. OriginalsIn(blocks') = OriginalsIn(blocks) \ hit
      BY <1>1, <2>1, <2>3, <2>4, EditOriginals
    <3>2. ToSet(c.matched) = hit
      BY <1>1, <2>1, HeadMatched DEF c
    <3> HIDE DEF hit
    <3>3. gone' \cap OriginalsIn(blocks') = {}
      BY <2>1, <3>1, <3>2 DEF BatchInv, GoneOk
    <3>4. OriginalsIn(blocks)' = OriginalsIn(blocks')
      BY DEF OriginalsIn, BodySites, NodeAt
    <3> QED
      BY <1>1, <2>1, <3>3, <3>4 DEF GoneOk
  <2> QED
    BY <2>8, <2>9, <2>11, <2>12, <2>13 DEF BatchInv
<1> QED
  BY <1>2, <1>3


-----------------------------------------------------------------------------
(* The other steps.                                                         *)

(* The end of run_pass_once drops verifier states and leaves the code.      *)
LEMMA RunPassOnceInv ==
    ASSUME BatchInv, run_pass_once
    PROVE  BatchInv'
<1> DEFINE n == Len(blocks)
           cs == invalidate_verifier_states(blocks)
<1>1. Inv /\ FactsFresh /\ QueueOk /\ queue = <<>> /\ queue' = queue
  BY DEF BatchInv, run_pass_once
<1>0. GoneOk'
  BY DEF GoneOk, run_pass_once, PassEnds
<1>2. UNCHANGED <<source, entry, prog_type, derived_facts_dirty, facts, calls, last>>
  BY DEF run_pass_once
<1>3. CASE blocks' = blocks
  <2>1. UNCHANGED vars
    BY <1>2, <1>3 DEF vars
  <2>2. Inv'
    BY <1>1, <2>1, NextKeepsInv
  <2>3. FactsFresh'
    BY <1>1, <2>1 DEF FactsFresh, vars
  <2>4. QueueOk' /\ PendingStillMatch'
    BY <1>1, <1>2, <1>3 DEF QueueOk, PendingStillMatch
  <2> QED
    BY <1>0, <2>2, <2>3, <2>4 DEF BatchInv
<1>4. CASE blocks' = cs
  <2>1. n \in Nat /\ DOMAIN blocks = 1..n /\ entry \in 1..n /\ blocks \in ProgramOf(n)
    BY <1>1, CurrentProgram DEF Shape
  <2>2. /\ cs \in ProgramOf(n)
        /\ \A b \in 1..n : /\ cs[b].terminator = blocks[b].terminator
                            /\ cs[b].predecessors = blocks[b].predecessors
                            /\ ~HasVerifierState(cs[b])
    BY <2>1, InvalidateShape
  <2>3. Code(cs) = Code(blocks)
    BY <2>1, InvalidateCode
  <2> HIDE DEF cs
  <2>4. Len(blocks') = n /\ DOMAIN blocks' = 1..n
    BY <1>4, <2>1, <2>2, FunctionIsSeq DEF ProgramOf
  <2>5. Shape(blocks', entry')
    BY <1>2, <1>4, <2>1, <2>2, <2>4 DEF Shape
  <2>6. PredecessorsInvertSuccessors'
    <3>1. ASSUME NEW b \in 1..n
          PROVE  blocks'[b].predecessors = {p \in 1..n : b \in successors(blocks'[p].terminator)}
      BY <1>1, <1>4, <2>1, <2>2 DEF Inv, PredecessorsInvertSuccessors
    <3> QED
      BY <2>4, <3>1 DEF PredecessorsInvertSuccessors
  <2>7. VerifierStatesMatchCode'
    BY <1>4, <2>2, <2>4 DEF VerifierStatesMatchCode, HasVerifierState
  <2>8. TypeOK'
    <3>1. blocks' \in Seq(BasicBlock) /\ entry' \in DOMAIN blocks'
      BY <2>5, ShapeIsSeq DEF Shape
    <3> QED
      BY <1>1, <1>2, <3>1 DEF Inv, TypeOK
  <2>9. Inv'
    <3>1. KeptIn(cs, entry, source)
      BY <1>1, CurrentProgram, CurrentKept, InvalidateKept DEF cs
    <3>2. KeptIn(blocks', entry', source')
      BY <1>2, <1>4, <3>1
    <3>3. TargetsKept'
      BY <3>2 DEF TargetsKept, KeptIn, BlockKept, TermKept, NodeKept
    <3>4. OriginalsOnce(blocks)'
      <4>1. BodySites(blocks') = BodySites(blocks)
        BY <1>4, <2>1, <2>4, InvalidateInsns DEF BodySites, cs
      <4>2. ASSUME NEW s \in BodySites(blocks)
            PROVE  NodeAt(blocks', s).insn = NodeAt(blocks, s).insn
        <5>1. s[1] \in 1..n /\ s[2] \in DOMAIN blocks[s[1]].insns
          BY <2>1, BodySiteIs
        <5> QED
          BY <1>4, <2>1, <5>1, InvalidateInsns DEF NodeAt, cs
      <4>3. OriginalsOnce(blocks')
        BY <1>1, <4>1, <4>2 DEF Inv, OriginalsOnce
      <4> QED
        BY <4>3 DEF OriginalsOnce, BodySites, NodeAt
    <3> QED
      BY <2>5, <2>6, <2>7, <2>8, <3>3, <3>4 DEF Inv
  <2>10. FactsFresh'
    BY <1>1, <1>2, <1>4, <2>3 DEF FactsFresh
  <2>11. QueueOk' /\ PendingStillMatch'
    <3>1. DOMAIN queue' = {}
      BY <1>1, EmptySeq
    <3> QED
      BY <1>1, <1>2, <3>1 DEF QueueOk, PendingStillMatch
  <2> QED
    BY <1>0, <2>9, <2>10, <2>11 DEF BatchInv
<1> QED
  BY <1>3, <1>4 DEF run_pass_once

(* Between two batches the queue is empty.                                  *)
LEMMA OtherCallInv ==
    ASSUME BatchInv, OtherCall
    PROVE  BatchInv'
<1>1. Inv /\ FactsFresh /\ QueueOk /\ ~running /\ Next /\ UNCHANGED batch
  BY DEF BatchInv, OtherCall
<1>2. Inv'
  BY <1>1, NextKeepsInv
<1>3. FactsFresh'
  <2>1. CASE Mutation
    BY <2>1, MutationMutates DEF FactsFresh
  <2>2. CASE ensure_derived_facts_fresh
    BY <1>1, <2>2 DEF ensure_derived_facts_fresh, FactsFresh
  <2> QED
    BY <1>1, <2>1, <2>2 DEF Next
<1>4. queue' = <<>> /\ running' = running
  BY <1>1 DEF QueueOk, batch
<1>5. queue' \in Seq(Candidates) /\ Len(queue') = 0 /\ DOMAIN queue' = {}
  BY <1>4, EmptySeq
<1>6. calls' + Len(queue') <= MaxCalls
  <2>1. calls' \in 0..MaxCalls
    BY <1>2 DEF Inv, TypeOK
  <2>2. Len(queue') = 0
    BY <1>5
  <2>3. \A m \in 0..MaxCalls : m + 0 <= MaxCalls
    BY BoundsAssumption
  <2> QED
    BY ONLY <2>1, <2>2, <2>3, Zenon
<1>7. QueueOk' /\ PendingStillMatch'
  BY <1>4, <1>5, <1>6 DEF QueueOk, LastFirst, PendingStillMatch
<1>8. GoneOk'
  BY <1>1 DEF BatchInv, GoneOk, batch
<1> QED
  BY <1>2, <1>3, <1>7, <1>8 DEF BatchInv

(* The inductive invariant: the program is well formed, its facts fresh or  *)
(* marked stale, and the candidates left are in front of the last edit.     *)
THEOREM BatchInvHolds == BatchSpec => []BatchInv
<1>1. BatchInit => BatchInv
  <2> SUFFICES ASSUME BatchInit PROVE BatchInv
    OBVIOUS
  <2>1. Init /\ queue = <<>>
    BY DEF BatchInit
  <2>2. Inv /\ FactsFresh
    BY <2>1, InitInv DEF Init, FactsFresh
  <2>3. queue \in Seq(Candidates) /\ Len(queue) = 0 /\ DOMAIN queue = {}
    BY <2>1, EmptySeq
  <2>4. calls + Len(queue) <= MaxCalls
    BY <2>1, <2>3, BoundsAssumption DEF Init
  <2>5. QueueOk /\ PendingStillMatch
    BY <2>1, <2>3, <2>4 DEF QueueOk, LastFirst, PendingStillMatch
  <2>6. GoneOk
    BY DEF BatchInit, GoneOk
  <2> QED
    BY <2>2, <2>5, <2>6 DEF BatchInv
<1>2. BatchInv /\ [BatchNext]_allvars => BatchInv'
  <2> SUFFICES ASSUME BatchInv, [BatchNext]_allvars
               PROVE  BatchInv'
    OBVIOUS
  <2>1. CASE BatchNext
    BY <2>1, OtherCallInv, BatchStarts, ApplyNextInv, RunPassOnceInv DEF BatchNext
  <2>2. CASE UNCHANGED allvars
    <3>1. UNCHANGED vars /\ UNCHANGED batch
      BY <2>2 DEF allvars
    <3>2. Inv'
      BY <3>1, NextKeepsInv DEF BatchInv
    <3>3. FactsFresh'
      BY <3>1 DEF BatchInv, FactsFresh, vars
    <3>4. QueueOk' /\ PendingStillMatch'
      BY <3>1 DEF BatchInv, QueueOk, PendingStillMatch, vars, batch
    <3>5. GoneOk'
      BY <3>1 DEF BatchInv, GoneOk, OriginalsIn, BodySites, NodeAt, vars, batch
    <3> QED
      BY <3>2, <3>3, <3>4, <3>5 DEF BatchInv
  <2> QED
    BY <2>1, <2>2
<1> QED
  BY <1>1, <1>2, PTL DEF BatchSpec

(* The sites a pass collected never go stale under its own edits: whatever  *)
(* the edits behind them inserted or deleted, a candidate still to process  *)
(* finds the instructions it was collected for.                             *)
THEOREM PendingMatches == BatchSpec => []PendingStillMatch
<1>1. BatchInv => PendingStillMatch
  BY DEF BatchInv
<1> QED
  BY <1>1, BatchInvHolds, PTL

(* A batch, also one that fails half way, keeps what the operations keep    *)
(* one by one: types, fresh facts, live references that lead where they     *)
(* led, right predecessors, and verifier states only on the code the        *)
(* verifier saw.                                                            *)
THEOREM BatchKeepsProgram ==
    BatchSpec => [](/\ TypeOK /\ FactsFresh /\ NoDanglingReference /\ TargetsKept
                    /\ PredecessorsInvertSuccessors /\ VerifierStatesMatchCode)
<1>1. BatchInv => /\ TypeOK /\ FactsFresh /\ NoDanglingReference /\ TargetsKept
                  /\ PredecessorsInvertSuccessors /\ VerifierStatesMatchCode
  <2> SUFFICES ASSUME BatchInv
               PROVE  NoDanglingReference
    BY DEF BatchInv, Inv
  <2> SUFFICES ASSUME NEW b \in DOMAIN blocks
               PROVE  References(blocks[b]) \subseteq DOMAIN blocks
    BY DEF NoDanglingReference
  <2> QED
    BY CurrentProgram, ReferencesInside DEF BatchInv
<1> QED
  BY <1>1, BatchInvHolds, PTL

(* What ApplyNext does when it does not fail.                               *)
LEMMA ApplyNextEdits ==
    ASSUME BatchInv, ApplyNext, ~Fail
    PROVE  LET c == Head(queue) IN
           /\ try_replace_range(c.b, c.i, c.old_len, c.ops)
           /\ gone' = gone \cup ToSet(c.matched)
           /\ c.b \in DOMAIN blocks /\ c.i \in Sites(c.b) /\ c.old_len \in Nat /\ Insertable(c.ops)
<1> DEFINE c == Head(queue)
<1>1. /\ Inv /\ queue \in Seq(Candidates) /\ queue # <<>>
      /\ \A k \in DOMAIN queue : queue[k].b \in DOMAIN blocks
  BY DEF BatchInv, QueueOk, ApplyNext
<1>2. /\ ~(c.i > Len(blocks[c.b].insns))
      /\ try_replace_range(c.b, c.i, c.old_len, c.ops)
      /\ gone' = gone \cup ToSet(c.matched)
  BY DEF ApplyNext
<1>3. /\ Len(queue) \in Nat \ {0} /\ DOMAIN queue = 1..Len(queue)
      /\ c = queue[1] /\ queue[1] \in Candidates
  BY <1>1, TailQueue
<1> HIDE DEF c
<1>4. c.b \in DOMAIN blocks /\ c.i \in Nat \ {0} /\ c.old_len \in Nat /\ Insertable(c.ops)
  <2>1. c.i \in Positions /\ c.old_len \in Windows /\ c.ops \in Inserted
    BY <1>3 DEF Candidates
  <2>2. Insertable(c.ops)
    BY <2>1, ReplacementsInsertable DEF Inserted
  <2>3. 1 \in DOMAIN queue
    BY <1>3
  <2> QED
    BY <1>1, <1>3, <2>1, <2>2, <2>3 DEF Positions, Windows
<1>5. c.i \in Sites(c.b)
  <2>1. Len(blocks[c.b].insns) \in Nat
    BY <1>1, <1>4, CurrentProgram, SeqIsFunction
  <2> QED
    BY <1>2, <1>4, <2>1 DEF Sites
<1> QED
  BY <1>2, <1>4, <1>5 DEF c

(* At every moment of a pass, also after it failed half way, the original   *)
(* instructions gone are exactly the ones its committed candidates matched: *)
(* no edit of a batch hits a neighbour of its site, whatever the edits      *)
(* before it inserted or deleted.                                           *)
THEOREM OnlyMatchedAreRemoved == BatchSpec => OnlyMatchedRemoved
<1>1. BatchInv /\ [BatchNext]_allvars =>
        [running /\ running' =>
           OriginalsIn(blocks) \ OriginalsIn(blocks') = (gone' \ gone) \ {None}]_allvars
  <2> SUFFICES ASSUME BatchInv, BatchNext, running, running'
               PROVE  OriginalsIn(blocks) \ OriginalsIn(blocks') = (gone' \ gone) \ {None}
    OBVIOUS
  <2>1. ApplyNext /\ ~Fail
    BY DEF BatchNext, OtherCall, delete_body_sites_reverse, apply_candidates_reverse, CanStart,
           run_pass_once, PassEnds, Fail
  <2> DEFINE c == Head(queue)
             hit == {blocks[c.b].insns[c.i + j - 1].insn : j \in 1..c.old_len}
  <2>2. /\ try_replace_range(c.b, c.i, c.old_len, c.ops)
        /\ gone' = gone \cup ToSet(c.matched)
        /\ c.b \in DOMAIN blocks /\ c.i \in Sites(c.b) /\ c.old_len \in Nat /\ Insertable(c.ops)
    BY <2>1, ApplyNextEdits
  <2>3. ToSet(c.matched) = hit
    BY <2>1, <2>2, HeadMatched DEF ApplyNext
  <2>4. OriginalsIn(blocks') = OriginalsIn(blocks) \ hit /\ hit \ {None} \subseteq OriginalsIn(blocks)
    <3> HIDE DEF c
    <3> QED
      BY <2>2, EditOriginals DEF BatchInv
  <2>5. gone \cap OriginalsIn(blocks) = {} /\ None \notin OriginalsIn(blocks)
    BY DEF BatchInv, GoneOk, OriginalsIn
  <2> HIDE DEF hit, c
  <2> QED
    BY <2>2, <2>3, <2>4, <2>5
<1> QED
  BY <1>1, BatchInvHolds, PTL DEF OnlyMatchedRemoved, BatchSpec

(* The order of original positions survives batches too: every edit of a    *)
(* batch is a replacement, and the end of a pass moves nothing.             *)
THEOREM BatchesKeepOrder == BatchSpec => BodyRecordsStayOrdered
<1>1. BatchInv /\ [BatchNext]_allvars =>
        [RecordsInOrder(blocks) /\ Called(AllOps \ {"permute_blocks"})
           => RecordsInOrder(blocks')]_vars
  <2> SUFFICES ASSUME BatchInv, [BatchNext]_allvars, RecordsInOrder(blocks),
                      Called(AllOps \ {"permute_blocks"})
               PROVE  RecordsInOrder(blocks')
    OBVIOUS
  <2>1. calls' # calls /\ last' # "permute_blocks" /\ Inv
    BY DEF Called, BatchInv, Inv, TypeOK
  <2>2. CASE ApplyNext
    <3>1. ~Fail
      BY <2>1 DEF Fail, vars
    <3> DEFINE c == Head(queue)
    <3>2. /\ try_replace_range(c.b, c.i, c.old_len, c.ops)
          /\ c.b \in DOMAIN blocks /\ c.i \in Sites(c.b) /\ c.old_len \in Nat /\ Insertable(c.ops)
      BY <2>2, <3>1, ApplyNextEdits
    <3> HIDE DEF c
    <3>3. Taken(blocks')
      BY <2>1, <3>2, ReplaceRangeGood, GoodMutationResult
    <3> QED
      BY <2>1, <3>3, TakenInOrder
  <2>3. CASE OtherCall
    <3>1. Mutation
      BY <2>1, <2>3 DEF OtherCall, Next, ensure_derived_facts_fresh
    <3>2. Taken(blocks')
      BY <2>1, <3>1, MutationGood, GoodMutationResult
    <3> QED
      BY <2>1, <3>2, TakenInOrder
  <2>4. CASE delete_body_sites_reverse \/ apply_candidates_reverse \/ run_pass_once
    BY <2>1, <2>4
       DEF delete_body_sites_reverse, apply_candidates_reverse, Start, run_pass_once, vars
  <2>5. CASE UNCHANGED allvars
    BY <2>1, <2>5 DEF allvars, vars
  <2> QED
    BY <2>2, <2>3, <2>4, <2>5 DEF BatchNext
<1> QED
  BY <1>1, BatchInvHolds, PTL DEF BodyRecordsStayOrdered, BatchSpec

=============================================================================
