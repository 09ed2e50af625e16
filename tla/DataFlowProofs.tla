--------------------------- MODULE DataFlowProofs ---------------------------
(***************************************************************************)
(* The derived facts are right for every program: the def-to-uses index    *)
(* lists exactly what a run can see, and the liveness sets are exact.      *)
(***************************************************************************)
EXTENDS DataFlow, FiniteSetTheorems, SequenceTheorems, WellFoundedInduction, TLAPS

-----------------------------------------------------------------------------
(* Iteration.  A recursive function on 0..n is determined by its equation,  *)
(* and iterating a growing operation on subsets of a finite set ends.       *)

LEMMA Least ==
    ASSUME NEW S \in SUBSET Nat, S # {}
    PROVE  \E m \in S : \A y \in S : m <= y
<1> DEFINE less == OpToRel(<, Nat)
<1>1. \A x, y \in Nat : x < y => <<x, y>> \in less
  BY DEF OpToRel
<1>2. IsWellFoundedOn(less, Nat)
  BY NatLessThanWellFounded
<1> HIDE DEF less
<1>3. PICK m \in S : \A y \in S : ~(<<y, m>> \in less)
  BY <1>2, WFMin
<1>4. ASSUME NEW y \in S
      PROVE  m <= y
  <2>1. y \in Nat /\ m \in Nat
    OBVIOUS
  <2>2. ~(y < m)
    BY <1>1, <1>3, <2>1
  <2> QED
    BY <2>1, <2>2
<1> QED
  BY <1>4

(* Counting up: what holds of 0 and passes from k to k + 1 holds up to n.   *)
LEMMA CountUp ==
    ASSUME NEW n \in Nat, NEW T, 0 \in T, \A k \in 1..n : k - 1 \in T => k \in T
    PROVE  \A k \in 0..n : k \in T
<1> DEFINE bad == {k \in 0..n : k \notin T}
<1>1. SUFFICES ASSUME bad # {} PROVE FALSE
  OBVIOUS
<1>2. bad \in SUBSET Nat
  OBVIOUS
<1> HIDE DEF bad
<1>3. PICK m \in bad : \A y \in bad : m <= y
  BY <1>1, <1>2, Least
<1>4. m \in 0..n /\ m \notin T
  BY DEF bad
<1>5. m \in 1..n
  BY <1>4
<1>6. m - 1 \notin bad
  BY <1>2, <1>3, <1>5
<1>7. m - 1 \in T
  BY <1>5, <1>6 DEF bad
<1> QED
  BY <1>4, <1>5, <1>7

(* f lists the iterates of step from a, the n-th included.                  *)
Iterable(U, step, a, n) == step \in [U -> U] /\ a \in U /\ n \in Nat

Lists(f, U, step, a, n) ==
    /\ f \in [0..n -> U]
    /\ f[0] = a
    /\ \A k \in 1..n : f[k] = step[f[k - 1]]

LEMMA Iterates ==
    ASSUME NEW U, NEW step, NEW a, NEW n, Iterable(U, step, a, n)
    PROVE  \E f : Lists(f, U, step, a, n)
<1>0. step \in [U -> U] /\ a \in U /\ n \in Nat
  BY DEF Iterable
<1>1. SUFFICES \E f \in [0..n -> U] : f[0] = a /\ \A k \in 1..n : f[k] = step[f[k - 1]]
  BY DEF Lists
<1> USE <1>0
<1> DEFINE Upto(m, f) == f[0] = a /\ \A k \in 1..m : f[k] = step[f[k - 1]]
           T == {m \in 0..n : \E f \in [0..m -> U] : Upto(m, f)}
<1>2. 0 \in T
  <2> DEFINE f == [k \in 0..0 |-> a]
  <2>1. f \in [0..0 -> U] /\ f[0] = a
    OBVIOUS
  <2>2. Upto(0, f)
    BY <2>1
  <2> HIDE DEF f
  <2>3. \E g \in [0..0 -> U] : Upto(0, g)
    BY <2>1, <2>2
  <2> HIDE DEF Upto
  <2> QED
    BY <2>3
<1>3. ASSUME NEW m \in 1..n, m - 1 \in T
      PROVE  m \in T
  <2>1. PICK f \in [0..(m - 1) -> U] : Upto(m - 1, f)
    BY <1>3
  <2> DEFINE g == [k \in 0..m |-> IF k = m THEN step[f[m - 1]] ELSE f[k]]
  <2>2. \A k \in 0..(m - 1) : f[k] \in U
    BY <2>1
  <2>3. \A k \in 0..m : g[k] = IF k = m THEN step[f[m - 1]] ELSE f[k]
    OBVIOUS
  <2>4. g \in [0..m -> U]
    <3>1. ASSUME NEW k \in 0..m PROVE (IF k = m THEN step[f[m - 1]] ELSE f[k]) \in U
      <4>1. m - 1 \in 0..(m - 1) /\ (k # m => k \in 0..(m - 1))
        OBVIOUS
      <4> QED
        BY <2>2, <4>1
    <3> QED
      BY <3>1
  <2> HIDE DEF g
  <2>5. g[0] = a
    BY <2>1, <2>3
  <2>6. ASSUME NEW k \in 1..m PROVE g[k] = step[g[k - 1]]
    <3>1. CASE k = m
      BY <2>3, <3>1
    <3>2. CASE k # m
      <4>1. k \in 1..(m - 1) /\ k - 1 \in 0..m /\ k - 1 # m /\ k \in 0..m
        BY <3>2
      <4> QED
        BY <2>1, <2>3, <3>2, <4>1
    <3> QED
      BY <3>1, <3>2
  <2> QED
    BY <2>4, <2>5, <2>6
<1> HIDE DEF T
<1>4. n \in T
  <2>1. \A k \in 0..n : k \in T
    BY <1>2, <1>3, CountUp
  <2> QED
    BY <2>1
<1> QED
  BY <1>4 DEF T

(* f lists subsets of L that grow, or could grow, by one element a step.    *)
Growing(f, L, step, a, n) ==
    /\ IsFiniteSet(L)
    /\ step \in [SUBSET L -> SUBSET L]
    /\ \A X \in SUBSET L : X \subseteq step[X]
    /\ n \in Nat
    /\ Lists(f, SUBSET L, step, a, n)
    /\ Cardinality(L) <= n + Cardinality(a)

LEMMA Saturates ==
    ASSUME NEW f, NEW L, NEW step, NEW a, NEW n, Growing(f, L, step, a, n)
    PROVE  step[f[n]] = f[n]
<1>0. /\ IsFiniteSet(L) /\ step \in [SUBSET L -> SUBSET L]
      /\ \A X \in SUBSET L : X \subseteq step[X]
      /\ n \in Nat /\ f \in [0..n -> SUBSET L]
      /\ \A k \in 1..n : f[k] = step[f[k - 1]]
      /\ Cardinality(L) <= n + Cardinality(f[0])
  BY DEF Growing, Lists
<1> USE <1>0
<1>1. SUFFICES ASSUME step[f[n]] # f[n] PROVE FALSE
  OBVIOUS
<1>2. \A k \in 0..n : f[k] \in SUBSET L
  OBVIOUS
<1>3. \A X \in SUBSET L : IsFiniteSet(X) /\ Cardinality(X) \in Nat
  BY FS_Subset, FS_CardinalityType
<1>4. ASSUME NEW k \in 0..n PROVE step[f[k]] # f[k]
  <2>1. SUFFICES ASSUME step[f[k]] = f[k] PROVE FALSE
    OBVIOUS
  <2> DEFINE T == {d \in 0..(n - k) : f[k + d] = f[k]}
  <2>2. 0 \in T
    OBVIOUS
  <2>3. ASSUME NEW d \in 1..(n - k), d - 1 \in T PROVE d \in T
    <3>1. k + d \in 1..n /\ (k + d) - 1 = k + (d - 1)
      OBVIOUS
    <3>2. f[k + d] = step[f[k + (d - 1)]]
      BY <3>1
    <3> QED
      BY <2>1, <2>3, <3>2
  <2>4. n - k \in Nat
    OBVIOUS
  <2> HIDE DEF T
  <2>5. \A d \in 0..(n - k) : d \in T
    BY <2>2, <2>3, <2>4, CountUp
  <2>6. n - k \in T /\ k + (n - k) = n
    BY <2>4, <2>5
  <2> QED
    BY <1>1, <2>1, <2>6 DEF T
<1>5. \A X, Y \in SUBSET L : X \subseteq Y /\ X # Y => Cardinality(X) + 1 <= Cardinality(Y)
  <2> SUFFICES ASSUME NEW X \in SUBSET L, NEW Y \in SUBSET L, X \subseteq Y, X # Y
               PROVE  Cardinality(X) + 1 <= Cardinality(Y)
    OBVIOUS
  <2>1. Cardinality(X) <= Cardinality(Y) /\ (Cardinality(Y) = Cardinality(X) => Y = X)
    BY <1>3, FS_Subset
  <2> QED
    BY <1>3, <2>1
<1> DEFINE G == {k \in 0..n : k + Cardinality(f[0]) <= Cardinality(f[k])}
<1>6. 0 \in G
  <2>1. Cardinality(f[0]) \in Nat
    BY <1>2, <1>3
  <2> QED
    BY <2>1
<1>7. ASSUME NEW k \in 1..n, k - 1 \in G PROVE k \in G
  <2>1. f[k] = step[f[k - 1]] /\ k - 1 \in 0..n /\ k \in 0..n /\ 0 \in 0..n
    OBVIOUS
  <2>2. f[k - 1] \subseteq f[k] /\ f[k - 1] # f[k]
    BY <1>2, <1>4, <2>1
  <2>3. Cardinality(f[k - 1]) + 1 <= Cardinality(f[k])
    BY <1>2, <1>5, <2>1, <2>2
  <2>4. /\ Cardinality(f[k - 1]) \in Nat /\ Cardinality(f[k]) \in Nat
        /\ Cardinality(f[0]) \in Nat
    BY <1>2, <1>3, <2>1
  <2>5. (k - 1) + Cardinality(f[0]) <= Cardinality(f[k - 1])
    BY <1>7
  <2>6. \A x, y, z \in Nat : x + 1 <= y /\ (k - 1) + z <= x => k + z <= y
    OBVIOUS
  <2> QED
    BY <2>1, <2>3, <2>4, <2>5, <2>6
<1> HIDE DEF G
<1>8. n \in G
  <2>1. \A k \in 0..n : k \in G
    BY <1>6, <1>7, CountUp
  <2> QED
    BY <2>1
<1>9. Cardinality(L) <= Cardinality(f[n])
  <2>1. n + Cardinality(f[0]) <= Cardinality(f[n]) /\ n \in 0..n /\ 0 \in 0..n
    BY <1>8 DEF G
  <2>2. /\ Cardinality(f[0]) \in Nat /\ Cardinality(f[n]) \in Nat
        /\ Cardinality(L) \in Nat
    BY <1>2, <1>3, <2>1, FS_CardinalityType
  <2> QED
    BY <2>1, <2>2
<1>10. f[n] \in SUBSET L /\ step[f[n]] \in SUBSET L /\ f[n] \subseteq step[f[n]]
  BY <1>2
<1>11. Cardinality(f[n]) + 1 <= Cardinality(step[f[n]])
  BY <1>1, <1>5, <1>10
<1>12. Cardinality(step[f[n]]) <= Cardinality(L)
  BY <1>10, FS_Subset
<1>13. /\ Cardinality(f[n]) \in Nat /\ Cardinality(step[f[n]]) \in Nat
       /\ Cardinality(L) \in Nat
  BY <1>3, <1>10, FS_CardinalityType
<1> QED
  BY <1>9, <1>11, <1>12, <1>13

-----------------------------------------------------------------------------
(* Programs, their sites and their locations.                               *)

BlockRec ==
    [insns: Seq(Instruction), terminator: Terminator, raw: Instruction, predecessors: SUBSET Nat]

SiteCount(p, b) == BodyLen(p, b) + (IF has_raw_insn(p[b].terminator) THEN 1 ELSE 0)

LEMMA FunctionIsSeq ==
    ASSUME NEW S, NEW n \in Nat, NEW f \in [1..n -> S]
    PROVE  f \in Seq(S) /\ Len(f) = n /\ DOMAIN f = 1..n
OBVIOUS

LEMMA SeqIsFunction ==
    ASSUME NEW S, NEW s \in Seq(S)
    PROVE  /\ Len(s) \in Nat
           /\ DOMAIN s = 1..Len(s)
           /\ s \in [1..Len(s) -> S]
           /\ \A i \in 1..Len(s) : s[i] \in S
BY LenProperties, ElementOfSeq

LEMMA ProgramShape ==
    ASSUME NEW p \in Programs
    PROVE  /\ Len(p) \in Nat /\ Len(p) >= 1 /\ DOMAIN p = 1..Len(p)
           /\ \A b \in DOMAIN p : /\ p[b] \in BlockRec
                                  /\ BodyLen(p, b) \in Nat
                                  /\ DOMAIN p[b].insns = 1..BodyLen(p, b)
                                  /\ \A i \in 1..BodyLen(p, b) : p[b].insns[i] \in Instruction
<1>1. p \in Seq(BlockRec) /\ p # <<>>
  BY ProgramsAssumption DEF BlockRec
<1>2. Len(p) \in Nat /\ DOMAIN p = 1..Len(p) /\ \A b \in DOMAIN p : p[b] \in BlockRec
  BY <1>1, SeqIsFunction
<1>3. Len(p) # 0
  BY <1>1, EmptySeq
<1>4. ASSUME NEW b \in DOMAIN p
      PROVE  /\ BodyLen(p, b) \in Nat
             /\ DOMAIN p[b].insns = 1..BodyLen(p, b)
             /\ \A i \in 1..BodyLen(p, b) : p[b].insns[i] \in Instruction
  <2>1. p[b].insns \in Seq(Instruction)
    BY <1>2 DEF BlockRec
  <2> QED
    BY <2>1, SeqIsFunction DEF BodyLen
<1> QED
  BY <1>2, <1>3, <1>4

LEMMA TerminatorShape ==
    ASSUME NEW p \in Programs, NEW b \in DOMAIN p
    PROVE  LET t == p[b].terminator IN
           /\ t \in Terminator /\ p[b].raw \in Instruction
           /\ has_raw_insn(t) => p[b].raw.op = t.op
           /\ successors(t) \subseteq DOMAIN p
           /\ dataflow_successors(t) \subseteq DOMAIN p
           /\ t.op = "fall" => successors(t) = {t.next}
           /\ t.op = "end" => successors(t) = {}
           /\ t.op = "call" => t.to \in DOMAIN p /\ t.next \in DOMAIN p
<1> DEFINE t == p[b].terminator
<1>1. t \in Terminator /\ p[b].raw \in Instruction
  BY ProgramShape DEF BlockRec
<1>2. successors(t) \subseteq DOMAIN p
  BY ProgramsAssumption DEF EdgesOk
<1>3. /\ has_raw_insn(t) => p[b].raw.op = t.op
      /\ t.op \in {"fall", "call"} => t.next # None
      /\ t.op = "call" => t.to # None
      /\ t.op = "fall" => t.to = None
      /\ t.op = "end" => successors(t) = {}
  BY ProgramsAssumption
<1> HIDE DEF t
<1>4. t.op = "fall" => successors(t) = {t.next}
  BY <1>3 DEF successors
<1>5. t.op = "call" => t.to \in DOMAIN p /\ t.next \in DOMAIN p
  BY <1>2, <1>3 DEF successors
<1>6. dataflow_successors(t) \subseteq DOMAIN p
  BY <1>2, <1>5 DEF dataflow_successors
<1> QED
  BY <1>1, <1>2, <1>3, <1>4, <1>5, <1>6 DEF t

LEMMA SidecarShape ==
    ASSUME NEW p \in Programs, NEW b \in DOMAIN p, NEW i \in 1..BodyLen(p, b),
           p[b].insns[i].op = "side"
    PROVE  i < BodyLen(p, b) /\ p[b].insns[i + 1].op = "kcall"
<1>1. i \in DOMAIN p[b].insns
  BY ProgramShape
<1> QED
  BY <1>1, ProgramsAssumption

LEMMA BlockSites ==
    ASSUME NEW p \in Programs, NEW b \in DOMAIN p
    PROVE  /\ SiteCount(p, b) \in BodyLen(p, b)..(BodyLen(p, b) + 1)
           /\ Len(logical_sites_for_block(p, b)) = SiteCount(p, b)
           /\ DOMAIN logical_sites_for_block(p, b) = 1..SiteCount(p, b)
           /\ \A i \in 1..SiteCount(p, b) : logical_sites_for_block(p, b)[i] = <<b, i>>
           /\ logical_sites_for_block(p, b) = <<>> <=> SiteCount(p, b) = 0
<1> DEFINE m == SiteCount(p, b)
           q == [i \in 1..m |-> <<b, i>>]
           S == {<<b, i>> : i \in 1..m}
<1>1. BodyLen(p, b) \in Nat
  BY ProgramShape
<1>2. m \in BodyLen(p, b)..(BodyLen(p, b) + 1) /\ m \in Nat
  BY <1>1 DEF SiteCount
<1>3. logical_sites_for_block(p, b) = q
  BY DEF logical_sites_for_block, SiteCount
<1> HIDE DEF m
<1>4. q \in [1..m -> S]
  OBVIOUS
<1> HIDE DEF S
<1>5. q \in Seq(S)
  BY <1>2, <1>4
<1>6. Len(q) = m /\ DOMAIN q = 1..m /\ \A i \in 1..m : q[i] = <<b, i>>
  <2>1. DOMAIN q = 1..m
    OBVIOUS
  <2>2. DOMAIN q = 1..Len(q) /\ Len(q) \in Nat
    BY <1>5, LenProperties
  <2> QED
    BY <1>2, <2>1, <2>2
<1>7. q = <<>> <=> m = 0
  BY <1>5, <1>6, EmptySeq
<1> QED
  BY <1>2, <1>3, <1>6, <1>7 DEF m

LEMMA SiteIs ==
    ASSUME NEW p \in Programs
    PROVE  /\ \A s \in Sites(p) : /\ s = <<s[1], s[2]>> /\ s[1] \in DOMAIN p
                                  /\ s[2] \in 1..SiteCount(p, s[1])
           /\ \A b \in DOMAIN p : \A i \in 1..SiteCount(p, b) : <<b, i>> \in Sites(p)
<1>1. ASSUME NEW s \in Sites(p)
      PROVE  /\ s = <<s[1], s[2]>> /\ s[1] \in DOMAIN p
             /\ s[2] \in 1..SiteCount(p, s[1])
  <2>1. PICK b \in DOMAIN p : s \in ToSet(logical_sites_for_block(p, b))
    BY DEF Sites
  <2>2. PICK i \in DOMAIN logical_sites_for_block(p, b) : s = logical_sites_for_block(p, b)[i]
    BY <2>1 DEF ToSet
  <2>3. i \in 1..SiteCount(p, b) /\ s = <<b, i>>
    BY <2>2, BlockSites
  <2> QED
    BY <2>3
<1>2. ASSUME NEW b \in DOMAIN p, NEW i \in 1..SiteCount(p, b)
      PROVE  <<b, i>> \in Sites(p)
  <2>1. <<b, i>> \in ToSet(logical_sites_for_block(p, b))
    BY BlockSites DEF ToSet
  <2> QED
    BY <2>1 DEF Sites
<1> QED
  BY <1>1, <1>2

LEMMA LocationIs ==
    ASSUME NEW p \in Programs
    PROVE  /\ \A s \in Locations(p) : /\ s = <<s[1], s[2]>> /\ s[1] \in DOMAIN p
                                      /\ s[2] \in 1..(BodyLen(p, s[1]) + 1)
           /\ \A b \in DOMAIN p : \A i \in 1..(BodyLen(p, b) + 1) : <<b, i>> \in Locations(p)
           /\ Sites(p) \subseteq Locations(p)
<1>1. ASSUME NEW s \in Locations(p)
      PROVE  /\ s = <<s[1], s[2]>> /\ s[1] \in DOMAIN p
             /\ s[2] \in 1..(BodyLen(p, s[1]) + 1)
  <2>1. PICK b \in DOMAIN p : s \in {<<b, i>> : i \in 1..(BodyLen(p, b) + 1)}
    BY DEF Locations
  <2>2. PICK i \in 1..(BodyLen(p, b) + 1) : s = <<b, i>>
    BY <2>1
  <2> QED
    BY <2>2
<1>2. ASSUME NEW b \in DOMAIN p, NEW i \in 1..(BodyLen(p, b) + 1)
      PROVE  <<b, i>> \in Locations(p)
  <2>1. <<b, i>> \in {<<b, j>> : j \in 1..(BodyLen(p, b) + 1)}
    OBVIOUS
  <2> QED
    BY <2>1 DEF Locations
<1>3. ASSUME NEW s \in Sites(p) PROVE s \in Locations(p)
  <2>1. s = <<s[1], s[2]>> /\ s[1] \in DOMAIN p /\ s[2] \in 1..SiteCount(p, s[1])
    BY SiteIs
  <2>2. s[2] \in 1..(BodyLen(p, s[1]) + 1)
    BY <2>1, BlockSites, ProgramShape
  <2>3. <<s[1], s[2]>> \in Locations(p)
    BY <1>2, <2>1, <2>2
  <2> QED
    BY <2>1, <2>3
<1> QED
  BY <1>1, <1>2, <1>3

LEMMA LocationsFinite ==
    ASSUME NEW p \in Programs
    PROVE  IsFiniteSet(Locations(p)) /\ Cardinality(Locations(p)) \in Nat
<1> DEFINE Row(b) == {<<b, i>> : i \in 1..(BodyLen(p, b) + 1)}
           Rows == {Row(b) : b \in DOMAIN p}
<1>1. Len(p) \in Nat /\ DOMAIN p = 1..Len(p)
  BY ProgramShape
<1>2. ASSUME NEW b \in DOMAIN p PROVE IsFiniteSet(Row(b))
  <2> DEFINE m == BodyLen(p, b) + 1
             f == [i \in 1..m |-> <<b, i>>]
  <2>1. m \in Nat
    BY ProgramShape
  <2>2. IsFiniteSet(1..m)
    BY <2>1, FS_Interval
  <2> HIDE DEF m
  <2>3. f \in Surjection(1..m, Row(b))
    BY DEF Surjection, m
  <2> QED
    BY <2>2, <2>3, FS_Surjection
<1>3. IsFiniteSet(Rows)
  <2> DEFINE f == [b \in DOMAIN p |-> Row(b)]
  <2>1. IsFiniteSet(DOMAIN p)
    BY <1>1, FS_Interval
  <2>2. f \in Surjection(DOMAIN p, Rows)
    BY DEF Surjection
  <2> QED
    BY <2>1, <2>2, FS_Surjection
<1>4. \A R \in Rows : IsFiniteSet(R)
  BY <1>2
<1>5. Locations(p) = UNION Rows
  BY DEF Locations
<1> HIDE DEF Rows
<1> QED
  BY <1>3, <1>4, <1>5, FS_UNION, FS_CardinalityType

LEMMA EdgesAreLocations ==
    ASSUME NEW p \in Programs, NEW s \in Locations(p)
    PROVE  LocationEdges(p, s) \subseteq Locations(p)
<1>1. s[1] \in DOMAIN p /\ s[2] \in 1..(BodyLen(p, s[1]) + 1) /\ BodyLen(p, s[1]) \in Nat
  BY LocationIs, ProgramShape
<1>2. CASE s[2] <= BodyLen(p, s[1])
  <2>1. s[2] + 1 \in 1..(BodyLen(p, s[1]) + 1)
    BY <1>1, <1>2
  <2> QED
    BY <1>1, <1>2, <2>1, LocationIs DEF LocationEdges
<1>3. CASE ~(s[2] <= BodyLen(p, s[1]))
  <2>1. ASSUME NEW b \in dataflow_successors(p[s[1]].terminator)
        PROVE  <<b, 1>> \in Locations(p)
    <3>1. b \in DOMAIN p
      BY <1>1, TerminatorShape
    <3>2. 1 \in 1..(BodyLen(p, b) + 1)
      BY <3>1, ProgramShape
    <3> QED
      BY <3>1, <3>2, LocationIs
  <2> QED
    BY <1>3, <2>1 DEF LocationEdges
<1> QED
  BY <1>2, <1>3

-----------------------------------------------------------------------------
(* ClearReach is the least set of locations that contains S and is closed   *)
(* under the edges of the locations that do not write r.                    *)

Closed(p, ds, X, r) == \A s \in X : ~Writes(ds, s, r) => LocationEdges(p, s) \subseteq X

LEMMA ClearReachIs ==
    ASSUME NEW p \in Programs, NEW ds, NEW S \in SUBSET Locations(p), NEW r
    PROVE  /\ S \subseteq ClearReach(p, ds, S, r)
           /\ ClearReach(p, ds, S, r) \subseteq Locations(p)
           /\ Closed(p, ds, ClearReach(p, ds, S, r), r)
           /\ \A X : S \subseteq X /\ Closed(p, ds, X, r) => ClearReach(p, ds, S, r) \subseteq X
<1> DEFINE L == Locations(p)
           n == Cardinality(L)
           step == [X \in SUBSET L |-> ClearStep(p, ds, X, r)]
           reach[k \in 0..n] == IF k = 0 THEN S ELSE ClearStep(p, ds, reach[k - 1], r)
<1>1. IsFiniteSet(L) /\ n \in Nat
  BY LocationsFinite
<1>2. ClearReach(p, ds, S, r) = reach[n]
  BY DEF ClearReach
<1>3. ASSUME NEW X \in SUBSET L PROVE ClearStep(p, ds, X, r) \in SUBSET L /\ X \subseteq ClearStep(p, ds, X, r)
  <2>1. \A s \in X : LocationEdges(p, s) \subseteq L
    BY EdgesAreLocations
  <2> QED
    BY <2>1 DEF ClearStep
<1>4. step \in [SUBSET L -> SUBSET L] /\ \A X \in SUBSET L : step[X] = ClearStep(p, ds, X, r)
  BY <1>3
<1> HIDE DEF L, n, step, reach
<1>5. PICK f \in [0..n -> SUBSET L] : f[0] = S /\ \A k \in 1..n : f[k] = step[f[k - 1]]
  <2>1. Iterable(SUBSET L, step, S, n)
    BY <1>1, <1>4 DEF L, Iterable
  <2>2. \E f : Lists(f, SUBSET L, step, S, n)
    BY <2>1, Iterates
  <2> QED
    BY <2>2 DEF Lists
<1>6. f = [k \in 0..n |-> IF k = 0 THEN S ELSE ClearStep(p, ds, f[k - 1], r)]
  <2>1. ASSUME NEW k \in 0..n PROVE f[k] = IF k = 0 THEN S ELSE ClearStep(p, ds, f[k - 1], r)
    <3>1. CASE k = 0
      BY <1>5, <3>1
    <3>2. CASE k # 0
      <4>1. k \in 1..n /\ k - 1 \in 0..n
        BY <1>1, <3>2
      <4>2. f[k - 1] \in SUBSET L
        BY <1>5, <4>1
      <4> QED
        BY <1>4, <1>5, <3>2, <4>1, <4>2
    <3> QED
      BY <3>1, <3>2
  <2> QED
    BY <1>5, <2>1
<1>7. reach = [k \in 0..n |-> IF k = 0 THEN S ELSE ClearStep(p, ds, reach[k - 1], r)]
  BY <1>6 DEF reach
<1>8. reach[0] = S /\ \A k \in 1..n : reach[k] = ClearStep(p, ds, reach[k - 1], r)
  <2>1. \A k \in 0..n : reach[k] = IF k = 0 THEN S ELSE ClearStep(p, ds, reach[k - 1], r)
    BY <1>7
  <2>2. 0 \in 0..n /\ \A k \in 1..n : k \in 0..n /\ k # 0
    BY <1>1
  <2> QED
    BY <2>1, <2>2
<1>9. \A k \in 0..n : reach[k] \in SUBSET L
  <2> DEFINE T == {k \in 0..n : reach[k] \in SUBSET L}
  <2>1. 0 \in T
    BY <1>1, <1>8 DEF L
  <2>2. ASSUME NEW k \in 1..n, k - 1 \in T PROVE k \in T
    BY <1>1, <1>3, <1>8, <2>2
  <2> HIDE DEF T
  <2>3. \A k \in 0..n : k \in T
    BY <1>1, <2>1, <2>2, CountUp
  <2> QED
    BY <2>3 DEF T
<1>10. step[reach[n]] = reach[n]
  <2>1. \A k \in 1..n : reach[k] = step[reach[k - 1]]
    <3> SUFFICES ASSUME NEW k \in 1..n PROVE reach[k] = step[reach[k - 1]]
      OBVIOUS
    <3>1. k - 1 \in 0..n
      BY <1>1
    <3> QED
      BY <1>4, <1>8, <1>9, <3>1
  <2>2. Lists(reach, SUBSET L, step, S, n)
    BY <1>7, <1>8, <1>9, <2>1 DEF Lists
  <2>3. \A X \in SUBSET L : X \subseteq step[X]
    BY <1>3, <1>4
  <2>4. Cardinality(L) <= n + Cardinality(S)
    <3>1. IsFiniteSet(S)
      BY <1>1, FS_Subset DEF L
    <3>2. Cardinality(S) \in Nat /\ Cardinality(L) = n
      BY <3>1, FS_CardinalityType DEF n
    <3> QED
      BY <1>1, <3>2
  <2>5. Growing(reach, L, step, S, n)
    BY <1>1, <1>4, <2>2, <2>3, <2>4 DEF Growing
  <2> QED
    BY <2>5, Saturates
<1>11. n \in 0..n
  BY <1>1
<1>12. S \subseteq reach[n]
  <2> DEFINE T == {k \in 0..n : S \subseteq reach[k]}
  <2>1. 0 \in T
    BY <1>1, <1>8
  <2>2. ASSUME NEW k \in 1..n, k - 1 \in T PROVE k \in T
    <3>1. reach[k - 1] \in SUBSET L /\ S \subseteq reach[k - 1] /\ k \in 0..n
      BY <1>1, <1>9, <2>2
    <3> QED
      BY <1>3, <1>8, <3>1
  <2> HIDE DEF T
  <2>3. \A k \in 0..n : k \in T
    BY <1>1, <2>1, <2>2, CountUp
  <2> QED
    BY <1>11, <2>3 DEF T
<1>13. Closed(p, ds, reach[n], r)
  <2>1. ClearStep(p, ds, reach[n], r) = reach[n]
    BY <1>4, <1>9, <1>10, <1>11
  <2> QED
    BY <2>1 DEF ClearStep, Closed
<1>14. ASSUME NEW X, S \subseteq X, Closed(p, ds, X, r) PROVE reach[n] \subseteq X
  <2> DEFINE T == {k \in 0..n : reach[k] \subseteq X}
  <2>1. 0 \in T
    BY <1>1, <1>8, <1>14
  <2>2. ASSUME NEW k \in 1..n, k - 1 \in T PROVE k \in T
    <3>1. reach[k - 1] \subseteq X /\ k \in 0..n
      BY <1>1, <2>2
    <3>2. ClearStep(p, ds, reach[k - 1], r) \subseteq X
      BY <1>14, <3>1 DEF ClearStep, Closed
    <3> QED
      BY <1>8, <3>1, <3>2
  <2> HIDE DEF T
  <2>3. \A k \in 0..n : k \in T
    BY <1>1, <2>1, <2>2, CountUp
  <2> QED
    BY <1>11, <2>3 DEF T
<1> QED
  BY <1>2, <1>9, <1>11, <1>12, <1>13, <1>14 DEF L

-----------------------------------------------------------------------------
(* Reaching definitions inside a block.                                     *)

LEMMA MaxIs ==
    ASSUME NEW n \in Nat, NEW D \in SUBSET (1..n), D # {}
    PROVE  Max(D) \in D /\ \A y \in D : y <= Max(D)
<1> DEFINE S == {n - x : x \in D}
<1>1. S \in SUBSET Nat /\ S # {}
  <2>1. \A x \in D : n - x \in Nat
    OBVIOUS
  <2> QED
    BY <2>1, Zenon
<1>2. PICK m \in S : \A y \in S : m <= y
  BY <1>1, Least
<1>3. PICK x \in D : m = n - x
  BY <1>2
<1>4. \A y \in D : n - y \in S
  OBVIOUS
<1> HIDE DEF S
<1>5. ASSUME NEW y \in D PROVE x >= y
  <2>1. n - x <= n - y
    BY <1>2, <1>3, <1>4
  <2>2. x \in 1..n /\ y \in 1..n
    OBVIOUS
  <2> QED
    BY <2>1, <2>2
<1>6. Max(D) \in D /\ \A y \in D : Max(D) >= y
  BY <1>5 DEF Max
<1>7. \A y \in D : y \in 1..n
  OBVIOUS
<1> QED
  BY <1>6, <1>7

LEMMA StateFirst ==
    ASSUME NEW ds, NEW b, NEW input, NEW r \in Regs
    PROVE  StateAt(ds, b, 1, input)[r] = input[r]
<1>1. {j \in 1..(1 - 1) : r \in ds[<<b, j>>]} = {}
  OBVIOUS
<1> QED
  BY <1>1 DEF StateAt

LEMMA StateNext ==
    ASSUME NEW ds, NEW b, NEW i \in Nat, i >= 1, NEW k, k = i + 1, NEW input, NEW r \in Regs
    PROVE  StateAt(ds, b, k, input)[r]
             = IF r \in ds[<<b, i>>] THEN {<<b, i, r>>} ELSE StateAt(ds, b, i, input)[r]
<1> DEFINE D == {j \in 1..(i - 1) : r \in ds[<<b, j>>]}
           E == {j \in 1..i : r \in ds[<<b, j>>]}
<1>1. StateAt(ds, b, i, input)[r] = IF D = {} THEN input[r] ELSE {<<b, Max(D), r>>}
  BY DEF StateAt
<1>2. StateAt(ds, b, k, input)[r] = IF E = {} THEN input[r] ELSE {<<b, Max(E), r>>}
  <2>1. k - 1 = i
    OBVIOUS
  <2> QED
    BY <2>1 DEF StateAt
<1>3. CASE r \in ds[<<b, i>>]
  <2>1. i \in E /\ E \in SUBSET (1..i)
    BY <1>3
  <2> HIDE DEF E
  <2>2. Max(E) \in E /\ i <= Max(E)
    BY <2>1, MaxIs
  <2>3. Max(E) \in 1..i
    BY <2>1, <2>2
  <2>4. Max(E) = i
    BY <2>2, <2>3
  <2> QED
    BY <1>2, <1>3, <2>1, <2>4
<1>4. CASE r \notin ds[<<b, i>>]
  <2>1. E = D
    BY <1>4
  <2> QED
    BY <1>1, <1>2, <1>4, <2>1
<1> QED
  BY <1>3, <1>4

(* b is a block of the program p, whose sites write the registers ds.       *)
InBlock(p, ds, b) == p \in Programs /\ b \in DOMAIN p /\ DOMAIN ds = Sites(p)

(* Where control is after the last site of a block.                         *)
LEMMA OutOfBlock ==
    ASSUME NEW p, NEW ds, NEW b, InBlock(p, ds, b), NEW i, i = BodyLen(p, b) + 1
    PROVE  /\ \A input : \A r \in Regs :
                /\ Writes(ds, <<b, i>>, r) => process_block_state(p, ds, b, input)[r] = {<<b, i, r>>}
                /\ ~Writes(ds, <<b, i>>, r) =>
                     process_block_state(p, ds, b, input)[r] = StateAt(ds, b, i, input)[r]
           /\ \A c \in dataflow_successors(p[b].terminator) : <<c, 1>> \in LocationEdges(p, <<b, i>>)
           /\ <<b, i>> \in Sites(p) <=> has_raw_insn(p[b].terminator)
<1>0. p \in Programs /\ b \in DOMAIN p /\ DOMAIN ds = Sites(p)
  BY DEF InBlock
<1> USE <1>0
<1> DEFINE m == BodyLen(p, b)
<1>1. m \in Nat /\ Len(logical_sites_for_block(p, b)) = SiteCount(p, b)
  BY ProgramShape, BlockSites
<1>2. \A input : process_block_state(p, ds, b, input) = StateAt(ds, b, SiteCount(p, b) + 1, input)
  BY <1>1 DEF process_block_state
<1>3. \A c \in dataflow_successors(p[b].terminator) : <<c, 1>> \in LocationEdges(p, <<b, m + 1>>)
  BY <1>1 DEF LocationEdges
<1>4. SiteCount(p, b) = IF has_raw_insn(p[b].terminator) THEN m + 1 ELSE m
  BY <1>1 DEF SiteCount
<1> HIDE DEF m
<1>5. CASE has_raw_insn(p[b].terminator)
  <2>1. <<b, m + 1>> \in Sites(p)
    <3>1. m + 1 \in 1..SiteCount(p, b)
      BY <1>1, <1>4, <1>5
    <3> QED
      BY <3>1, SiteIs
  <2>2. \A input : process_block_state(p, ds, b, input) = StateAt(ds, b, (m + 1) + 1, input)
    BY <1>2, <1>4, <1>5
  <2>3. ASSUME NEW input, NEW r \in Regs
        PROVE  StateAt(ds, b, (m + 1) + 1, input)[r]
          = IF r \in ds[<<b, m + 1>>] THEN {<<b, m + 1, r>>} ELSE StateAt(ds, b, m + 1, input)[r]
    <3>1. m + 1 \in Nat /\ m + 1 >= 1
      BY <1>1
    <3> QED
      BY <3>1, StateNext
  <2>4. \A r : Writes(ds, <<b, m + 1>>, r) <=> r \in ds[<<b, m + 1>>]
    BY <2>1 DEF Writes
  <2> QED
    BY <1>3, <1>5, <2>1, <2>2, <2>3, <2>4 DEF m
<1>6. CASE ~has_raw_insn(p[b].terminator)
  <2>1. <<b, m + 1>> \notin Sites(p)
    <3>1. SUFFICES ASSUME <<b, m + 1>> \in Sites(p) PROVE FALSE
      OBVIOUS
    <3>2. <<b, m + 1>>[2] \in 1..SiteCount(p, <<b, m + 1>>[1])
      BY <3>1, SiteIs
    <3>3. m + 1 \in 1..m
      BY <1>4, <1>6, <3>2
    <3> QED
      BY <1>1, <3>3
  <2>2. \A r : ~Writes(ds, <<b, m + 1>>, r)
    BY <2>1 DEF Writes
  <2>3. \A input : process_block_state(p, ds, b, input) = StateAt(ds, b, m + 1, input)
    BY <1>2, <1>4, <1>6
  <2> QED
    BY <1>3, <1>6, <2>1, <2>2, <2>3 DEF m
<1> QED
  BY <1>5, <1>6

LEMMA InsideBlock ==
    ASSUME NEW p, NEW ds, NEW b, InBlock(p, ds, b), NEW i \in 1..BodyLen(p, b)
    PROVE  /\ \A input : \A r \in Regs :
                /\ Writes(ds, <<b, i>>, r) => StateAt(ds, b, i + 1, input)[r] = {<<b, i, r>>}
                /\ ~Writes(ds, <<b, i>>, r) =>
                     StateAt(ds, b, i + 1, input)[r] = StateAt(ds, b, i, input)[r]
           /\ LocationEdges(p, <<b, i>>) = {<<b, i + 1>>}
           /\ <<b, i>> \in Sites(p)
<1>0. p \in Programs /\ b \in DOMAIN p /\ DOMAIN ds = Sites(p)
  BY DEF InBlock
<1> USE <1>0
<1>1. BodyLen(p, b) \in Nat /\ SiteCount(p, b) \in BodyLen(p, b)..(BodyLen(p, b) + 1)
  BY ProgramShape, BlockSites
<1>2. i \in 1..SiteCount(p, b) /\ i \in Nat /\ i >= 1 /\ i <= BodyLen(p, b)
  BY <1>1
<1>3. <<b, i>> \in Sites(p)
  BY <1>2, SiteIs
<1>4. \A r : Writes(ds, <<b, i>>, r) <=> r \in ds[<<b, i>>]
  BY <1>3 DEF Writes
<1>5. LocationEdges(p, <<b, i>>) = {<<b, i + 1>>}
  BY <1>2 DEF LocationEdges
<1>6. ASSUME NEW input, NEW r \in Regs
      PROVE  StateAt(ds, b, i + 1, input)[r]
               = IF r \in ds[<<b, i>>] THEN {<<b, i, r>>} ELSE StateAt(ds, b, i, input)[r]
  BY <1>2, StateNext
<1> QED
  BY <1>3, <1>4, <1>5, <1>6

-----------------------------------------------------------------------------
(* Every definition the analysis lets reach a location does reach it on a   *)
(* path that does not write its register.                                   *)

Witness(p, ds, d, s, r) ==
    /\ d = <<d[1], d[2], r>>
    /\ <<d[1], d[2]>> \in Sites(p)
    /\ s \in ClearReach(p, ds, LocationEdges(p, <<d[1], d[2]>>), r)

Witnessed(p, ds, b, input) ==
    \A r \in Regs : \A d \in input[r] : Witness(p, ds, d, <<b, 1>>, r)

LEMMA WitnessStart ==
    ASSUME NEW p \in Programs, NEW ds, NEW b, NEW i, NEW r, <<b, i>> \in Sites(p),
           NEW t \in LocationEdges(p, <<b, i>>)
    PROVE  Witness(p, ds, <<b, i, r>>, t, r)
<1>1. LocationEdges(p, <<b, i>>) \in SUBSET Locations(p)
  BY LocationIs, EdgesAreLocations
<1>2. t \in ClearReach(p, ds, LocationEdges(p, <<b, i>>), r)
  BY <1>1, ClearReachIs
<1> QED
  BY <1>2 DEF Witness

LEMMA WitnessStep ==
    ASSUME NEW p \in Programs, NEW ds, NEW d, NEW s, NEW r, Witness(p, ds, d, s, r), ~Writes(ds, s, r),
           NEW t \in LocationEdges(p, s)
    PROVE  Witness(p, ds, d, t, r)
<1> DEFINE S == LocationEdges(p, <<d[1], d[2]>>)
<1>1. /\ d = <<d[1], d[2], r>> /\ <<d[1], d[2]>> \in Sites(p) /\ s \in ClearReach(p, ds, S, r)
  BY DEF Witness
<1>2. S \in SUBSET Locations(p)
  BY <1>1, LocationIs, EdgesAreLocations
<1> HIDE DEF S
<1>3. Closed(p, ds, ClearReach(p, ds, S, r), r)
  BY <1>2, ClearReachIs
<1>4. t \in ClearReach(p, ds, S, r)
  BY <1>1, <1>3 DEF Closed
<1> QED
  BY <1>1, <1>4 DEF Witness, S

LEMMA StateWitnessed ==
    ASSUME NEW p \in Programs, NEW ds, NEW b \in DOMAIN p, NEW input, DOMAIN ds = Sites(p),
           Witnessed(p, ds, b, input)
    PROVE  \A i \in 1..(BodyLen(p, b) + 1) : \A r \in Regs :
              \A d \in StateAt(ds, b, i, input)[r] : Witness(p, ds, d, <<b, i>>, r)
<1> DEFINE m == BodyLen(p, b)
           Ok(i) == \A r \in Regs : \A d \in StateAt(ds, b, i, input)[r] : Witness(p, ds, d, <<b, i>>, r)
           T == {k \in 0..m : Ok(k + 1)}
<1>1. m \in Nat
  BY ProgramShape
<1>2. 0 \in T
  <2>1. Ok(1)
    BY StateFirst DEF Witnessed
  <2> HIDE DEF Ok
  <2> QED
    BY <1>1, <2>1
<1>3. ASSUME NEW k \in 1..m, k - 1 \in T PROVE k \in T
  <2>1. Ok(k)
    <3>1. (k - 1) + 1 = k
      BY <1>1
    <3> HIDE DEF Ok
    <3> QED
      BY <1>3, <3>1
  <2>2. ASSUME NEW r \in Regs, NEW d \in StateAt(ds, b, k + 1, input)[r]
        PROVE  Witness(p, ds, d, <<b, k + 1>>, r)
    <3>1. /\ StateAt(ds, b, k + 1, input)[r]
               = IF Writes(ds, <<b, k>>, r) THEN {<<b, k, r>>} ELSE StateAt(ds, b, k, input)[r]
          /\ LocationEdges(p, <<b, k>>) = {<<b, k + 1>>}
          /\ <<b, k>> \in Sites(p)
      <4>1. InBlock(p, ds, b)
        BY DEF InBlock
      <4> QED
        BY <4>1, InsideBlock
    <3>2. <<b, k + 1>> \in LocationEdges(p, <<b, k>>)
      BY <3>1
    <3>3. CASE Writes(ds, <<b, k>>, r)
      <4>1. d = <<b, k, r>>
        BY <3>1, <3>3
      <4> QED
        BY <3>1, <3>2, <4>1, WitnessStart
    <3>4. CASE ~Writes(ds, <<b, k>>, r)
      <4>1. Witness(p, ds, d, <<b, k>>, r)
        BY <2>1, <3>1, <3>4
      <4> QED
        BY <3>2, <3>4, <4>1, WitnessStep
    <3> QED
      BY <3>3, <3>4
  <2>3. Ok(k + 1)
    BY <2>2
  <2> HIDE DEF Ok
  <2> QED
    BY <1>1, <2>3
<1> HIDE DEF T
<1>4. \A k \in 0..m : k \in T
  BY <1>1, <1>2, <1>3, CountUp
<1>5. ASSUME NEW i \in 1..(m + 1) PROVE Ok(i)
  <2>1. i - 1 \in 0..m /\ (i - 1) + 1 = i
    BY <1>1
  <2> HIDE DEF Ok
  <2> QED
    BY <1>4, <2>1 DEF T
<1> QED
  BY <1>5

LEMMA SweepWitnessed ==
    ASSUME NEW p \in Programs, NEW ds, NEW ins, DOMAIN ds = Sites(p),
           \A b \in DOMAIN p : Witnessed(p, ds, b, ins[b])
    PROVE  \A b \in DOMAIN p : Witnessed(p, ds, b, ReachingSweep(p, ds, ins)[b])
<1> SUFFICES ASSUME NEW c \in DOMAIN p, NEW r \in Regs, NEW d \in ReachingSweep(p, ds, ins)[c][r]
             PROVE  Witness(p, ds, d, <<c, 1>>, r)
  BY DEF Witnessed
<1> DEFINE From == {b \in DOMAIN p : c \in dataflow_successors(p[b].terminator)}
           outs == {process_block_state(p, ds, b, ins[b]) : b \in From}
<1>1. ReachingSweep(p, ds, ins)[c][r] = ins[c][r] \cup UNION {src[r] : src \in outs}
  BY DEF ReachingSweep, merge_state
<1>2. CASE d \in ins[c][r]
  BY <1>2 DEF Witnessed
<1>3. CASE d \notin ins[c][r]
  <2>1. PICK b \in From : d \in process_block_state(p, ds, b, ins[b])[r]
    BY <1>1, <1>3
  <2>a. b \in DOMAIN p /\ c \in dataflow_successors(p[b].terminator)
    BY <2>1
  <2> HIDE DEF From
  <2> DEFINE i == BodyLen(p, b) + 1
  <2>2. /\ process_block_state(p, ds, b, ins[b])[r]
             = IF Writes(ds, <<b, i>>, r) THEN {<<b, i, r>>} ELSE StateAt(ds, b, i, ins[b])[r]
        /\ \A e \in dataflow_successors(p[b].terminator) : <<e, 1>> \in LocationEdges(p, <<b, i>>)
        /\ <<b, i>> \in Sites(p) <=> has_raw_insn(p[b].terminator)
    <3>1. InBlock(p, ds, b)
      BY <2>a DEF InBlock
    <3>2. \A input : \A x \in Regs :
             /\ Writes(ds, <<b, i>>, x) => process_block_state(p, ds, b, input)[x] = {<<b, i, x>>}
             /\ ~Writes(ds, <<b, i>>, x) =>
                  process_block_state(p, ds, b, input)[x] = StateAt(ds, b, i, input)[x]
      BY <3>1, OutOfBlock
    <3>3. \A e \in dataflow_successors(p[b].terminator) : <<e, 1>> \in LocationEdges(p, <<b, i>>)
      BY <3>1, OutOfBlock
    <3>4. <<b, i>> \in Sites(p) <=> has_raw_insn(p[b].terminator)
      BY <3>1, OutOfBlock
    <3> QED
      BY <3>2, <3>3, <3>4
  <2>3. <<c, 1>> \in LocationEdges(p, <<b, i>>)
    BY <2>a, <2>2
  <2>4. i \in 1..(BodyLen(p, b) + 1)
    BY <2>a, ProgramShape
  <2> HIDE DEF i
  <2>5. CASE Writes(ds, <<b, i>>, r)
    <3>1. d = <<b, i, r>> /\ <<b, i>> \in Sites(p)
      BY <2>1, <2>2, <2>5 DEF Writes
    <3> QED
      BY <2>3, <3>1, WitnessStart
  <2>6. CASE ~Writes(ds, <<b, i>>, r)
    <3>1. d \in StateAt(ds, b, i, ins[b])[r]
      BY <2>1, <2>2, <2>6
    <3>2. Witness(p, ds, d, <<b, i>>, r)
      BY <2>a, <2>4, <3>1, StateWitnessed
    <3> QED
      BY <2>3, <2>6, <3>2, WitnessStep
  <2> QED
    BY <2>5, <2>6
<1> QED
  BY <1>2, <1>3

-----------------------------------------------------------------------------
(* The registers the analysis sees an instruction read and write against    *)
(* those the machine reads and writes.                                      *)

Populated(p) ==
    /\ uses = [s \in Sites(p) |-> populate_site_use_def(p, s).uses]
    /\ defs = [s \in Sites(p) |-> populate_site_use_def(p, s).defs]

LEMMA PairCovers ==
    ASSUME NEW x \in Instruction, x.op \notin {"kcall", "side"}
    PROVE  /\ MachineReads(x) \subseteq insn_use_def_pair(x).uses
           /\ MachineReads(x) \subseteq Regs
           /\ insn_use_def_pair(x).defs \subseteq MachineWrites(x)
           /\ x.op # "fetch" => MachineWrites(x) = insn_use_def_pair(x).defs
<1>1. /\ x.op \in InsnOps /\ x.dst \in Regs
      /\ SrcRegs(x) \subseteq Regs /\ (x.src # K => SrcRegs(x) = {x.src})
      /\ 0 \in Regs
  BY DataFlowAssumption DEF Instruction, SrcRegs
<1>2. CASE x.op \in MovOps
  BY <1>1, <1>2 DEF MovOps, AluOps, insn_use_def_pair, MachineReads, MachineWrites
<1>3. CASE x.op \in AluOps \ MovOps
  BY <1>1, <1>3 DEF MovOps, AluOps, insn_use_def_pair, MachineReads, MachineWrites
<1>4. CASE x.op = "ldx"
  <2>1. SrcRegs(x) \subseteq {x.src}
    BY DEF SrcRegs
  <2> QED
    BY <1>1, <1>4, <2>1 DEF MovOps, AluOps, insn_use_def_pair, MachineReads, MachineWrites
<1>5. CASE x.op \in {"st", "stx", "fetch"}
  BY <1>1, <1>5 DEF MovOps, AluOps, insn_use_def_pair, MachineReads, MachineWrites
<1>6. CASE x.op = "call"
  BY <1>1, <1>6 DEF MovOps, AluOps, insn_use_def_pair, MachineReads, MachineWrites
<1>7. CASE x.op = "exit"
  BY <1>1, <1>7 DEF MovOps, AluOps, insn_use_def_pair, MachineReads, MachineWrites
<1>8. CASE x.op \in {"ja", "jcc"}
  BY <1>1, <1>8 DEF MovOps, AluOps, insn_use_def_pair, MachineReads, MachineWrites
<1>9. CASE x.op \in {"ldimm64", "ld"}
  BY <1>1, <1>9 DEF MovOps, AluOps, insn_use_def_pair, MachineReads, MachineWrites
<1> QED
  BY <1>1, <1>2, <1>3, <1>4, <1>5, <1>6, <1>7, <1>8, <1>9 DEF InsnOps

LEMMA InsnAtSite ==
    ASSUME NEW p \in Programs, NEW s \in Sites(p)
    PROVE  /\ insn_at(p, s) \in Instruction
           /\ insn_at(p, s).op = "side" => IsSidecarOfCall(p, s)
           /\ s[2] > BodyLen(p, s[1]) => insn_at(p, s).op = p[s[1]].terminator.op
<1>1. s = <<s[1], s[2]>> /\ s[1] \in DOMAIN p /\ s[2] \in 1..SiteCount(p, s[1])
  BY SiteIs
<1>2. BodyLen(p, s[1]) \in Nat
  BY <1>1, ProgramShape
<1>3. CASE s[2] <= BodyLen(p, s[1])
  <2>1. insn_at(p, s) = p[s[1]].insns[s[2]] /\ s[2] \in 1..BodyLen(p, s[1])
    BY <1>1, <1>2, <1>3 DEF insn_at
  <2>2. insn_at(p, s) \in Instruction
    BY <1>1, <2>1, ProgramShape
  <2>3. ASSUME insn_at(p, s).op = "side" PROVE IsSidecarOfCall(p, s)
    <3>1. s[2] < BodyLen(p, s[1]) /\ p[s[1]].insns[s[2] + 1].op = "kcall"
      BY <1>1, <2>1, <2>3, SidecarShape
    <3>2. s[2] + 1 <= BodyLen(p, s[1])
      BY <1>1, <1>2, <3>1
    <3>3. insn_at(p, <<s[1], s[2] + 1>>) = p[s[1]].insns[s[2] + 1]
      BY <3>2 DEF insn_at
    <3> QED
      BY <2>3, <3>1, <3>3 DEF IsSidecarOfCall, PackedAt
  <2>4. ~(s[2] > BodyLen(p, s[1]))
    BY <1>2, <2>1
  <2> QED
    BY <2>2, <2>3, <2>4
<1>4. CASE ~(s[2] <= BodyLen(p, s[1]))
  <2>1. insn_at(p, s) = p[s[1]].raw
    BY <1>4 DEF insn_at
  <2>2. has_raw_insn(p[s[1]].terminator)
    BY <1>1, <1>2, <1>4 DEF SiteCount
  <2>3. p[s[1]].raw \in Instruction /\ p[s[1]].raw.op = p[s[1]].terminator.op
    BY <1>1, <2>2, TerminatorShape
  <2>4. p[s[1]].terminator.op \in {"ja", "jcc", "call", "exit"}
    BY <2>2 DEF has_raw_insn, TermOps
  <2> QED
    BY <2>1, <2>3, <2>4
<1> QED
  BY <1>3, <1>4

LEMMA ReadsAndWrites ==
    ASSUME NEW p \in Programs, NEW s \in Sites(p), Populated(p), PopulateOk(p)
    PROVE  LET x == insn_at(p, s) IN
           /\ MachineReads(x) \subseteq uses[s] \cap Regs
           /\ defs[s] \subseteq MachineWrites(x)
           /\ x.op # "fetch" => defs[s] = MachineWrites(x)
<1> DEFINE x == insn_at(p, s)
<1>1. x \in Instruction /\ (x.op = "side" => IsSidecarOfCall(p, s))
  BY InsnAtSite
<1>2. uses[s] = populate_site_use_def(p, s).uses /\ defs[s] = populate_site_use_def(p, s).defs
  BY DEF Populated
<1>3. CASE x.op = "kcall"
  <2>1. uses[s] = x.uses /\ defs[s] = x.defs
    BY <1>2, <1>3 DEF populate_site_use_def, PackedAt
  <2>2. x.uses \subseteq Regs
    <3>1. x.uses \subseteq 0..10
      BY <1>3 DEF PopulateOk, PackedAt
    <3>2. x.uses \subseteq OperandRegs
      BY <1>1 DEF Instruction
    <3> QED
      BY <3>1, <3>2 DEF OperandRegs
  <2>3. MachineReads(x) = x.uses /\ MachineWrites(x) = x.defs
    BY <1>3 DEF MachineReads, MachineWrites, MovOps, AluOps
  <2> QED
    BY <2>1, <2>2, <2>3
<1>4. CASE x.op = "side"
  <2>1. uses[s] = {} /\ defs[s] = {}
    BY <1>1, <1>2, <1>4 DEF populate_site_use_def, PackedAt
  <2>2. MachineReads(x) = {} /\ MachineWrites(x) = {}
    BY <1>4 DEF MachineReads, MachineWrites, MovOps, AluOps
  <2> QED
    BY <2>1, <2>2
<1>5. CASE x.op \notin {"kcall", "side"}
  <2>1. uses[s] = insn_use_def_pair(x).uses /\ defs[s] = insn_use_def_pair(x).defs
    BY <1>2, <1>5 DEF populate_site_use_def, PackedAt, IsSidecarOfCall
  <2> HIDE DEF x
  <2> QED
    BY <1>1, <1>5, <2>1, PairCovers DEF x
<1> QED
  BY <1>3, <1>4, <1>5

-----------------------------------------------------------------------------
(* The machine's frames.                                                    *)

(* A sequence, of whatever it holds.                                        *)
IsSeq(q) == q \in Seq({q[k] : k \in DOMAIN q})

LEMMA AnySeq ==
    ASSUME NEW S, NEW q \in Seq(S)
    PROVE  IsSeq(q)
<1>1. Len(q) \in Nat /\ DOMAIN q = 1..Len(q) /\ q \in [1..Len(q) -> S]
  BY SeqIsFunction
<1>2. q \in [1..Len(q) -> {q[k] : k \in DOMAIN q}]
  BY <1>1
<1> QED
  BY <1>1, <1>2, FunctionIsSeq DEF IsSeq

AtCall(p, f) == f.at[2] = BodyLen(p, f.at[1]) + 1 /\ p[f.at[1]].terminator.op = "call"

(* The program, the phases of its analysis, and the machine's stack: every  *)
(* frame but the innermost stands at the call it waits for.                 *)
BaseInv ==
    /\ prog \in Programs
    /\ phase \in {"populate", "failed", "reach", "live", "run"}
    /\ phase \in {"reach", "live", "run"} => Populated(prog) /\ PopulateOk(prog)
    /\ phase # "run" => frames = <<>>
    /\ IsSeq(frames)
    /\ \A k \in DOMAIN frames : frames[k].at \in Locations(prog)
    /\ \A k \in DOMAIN frames : k < Len(frames) => AtCall(prog, frames[k])

(* What a step of the machine does to the frame at depth k of the stack.    *)
Kept(k) == k \in DOMAIN frames /\ frames'[k] = frames[k]

Entered(k) == \E b \in DOMAIN prog : \E regs : frames'[k] = EntryFrame(b, regs)

Advanced(k) ==
    /\ k \in DOMAIN frames
    /\ \E to \in LocationEdges(prog, frames[k].at) : \E regs, loads :
          frames'[k] = Advance(frames[k], to, regs, loads)

MachineStep == Step \/ Branch \/ EnterSubprog \/ Leave

LEMMA StackIs ==
    ASSUME BaseInv
    PROVE  /\ Len(frames) \in Nat /\ DOMAIN frames = 1..Len(frames)
           /\ frames # <<>> => Len(frames) \in DOMAIN frames /\ top = frames[Len(frames)]
<1>1. IsSeq(frames)
  BY DEF BaseInv
<1>2. Len(frames) \in Nat /\ DOMAIN frames = 1..Len(frames)
  BY <1>1, SeqIsFunction DEF IsSeq
<1>3. frames # <<>> => Len(frames) # 0
  BY <1>1, EmptySeq DEF IsSeq
<1> QED
  BY <1>2, <1>3 DEF top

(* Replacing the innermost frame.                                           *)
LEMMA SetTopStack ==
    ASSUME BaseInv, frames # <<>>, NEW f, SetTop(f)
    PROVE  /\ IsSeq(frames') /\ Len(frames') = Len(frames) /\ DOMAIN frames' = DOMAIN frames
           /\ frames'[Len(frames)] = f
           /\ \A k \in DOMAIN frames : k # Len(frames) => Kept(k)
<1> DEFINE S == {frames[k] : k \in DOMAIN frames}
           n == Len(frames)
<1>1. frames \in Seq(S)
  BY DEF BaseInv, IsSeq
<1>2. n \in Nat /\ DOMAIN frames = 1..n /\ n \in DOMAIN frames
  BY StackIs
<1>3. frames' = [frames EXCEPT ![n] = f]
  BY DEF SetTop
<1> HIDE DEF n, S
<1>4. DOMAIN frames' = 1..n /\ frames'[n] = f /\ \A k \in 1..n : k # n => frames'[k] = frames[k]
  BY <1>2, <1>3
<1>5. frames' \in [1..n -> S \cup {f}]
  <2>1. \A k \in 1..n : frames[k] \in S
    BY <1>1, <1>2, SeqIsFunction DEF n
  <2> QED
    BY <1>2, <1>3, <2>1
<1>6. frames' \in Seq(S \cup {f}) /\ Len(frames') = n
  BY <1>2, <1>5, FunctionIsSeq
<1>7. IsSeq(frames')
  BY <1>6, AnySeq
<1> QED
  BY <1>2, <1>4, <1>6, <1>7 DEF n, Kept

(* A new innermost frame.                                                   *)
LEMMA PushStack ==
    ASSUME BaseInv, NEW f, frames' = Append(frames, f)
    PROVE  /\ IsSeq(frames') /\ Len(frames') = Len(frames) + 1
           /\ DOMAIN frames' = 1..(Len(frames) + 1)
           /\ frames'[Len(frames) + 1] = f
           /\ \A k \in DOMAIN frames : Kept(k)
<1> DEFINE S == {frames[k] : k \in DOMAIN frames}
           n == Len(frames)
<1>1. frames \in Seq(S)
  BY DEF BaseInv, IsSeq
<1>2. n \in Nat /\ DOMAIN frames = 1..n
  BY StackIs
<1>3. frames \in Seq(S \cup {f})
  <2>1. frames \in [1..n -> S \cup {f}]
    BY <1>1, <1>2, SeqIsFunction
  <2> QED
    BY <1>2, <2>1, FunctionIsSeq
<1> HIDE DEF S
<1>4. /\ frames' \in Seq(S \cup {f}) /\ Len(frames') = n + 1
      /\ \A k \in 1..n : frames'[k] = frames[k]
      /\ frames'[n + 1] = f
  BY <1>3, AppendProperties
<1>5. DOMAIN frames' = 1..(n + 1)
  BY <1>4, SeqIsFunction
<1>6. IsSeq(frames')
  BY <1>4, AnySeq
<1> QED
  BY <1>2, <1>4, <1>5, <1>6 DEF Kept

(* The innermost frame gone, the one below replaced.                        *)
LEMMA PopStack ==
    ASSUME BaseInv, frames # <<>>, Front(frames) # <<>>, NEW f,
           frames' = [Front(frames) EXCEPT ![Len(Front(frames))] = f]
    PROVE  /\ IsSeq(frames') /\ Len(frames) >= 2 /\ Len(frames') = Len(frames) - 1
           /\ DOMAIN frames' = 1..(Len(frames) - 1)
           /\ Len(Front(frames)) = Len(frames) - 1
           /\ Front(frames)[Len(frames) - 1] = frames[Len(frames) - 1]
           /\ frames'[Len(frames) - 1] = f
           /\ \A k \in 1..(Len(frames) - 1) : k # Len(frames) - 1 => Kept(k)
<1> DEFINE S == {frames[k] : k \in DOMAIN frames}
           n == Len(frames)
           rest == Front(frames)
<1>1. frames \in Seq(S)
  BY DEF BaseInv, IsSeq
<1>2. n \in Nat /\ DOMAIN frames = 1..n /\ n \in 1..n
  BY StackIs
<1> HIDE DEF S
<1>3. rest \in Seq(S) /\ Len(rest) = n - 1 /\ \A k \in 1..(n - 1) : rest[k] = frames[k]
  BY <1>1, <1>2, SubSeqProperties DEF Front
<1>4. DOMAIN rest = 1..(n - 1) /\ n - 1 \in Nat /\ n - 1 # 0
  <2>1. DOMAIN rest = 1..Len(rest) /\ Len(rest) \in Nat
    BY <1>3, SeqIsFunction
  <2>2. Len(rest) # 0
    BY <1>3, EmptySeq
  <2> QED
    BY <1>3, <2>1, <2>2
<1>5. frames' = [rest EXCEPT ![n - 1] = f]
  BY <1>3
<1> DEFINE m == n - 1
<1>6. /\ m \in Nat /\ m \in 1..m /\ DOMAIN rest = 1..m /\ frames' = [rest EXCEPT ![m] = f]
      /\ rest \in Seq(S) /\ Len(rest) = m /\ \A k \in 1..m : rest[k] = frames[k]
  BY <1>2, <1>3, <1>4, <1>5
<1> HIDE DEF rest, m, n
<1>7. /\ DOMAIN frames' = 1..m /\ frames'[m] = f
      /\ \A k \in 1..m : k # m => frames'[k] = frames[k]
  BY <1>6
<1>8. frames' \in [1..m -> S \cup {f}]
  <2>1. \A k \in 1..m : rest[k] \in S
    BY <1>6, SeqIsFunction
  <2> QED
    BY <1>6, <2>1
<1>9. frames' \in Seq(S \cup {f}) /\ Len(frames') = m /\ IsSeq(frames')
  BY <1>6, <1>8, FunctionIsSeq, AnySeq
<1>10. \A k \in 1..m : k \in DOMAIN frames
  BY <1>2, <1>6 DEF m
<1>11. n >= 2
  BY <1>2, <1>4
<1> QED
  BY <1>3, <1>6, <1>7, <1>9, <1>10, <1>11 DEF rest, Kept, m, n

AnalysisKept == UNCHANGED <<prog, uses, defs, phase, in_states, use_def, live_in, live_out, facts>>

(* Every frame after a step of the machine is the one that stood there, a   *)
(* fresh one, or that frame advanced along an edge of its location.         *)
LEMMA MachineMoves ==
    ASSUME BaseInv, MachineStep
    PROVE  /\ AnalysisKept /\ phase = "run"
           /\ IsSeq(frames')
           /\ \A k \in DOMAIN frames' : Kept(k) \/ Entered(k) \/ Advanced(k)
           /\ \A k \in DOMAIN frames' : k < Len(frames') => AtCall(prog, frames'[k])
<1> DEFINE n == Len(frames)
<1>1. AnalysisKept /\ phase = "run" /\ frames # <<>>
  BY DEF MachineStep, Step, Branch, EnterSubprog, Leave, AtTerminator, Running, AnalysisKept
<1>2. n \in Nat /\ DOMAIN frames = 1..n /\ n \in DOMAIN frames /\ top = frames[n]
  BY <1>1, StackIs
<1>3. /\ prog \in Programs
      /\ \A k \in DOMAIN frames : frames[k].at \in Locations(prog)
      /\ \A k \in DOMAIN frames : k < n => AtCall(prog, frames[k])
  BY DEF BaseInv
<1>4. /\ top.at = <<top.at[1], top.at[2]>> /\ top.at[1] \in DOMAIN prog
      /\ top.at[2] \in 1..(BodyLen(prog, top.at[1]) + 1) /\ BodyLen(prog, top.at[1]) \in Nat
  BY <1>2, <1>3, LocationIs, ProgramShape
<1> HIDE DEF n
<1>5. ASSUME NEW to \in LocationEdges(prog, top.at), NEW regs, NEW loads,
             SetTop(Advance(top, to, regs, loads))
      PROVE  /\ IsSeq(frames')
             /\ \A k \in DOMAIN frames' : Kept(k) \/ Entered(k) \/ Advanced(k)
             /\ \A k \in DOMAIN frames' : k < Len(frames') => AtCall(prog, frames'[k])
  <2> DEFINE f == Advance(top, to, regs, loads)
  <2> HIDE DEF f
  <2>1. /\ IsSeq(frames') /\ Len(frames') = n /\ DOMAIN frames' = DOMAIN frames
        /\ frames'[n] = f /\ \A k \in DOMAIN frames : k # n => Kept(k)
    <3>1. SetTop(f)
      BY <1>5 DEF f
    <3> QED
      BY <1>1, <3>1, SetTopStack DEF n
  <2>2. Advanced(n)
    BY <1>2, <2>1 DEF f, Advanced
  <2>3. \A k \in DOMAIN frames' : k < n => AtCall(prog, frames'[k])
    BY <1>2, <1>3, <2>1 DEF Kept
  <2> QED
    BY <2>1, <2>2, <2>3
<1>6. CASE Step
  <2>1. top.at[2] <= BodyLen(prog, top.at[1])
    BY <1>6 DEF Step
  <2>2. \E regs, loads : SetTop(Advance(top, <<top.at[1], top.at[2] + 1>>, regs, loads))
    BY <1>6 DEF Step
  <2>3. <<top.at[1], top.at[2] + 1>> \in LocationEdges(prog, top.at)
    BY <2>1 DEF LocationEdges
  <2> QED
    BY <1>1, <1>5, <2>2, <2>3
<1>7. CASE Branch
  <2>1. /\ top.at[2] = BodyLen(prog, top.at[1]) + 1
        /\ prog[top.at[1]].terminator.op \in {"fall", "ja", "jcc"}
    BY <1>7 DEF Branch, AtTerminator
  <2>2. PICK b \in successors(prog[top.at[1]].terminator) :
           SetTop(Advance(top, <<b, 1>>, top.regs, top.loads))
    BY <1>7 DEF Branch
  <2>3. <<b, 1>> \in LocationEdges(prog, top.at)
    <3>1. ~(top.at[2] <= BodyLen(prog, top.at[1]))
      BY <1>4, <2>1
    <3>2. b \in dataflow_successors(prog[top.at[1]].terminator)
      BY <2>1, <2>2 DEF dataflow_successors
    <3> QED
      BY <3>1, <3>2 DEF LocationEdges
  <2> QED
    BY <1>1, <1>5, <2>2, <2>3
<1>8. CASE EnterSubprog
  <2>1. /\ top.at[2] = BodyLen(prog, top.at[1]) + 1
        /\ prog[top.at[1]].terminator.op = "call"
    BY <1>8 DEF EnterSubprog, AtTerminator
  <2> DEFINE b == prog[top.at[1]].terminator.to
  <2>2. \E regs : frames' = Append(frames, EntryFrame(b, regs))
    BY <1>8 DEF EnterSubprog
  <2>3. PICK regs : frames' = Append(frames, EntryFrame(b, regs))
    BY <2>2
  <2>4. b \in DOMAIN prog
    BY <1>3, <1>4, <2>1, TerminatorShape
  <2> HIDE DEF b
  <2> DEFINE f == EntryFrame(b, regs)
  <2> HIDE DEF f
  <2>5. /\ IsSeq(frames') /\ Len(frames') = n + 1 /\ DOMAIN frames' = 1..(n + 1)
        /\ frames'[n + 1] = f /\ \A k \in DOMAIN frames : Kept(k)
    <3>1. frames' = Append(frames, f)
      BY <2>3 DEF f
    <3> QED
      BY <3>1, PushStack DEF n
  <2>6. Entered(n + 1)
    BY <2>4, <2>5 DEF f, Entered
  <2>7. \A k \in 1..(n + 1) : k = n + 1 \/ k \in DOMAIN frames
    BY <1>2
  <2>8. \A k \in DOMAIN frames : AtCall(prog, frames'[k])
    <3>1. AtCall(prog, top)
      BY <2>1 DEF AtCall
    <3>2. \A k \in DOMAIN frames : k = n \/ k < n
      BY <1>2
    <3> QED
      BY <1>2, <1>3, <2>5, <3>1, <3>2 DEF Kept
  <2>9. \A k \in DOMAIN frames' : k < Len(frames') => k \in DOMAIN frames
    BY <1>2, <2>5
  <2> QED
    BY <1>1, <2>5, <2>6, <2>7, <2>8, <2>9
<1>9. CASE Leave
  <2> DEFINE rest == Front(frames)
  <2>1. CASE rest = <<>>
    <3>1. frames' = <<>>
      BY <1>9, <2>1 DEF Leave
    <3>2. IsSeq(frames') /\ DOMAIN frames' = {}
      <4>1. <<>> \in Seq({}) /\ DOMAIN <<>> = {}
        OBVIOUS
      <4>2. IsSeq(<<>>)
        BY <4>1, AnySeq
      <4> QED
        BY <3>1, <4>1, <4>2
    <3> QED
      BY <1>1, <3>2
  <2>2. CASE rest # <<>>
    <3> DEFINE g == rest[Len(rest)]
               to == <<prog[g.at[1]].terminator.next, 1>>
    <3>1. PICK regs : frames' = [rest EXCEPT ![Len(rest)] = Advance(g, to, regs, {})]
      BY <1>9, <2>2 DEF Leave
    <3> DEFINE f == Advance(g, to, regs, {})
    <3>2. frames' = [Front(frames) EXCEPT ![Len(Front(frames))] = f]
      BY <3>1
    <3> HIDE DEF f
    <3>3. /\ IsSeq(frames') /\ n >= 2 /\ Len(frames') = n - 1
          /\ DOMAIN frames' = 1..(n - 1) /\ Len(rest) = n - 1 /\ rest[n - 1] = frames[n - 1]
          /\ frames'[n - 1] = f
          /\ \A k \in 1..(n - 1) : k # n - 1 => Kept(k)
      BY <1>1, <2>2, <3>2, PopStack DEF n
    <3>4. n - 1 \in DOMAIN frames /\ n - 1 < n /\ g = frames[n - 1]
      BY <1>2, <3>3
    <3>5. AtCall(prog, g) /\ g.at \in Locations(prog)
      BY <1>3, <3>4
    <3> HIDE DEF g
    <3>6. g.at[1] \in DOMAIN prog /\ BodyLen(prog, g.at[1]) \in Nat
      BY <1>3, <3>5, LocationIs, ProgramShape
    <3>7. to \in LocationEdges(prog, g.at)
      <4>1. ~(g.at[2] <= BodyLen(prog, g.at[1]))
        BY <3>5, <3>6 DEF AtCall
      <4>2. prog[g.at[1]].terminator.next \in dataflow_successors(prog[g.at[1]].terminator)
        BY <3>5 DEF AtCall, dataflow_successors
      <4> QED
        BY <4>1, <4>2 DEF LocationEdges
    <3> HIDE DEF to
    <3>8. Advanced(n - 1)
      BY <3>3, <3>4, <3>7 DEF Advanced, f
    <3>9. \A k \in DOMAIN frames' : k < Len(frames') => AtCall(prog, frames'[k])
      <4>1. \A k \in 1..(n - 1) : k < n - 1 => k \in DOMAIN frames /\ k < n /\ k # n - 1
        BY <1>2
      <4> QED
        BY <1>3, <3>3, <4>1 DEF Kept
    <3> QED
      BY <1>1, <3>3, <3>8, <3>9
  <2> QED
    BY <2>1, <2>2
<1> QED
  BY <1>6, <1>7, <1>8, <1>9 DEF MachineStep

LEMMA EntryLocation ==
    ASSUME NEW p \in Programs, NEW b \in DOMAIN p
    PROVE  <<b, 1>> \in Locations(p)
<1>1. 1 \in 1..(BodyLen(p, b) + 1)
  BY ProgramShape
<1> QED
  BY <1>1, LocationIs

LEMMA BaseInit == Init => BaseInv
<1>1. <<>> \in Seq({}) /\ DOMAIN <<>> = {}
  OBVIOUS
<1>2. IsSeq(<<>>)
  BY <1>1, AnySeq
<1> QED
  BY <1>1, <1>2 DEF Init, BaseInv

LEMMA BaseStep == BaseInv /\ [Next]_vars => BaseInv'
<1> SUFFICES ASSUME BaseInv, [Next]_vars PROVE BaseInv'
  OBVIOUS
<1> USE DEF BaseInv
<1>0. IsSeq(<<>>) /\ DOMAIN <<>> = {}
  <2>1. <<>> \in Seq({}) /\ DOMAIN <<>> = {}
    OBVIOUS
  <2> QED
    BY <2>1, AnySeq
<1>1. CASE Populate
  BY <1>0, <1>1 DEF Populate, Populated
<1>2. CASE Reach
  BY <1>0, <1>2 DEF Reach, Populated
<1>3. CASE Live
  <2>1. CASE frames' = frames /\ phase' = phase
    BY <1>0, <1>3, <2>1 DEF Live, Populated
  <2>2. CASE ~(frames' = frames /\ phase' = phase)
    <3>1. /\ phase = "live" /\ phase' = "run" /\ prog' = prog /\ uses' = uses /\ defs' = defs
          /\ \E regs : frames' = <<EntryFrame(1, regs)>>
      BY <1>3, <2>2 DEF Live
    <3>2. PICK regs : frames' = <<EntryFrame(1, regs)>>
      BY <3>1
    <3>3. EntryFrame(1, regs).at = <<1, 1>>
      BY DEF EntryFrame, Frame
    <3>4. <<1, 1>> \in Locations(prog)
      BY ProgramShape, EntryLocation
    <3> DEFINE f == EntryFrame(1, regs)
    <3> HIDE DEF f
    <3>5. IsSeq(<<f>>) /\ DOMAIN <<f>> = 1..1 /\ <<f>>[1] = f /\ Len(<<f>>) = 1
      <4>1. <<f>> \in Seq({f})
        OBVIOUS
      <4>2. IsSeq(<<f>>)
        BY <4>1, AnySeq
      <4>3. DOMAIN <<f>> = 1..1 /\ <<f>>[1] = f /\ Len(<<f>>) = 1
        OBVIOUS
      <4> QED
        BY <4>2, <4>3
    <3>6. frames' = <<f>> /\ f.at = <<1, 1>>
      BY <3>2, <3>3 DEF f
    <3>7. /\ IsSeq(frames') /\ \A k \in DOMAIN frames' : k = 1 /\ frames'[k].at = <<1, 1>>
          /\ Len(frames') = 1
      BY <3>5, <3>6
    <3> QED
      BY <3>1, <3>4, <3>7 DEF Populated
  <2> QED
    BY <2>1, <2>2
<1>4. CASE MachineStep
  <2>1. /\ AnalysisKept /\ phase = "run" /\ IsSeq(frames')
        /\ \A k \in DOMAIN frames' : Kept(k) \/ Entered(k) \/ Advanced(k)
        /\ \A k \in DOMAIN frames' : k < Len(frames') => AtCall(prog, frames'[k])
    BY <1>4, MachineMoves
  <2>2. ASSUME NEW k \in DOMAIN frames' PROVE frames'[k].at \in Locations(prog)
    <3>1. CASE Kept(k)
      BY <3>1 DEF Kept
    <3>2. CASE Entered(k)
      <4>1. PICK b \in DOMAIN prog : \E regs : frames'[k] = EntryFrame(b, regs)
        BY <3>2 DEF Entered
      <4>2. frames'[k].at = <<b, 1>>
        BY <4>1 DEF EntryFrame, Frame
      <4> QED
        BY <4>2, EntryLocation
    <3>3. CASE Advanced(k)
      <4>1. PICK to \in LocationEdges(prog, frames[k].at) : \E regs, loads :
               frames'[k] = Advance(frames[k], to, regs, loads)
        BY <3>3 DEF Advanced
      <4>2. frames'[k].at = to
        BY <4>1 DEF Advance, Frame
      <4>3. frames[k].at \in Locations(prog)
        BY <3>3 DEF Advanced
      <4> QED
        BY <4>2, <4>3, EdgesAreLocations
    <3> QED
      BY <2>1, <3>1, <3>2, <3>3
  <2> QED
    BY <2>1, <2>2 DEF AnalysisKept, Populated, AtCall
<1>5. CASE UNCHANGED vars
  BY <1>5 DEF vars, Populated, AtCall
<1> QED
  BY <1>1, <1>2, <1>3, <1>4, <1>5 DEF Next, MachineStep

-----------------------------------------------------------------------------
(* The def-to-uses index is exact.                                          *)

(* No program has an atomic fetch: the register it returns the old value in *)
(* is missing from its defs (DefsComplete), and the index misses that write.*)
NoFetch == \A p \in Programs : \A s \in Sites(p) : insn_at(p, s).op # "fetch"

(* What frame f knows of the last writes is in the state the analysis has   *)
(* for its location.                                                        *)
Covered(ds, ins, f) ==
    \A r \in Regs : f.def[r] \subseteq StateAt(ds, f.at[1], f.at[2], ins[f.at[1]])[r]

UseDefInv ==
    /\ BaseInv
    /\ phase \in {"populate", "failed"} => in_states = [b \in DOMAIN prog |-> [r \in Regs |-> {}]]
    /\ phase \in {"reach", "live", "run"} =>
          \A b \in DOMAIN prog : Witnessed(prog, defs, b, in_states[b])
    /\ phase \in {"live", "run"} => /\ ReachingSweep(prog, defs, in_states) = in_states
                                    /\ use_def = record_uses(prog, uses, defs, in_states)
    /\ \A k \in DOMAIN frames : Covered(defs, in_states, frames[k])

(* At a location the machine writes what the table says.                    *)
LEMMA WritesAtLocation ==
    ASSUME prog \in Programs, Populated(prog), PopulateOk(prog), NEW s \in Locations(prog)
    PROVE  LET W == IF HasInsn(s) THEN MachineWrites(insn_at(prog, s)) ELSE {} IN
           /\ HasInsn(s) <=> s \in Sites(prog)
           /\ \A r : Writes(defs, s, r) => r \in W
           /\ NoFetch => \A r : r \in W => Writes(defs, s, r)
<1>1. /\ s = <<s[1], s[2]>> /\ s[1] \in DOMAIN prog
      /\ s[2] \in 1..(BodyLen(prog, s[1]) + 1) /\ BodyLen(prog, s[1]) \in Nat
  BY LocationIs, ProgramShape
<1>2. SiteCount(prog, s[1]) = IF has_raw_insn(prog[s[1]].terminator)
                              THEN BodyLen(prog, s[1]) + 1 ELSE BodyLen(prog, s[1])
  BY <1>1 DEF SiteCount
<1>3. HasInsn(s) <=> s[2] \in 1..SiteCount(prog, s[1])
  BY <1>1, <1>2 DEF HasInsn
<1>4. s[2] \in 1..SiteCount(prog, s[1]) <=> s \in Sites(prog)
  BY <1>1, SiteIs
<1>5. DOMAIN defs = Sites(prog)
  BY DEF Populated
<1>6. CASE s \in Sites(prog)
  <2>1. /\ defs[s] \subseteq MachineWrites(insn_at(prog, s))
        /\ insn_at(prog, s).op # "fetch" => defs[s] = MachineWrites(insn_at(prog, s))
    BY <1>6, ReadsAndWrites
  <2>2. NoFetch => insn_at(prog, s).op # "fetch"
    BY <1>6 DEF NoFetch
  <2> QED
    BY <1>3, <1>4, <1>5, <1>6, <2>1, <2>2 DEF Writes
<1>7. CASE s \notin Sites(prog)
  BY <1>3, <1>4, <1>5, <1>7 DEF Writes
<1> QED
  BY <1>6, <1>7

(* Definitions flow along the edges of the fixpoint.                        *)
LEMMA CoveredAdvance ==
    ASSUME NEW p \in Programs, NEW ds, DOMAIN ds = Sites(p), NEW ins, ReachingSweep(p, ds, ins) = ins,
           NEW f, f.at \in Locations(p), Covered(ds, ins, f),
           NEW to \in LocationEdges(p, f.at), NEW r \in Regs
    PROVE  /\ Writes(ds, f.at, r) =>
                <<f.at[1], f.at[2], r>> \in StateAt(ds, to[1], to[2], ins[to[1]])[r]
           /\ ~Writes(ds, f.at, r) =>
                f.def[r] \subseteq StateAt(ds, to[1], to[2], ins[to[1]])[r]
<1> DEFINE b == f.at[1]
           i == f.at[2]
<1>1. f.at = <<b, i>> /\ b \in DOMAIN p /\ i \in 1..(BodyLen(p, b) + 1) /\ BodyLen(p, b) \in Nat
  BY LocationIs, ProgramShape
<1>2. f.def[r] \subseteq StateAt(ds, b, i, ins[b])[r]
  BY DEF Covered
<1>3. to \in LocationEdges(p, <<b, i>>)
  BY <1>1
<1>4. InBlock(p, ds, b)
  BY <1>1 DEF InBlock
<1> HIDE DEF b, i
<1>5. CASE i <= BodyLen(p, b)
  <2>1. i \in 1..BodyLen(p, b)
    BY <1>1, <1>5
  <2>2. /\ StateAt(ds, b, i + 1, ins[b])[r]
             = IF Writes(ds, <<b, i>>, r) THEN {<<b, i, r>>} ELSE StateAt(ds, b, i, ins[b])[r]
        /\ LocationEdges(p, <<b, i>>) = {<<b, i + 1>>}
    <3>1. \A input : \A x \in Regs :
             /\ Writes(ds, <<b, i>>, x) => StateAt(ds, b, i + 1, input)[x] = {<<b, i, x>>}
             /\ ~Writes(ds, <<b, i>>, x) =>
                  StateAt(ds, b, i + 1, input)[x] = StateAt(ds, b, i, input)[x]
      BY <1>4, <2>1, InsideBlock
    <3>2. LocationEdges(p, <<b, i>>) = {<<b, i + 1>>}
      BY <1>4, <2>1, InsideBlock
    <3> QED
      BY <3>1, <3>2
  <2>3. to = <<b, i + 1>>
    BY <1>3, <2>2
  <2> QED
    BY <1>1, <1>2, <2>2, <2>3 DEF b, i
<1>6. CASE ~(i <= BodyLen(p, b))
  <2>1. i = BodyLen(p, b) + 1
    BY <1>1, <1>6
  <2>2. PICK c \in dataflow_successors(p[b].terminator) : to = <<c, 1>>
    <3>1. LocationEdges(p, <<b, i>>) = {<<e, 1>> : e \in dataflow_successors(p[b].terminator)}
      BY <1>6 DEF LocationEdges
    <3> QED
      BY <1>3, <3>1
  <2>3. c \in DOMAIN p
    BY <1>1, <2>2, TerminatorShape
  <2>4. \A input : \A x \in Regs :
           /\ Writes(ds, <<b, i>>, x) => process_block_state(p, ds, b, input)[x] = {<<b, i, x>>}
           /\ ~Writes(ds, <<b, i>>, x) =>
                process_block_state(p, ds, b, input)[x] = StateAt(ds, b, i, input)[x]
    BY <1>4, <2>1, OutOfBlock
  <2>5. process_block_state(p, ds, b, ins[b])[r] \subseteq ins[c][r]
    <3> DEFINE From == {e \in DOMAIN p : c \in dataflow_successors(p[e].terminator)}
               outs == {process_block_state(p, ds, e, ins[e]) : e \in From}
    <3>1. ReachingSweep(p, ds, ins)[c][r] = ins[c][r] \cup UNION {src[r] : src \in outs}
      BY <2>3 DEF ReachingSweep, merge_state
    <3>2. b \in From
      BY <1>1, <2>2
    <3>3. process_block_state(p, ds, b, ins[b]) \in outs
      BY <3>2
    <3> HIDE DEF outs
    <3> QED
      BY <3>1, <3>3
  <2>6. StateAt(ds, c, 1, ins[c])[r] = ins[c][r]
    BY StateFirst
  <2>7. to[1] = c /\ to[2] = 1
    BY <2>2
  <2>8. CASE Writes(ds, <<b, i>>, r)
    <3>1. process_block_state(p, ds, b, ins[b])[r] = {<<b, i, r>>}
      BY <2>4, <2>8
    <3> QED
      BY <1>1, <2>5, <2>6, <2>7, <2>8, <3>1 DEF b, i
  <2>9. CASE ~Writes(ds, <<b, i>>, r)
    <3>1. process_block_state(p, ds, b, ins[b])[r] = StateAt(ds, b, i, ins[b])[r]
      BY <2>4, <2>9
    <3> QED
      BY <1>1, <1>2, <2>5, <2>6, <2>7, <2>9, <3>1 DEF b, i
  <2> QED
    BY <2>8, <2>9
<1> QED
  BY <1>5, <1>6

LEMMA UseDefInit == Init => UseDefInv
<1>1. DOMAIN <<>> = {}
  OBVIOUS
<1> QED
  BY <1>1, BaseInit DEF Init, UseDefInv

LEMMA UseDefStep == ASSUME NoFetch PROVE UseDefInv /\ [Next]_vars => UseDefInv'
<1> SUFFICES ASSUME UseDefInv, [Next]_vars PROVE UseDefInv'
  OBVIOUS
<1>0. BaseInv /\ BaseInv'
  BY BaseStep DEF UseDefInv
<1>e. DOMAIN <<>> = {}
  OBVIOUS
<1>1. CASE Populate
  <2>1. /\ phase = "populate" /\ phase' \in {"reach", "failed"} /\ frames' = <<>>
        /\ prog' = prog /\ in_states' = in_states
    BY <1>0, <1>1 DEF Populate, BaseInv
  <2>2. in_states = [b \in DOMAIN prog |-> [r \in Regs |-> {}]]
    BY <2>1 DEF UseDefInv
  <2>3. \A b \in DOMAIN prog : Witnessed(prog, defs', b, in_states[b])
    BY <2>2 DEF Witnessed
  <2> QED
    BY <1>0, <1>e, <2>1, <2>2, <2>3 DEF UseDefInv
<1>2. CASE Reach
  <2>1. /\ phase = "reach" /\ prog' = prog /\ uses' = uses /\ defs' = defs /\ frames' = <<>>
        /\ in_states' = ReachingSweep(prog, defs, in_states)
        /\ \/ phase' = "reach"
           \/ /\ phase' = "live" /\ in_states' = in_states
              /\ use_def' = record_uses(prog, uses, defs, in_states')
    BY <1>0, <1>2 DEF Reach, BaseInv
  <2>2. prog \in Programs /\ DOMAIN defs = Sites(prog)
    BY <1>0, <2>1 DEF BaseInv, Populated
  <2>3. \A b \in DOMAIN prog : Witnessed(prog, defs, b, in_states[b])
    BY <2>1 DEF UseDefInv
  <2>4. \A b \in DOMAIN prog : Witnessed(prog, defs, b, in_states'[b])
    BY <2>1, <2>2, <2>3, SweepWitnessed
  <2> QED
    BY <1>0, <1>e, <2>1, <2>4 DEF UseDefInv
<1>3. CASE Live
  <2>1. /\ phase = "live" /\ prog' = prog /\ uses' = uses /\ defs' = defs
        /\ in_states' = in_states /\ use_def' = use_def /\ phase' \in {"live", "run"}
        /\ \/ frames' = frames
           \/ \E regs : frames' = <<EntryFrame(1, regs)>>
    BY <1>3 DEF Live
  <2>2. ASSUME NEW k \in DOMAIN frames' PROVE Covered(defs, in_states, frames'[k])
    <3>1. CASE frames' = frames
      BY <3>1 DEF UseDefInv
    <3>2. CASE \E regs : frames' = <<EntryFrame(1, regs)>>
      <4>1. PICK regs : frames' = <<EntryFrame(1, regs)>>
        BY <3>2
      <4>2. frames'[k] = EntryFrame(1, regs)
        BY <4>1
      <4>3. \A r \in Regs : frames'[k].def[r] = {}
        BY <4>2 DEF EntryFrame, Frame
      <4> QED
        BY <4>3 DEF Covered
    <3> QED
      BY <2>1, <3>1, <3>2
  <2> QED
    BY <1>0, <2>1, <2>2 DEF UseDefInv
<1>4. CASE MachineStep
  <2>1. /\ AnalysisKept /\ phase = "run"
        /\ \A k \in DOMAIN frames' : Kept(k) \/ Entered(k) \/ Advanced(k)
    BY <1>0, <1>4, MachineMoves
  <2>2. /\ prog \in Programs /\ Populated(prog) /\ PopulateOk(prog) /\ DOMAIN defs = Sites(prog)
        /\ ReachingSweep(prog, defs, in_states) = in_states
    BY <2>1 DEF UseDefInv, BaseInv, Populated
  <2>3. ASSUME NEW k \in DOMAIN frames' PROVE Covered(defs, in_states, frames'[k])
    <3>1. CASE Kept(k)
      BY <3>1 DEF Kept, UseDefInv
    <3>2. CASE Entered(k)
      <4>1. PICK b \in DOMAIN prog : \E regs : frames'[k] = EntryFrame(b, regs)
        BY <3>2 DEF Entered
      <4>2. \A r \in Regs : frames'[k].def[r] = {}
        BY <4>1 DEF EntryFrame, Frame
      <4> QED
        BY <4>2 DEF Covered
    <3>3. CASE Advanced(k)
      <4> DEFINE f == frames[k]
      <4>1. PICK to \in LocationEdges(prog, f.at) : \E regs, loads :
               frames'[k] = Advance(f, to, regs, loads)
        BY <3>3 DEF Advanced
      <4> DEFINE W == IF HasInsn(f.at) THEN MachineWrites(insn_at(prog, f.at)) ELSE {}
      <4>2. /\ frames'[k].at = to
            /\ \A r \in Regs : frames'[k].def[r] =
                  IF r \in W THEN {<<f.at[1], f.at[2], r>>} ELSE f.def[r]
        BY <4>1 DEF Advance, Frame
      <4>3. f.at \in Locations(prog) /\ Covered(defs, in_states, f)
        BY <3>3 DEF Advanced, UseDefInv, BaseInv
      <4> HIDE DEF f
      <4>4. \A r : r \in W <=> Writes(defs, f.at, r)
        BY <2>2, <4>3, WritesAtLocation
      <4> HIDE DEF W
      <4>5. ASSUME NEW r \in Regs
            PROVE  frames'[k].def[r] \subseteq StateAt(defs, to[1], to[2], in_states[to[1]])[r]
        <5>1. /\ Writes(defs, f.at, r) =>
                   <<f.at[1], f.at[2], r>> \in StateAt(defs, to[1], to[2], in_states[to[1]])[r]
              /\ ~Writes(defs, f.at, r) =>
                   f.def[r] \subseteq StateAt(defs, to[1], to[2], in_states[to[1]])[r]
          BY <2>2, <4>1, <4>3, CoveredAdvance
        <5> QED
          BY <4>2, <4>4, <5>1
      <4> QED
        BY <4>2, <4>5 DEF Covered
    <3> QED
      BY <2>1, <3>1, <3>2, <3>3
  <2> QED
    BY <1>0, <2>1, <2>3 DEF UseDefInv, AnalysisKept
<1>5. CASE UNCHANGED vars
  BY <1>0, <1>5 DEF vars, UseDefInv
<1> QED
  BY <1>1, <1>2, <1>3, <1>4, <1>5 DEF Next, MachineStep

LEMMA UseDefInvIsExact == UseDefInv => UseDefExact
<1> SUFFICES ASSUME UseDefInv PROVE UseDefExact
  OBVIOUS
<1>0. BaseInv /\ prog \in Programs
  BY DEF UseDefInv, BaseInv
<1>1. EveryUseWitnessed
  <2> SUFFICES ASSUME phase = "live", NEW e \in use_def
               PROVE  /\ e[1][3] = e[2][3]
                      /\ <<e[2][1], e[2][2]>> \in
                            ClearReach(prog, defs, LocationEdges(prog, <<e[1][1], e[1][2]>>), e[2][3])
    BY DEF EveryUseWitnessed
  <2>1. /\ use_def = record_uses(prog, uses, defs, in_states)
        /\ \A b \in DOMAIN prog : Witnessed(prog, defs, b, in_states[b])
        /\ DOMAIN defs = Sites(prog)
    BY <1>0 DEF UseDefInv, BaseInv, Populated
  <2>2. PICK s \in Sites(prog) : \E r \in uses[s] \cap Regs :
           \E d \in StateAt(defs, s[1], s[2], in_states[s[1]])[r] : e = <<d, <<s[1], s[2], r>>>>
    BY <2>1 DEF record_uses
  <2>3. PICK r \in Regs : \E d \in StateAt(defs, s[1], s[2], in_states[s[1]])[r] :
           e = <<d, <<s[1], s[2], r>>>>
    BY <2>2
  <2>4. PICK d \in StateAt(defs, s[1], s[2], in_states[s[1]])[r] : e = <<d, <<s[1], s[2], r>>>>
    BY <2>3
  <2>5. s \in Locations(prog)
    BY <1>0, LocationIs
  <2>6. s = <<s[1], s[2]>> /\ s[1] \in DOMAIN prog /\ s[2] \in 1..(BodyLen(prog, s[1]) + 1)
    BY <1>0, <2>5, LocationIs
  <2>7. Witness(prog, defs, d, <<s[1], s[2]>>, r)
    <3>1. Witnessed(prog, defs, s[1], in_states[s[1]])
      BY <2>1, <2>6
    <3> QED
      BY <1>0, <2>1, <2>4, <2>6, <3>1, StateWitnessed
  <2>8. e[1] = d /\ e[2][1] = s[1] /\ e[2][2] = s[2] /\ e[2][3] = r /\ d[3] = r
    BY <2>4, <2>7 DEF Witness
  <2> QED
    BY <2>7, <2>8 DEF Witness
<1>2. ASSUME NEW r \in ReadsHere, NEW d \in top.def[r]
      PROVE  <<d, <<top.at[1], top.at[2], r>>>> \in use_def
  <2>1. frames # <<>> /\ HasInsn(top.at) /\ r \in MachineReads(insn_at(prog, top.at))
    BY DEF ReadsHere, Here
  <2>2. phase = "run" /\ Populated(prog) /\ PopulateOk(prog)
    BY <1>0, <2>1 DEF BaseInv
  <2>3. Len(frames) \in DOMAIN frames /\ top = frames[Len(frames)]
    BY <1>0, <2>1, StackIs
  <2>4. top.at \in Locations(prog) /\ Covered(defs, in_states, top)
    BY <1>0, <2>3 DEF UseDefInv, BaseInv
  <2>5. top.at \in Sites(prog)
    BY <1>0, <2>1, <2>2, <2>4, WritesAtLocation
  <2>6. r \in uses[top.at] \cap Regs
    BY <1>0, <2>1, <2>2, <2>5, ReadsAndWrites
  <2>7. d \in StateAt(defs, top.at[1], top.at[2], in_states[top.at[1]])[r]
    BY <2>4, <2>6 DEF Covered
  <2>8. use_def = record_uses(prog, uses, defs, in_states)
    BY <2>2 DEF UseDefInv
  <2> QED
    BY <2>5, <2>6, <2>7, <2>8 DEF record_uses
<1> QED
  BY <1>1, <1>2 DEF UseDefExact

(* The def-to-uses index is exact for every program without an atomic       *)
(* fetch: UseDefGraph::build lists under a definition every read a run can  *)
(* see its value at, across branches, loops and subprogram calls, and no    *)
(* read that no path from the definition reaches.                           *)
THEOREM UseDefIsExact == ASSUME NoFetch PROVE Spec => []UseDefExact
<1>1. UseDefInv /\ [Next]_vars => UseDefInv'
  BY UseDefStep
<1> QED
  BY <1>1, UseDefInit, UseDefInvIsExact, PTL DEF Spec

-----------------------------------------------------------------------------
(* The first sites at or after a block are those of the least set of blocks *)
(* that contains it and the successors of its members without a site.       *)

Sited(p, b) == logical_sites_for_block(p, b) # <<>>

SkipClosed(p, X) ==
    \A c \in X : logical_sites_for_block(p, c) = <<>> => successors(p[c].terminator) \subseteq X

LEMMA FirstSitesAre ==
    ASSUME NEW p \in Programs, NEW b \in DOMAIN p
    PROVE  /\ \E Y \in SUBSET DOMAIN p :
                 /\ b \in Y /\ SkipClosed(p, Y)
                 /\ \A c \in Y : Sited(p, c) => <<c, 1>> \in first_logical_sites(p, b)
           /\ \A X : b \in X /\ SkipClosed(p, X) =>
                 \A t \in first_logical_sites(p, b) : \E c \in X : Sited(p, c) /\ t = <<c, 1>>
           /\ \A t \in first_logical_sites(p, b) : \E c \in DOMAIN p : Sited(p, c) /\ t = <<c, 1>>
<1> DEFINE L == DOMAIN p
           n == Len(p)
           skip == [X \in SUBSET L |-> SkipEmpty(p, X)]
           chain[k \in 0..n] == IF k = 0 THEN {b} ELSE SkipEmpty(p, chain[k - 1])
<1>1. n \in Nat /\ n >= 1 /\ L = 1..n
  BY ProgramShape
<1>2. \A t : t \in first_logical_sites(p, b) <=> \E c \in chain[n] : Sited(p, c) /\ t = <<c, 1>>
  BY DEF first_logical_sites, Sited
<1>3. ASSUME NEW X \in SUBSET L PROVE SkipEmpty(p, X) \in SUBSET L
  <2>1. \A c \in X : successors(p[c].terminator) \subseteq L
    BY TerminatorShape
  <2> QED
    BY <2>1 DEF SkipEmpty
<1>4. skip \in [SUBSET L -> SUBSET L] /\ \A X \in SUBSET L : skip[X] = SkipEmpty(p, X)
  BY <1>3
<1>b. {b} \in SUBSET L
  OBVIOUS
<1> HIDE DEF L, n, skip, chain
<1>5. PICK f \in [0..n -> SUBSET L] : f[0] = {b} /\ \A k \in 1..n : f[k] = skip[f[k - 1]]
  <2>1. Iterable(SUBSET L, skip, {b}, n)
    BY <1>1, <1>4, <1>b DEF Iterable
  <2>2. \E f : Lists(f, SUBSET L, skip, {b}, n)
    BY <2>1, Iterates
  <2> QED
    BY <2>2 DEF Lists
<1>6. f = [k \in 0..n |-> IF k = 0 THEN {b} ELSE SkipEmpty(p, f[k - 1])]
  <2>1. ASSUME NEW k \in 0..n PROVE f[k] = IF k = 0 THEN {b} ELSE SkipEmpty(p, f[k - 1])
    <3>1. CASE k = 0
      BY <1>5, <3>1
    <3>2. CASE k # 0
      <4>1. k \in 1..n /\ k - 1 \in 0..n
        BY <1>1, <3>2
      <4>2. f[k - 1] \in SUBSET L
        BY <1>5, <4>1
      <4> QED
        BY <1>4, <1>5, <3>2, <4>1, <4>2
    <3> QED
      BY <3>1, <3>2
  <2> QED
    BY <1>5, <2>1
<1>7. chain = [k \in 0..n |-> IF k = 0 THEN {b} ELSE SkipEmpty(p, chain[k - 1])]
  BY <1>6 DEF chain
<1>8. chain[0] = {b} /\ \A k \in 1..n : chain[k] = SkipEmpty(p, chain[k - 1])
  <2>1. \A k \in 0..n : chain[k] = IF k = 0 THEN {b} ELSE SkipEmpty(p, chain[k - 1])
    BY <1>7
  <2>2. 0 \in 0..n /\ \A k \in 1..n : k \in 0..n /\ k # 0
    BY <1>1
  <2> QED
    BY <2>1, <2>2
<1>9. ASSUME NEW X, b \in X, SkipClosed(p, X) PROVE \A k \in 0..n : chain[k] \subseteq X
  <2> DEFINE T == {k \in 0..n : chain[k] \subseteq X}
  <2>1. 0 \in T
    BY <1>1, <1>8, <1>9
  <2>2. ASSUME NEW k \in 1..n, k - 1 \in T PROVE k \in T
    <3>1. chain[k - 1] \subseteq X /\ k \in 0..n
      BY <1>1, <2>2
    <3>2. SkipEmpty(p, chain[k - 1]) \subseteq X
      BY <1>9, <3>1 DEF SkipEmpty, SkipClosed
    <3> QED
      BY <1>8, <3>1, <3>2
  <2> HIDE DEF T
  <2>3. \A k \in 0..n : k \in T
    BY <1>1, <2>1, <2>2, CountUp
  <2> QED
    BY <2>3 DEF T
<1>n. n \in 0..n
  BY <1>1
<1>10. ASSUME NEW X, b \in X, SkipClosed(p, X), NEW t \in first_logical_sites(p, b)
       PROVE  \E c \in X : Sited(p, c) /\ t = <<c, 1>>
  BY <1>2, <1>9, <1>10, <1>n
<1>11. \A t \in first_logical_sites(p, b) : \E c \in DOMAIN p : Sited(p, c) /\ t = <<c, 1>>
  <2>1. SkipClosed(p, DOMAIN p)
    BY TerminatorShape DEF SkipClosed
  <2> QED
    BY <1>10, <2>1
(* The members of the chain up to some step, and all further ones.          *)
<1> DEFINE m == n - 1
           grow == [X \in SUBSET L |-> X \cup SkipEmpty(p, X)]
<1>12. m \in Nat /\ n = m + 1
  BY <1>1
<1>13. /\ grow \in [SUBSET L -> SUBSET L]
       /\ \A X \in SUBSET L : grow[X] = X \cup SkipEmpty(p, X)
       /\ \A X \in SUBSET L : X \subseteq grow[X]
  BY <1>3
<1> HIDE DEF m, grow
<1>14. PICK R : Lists(R, SUBSET L, grow, {b}, m)
  <2>1. Iterable(SUBSET L, grow, {b}, m)
    BY <1>12, <1>13, <1>b DEF Iterable
  <2> QED
    BY <2>1, Iterates
<1>15. /\ R \in [0..m -> SUBSET L] /\ R[0] = {b}
       /\ \A k \in 1..m : R[k] = grow[R[k - 1]]
  BY <1>14 DEF Lists
<1>16. m \in 0..m
  BY <1>12
<1>17. R[m] \in SUBSET L /\ SkipEmpty(p, R[m]) \subseteq R[m]
  <2>1. IsFiniteSet(L) /\ Cardinality(L) = n
    BY <1>1, FS_Interval
  <2>2. Cardinality({b}) = 1
    BY FS_Singleton
  <2>3. Cardinality(L) <= m + Cardinality({b})
    BY <1>12, <2>1, <2>2
  <2>4. Growing(R, L, grow, {b}, m)
    BY <1>12, <1>13, <1>14, <2>1, <2>3 DEF Growing
  <2>5. grow[R[m]] = R[m]
    BY <2>4, Saturates
  <2>6. R[m] \in SUBSET L
    BY <1>15, <1>16
  <2> QED
    BY <1>13, <2>5, <2>6
<1>18. SkipClosed(p, R[m])
  BY <1>17 DEF SkipEmpty, SkipClosed
<1>19. b \in R[m]
  <2> DEFINE T == {k \in 0..m : b \in R[k]}
  <2>1. 0 \in T
    BY <1>12, <1>15
  <2>2. ASSUME NEW k \in 1..m, k - 1 \in T PROVE k \in T
    <3>1. b \in R[k - 1] /\ k \in 0..m /\ k - 1 \in 0..m
      BY <1>12, <2>2
    <3>2. R[k - 1] \in SUBSET L
      BY <1>15, <3>1
    <3> QED
      BY <1>13, <1>15, <3>1, <3>2
  <2> HIDE DEF T
  <2>3. \A k \in 0..m : k \in T
    BY <1>12, <2>1, <2>2, CountUp
  <2> QED
    BY <1>16, <2>3 DEF T
<1>20. \A k \in 0..m : \A c \in R[k] : \E j \in 0..k : c \in chain[j]
  <2> DEFINE T == {k \in 0..m : \A c \in R[k] : \E j \in 0..k : c \in chain[j]}
  <2>1. 0 \in T
    BY <1>8, <1>12, <1>15
  <2>2. ASSUME NEW k \in 1..m, k - 1 \in T PROVE k \in T
    <3>1. k \in 0..m /\ k - 1 \in 0..m /\ \A c \in R[k - 1] : \E j \in 0..(k - 1) : c \in chain[j]
      BY <1>12, <2>2
    <3>2. ASSUME NEW c \in R[k] PROVE \E j \in 0..k : c \in chain[j]
      <4>1. c \in R[k - 1] \/ c \in SkipEmpty(p, R[k - 1])
        BY <1>13, <1>15, <3>1
      <4>2. CASE c \in R[k - 1]
        <5>1. PICK j \in 0..(k - 1) : c \in chain[j]
          BY <3>1, <4>2
        <5>2. j \in 0..k
          OBVIOUS
        <5> QED
          BY <5>1, <5>2
      <4>3. CASE c \in SkipEmpty(p, R[k - 1])
        <5>1. PICK x \in R[k - 1] : c \in (IF logical_sites_for_block(p, x) = <<>>
                                          THEN successors(p[x].terminator) ELSE {x})
          BY <4>3 DEF SkipEmpty
        <5>2. PICK j \in 0..(k - 1) : x \in chain[j]
          BY <3>1
        <5>3. c \in SkipEmpty(p, chain[j])
          BY <5>1, <5>2 DEF SkipEmpty
        <5>4. j + 1 \in 1..n /\ (j + 1) - 1 = j /\ j + 1 \in 0..k
          BY <1>12
        <5>5. chain[j + 1] = SkipEmpty(p, chain[j])
          BY <1>8, <5>4
        <5> QED
          BY <5>3, <5>4, <5>5
      <4> QED
        BY <4>1, <4>2, <4>3
    <3> QED
      BY <3>1, <3>2
  <2> HIDE DEF T
  <2>3. \A k \in 0..m : k \in T
    BY <1>12, <2>1, <2>2, CountUp
  <2> QED
    BY <2>3 DEF T
<1>21. ASSUME NEW j \in 0..n, NEW c \in chain[j], Sited(p, c) PROVE c \in chain[n]
  <2> DEFINE T == {d \in 0..(n - j) : c \in chain[j + d]}
  <2>1. 0 \in T
    BY <1>1, <1>21
  <2>2. ASSUME NEW d \in 1..(n - j), d - 1 \in T PROVE d \in T
    <3>1. j + d \in 1..n /\ (j + d) - 1 = j + (d - 1) /\ d \in 0..(n - j)
      BY <1>1
    <3>2. chain[j + d] = SkipEmpty(p, chain[j + (d - 1)])
      BY <1>8, <3>1
    <3>3. c \in SkipEmpty(p, chain[j + (d - 1)])
      BY <1>21, <2>2 DEF SkipEmpty, Sited
    <3> QED
      BY <3>1, <3>2, <3>3
  <2>4. n - j \in Nat /\ n - j \in 0..(n - j) /\ j + (n - j) = n
    BY <1>1
  <2> HIDE DEF T
  <2>5. \A d \in 0..(n - j) : d \in T
    BY <2>1, <2>2, <2>4, CountUp
  <2>6. n - j \in T
    BY <2>4, <2>5
  <2> QED
    BY <2>4, <2>6 DEF T
<1>22. \A c \in R[m] : Sited(p, c) => <<c, 1>> \in first_logical_sites(p, b)
  <2> SUFFICES ASSUME NEW c \in R[m], Sited(p, c) PROVE <<c, 1>> \in first_logical_sites(p, b)
    OBVIOUS
  <2>1. PICK j \in 0..m : c \in chain[j]
    BY <1>16, <1>20
  <2>2. j \in 0..n
    BY <1>12
  <2> QED
    BY <1>2, <1>21, <2>1, <2>2
<1>23. R[m] \in SUBSET DOMAIN p
  BY <1>17 DEF L
<1> QED
  BY <1>10, <1>11, <1>18, <1>19, <1>22, <1>23

LEMMA FirstSitesStart ==
    ASSUME NEW p \in Programs, NEW b \in DOMAIN p
    PROVE  /\ first_logical_sites(p, b) \subseteq Sites(p)
           /\ Sited(p, b) => <<b, 1>> \in first_logical_sites(p, b)
           /\ ~Sited(p, b) => \A c \in successors(p[b].terminator) :
                                 first_logical_sites(p, c) \subseteq first_logical_sites(p, b)
<1>1. PICK Y \in SUBSET DOMAIN p :
         /\ b \in Y /\ SkipClosed(p, Y)
         /\ \A c \in Y : Sited(p, c) => <<c, 1>> \in first_logical_sites(p, b)
  BY FirstSitesAre
<1>2. ASSUME NEW t \in first_logical_sites(p, b) PROVE t \in Sites(p)
  <2>1. PICK c \in DOMAIN p : Sited(p, c) /\ t = <<c, 1>>
    BY FirstSitesAre
  <2>2. SiteCount(p, c) # 0 /\ SiteCount(p, c) \in Nat
    BY <2>1, BlockSites, ProgramShape DEF Sited
  <2>3. 1 \in 1..SiteCount(p, c)
    BY <2>2
  <2> QED
    BY <2>1, <2>3, SiteIs
<1>3. ASSUME ~Sited(p, b), NEW c \in successors(p[b].terminator), NEW t \in first_logical_sites(p, c)
      PROVE  t \in first_logical_sites(p, b)
  <2>1. c \in Y /\ c \in DOMAIN p
    BY <1>1, <1>3 DEF SkipClosed, Sited
  <2>2. PICK d \in Y : Sited(p, d) /\ t = <<d, 1>>
    BY <1>1, <2>1, FirstSitesAre
  <2> QED
    BY <1>1, <2>2
<1> QED
  BY <1>1, <1>2, <1>3

(* The edge from a location without a site.                                 *)
LEMMA UnsitedEdges ==
    ASSUME NEW p \in Programs, NEW b \in DOMAIN p, ~Sited(p, b)
    PROVE  /\ BodyLen(p, b) = 0 /\ <<b, 1>> \notin Sites(p)
           /\ dataflow_successors(p[b].terminator) = successors(p[b].terminator)
           /\ \A c \in successors(p[b].terminator) : <<c, 1>> \in LocationEdges(p, <<b, 1>>)
<1>1. SiteCount(p, b) = 0 /\ BodyLen(p, b) \in Nat
  BY BlockSites, ProgramShape DEF Sited
<1>2. BodyLen(p, b) = 0 /\ ~has_raw_insn(p[b].terminator)
  BY <1>1 DEF SiteCount
<1>3. <<b, 1>> \notin Sites(p)
  <2>1. ASSUME <<b, 1>> \in Sites(p) PROVE 1 \in 1..SiteCount(p, b)
    <3> DEFINE s == <<b, 1>>
    <3>1. s[1] = b /\ s[2] = 1 /\ s \in Sites(p)
      BY <2>1
    <3> HIDE DEF s
    <3>2. s[2] \in 1..SiteCount(p, s[1])
      BY <3>1, SiteIs
    <3> QED
      BY <3>1, <3>2
  <2> QED
    BY <1>1, <2>1
<1>4. dataflow_successors(p[b].terminator) = successors(p[b].terminator)
  BY <1>2 DEF dataflow_successors, has_raw_insn, TermOps
<1> QED
  BY <1>2, <1>3, <1>4 DEF LocationEdges

(* No block skipped on the way to a first site writes a register.           *)
LEMMA FirstSitesReached ==
    ASSUME NEW p \in Programs, NEW b \in DOMAIN p, NEW ds, DOMAIN ds = Sites(p), NEW r,
           NEW Z, Closed(p, ds, Z, r), <<b, 1>> \in Z
    PROVE  first_logical_sites(p, b) \subseteq Z
<1> DEFINE X == {c \in DOMAIN p : <<c, 1>> \in Z}
<1>1. SkipClosed(p, X)
  <2> SUFFICES ASSUME NEW c \in X, logical_sites_for_block(p, c) = <<>>,
                      NEW d \in successors(p[c].terminator)
               PROVE  d \in X
    BY DEF SkipClosed
  <2>1. d \in DOMAIN p
    BY TerminatorShape
  <2>2. <<c, 1>> \notin Sites(p) /\ <<d, 1>> \in LocationEdges(p, <<c, 1>>)
    BY UnsitedEdges DEF Sited
  <2>3. <<c, 1>> \in Z /\ ~Writes(ds, <<c, 1>>, r)
    BY <2>2 DEF Writes
  <2> QED
    BY <2>1, <2>2, <2>3 DEF Closed
<1>2. b \in X
  OBVIOUS
<1> HIDE DEF X
<1>3. ASSUME NEW t \in first_logical_sites(p, b) PROVE t \in Z
  <2>1. PICK c \in X : t = <<c, 1>>
    BY <1>1, <1>2, FirstSitesAre
  <2> QED
    BY <2>1 DEF X
<1> QED
  BY <1>3

LEMMA SuccessorsAreSites ==
    ASSUME NEW p \in Programs, NEW s \in Sites(p)
    PROVE  site_successors(p, s) \subseteq Sites(p)
<1>1. s = <<s[1], s[2]>> /\ s[1] \in DOMAIN p /\ s[2] \in 1..SiteCount(p, s[1])
  BY SiteIs
<1>2. Len(logical_sites_for_block(p, s[1])) = SiteCount(p, s[1]) /\ SiteCount(p, s[1]) \in Nat
  BY <1>1, BlockSites, ProgramShape
<1>3. CASE s[2] < SiteCount(p, s[1])
  <2>1. s[2] + 1 \in 1..SiteCount(p, s[1])
    BY <1>1, <1>2, <1>3
  <2>2. <<s[1], s[2] + 1>> \in Sites(p)
    BY <1>1, <2>1, SiteIs
  <2> QED
    BY <1>2, <1>3, <2>2 DEF site_successors
<1>4. CASE ~(s[2] < SiteCount(p, s[1]))
  <2>1. \A b \in dataflow_successors(p[s[1]].terminator) : first_logical_sites(p, b) \subseteq Sites(p)
    BY <1>1, TerminatorShape, FirstSitesStart
  <2> QED
    BY <1>2, <1>4, <2>1 DEF site_successors
<1> QED
  BY <1>3, <1>4

(* A register not written at s is still not written at its successors.      *)
LEMMA SuccessorReached ==
    ASSUME NEW p \in Programs, NEW s \in Sites(p), NEW ds, DOMAIN ds = Sites(p), NEW r,
           r \notin ds[s], NEW t \in site_successors(p, s)
    PROVE  ClearReach(p, ds, {t}, r) \subseteq ClearReach(p, ds, {s}, r)
<1> DEFINE Z == ClearReach(p, ds, {s}, r)
           b == s[1]
           len == BodyLen(p, b)
<1>1. s \in Locations(p) /\ t \in Locations(p)
  BY SuccessorsAreSites, LocationIs
<1>2. s \in Z /\ Closed(p, ds, Z, r)
  BY <1>1, ClearReachIs
<1>3. /\ s = <<b, s[2]>> /\ b \in DOMAIN p /\ s[2] \in 1..SiteCount(p, b)
      /\ len \in Nat /\ SiteCount(p, b) \in len..(len + 1)
      /\ Len(logical_sites_for_block(p, b)) = SiteCount(p, b)
  BY SiteIs, BlockSites, ProgramShape
<1>4. ~Writes(ds, s, r)
  BY DEF Writes
<1>5. LocationEdges(p, s) \subseteq Z
  BY <1>2, <1>4 DEF Closed
<1>6. t \in Z
  <2>1. CASE s[2] < SiteCount(p, b)
    <3>1. t = <<b, s[2] + 1>>
      BY <1>3, <2>1 DEF site_successors
    <3>2. s[2] <= len
      BY <1>3, <2>1
    <3> QED
      BY <1>5, <3>1, <3>2 DEF LocationEdges
  <2>2. CASE ~(s[2] < SiteCount(p, b))
    <3>1. PICK c \in dataflow_successors(p[b].terminator) : t \in first_logical_sites(p, c)
      BY <1>3, <2>2 DEF site_successors
    <3>2. c \in DOMAIN p
      BY <1>3, <3>1, TerminatorShape
    <3>3. <<c, 1>> \in Z
      <4>1. CASE s[2] <= len
        <5> DEFINE u == <<b, s[2] + 1>>
        <5>1. u \in Z
          BY <1>5, <4>1 DEF LocationEdges
        <5>2. s[2] = len /\ SiteCount(p, b) = len
          BY <1>3, <2>2, <4>1
        <5>3. u \notin Sites(p)
          <6>1. u[1] = b /\ u[2] = s[2] + 1
            OBVIOUS
          <6> HIDE DEF u
          <6>2. u \in Sites(p) => u[2] \in 1..SiteCount(p, u[1])
            BY SiteIs
          <6> QED
            BY <1>3, <5>2, <6>1, <6>2
        <5>4. <<c, 1>> \in LocationEdges(p, u)
          BY <1>3, <3>1, <5>2 DEF LocationEdges
        <5>5. ~Writes(ds, u, r)
          BY <5>3 DEF Writes
        <5> HIDE DEF u
        <5> QED
          BY <1>2, <5>1, <5>4, <5>5 DEF Closed
      <4>2. CASE ~(s[2] <= len)
        BY <1>5, <3>1, <4>2 DEF LocationEdges
      <4> QED
        BY <4>1, <4>2
    <3> HIDE DEF Z
    <3> QED
      BY <1>2, <3>1, <3>2, <3>3, FirstSitesReached
  <2> QED
    BY <2>1, <2>2
<1> HIDE DEF Z
<1>7. {t} \subseteq Z
  BY <1>6
<1>8. ClearReach(p, ds, {t}, r) \subseteq Z
  BY <1>1, <1>2, <1>7, ClearReachIs
<1> QED
  BY <1>8 DEF Z

-----------------------------------------------------------------------------
(* A sweep of the liveness loop: the sites backwards, in place.             *)

(* The number of sites a sweep visits before s.                             *)
Rank(p, s) == Cardinality({t \in Sites(p) : IsAfter(t, s)})

LEMMA RankIs ==
    ASSUME NEW p \in Programs
    PROVE  /\ Cardinality(Sites(p)) \in Nat
           /\ \A s \in Sites(p) : Rank(p, s) \in 0..Cardinality(Sites(p))
           /\ \A s, t \in Sites(p) : IsAfter(t, s) => Rank(p, t) < Rank(p, s)
<1> DEFINE D == Sites(p)
           After(s) == {t \in D : IsAfter(t, s)}
<1>1. \A s \in D : s[1] \in Nat /\ s[2] \in Nat
  <2> SUFFICES ASSUME NEW s \in D PROVE s[1] \in Nat /\ s[2] \in Nat
    OBVIOUS
  <2>1. s[1] \in DOMAIN p /\ s[2] \in 1..SiteCount(p, s[1])
    BY SiteIs
  <2>2. s[1] \in Nat
    BY <2>1, ProgramShape
  <2>3. SiteCount(p, s[1]) \in Nat
    BY <2>1, BlockSites, ProgramShape
  <2> QED
    BY <2>1, <2>2, <2>3
<1>2. IsFiniteSet(D) /\ Cardinality(D) \in Nat
  BY LocationIs, LocationsFinite, FS_Subset, FS_CardinalityType
<1>3. \A X \in SUBSET D : IsFiniteSet(X) /\ Cardinality(X) \in Nat /\ Cardinality(X) <= Cardinality(D)
  BY <1>2, FS_Subset, FS_CardinalityType
<1>4. ASSUME NEW s \in D PROVE Rank(p, s) \in 0..Cardinality(D)
  <2>1. After(s) \in SUBSET D
    OBVIOUS
  <2>2. Cardinality(After(s)) \in Nat /\ Cardinality(After(s)) <= Cardinality(D)
    BY <1>3, <2>1
  <2> QED
    BY <1>2, <2>2 DEF Rank
<1>5. ASSUME NEW s \in D, NEW t \in D, IsAfter(t, s) PROVE Rank(p, t) < Rank(p, s)
  <2>1. After(t) \in SUBSET D /\ After(s) \in SUBSET D
    OBVIOUS
  <2>2. s[1] \in Nat /\ s[2] \in Nat /\ t[1] \in Nat /\ t[2] \in Nat
    BY <1>1
  <2>3. ASSUME NEW u \in After(t) PROVE u \in After(s)
    <3>1. u[1] \in Nat /\ u[2] \in Nat /\ IsAfter(u, t)
      BY <1>1
    <3>2. IsAfter(u, s)
      BY <1>5, <2>2, <3>1 DEF IsAfter
    <3> QED
      BY <3>2
  <2>4. t \in After(s) /\ t \notin After(t)
    BY <1>5, <2>2 DEF IsAfter
  <2> HIDE DEF After
  <2>5. After(t) \subseteq After(s) /\ After(t) # After(s)
    BY <2>3, <2>4
  <2>6. /\ Cardinality(After(t)) <= Cardinality(After(s))
        /\ Cardinality(After(s)) = Cardinality(After(t)) => After(s) = After(t)
    BY <1>3, <2>1, <2>5, FS_Subset
  <2>7. Cardinality(After(t)) \in Nat /\ Cardinality(After(s)) \in Nat
    BY <1>3, <2>1
  <2>8. Cardinality(After(t)) < Cardinality(After(s))
    BY <2>5, <2>6, <2>7
  <2> QED
    BY <2>8 DEF Rank, After
<1> QED
  BY <1>2, <1>4, <1>5

(* What holds of a site when it holds of those a sweep visits before it,    *)
(* holds of every site.                                                     *)
LEMMA SweepInduction ==
    ASSUME NEW p \in Programs, NEW G,
           \A s \in Sites(p) : (\A t \in Sites(p) : IsAfter(t, s) => t \in G) => s \in G
    PROVE  Sites(p) \subseteq G
<1> DEFINE bad == {Rank(p, s) : s \in {s \in Sites(p) : s \notin G}}
<1>1. SUFFICES ASSUME NEW x \in Sites(p), x \notin G PROVE FALSE
  OBVIOUS
<1>2. \A s \in Sites(p) : Rank(p, s) \in Nat
  BY RankIs
<1>3. bad \in SUBSET Nat /\ bad # {}
  BY <1>1, <1>2
<1>4. \A s \in Sites(p) : s \notin G => Rank(p, s) \in bad
  OBVIOUS
<1>5. \A k \in bad : \E s \in Sites(p) : s \notin G /\ k = Rank(p, s)
  OBVIOUS
<1> HIDE DEF bad
<1>6. PICK m \in bad : \A y \in bad : m <= y
  BY <1>3, Least
<1>7. PICK s \in Sites(p) : s \notin G /\ m = Rank(p, s)
  BY <1>5
<1>8. ASSUME NEW t \in Sites(p), IsAfter(t, s) PROVE t \in G
  <2>1. Rank(p, t) < Rank(p, s) /\ Rank(p, t) \in Nat /\ Rank(p, s) \in Nat
    BY <1>2, <1>8, RankIs
  <2>2. Rank(p, t) \notin bad
    BY <1>6, <1>7, <2>1
  <2> QED
    BY <1>4, <2>2
<1> QED
  BY <1>7, <1>8

(* r is live after s in a sweep from `old`, `new` holding the sets of the   *)
(* sites already visited.                                                   *)
SweepLive(p, new, old, s, r) ==
    \E t \in site_successors(p, s) : r \in (IF IsAfter(t, s) THEN new[t] ELSE old[t])

LEMMA SweepIs ==
    ASSUME NEW p \in Programs, NEW us, NEW ds, NEW old, DOMAIN old = Sites(p)
    PROVE  LET l == LivenessSweep(p, us, ds, old) IN
           /\ DOMAIN l.in = Sites(p)
           /\ \A s \in Sites(p) : \A r :
                 r \in l.in[s] <=> r \in us[s] \/ (r \notin ds[s] /\ SweepLive(p, l.in, old, s, r))
<1> DEFINE D == DOMAIN old
           Out(new, s) ==
               UNION {IF IsAfter(t, s) THEN new[t] ELSE old[t] : t \in site_successors(p, s)}
           in[s \in D] == (Out(in, s) \ ds[s]) \cup us[s]
           V == (UNION {us[s] : s \in D}) \cup (UNION {old[s] : s \in D})
           U == [D -> SUBSET V]
           F(g) == [s \in D |-> (Out(g, s) \ ds[s]) \cup us[s]]
           step == [g \in U |-> F(g)]
           n == Cardinality(D)
<1>1. LivenessSweep(p, us, ds, old).in = in
  BY DEF LivenessSweep
<1>2. D = Sites(p) /\ n \in Nat
  BY RankIs
<1>3. ASSUME NEW g \in U PROVE F(g) \in U
  <2>1. ASSUME NEW s \in D PROVE (Out(g, s) \ ds[s]) \cup us[s] \in SUBSET V
    <3>1. us[s] \subseteq V
      OBVIOUS
    <3>2. ASSUME NEW t \in site_successors(p, s)
          PROVE  (IF IsAfter(t, s) THEN g[t] ELSE old[t]) \subseteq V
      <4>1. t \in D
        BY <1>2, SuccessorsAreSites
      <4>2. old[t] \subseteq V
        BY <4>1
      <4> HIDE DEF V
      <4>3. g[t] \subseteq V
        BY <4>1
      <4> QED
        BY <4>2, <4>3
    <3> HIDE DEF V
    <3>3. Out(g, s) \subseteq V
      BY <3>2
    <3> QED
      BY <3>1, <3>3
  <2> HIDE DEF V, Out
  <2> QED
    BY <2>1
<1> DEFINE a == [s \in D |-> {}]
<1>4. a \in U
  OBVIOUS
<1>5. step \in [U -> U] /\ \A g \in U : step[g] = F(g)
  <2> HIDE DEF U, F
  <2> QED
    BY <1>3
<1>o. \A new, s, r : r \in Out(new, s) <=> SweepLive(p, new, old, s, r)
  BY DEF SweepLive
<1>f. \A g : \A s \in D : F(g)[s] = (Out(g, s) \ ds[s]) \cup us[s]
  OBVIOUS
<1> DEFINE N == n + 1
           M == n + 2
<1>6. N \in Nat /\ M \in Nat /\ N = n + 1 /\ M = N + 1
  BY <1>2
<1>r. /\ \A s \in D : Rank(p, s) \in Nat /\ Rank(p, s) < N
      /\ \A s, t \in D : IsAfter(t, s) => Rank(p, t) < Rank(p, s)
  <2>1. \A s \in D : Rank(p, s) \in 0..n
    BY <1>2, RankIs
  <2>2. \A k \in 0..n : k \in Nat /\ k < N
    BY <1>2
  <2> QED
    BY <1>2, <2>1, <2>2, RankIs
<1> HIDE DEF step, a, F, N, M
<1>7. PICK f : Lists(f, U, step, a, M)
  <2>1. Iterable(U, step, a, M)
    BY <1>4, <1>5, <1>6 DEF Iterable
  <2> HIDE DEF U
  <2> QED
    BY <2>1, Iterates
<1>8. (\A k \in 0..M : f[k] \in U) /\ \A k \in 1..M : f[k] = F(f[k - 1])
  <2> HIDE DEF U
  <2>1. f \in [0..M -> U] /\ \A k \in 1..M : f[k] = step[f[k - 1]]
    BY <1>7 DEF Lists
  <2>2. \A k \in 1..M : k - 1 \in 0..M
    BY <1>6
  <2> QED
    BY <1>5, <2>1, <2>2
(* After k + 1 iterations the first k sites of the sweep have their sets.   *)
<1>9. \A k \in 0..N : \A s \in D : Rank(p, s) < k => f[k + 1][s] = f[k][s]
  <2> DEFINE T == {k \in 0..N : \A s \in D : Rank(p, s) < k => f[k + 1][s] = f[k][s]}
  <2>1. 0 \in T
    BY <1>6, <1>r
  <2>2. ASSUME NEW k \in 1..N, k - 1 \in T PROVE k \in T
    <3>1. \A t \in D : Rank(p, t) < k - 1 => f[k][t] = f[k - 1][t]
      <4>1. (k - 1) + 1 = k
        BY <1>6
      <4> QED
        BY <2>2, <4>1
    <3>2. k \in 1..M /\ k + 1 \in 1..M /\ (k + 1) - 1 = k /\ k \in 0..N
      BY <1>6
    <3>3. f[k + 1] = F(f[k]) /\ f[k] = F(f[k - 1])
      BY <1>8, <3>2
    <3>4. ASSUME NEW s \in D, Rank(p, s) < k PROVE f[k + 1][s] = f[k][s]
      <4>1. ASSUME NEW t \in site_successors(p, s), IsAfter(t, s) PROVE f[k][t] = f[k - 1][t]
        <5>1. t \in D
          BY <1>2, SuccessorsAreSites
        <5>2. Rank(p, t) < k - 1
          BY <1>r, <3>4, <4>1, <5>1
        <5> QED
          BY <3>1, <5>1, <5>2
      <4>2. \A r : SweepLive(p, f[k], old, s, r) <=> SweepLive(p, f[k - 1], old, s, r)
        BY <4>1 DEF SweepLive
      <4> HIDE DEF Out
      <4>3. Out(f[k], s) = Out(f[k - 1], s)
        BY <1>o, <4>2
      <4> HIDE DEF F
      <4>4. /\ F(f[k])[s] = (Out(f[k], s) \ ds[s]) \cup us[s]
            /\ F(f[k - 1])[s] = (Out(f[k - 1], s) \ ds[s]) \cup us[s]
        BY <1>f, Zenon
      <4>5. F(f[k])[s] = F(f[k - 1])[s]
        BY <4>3, <4>4, Zenon
      <4> QED
        BY <3>3, <4>5, Zenon
    <3> QED
      BY <3>2, <3>4
  <2> HIDE DEF T
  <2>3. \A k \in 0..N : k \in T
    BY <1>6, <2>1, <2>2, CountUp
  <2> QED
    BY <2>3 DEF T
<1>10. f[N] = F(f[N])
  <2>1. N \in 0..N /\ N + 1 = M /\ M \in 1..M /\ N \in 0..M /\ M \in 0..M /\ M - 1 = N
    BY <1>6
  <2>2. \A s \in D : f[M][s] = f[N][s]
    BY <1>9, <1>r, <2>1
  <2>3. f[M] \in U /\ f[N] \in U
    BY <1>8, <2>1
  <2>4. f[M] = f[N]
    <3> HIDE DEF V
    <3> QED
      BY <2>2, <2>3
  <2> HIDE DEF U
  <2> QED
    BY <1>8, <2>1, <2>4
<1>11. in = F(in)
  <2>1. \E g : g = [s \in D |-> (Out(g, s) \ ds[s]) \cup us[s]]
    BY <1>10 DEF F
  <2> HIDE DEF Out
  <2>2. in = [s \in D |-> (Out(in, s) \ ds[s]) \cup us[s]]
    BY <2>1 DEF in
  <2> QED
    BY <2>2 DEF F
<1> HIDE DEF in, Out
<1>12. DOMAIN in = D
  <2>1. DOMAIN F(in) = D
    BY DEF F
  <2> QED
    BY <1>11, <2>1
<1>13. \A s \in D : in[s] = (Out(in, s) \ ds[s]) \cup us[s]
  BY <1>f, <1>11
<1>14. \A s \in D : \A r :
          r \in in[s] <=> r \in us[s] \/ (r \notin ds[s] /\ SweepLive(p, in, old, s, r))
  BY <1>13, <1>o
<1> HIDE DEF D
<1> QED
  BY <1>1, <1>2, <1>12, <1>14

-----------------------------------------------------------------------------
(* Liveness is exact.                                                       *)

(* Some path from s reads r before writing it.                              *)
ReadOnPath(p, us, ds, s, r) ==
    \E t \in ClearReach(p, ds, {s}, r) : t \in Sites(p) /\ r \in us[t]

LiveWitnessed(p, us, ds, li) ==
    \A s \in Sites(p) : \A r \in li[s] : ReadOnPath(p, us, ds, s, r)

(* The equations of liveness, as the last sweep leaves them.                *)
LiveClosed(p, us, ds, li) ==
    \A s \in Sites(p) :
        /\ us[s] \subseteq li[s]
        /\ \A t \in site_successors(p, s) : li[t] \ ds[s] \subseteq li[s]

(* A register is live at a location without a site when it is at one of the *)
(* next sites.                                                              *)
LiveAt(p, li, s, r) ==
    \/ s \in Sites(p) /\ r \in li[s]
    \/ /\ s \notin Sites(p)
       /\ \E c \in dataflow_successors(p[s[1]].terminator) :
             \E t \in first_logical_sites(p, c) : r \in li[t]

(* Every register a sweep calls live is read on some path.                  *)
LEMMA SweepLiveWitnessed ==
    ASSUME NEW p \in Programs, NEW us, NEW ds, DOMAIN ds = Sites(p), NEW old, DOMAIN old = Sites(p),
           LiveWitnessed(p, us, ds, old)
    PROVE  LiveWitnessed(p, us, ds, LivenessSweep(p, us, ds, old).in)
<1> DEFINE new == LivenessSweep(p, us, ds, old).in
           G == {s \in Sites(p) : \A r \in new[s] : ReadOnPath(p, us, ds, s, r)}
<1>1. \A s \in Sites(p) : \A r :
         r \in new[s] <=> r \in us[s] \/ (r \notin ds[s] /\ SweepLive(p, new, old, s, r))
  BY SweepIs
<1> HIDE DEF new
<1>2. ASSUME NEW s \in Sites(p), \A t \in Sites(p) : IsAfter(t, s) => t \in G
      PROVE  s \in G
  <2> SUFFICES ASSUME NEW r \in new[s] PROVE ReadOnPath(p, us, ds, s, r)
    OBVIOUS
  <2>1. CASE r \in us[s]
    <3>1. {s} \in SUBSET Locations(p)
      BY LocationIs
    <3>2. s \in ClearReach(p, ds, {s}, r)
      BY <3>1, ClearReachIs
    <3> QED
      BY <2>1, <3>2 DEF ReadOnPath
  <2>2. CASE r \notin us[s]
    <3>1. r \notin ds[s] /\ SweepLive(p, new, old, s, r)
      BY <1>1, <2>2
    <3>2. PICK t \in site_successors(p, s) : r \in (IF IsAfter(t, s) THEN new[t] ELSE old[t])
      BY <3>1 DEF SweepLive
    <3>3. t \in Sites(p)
      BY SuccessorsAreSites
    <3>4. ReadOnPath(p, us, ds, t, r)
      BY <1>2, <3>2, <3>3 DEF LiveWitnessed
    <3>5. ClearReach(p, ds, {t}, r) \subseteq ClearReach(p, ds, {s}, r)
      BY <3>1, SuccessorReached
    <3> QED
      BY <3>4, <3>5 DEF ReadOnPath
  <2> QED
    BY <2>1, <2>2
<1>3. Sites(p) \subseteq G
  <2> HIDE DEF G
  <2> QED
    BY <1>2, SweepInduction
<1> QED
  BY <1>3 DEF LiveWitnessed, new

(* A sweep that changes nothing leaves a solution.                          *)
LEMMA SweepLiveClosed ==
    ASSUME NEW p \in Programs, NEW us, NEW ds, NEW li, DOMAIN li = Sites(p),
           LivenessSweep(p, us, ds, li).in = li
    PROVE  LiveClosed(p, us, ds, li)
<1>1. \A s \in Sites(p) : \A r :
         r \in li[s] <=> r \in us[s] \/ (r \notin ds[s] /\ SweepLive(p, li, li, s, r))
  BY SweepIs
<1> SUFFICES ASSUME NEW s \in Sites(p)
             PROVE  /\ us[s] \subseteq li[s]
                    /\ \A t \in site_successors(p, s) : li[t] \ ds[s] \subseteq li[s]
  BY DEF LiveClosed
<1>2. us[s] \subseteq li[s]
  BY <1>1
<1>3. ASSUME NEW t \in site_successors(p, s), NEW r \in li[t] \ ds[s] PROVE r \in li[s]
  <2>1. SweepLive(p, li, li, s, r)
    BY DEF SweepLive
  <2> QED
    BY <1>1, <2>1
<1> QED
  BY <1>2, <1>3

LEMMA LiveAtEntry ==
    ASSUME NEW p \in Programs, NEW li, NEW c \in DOMAIN p, NEW r, LiveAt(p, li, <<c, 1>>, r)
    PROVE  \E t \in first_logical_sites(p, c) : r \in li[t]
<1>1. CASE Sited(p, c)
  <2>1. <<c, 1>> \in first_logical_sites(p, c) /\ <<c, 1>> \in Sites(p)
    BY <1>1, FirstSitesStart
  <2>2. r \in li[<<c, 1>>]
    BY <2>1 DEF LiveAt
  <2> QED
    BY <2>1, <2>2
<1>2. CASE ~Sited(p, c)
  <2>1. <<c, 1>> \notin Sites(p) /\ dataflow_successors(p[c].terminator) = successors(p[c].terminator)
    BY <1>2, UnsitedEdges
  <2>2. PICK d \in successors(p[c].terminator) : \E t \in first_logical_sites(p, d) : r \in li[t]
    <3> DEFINE s == <<c, 1>>
    <3>1. s[1] = c
      OBVIOUS
    <3>2. LiveAt(p, li, s, r) /\ s \notin Sites(p)
      BY <2>1
    <3> HIDE DEF s
    <3> QED
      BY <2>1, <3>1, <3>2 DEF LiveAt
  <2>3. first_logical_sites(p, d) \subseteq first_logical_sites(p, c)
    BY <1>2, FirstSitesStart
  <2> QED
    BY <2>2, <2>3
<1> QED
  BY <1>1, <1>2

(* Live after an edge and not written before it: live before it.            *)
LEMMA LiveEdge ==
    ASSUME NEW p \in Programs, NEW us, NEW ds, DOMAIN ds = Sites(p), NEW li, LiveClosed(p, us, ds, li),
           NEW s \in Locations(p), NEW to \in LocationEdges(p, s), NEW r,
           ~Writes(ds, s, r), LiveAt(p, li, to, r)
    PROVE  LiveAt(p, li, s, r)
<1> DEFINE b == s[1]
           len == BodyLen(p, b)
           Nexts == UNION {first_logical_sites(p, c) : c \in dataflow_successors(p[b].terminator)}
<1>1. /\ s = <<b, s[2]>> /\ b \in DOMAIN p /\ s[2] \in 1..(len + 1)
      /\ len \in Nat /\ SiteCount(p, b) \in len..(len + 1)
      /\ Len(logical_sites_for_block(p, b)) = SiteCount(p, b)
      /\ s \in Sites(p) <=> s[2] <= SiteCount(p, b)
  <2>1. /\ s = <<b, s[2]>> /\ b \in DOMAIN p /\ s[2] \in 1..(len + 1)
    BY LocationIs
  <2>2. /\ len \in Nat /\ SiteCount(p, b) \in len..(len + 1)
        /\ Len(logical_sites_for_block(p, b)) = SiteCount(p, b)
    BY <2>1, ProgramShape, BlockSites
  <2>3. s \in Sites(p) => s[2] \in 1..SiteCount(p, b)
    BY SiteIs
  <2>4. s[2] \in 1..SiteCount(p, b) => s \in Sites(p)
    BY <2>1, SiteIs
  <2> QED
    BY <2>1, <2>2, <2>3, <2>4
(* The register is live at one of the next sites.                           *)
<1>2. CASE \E t \in Nexts : ~(s[2] < SiteCount(p, b)) /\ r \in li[t]
  <2>1. PICK t \in Nexts : r \in li[t]
    BY <1>2
  <2>2. CASE s \in Sites(p)
    <3>1. t \in site_successors(p, s)
      BY <1>1, <1>2 DEF site_successors
    <3>2. r \in li[s]
      BY <2>1, <2>2, <3>1 DEF LiveClosed, Writes
    <3> QED
      BY <2>2, <3>2 DEF LiveAt
  <2>3. CASE s \notin Sites(p)
    BY <2>1, <2>3 DEF LiveAt
  <2> QED
    BY <2>2, <2>3
<1>3. CASE s[2] <= len
  <2>1. to = <<b, s[2] + 1>>
    BY <1>3 DEF LocationEdges
  <2>2. s \in Sites(p)
    BY <1>1, <1>3
  <2>3. to[1] = b /\ to[2] = s[2] + 1
    BY <2>1
  <2>4. CASE s[2] < SiteCount(p, b)
    <3>1. site_successors(p, s) = {to}
      BY <1>1, <2>1, <2>4 DEF site_successors
    <3>2. to \in Sites(p)
      BY <2>2, <3>1, SuccessorsAreSites
    <3>3. r \in li[to]
      BY <3>2 DEF LiveAt
    <3>4. r \in li[s]
      BY <2>2, <3>1, <3>3 DEF LiveClosed, Writes
    <3> QED
      BY <2>2, <3>4 DEF LiveAt
  <2>5. CASE ~(s[2] < SiteCount(p, b))
    <3>1. to \notin Sites(p)
      <4>1. to \in Sites(p) => to[2] \in 1..SiteCount(p, to[1])
        BY SiteIs
      <4> QED
        BY <1>1, <2>3, <2>5, <4>1
    <3>2. \E t \in Nexts : r \in li[t]
      BY <2>3, <3>1 DEF LiveAt
    <3> QED
      BY <1>2, <2>5, <3>2
  <2> QED
    BY <2>4, <2>5
<1>4. CASE ~(s[2] <= len)
  <2>1. PICK c \in dataflow_successors(p[b].terminator) : to = <<c, 1>>
    BY <1>4 DEF LocationEdges
  <2>2. c \in DOMAIN p
    BY <1>1, <2>1, TerminatorShape
  <2>3. \E t \in first_logical_sites(p, c) : r \in li[t]
    BY <2>1, <2>2, LiveAtEntry
  <2>4. \E t \in Nexts : r \in li[t]
    BY <2>1, <2>3
  <2>5. ~(s[2] < SiteCount(p, b))
    BY <1>1, <1>4
  <2> QED
    BY <1>2, <2>4, <2>5
<1> QED
  BY <1>3, <1>4

(* No register a frame remembers as declared dead is live where it stands.  *)
DeadNotLive(p, li, f) == \A r \in f.dead : ~LiveAt(p, li, f.at, r)

LiveInv ==
    /\ BaseInv
    /\ DOMAIN live_in = Sites(prog)
    /\ phase \in {"populate", "failed", "reach"} => \A s \in Sites(prog) : live_in[s] = {}
    /\ phase \in {"live", "run"} => LiveWitnessed(prog, uses, defs, live_in)
    /\ phase = "run" => LiveClosed(prog, uses, defs, live_in)
    /\ \A k \in DOMAIN frames : DeadNotLive(prog, live_in, frames[k])

LEMMA LiveInit == Init => LiveInv
<1>1. DOMAIN <<>> = {}
  OBVIOUS
<1> QED
  BY <1>1, BaseInit DEF Init, LiveInv

LEMMA DeadAtNotLive ==
    ASSUME DOMAIN live_in = Sites(prog), NEW s, NEW r \in DeadAt(s)
    PROVE  ~LiveAt(prog, live_in, s, r)
BY DEF DeadAt, LiveAt

LEMMA EnteredNotLive ==
    ASSUME DOMAIN live_in = Sites(prog), NEW b, NEW regs
    PROVE  DeadNotLive(prog, live_in, EntryFrame(b, regs))
<1>1. EntryFrame(b, regs).at = <<b, 1>> /\ EntryFrame(b, regs).dead = DeadAt(<<b, 1>>)
  BY DEF EntryFrame, Frame
<1> QED
  BY <1>1, DeadAtNotLive DEF DeadNotLive

LEMMA LiveStep == LiveInv /\ [Next]_vars => LiveInv'
<1> SUFFICES ASSUME LiveInv, [Next]_vars PROVE LiveInv'
  OBVIOUS
<1>0. BaseInv /\ BaseInv' /\ prog \in Programs /\ DOMAIN live_in = Sites(prog)
  BY BaseStep DEF LiveInv, BaseInv
<1>e. DOMAIN <<>> = {}
  OBVIOUS
<1>1. CASE Populate
  <2>1. /\ phase = "populate" /\ phase' \in {"reach", "failed"} /\ frames' = <<>>
        /\ prog' = prog /\ live_in' = live_in
    BY <1>0, <1>1 DEF Populate, BaseInv
  <2> QED
    BY <1>0, <1>e, <2>1 DEF LiveInv
<1>2. CASE Reach
  <2>1. /\ phase = "reach" /\ prog' = prog /\ uses' = uses /\ defs' = defs /\ frames' = <<>>
        /\ live_in' = live_in /\ phase' \in {"reach", "live"}
    BY <1>0, <1>2 DEF Reach, BaseInv
  <2>2. \A s \in Sites(prog) : live_in[s] = {}
    BY <2>1 DEF LiveInv
  <2>3. LiveWitnessed(prog, uses, defs, live_in)
    BY <2>2 DEF LiveWitnessed
  <2> QED
    BY <1>0, <1>e, <2>1, <2>2, <2>3 DEF LiveInv
<1>3. CASE Live
  <2>1. /\ phase = "live" /\ prog' = prog /\ uses' = uses /\ defs' = defs
        /\ live_in' = LivenessSweep(prog, uses, defs, live_in).in
        /\ \/ phase' = "live" /\ frames' = frames
           \/ /\ phase' = "run" /\ live_in' = live_in
              /\ \E regs : frames' = <<EntryFrame(1, regs)>>
    BY <1>3 DEF Live
  <2>2. DOMAIN defs = Sites(prog) /\ LiveWitnessed(prog, uses, defs, live_in) /\ frames = <<>>
    BY <1>0, <2>1 DEF LiveInv, BaseInv, Populated
  <2>3. DOMAIN live_in' = Sites(prog)
    BY <1>0, <2>1, SweepIs
  <2>4. LiveWitnessed(prog, uses, defs, live_in')
    BY <1>0, <2>1, <2>2, SweepLiveWitnessed
  <2>5. ASSUME phase' = "run" PROVE LiveClosed(prog, uses, defs, live_in')
    <3>1. LivenessSweep(prog, uses, defs, live_in).in = live_in /\ live_in' = live_in
      BY <2>1, <2>5
    <3> QED
      BY <1>0, <3>1, SweepLiveClosed
  <2>6. ASSUME NEW k \in DOMAIN frames' PROVE DeadNotLive(prog, live_in', frames'[k])
    <3>1. CASE frames' = frames
      BY <1>e, <2>2, <3>1
    <3>2. CASE live_in' = live_in /\ \E regs : frames' = <<EntryFrame(1, regs)>>
      <4>1. PICK regs : frames' = <<EntryFrame(1, regs)>>
        BY <3>2
      <4>2. frames'[k] = EntryFrame(1, regs)
        BY <4>1
      <4>3. DeadNotLive(prog, live_in, EntryFrame(1, regs))
        BY <1>0, EnteredNotLive
      <4> QED
        BY <3>2, <4>2, <4>3
    <3> QED
      BY <2>1, <3>1, <3>2
  <2> QED
    BY <1>0, <2>1, <2>3, <2>4, <2>5, <2>6 DEF LiveInv
<1>4. CASE MachineStep
  <2>1. /\ AnalysisKept /\ phase = "run"
        /\ \A k \in DOMAIN frames' : Kept(k) \/ Entered(k) \/ Advanced(k)
    BY <1>0, <1>4, MachineMoves
  <2>2. /\ Populated(prog) /\ PopulateOk(prog) /\ DOMAIN defs = Sites(prog)
        /\ LiveClosed(prog, uses, defs, live_in)
    BY <2>1 DEF LiveInv, BaseInv, Populated
  <2>3. ASSUME NEW k \in DOMAIN frames' PROVE DeadNotLive(prog, live_in, frames'[k])
    <3>1. CASE Kept(k)
      BY <3>1 DEF Kept, LiveInv
    <3>2. CASE Entered(k)
      <4>1. PICK b \in DOMAIN prog : \E regs : frames'[k] = EntryFrame(b, regs)
        BY <3>2 DEF Entered
      <4>2. PICK regs : frames'[k] = EntryFrame(b, regs)
        BY <4>1
      <4> QED
        BY <1>0, <4>2, EnteredNotLive
    <3>3. CASE Advanced(k)
      <4> DEFINE f == frames[k]
      <4>1. PICK to \in LocationEdges(prog, f.at) : \E regs, loads :
               frames'[k] = Advance(f, to, regs, loads)
        BY <3>3 DEF Advanced
      <4> DEFINE W == IF HasInsn(f.at) THEN MachineWrites(insn_at(prog, f.at)) ELSE {}
      <4>2. frames'[k].at = to /\ frames'[k].dead = (f.dead \ W) \cup DeadAt(to)
        BY <4>1 DEF Advance, Frame
      <4>3. f.at \in Locations(prog) /\ DeadNotLive(prog, live_in, f)
        BY <3>3 DEF Advanced, LiveInv, BaseInv
      <4> HIDE DEF f
      <4>4. \A r : Writes(defs, f.at, r) => r \in W
        BY <1>0, <2>2, <4>3, WritesAtLocation
      <4> HIDE DEF W
      <4>5. ASSUME NEW r \in f.dead, r \notin W PROVE ~LiveAt(prog, live_in, to, r)
        <5>1. ~Writes(defs, f.at, r) /\ ~LiveAt(prog, live_in, f.at, r)
          BY <4>3, <4>4, <4>5 DEF DeadNotLive
        <5> QED
          BY <1>0, <2>2, <4>1, <4>3, <5>1, LiveEdge
      <4>6. \A r \in DeadAt(to) : ~LiveAt(prog, live_in, to, r)
        BY <1>0, DeadAtNotLive
      <4> QED
        BY <4>2, <4>5, <4>6 DEF DeadNotLive
    <3> QED
      BY <2>1, <3>1, <3>2, <3>3
  <2> QED
    BY <1>0, <2>1, <2>3 DEF LiveInv, AnalysisKept
<1>5. CASE UNCHANGED vars
  BY <1>0, <1>5 DEF vars, LiveInv
<1> QED
  BY <1>1, <1>2, <1>3, <1>4, <1>5 DEF Next, MachineStep

LEMMA LiveInvIsExact == LiveInv => LivenessExact
<1> SUFFICES ASSUME LiveInv PROVE LivenessExact
  OBVIOUS
<1>0. BaseInv /\ prog \in Programs
  BY DEF LiveInv, BaseInv
<1>1. EveryLiveWitnessed
  <2> SUFFICES ASSUME phase = "run", NEW s \in Sites(prog), NEW r \in live_in[s]
               PROVE  \E t \in ClearReach(prog, defs, {s}, r) : t \in DOMAIN uses /\ r \in uses[t]
    BY DEF EveryLiveWitnessed
  <2>1. LiveWitnessed(prog, uses, defs, live_in) /\ DOMAIN uses = Sites(prog)
    BY <1>0 DEF LiveInv, BaseInv, Populated
  <2> QED
    BY <2>1 DEF LiveWitnessed, ReadOnPath
<1>2. ASSUME NEW r \in ReadsHere PROVE r \notin top.dead
  <2>1. frames # <<>> /\ HasInsn(top.at) /\ r \in MachineReads(insn_at(prog, top.at))
    BY DEF ReadsHere, Here
  <2>2. phase = "run" /\ Populated(prog) /\ PopulateOk(prog)
    BY <1>0, <2>1 DEF BaseInv
  <2>3. Len(frames) \in DOMAIN frames /\ top = frames[Len(frames)]
    BY <1>0, <2>1, StackIs
  <2>4. top.at \in Locations(prog) /\ DeadNotLive(prog, live_in, top)
    BY <1>0, <2>3 DEF LiveInv, BaseInv
  <2>5. top.at \in Sites(prog)
    BY <1>0, <2>1, <2>2, <2>4, WritesAtLocation
  <2>6. r \in uses[top.at]
    BY <1>0, <2>1, <2>2, <2>5, ReadsAndWrites
  <2>7. r \in live_in[top.at]
    BY <2>2, <2>5, <2>6 DEF LiveInv, LiveClosed
  <2> QED
    BY <2>4, <2>5, <2>7 DEF DeadNotLive, LiveAt
<1> QED
  BY <1>1, <1>2 DEF LivenessExact

(* compute_site_liveness is exact for every program: a register it declares *)
(* dead at a site is written again before any run reads it, through         *)
(* branches, loops, blocks without a site and subprogram calls, and one it  *)
(* declares live is read on some path without a write in defs before.  An   *)
(* atomic fetch is no exception: the write missing from its defs only keeps *)
(* a register live for longer.                                              *)
THEOREM LivenessIsExact == Spec => []LivenessExact
BY LiveInit, LiveStep, LiveInvIsExact, PTL DEF Spec

=============================================================================
