--------------------------- MODULE DiagnoseProofs ---------------------------
(***************************************************************************)
(* Theorems about Diagnose for every set of messages, instructions, source *)
(* listings and state facts: the identifier and the kind of a report       *)
(* agree, its signal is the best that applies, and its spans and source    *)
(* block show every place the analysis found and the rejection once.       *)
(***************************************************************************)
EXTENDS Diagnose, FiniteSetTheorems, SequenceTheorems, WellFoundedInduction, TLAPS

-----------------------------------------------------------------------------
(* The signals that can replace an unknown message.                         *)

(* Those that have no identifier of their own.  They never apply to an      *)
(* unknown message, which is why a report does not turn supported under     *)
(* E099.                                                                    *)
Unsettled ==
  {"MapValueGuardExceedsValueSize", "ContextAccessSourceArgumentMismatch",
   "MapLookupKeyArgumentUnreadable", "PacketGuardUndercoversAccess",
   "PacketMaxOffsetPrecisionBoundary", "MapValueRelationPrecisionBoundary"}

(* The others bring one.                                                    *)
LEMMA ReplacingHasId ==
  ASSUME NEW signal, can_replace_unsupported_terminal(signal), signal \notin Unsettled
  PROVE  /\ error_id_override(signal) # NoSignal
         /\ error_id_override(signal) \notin {"E000", "E099"}
BY DEF can_replace_unsupported_terminal, Unsettled, error_id_override, NoSignal

(* How many predicates are asked.                                           *)
LEMMA RegistryDomain ==
  ASSUME NEW c
  PROVE  DOMAIN Registry(c) = 1..64
BY DEF Registry

(* A set of numbers that is not empty has a least element.                  *)
LEMMA Least ==
  ASSUME NEW S \in SUBSET Nat, S # {}
  PROVE  \E m \in S : \A y \in S : m <= y
<1>. DEFINE less == OpToRel(<, Nat)
<1>1. \A x, y \in Nat : x < y => <<x, y>> \in less
  BY DEF OpToRel
<1>2. IsWellFoundedOn(less, Nat)
  BY NatLessThanWellFounded
<1>. HIDE DEF less
<1>3. PICK m \in S : \A y \in S : ~(<<y, m>> \in less)
  BY <1>2, WFMin
<1>4. ASSUME NEW y \in S
      PROVE  m <= y
  <2>1. y \in Nat /\ m \in Nat
    OBVIOUS
  <2>2. ~(y < m)
    BY <1>1, <1>3, <2>1
  <2>. QED
    BY <2>1, <2>2
<1>. QED
  BY <1>4

(* The first entry whose condition holds.                                   *)
LEMMA FirstHoldingIs ==
  ASSUME NEW n \in Nat, NEW entries, DOMAIN entries = 1..n
  PROVE  LET first == FirstHolding(entries) IN
         \/ first = NoSignal /\ \A i \in 1..n : ~entries[i][2]
         \/ \E i \in 1..n : /\ entries[i][2] /\ first = entries[i][1]
                            /\ \A j \in 1..n : entries[j][2] => i <= j
<1>. DEFINE hits == {i \in DOMAIN entries : entries[i][2]}
<1>1. CASE hits = {}
  BY <1>1 DEF FirstHolding
<1>2. CASE hits # {}
  <2>1. hits \subseteq Nat
    OBVIOUS
  <2>2. \E m \in hits : \A y \in hits : m <= y
    BY <1>2, <2>1, Least
  <2>. DEFINE first == CHOOSE i \in hits : \A j \in hits : i <= j
  <2>3. first \in hits /\ \A j \in hits : first <= j
    BY <2>2
  <2>4. FirstHolding(entries) = entries[first][1]
    BY <1>2 DEF FirstHolding
  <2>. HIDE DEF first
  <2>. QED
    BY <2>3, <2>4
<1>. QED
  BY <1>1, <1>2

(* The signals that the two predicates with a choice choose from.           *)
LEMMA BytecodeOnlyNames ==
  ASSUME NEW c
  PROVE  bytecode_only_lowering_signal(c) \in
           {NoSignal, "Alu32PointerCopyDropsProvenance", "SharedInstructionPathProofLoss",
            "ConstantScalarMemoryLoad", "SharedInstructionUninitializedRegister"}
<1>. DEFINE Found(signal, obligation) ==
              /\ c.sources = << >> /\ HasRegister(c)
              /\ c.obligation = obligation
              /\ Shown(c, signal)
            entries ==
              << <<"Alu32PointerCopyDropsProvenance",
                   Found("Alu32PointerCopyDropsProvenance", "PointerProvenance")>>,
                 <<"SharedInstructionPathProofLoss",
                   Found("SharedInstructionPathProofLoss", "PointerProvenance")>>,
                 <<"ConstantScalarMemoryLoad",
                   /\ Found("ConstantScalarMemoryLoad", "PointerProvenance")
                   /\ SaysAll(c, {"invalid mem access 'scalar'"})>>,
                 <<"SharedInstructionUninitializedRegister",
                   /\ Found("SharedInstructionUninitializedRegister", "StackInitialized")
                   /\ SaysAll(c, {"!read_ok"})>> >>
<1>1. bytecode_only_lowering_signal(c) = FirstHolding(entries)
  BY DEF bytecode_only_lowering_signal
<1>. HIDE DEF Found
<1>2. /\ DOMAIN entries = 1..4
      /\ \A i \in 1..4 : entries[i][1] \in
           {"Alu32PointerCopyDropsProvenance", "SharedInstructionPathProofLoss",
            "ConstantScalarMemoryLoad", "SharedInstructionUninitializedRegister"}
  OBVIOUS
<1>. HIDE DEF entries
<1>. QED
  BY <1>1, <1>2, FirstHoldingIs

LEMMA StaleNames ==
  ASSUME NEW c
  PROVE  stale_pointer_after_invalidating_helper(c) \in
           {NoSignal, "StalePointerAfterInvalidatingHelper",
            "DynptrDataPointerInvalidatedBeforeUse"}
<1>. DEFINE entries ==
    << <<"StalePointerAfterInvalidatingHelper",
         ScalarAccess(c) /\ Shown(c, "StalePointerAfterInvalidatingHelper")>>,
       <<"DynptrDataPointerInvalidatedBeforeUse",
         ScalarAccess(c) /\ Shown(c, "DynptrDataPointerInvalidatedBeforeUse")>> >>
<1>1. stale_pointer_after_invalidating_helper(c) = FirstHolding(entries)
  BY DEF stale_pointer_after_invalidating_helper
<1>2. /\ DOMAIN entries = 1..2
      /\ \A i \in 1..2 : entries[i][1] \in
           {"StalePointerAfterInvalidatingHelper", "DynptrDataPointerInvalidatedBeforeUse"}
  OBVIOUS
<1>. HIDE DEF entries
<1>. QED
  BY <1>1, <1>2, FirstHoldingIs

(* What holds where one of the unsettled signals is found.                  *)
LEMMA UnsettledAsks ==
  ASSUME NEW c, NEW i \in DOMAIN Registry(c), Registry(c)[i][2],
         Registry(c)[i][1] \in Unsettled
  PROVE  \/ map_value_guard_exceeds_value_size(c)
         \/ bpf_prog_context_argument_mismatch(c)
         \/ map_lookup_key_argument_unreadable(c)
         \/ packet_guard_undercovers_access(c)
         \/ packet_max_offset_precision_boundary(c)
         \/ map_value_relation_precision_boundary(c)
<1>1. bytecode_only_lowering_signal(c) \notin Unsettled
  BY BytecodeOnlyNames DEF Unsettled, NoSignal
<1>. QED
  <2>1. \A k \in 1..64 : k \notin {8, 9, 10, 11, 22, 59, 63} => Registry(c)[k][1] \notin Unsettled
    BY DEF Registry, Unsettled
  <2>2. /\ Registry(c)[8][1] = bytecode_only_lowering_signal(c)
        /\ Registry(c)[9][2] = map_value_relation_precision_boundary(c)
        /\ Registry(c)[10][2] = packet_max_offset_precision_boundary(c)
        /\ Registry(c)[11][2] = bpf_prog_context_argument_mismatch(c)
        /\ Registry(c)[22][2] = map_lookup_key_argument_unreadable(c)
        /\ Registry(c)[59][2] = packet_guard_undercovers_access(c)
        /\ Registry(c)[63][2] = map_value_guard_exceeds_value_size(c)
    BY DEF Registry
  <2>. QED
    BY <1>1, <2>1, <2>2, RegistryDomain

-----------------------------------------------------------------------------
(* The class of a message.                                                  *)

(* The kinds of a supported message.                                        *)
Kinds ==
  {"PacketBounds", "NullablePointer", "StackInitialized", "ReferenceLifecycle",
   "MapValueBounds", "ScalarRange", "PointerProvenance", "Alignment", "TypeContract",
   "EnvironmentCapability", "HelperArgument", "StructAccess", "ContextUnavailable",
   "DynptrSafety", "KfuncReference", "IteratorLifecycle", "LockState",
   "InstructionSupport", "LoopBound", "VerifierLimit"}

(* The kinds the patterns name, in order.                                   *)
LEMMA PatternOrder ==
  /\ REJECTION_PATTERNS[1].kind = "PacketBounds"
  /\ REJECTION_PATTERNS[2].kind = "NullablePointer"
  /\ REJECTION_PATTERNS[3].kind = "DynptrSafety"
  /\ REJECTION_PATTERNS[4].kind = "StackInitialized"
  /\ REJECTION_PATTERNS[5].kind = "ReferenceLifecycle"
  /\ REJECTION_PATTERNS[6].kind = "Alignment"
  /\ REJECTION_PATTERNS[7].kind = "HelperArgument"
  /\ REJECTION_PATTERNS[8].kind = "StructAccess"
  /\ REJECTION_PATTERNS[9].kind = "ContextUnavailable"
  /\ REJECTION_PATTERNS[10].kind = "TypeContract"
  /\ REJECTION_PATTERNS[11].kind = "TypeContract"
  /\ REJECTION_PATTERNS[12].kind = "TypeContract"
  /\ REJECTION_PATTERNS[13].kind = "InstructionSupport"
  /\ REJECTION_PATTERNS[14].kind = "EnvironmentCapability"
  /\ REJECTION_PATTERNS[15].kind = "DynptrSafety"
  /\ REJECTION_PATTERNS[16].kind = "KfuncReference"
  /\ REJECTION_PATTERNS[17].kind = "IteratorLifecycle"
  /\ REJECTION_PATTERNS[18].kind = "LockState"
  /\ REJECTION_PATTERNS[19].kind = "MapValueBounds"
  /\ REJECTION_PATTERNS[20].kind = "ScalarRange"
  /\ REJECTION_PATTERNS[21].kind = "PointerProvenance"
  /\ REJECTION_PATTERNS[22].kind = "LoopBound"
  /\ REJECTION_PATTERNS[23].kind = "VerifierLimit"
  /\ REJECTION_PATTERNS[24].kind = "EnvironmentCapability"
<1>1. \A kind, phrases : AnyOf(kind, phrases).kind = kind /\ AllOf(kind, phrases).kind = kind
  BY DEF AnyOf, AllOf
<1>. QED
  BY <1>1 DEF REJECTION_PATTERNS

LEMMA PatternKinds ==
  /\ DOMAIN REJECTION_PATTERNS = 1..24
  /\ \A i \in 1..24 : REJECTION_PATTERNS[i].kind \in Kinds
<1>1. DOMAIN REJECTION_PATTERNS = 1..24
  BY DEF REJECTION_PATTERNS
<1>2. \A i \in 1..24 : REJECTION_PATTERNS[i].kind \in Kinds
  BY PatternOrder DEF Kinds
<1>. QED
  BY <1>1, <1>2

(* A message of an unknown kind matches no pattern.                         *)
LEMMA ParsedKind ==
  ASSUME NEW message
  PROVE  \/ parse_rejection(message) \in Kinds
         \/ /\ parse_rejection(message) = "Unsupported"
            /\ \A i \in 1..24 : ~matches(REJECTION_PATTERNS[i], message)
<1>. DEFINE hits == {i \in DOMAIN REJECTION_PATTERNS :
                       matches(REJECTION_PATTERNS[i], message)}
<1>1. CASE hits = {}
  BY <1>1, PatternKinds DEF parse_rejection
<1>2. CASE hits # {}
  <2>1. hits \in SUBSET (1..24) /\ hits \in SUBSET Nat
    BY PatternKinds
  <2>. DEFINE first == CHOOSE i \in hits : \A j \in hits : i <= j
  <2>2. \E m \in hits : \A y \in hits : m <= y
    BY <1>2, <2>1, Least
  <2>3. first \in hits
    BY <2>2
  <2>4. parse_rejection(message) = REJECTION_PATTERNS[first].kind
    BY <1>2 DEF parse_rejection
  <2>. HIDE DEF first, hits
  <2>. QED
    BY <2>1, <2>3, <2>4, PatternKinds
<1>. QED
  BY <1>1, <1>2

(* The class of a message that some pattern matches.                        *)
KnownClass(base) ==
  /\ base.diagnostic_kind = "supported"
  /\ base.error_id \notin {"E000", "E099"}
  /\ base.failure_class # "unsupported_verifier_message"

(* Every kind has an identifier other than the two of undiagnosed inputs.   *)
LEMMA KnownKinds ==
  ASSUME NEW kind \in Kinds
  PROVE  KnownClass(classification(kind))
<1>1. error_ids[kind] \notin {"E000", "E099"}
  BY DEF Kinds, error_ids
<1>. QED
  BY <1>1 DEF KnownClass, classification

(* A message has a known class or matches nothing.                          *)
LEMMA MessageClass ==
  ASSUME NEW message, NEW target
  PROVE  \/ KnownClass(classify_with_context(message, target))
         \/ /\ classify_with_context(message, target) = unsupported_message_classification
            /\ \A i \in 1..24 : ~matches(REJECTION_PATTERNS[i], message)
<1>1. KnownClass(classification("DynptrSafety"))
  BY KnownKinds DEF Kinds
<1>2. "Unsupported" \notin Kinds
  BY DEF Kinds
<1>. QED
  BY <1>1, <1>2, ParsedKind, KnownKinds DEF classify_with_context

(* A message that a pattern does not match has none of its phrases.         *)
LEMMA Unmatched ==
  ASSUME NEW message, NEW kind, NEW phrases, phrases # {},
         ~matches(AnyOf(kind, phrases), message)
  PROVE  phrases \cap message = {}
BY DEF matches, AnyOf

(* The phrases that the unsettled signals ask for are in the patterns.      *)
LEMMA UnknownSaysNothing ==
  ASSUME NEW message, \A i \in 1..24 : ~matches(REJECTION_PATTERNS[i], message)
  PROVE  /\ "invalid access to map value" \notin message
         /\ "!read_ok" \notin message
         /\ message \cap {"invalid bpf_context access", "invalid ctx access",
                           "invalid access to context"} = {}
<1>1. /\ REJECTION_PATTERNS[4] = AnyOf("StackInitialized",
            {"invalid read from stack", "invalid indirect read from stack",
             "invalid write to stack", "uninitialized", "!read_ok"})
      /\ REJECTION_PATTERNS[9] = AnyOf("ContextUnavailable",
            {"invalid bpf_context access", "invalid ctx access",
             "invalid access to context"})
      /\ REJECTION_PATTERNS[19] = AnyOf("MapValueBounds", {"invalid access to map value"})
  BY DEF REJECTION_PATTERNS
<1>2. /\ ~matches(REJECTION_PATTERNS[4], message)
      /\ ~matches(REJECTION_PATTERNS[9], message)
      /\ ~matches(REJECTION_PATTERNS[19], message)
  OBVIOUS
<1>3. \A kind : \A phrases :
        phrases # {} /\ ~matches(AnyOf(kind, phrases), message) => phrases \cap message = {}
  BY Unmatched
<1>4. {"invalid access to map value"} \cap message = {}
  BY <1>1, <1>2, <1>3
<1>5. {"invalid bpf_context access", "invalid ctx access", "invalid access to context"}
        \cap message = {}
  BY <1>1, <1>2, <1>3
<1>6. {"invalid read from stack", "invalid indirect read from stack",
       "invalid write to stack", "uninitialized", "!read_ok"} \cap message = {}
  BY <1>1, <1>2, <1>3
<1>. QED
  BY <1>4, <1>5, <1>6

-----------------------------------------------------------------------------
(* The sort.                                                                *)

(* A total order on a finite set, given by the set down[x] of elements up   *)
(* to x: every number from 1 to the size of the set is the rank of some     *)
(* element.                                                                 *)
LEMMA RankOnto ==
    ASSUME NEW S, IsFiniteSet(S), NEW down \in [S -> SUBSET S],
           \A x \in S : x \in down[x],
           \A x, y \in S : x \in down[y] \/ y \in down[x],
           \A x, y \in S : x \in down[y] /\ y \in down[x] => x = y,
           \A x, y \in S : x \in down[y] => down[x] \subseteq down[y]
    PROVE  \A k \in 1..Cardinality(S) : \E x \in S : Cardinality(down[x]) = k
<1>. DEFINE n == Cardinality(S)
            rank == [x \in S |-> Cardinality(down[x])]
<1>1. n \in Nat
  BY FS_CardinalityType
<1>2. ASSUME NEW x \in S
      PROVE  IsFiniteSet(down[x]) /\ Cardinality(down[x]) \in 1..n
  <2>1. IsFiniteSet(down[x]) /\ Cardinality(down[x]) <= n
    BY FS_Subset
  <2>2. Cardinality(down[x]) \in Nat
    BY <2>1, FS_CardinalityType
  <2>3. Cardinality(down[x]) # 0
    BY <2>1, FS_EmptySet
  <2>. QED
    BY <1>1, <2>1, <2>2, <2>3
<1>3. ASSUME NEW x \in S, NEW y \in S, x \in down[y], x # y
      PROVE  Cardinality(down[x]) # Cardinality(down[y])
  <2>1. down[x] \in SUBSET down[y] /\ y \in down[y] /\ y \notin down[x]
    BY <1>3
  <2>2. Cardinality(down[y]) = Cardinality(down[x]) => down[y] = down[x]
    BY <1>2, <2>1, FS_Subset
  <2>. QED
    BY <2>1, <2>2
<1>4. rank \in [S -> 1..n]
  BY <1>2
<1>5. \A x, y \in S : rank[x] = rank[y] => x = y
  BY <1>3
<1>6. rank \in Injection(S, 1..n)
  BY <1>4, <1>5 DEF Injection, IsInjective
<1>7. IsFiniteSet(1..n) /\ Cardinality(1..n) = n
  BY <1>1, FS_Interval
<1>8. rank \in Surjection(S, 1..n)
  BY <1>6, <1>7, FS_Injection
<1>. QED
  BY <1>8 DEF Surjection

(* A stable sort: the elements stay the same, and of two neighbours the one *)
(* with the smaller rank, or else the one that was in front, comes first.   *)
LEMMA StableSortIs ==
  ASSUME NEW s, IsFiniteSet(DOMAIN s), DOMAIN s \in SUBSET Int,
         NEW rank \in [DOMAIN s -> Nat]
  PROVE  LET sorted == stable_sort(s, rank) IN
         /\ Cardinality(DOMAIN s) \in Nat
         /\ DOMAIN sorted = 1..Cardinality(DOMAIN s)
         /\ \E place \in Surjection(1..Cardinality(DOMAIN s), DOMAIN s) :
              /\ \A k \in 1..Cardinality(DOMAIN s) : sorted[k] = s[place[k]]
              /\ \A j, k \in 1..Cardinality(DOMAIN s) : j < k =>
                   \/ rank[place[j]] < rank[place[k]]
                   \/ /\ rank[place[j]] = rank[place[k]]
                      /\ place[j] < place[k]
<1>. DEFINE S == DOMAIN s
            n == Cardinality(S)
            Before(i, j) == \/ rank[i] < rank[j]
                            \/ rank[i] = rank[j] /\ i < j
            below == [i \in S |-> {j \in S : Before(j, i)}]
            upto == [i \in S |-> below[i] \cup {i}]
<1>1. n \in Nat
  BY FS_CardinalityType
<1>2. /\ \A i \in S : ~Before(i, i)
      /\ \A i, j \in S : i = j \/ Before(i, j) \/ Before(j, i)
      /\ \A i, j, k \in S : Before(i, j) /\ Before(j, k) => Before(i, k)
      /\ \A i, j \in S : ~(Before(i, j) /\ Before(j, i))
  <2>1. rank \in [S -> Nat]
    OBVIOUS
  <2>2. \A i, j \in S : Before(i, j) <=> rank[i] < rank[j] \/ (rank[i] = rank[j] /\ i < j)
    OBVIOUS
  <2>. HIDE DEF Before
  <2>3. \A i \in S : ~Before(i, i)
    BY <2>1, <2>2
  <2>4. \A i, j \in S : i = j \/ Before(i, j) \/ Before(j, i)
    BY <2>1, <2>2
  <2>5. \A i, j, k \in S : Before(i, j) /\ Before(j, k) => Before(i, k)
    BY <2>1, <2>2
  <2>. QED
    BY <2>3, <2>4, <2>5
<1>3. /\ below \in [S -> SUBSET S]
      /\ \A i, j \in S : j \in below[i] <=> Before(j, i)
      /\ \A i \in S : below[i] = {j \in S : Before(j, i)}
  OBVIOUS
<1>. DEFINE Nth(k) == CHOOSE i \in S : Cardinality({j \in S : Before(j, i)}) + 1 = k
            sorted == stable_sort(s, rank)
<1>4. sorted = [k \in 1..n |-> s[Nth(k)]]
  BY DEF stable_sort
<1>. HIDE DEF Before, below, S, sorted
<1>5. /\ upto \in [S -> SUBSET S]
      /\ \A i \in S : upto[i] = below[i] \cup {i}
  BY <1>3
<1>. HIDE DEF upto
<1>6. \A k \in 1..n : \E i \in S : Cardinality(upto[i]) = k
  <2>1. \A i \in S : i \in upto[i]
    BY <1>5
  <2>2. \A i, j \in S : i \in upto[j] \/ j \in upto[i]
    BY <1>2, <1>3, <1>5
  <2>3. \A i, j \in S : i \in upto[j] /\ j \in upto[i] => i = j
    BY <1>2, <1>3, <1>5
  <2>4. \A i, j \in S : i \in upto[j] => upto[i] \subseteq upto[j]
    BY <1>2, <1>3, <1>5
  <2>5. IsFiniteSet(S)
    BY DEF S
  <2>. QED
    BY ONLY <1>5, <2>1, <2>2, <2>3, <2>4, <2>5, RankOnto
<1>7. ASSUME NEW i \in S
      PROVE  /\ IsFiniteSet(below[i]) /\ Cardinality(below[i]) \in Nat
             /\ Cardinality(upto[i]) = Cardinality(below[i]) + 1
  <2>1. IsFiniteSet(S)
    BY DEF S
  <2>2. IsFiniteSet(below[i]) /\ Cardinality(below[i]) \in Nat
    BY <1>3, <2>1, FS_Subset, FS_CardinalityType
  <2>3. i \notin below[i]
    BY <1>2, <1>3
  <2>. QED
    BY <1>5, <2>2, <2>3, FS_AddElement
<1>8. ASSUME NEW k \in 1..n
      PROVE  Nth(k) \in S /\ Cardinality(below[Nth(k)]) + 1 = k
  <2>1. PICK i \in S : Cardinality(upto[i]) = k
    BY <1>6
  <2>2. Cardinality({j \in S : Before(j, i)}) + 1 = k
    BY <1>3, <1>7, <2>1
  <2>3. Nth(k) \in S /\ Cardinality({j \in S : Before(j, Nth(k))}) + 1 = k
    BY <2>2
  <2>. HIDE DEF Nth
  <2>. QED
    BY <1>3, <2>3
<1>. HIDE DEF Nth
<1>9. ASSUME NEW j \in 1..n, NEW k \in 1..n, j < k
      PROVE  Before(Nth(j), Nth(k))
  <2>1. /\ Nth(j) \in S /\ Cardinality(below[Nth(j)]) + 1 = j
        /\ Nth(k) \in S /\ Cardinality(below[Nth(k)]) + 1 = k
    BY <1>8
  <2>2. Nth(j) # Nth(k)
    BY <1>1, <1>9, <2>1
  <2>3. ASSUME Before(Nth(k), Nth(j)) PROVE FALSE
    <3>1. below[Nth(k)] \subseteq below[Nth(j)]
      BY <1>2, <1>3, <2>1, <2>3
    <3>2. Cardinality(below[Nth(k)]) <= Cardinality(below[Nth(j)])
      BY <1>7, <2>1, <3>1, FS_Subset
    <3>. QED
      BY <1>1, <1>7, <1>9, <2>1, <3>2
  <2>. QED
    BY <1>2, <2>1, <2>2, <2>3
<1>. DEFINE place == [k \in 1..n |-> Nth(k)]
<1>10. place \in [1..n -> S] /\ \A k \in 1..n : place[k] = Nth(k)
  BY <1>8
<1>. HIDE DEF place
<1>11. /\ DOMAIN sorted = 1..n
       /\ \A k \in 1..n : sorted[k] = s[place[k]]
  BY <1>4, <1>10
<1>12. \A j, k \in 1..n : j < k => Before(place[j], place[k])
  BY <1>9, <1>10
<1>13. place \in Surjection(1..n, S)
  <2>1. ASSUME NEW j \in 1..n, NEW k \in 1..n, place[j] = place[k]
        PROVE  j = k
    <3>1. ~(j < k) /\ ~(k < j)
      BY <1>2, <1>10, <1>12, <2>1
    <3>. QED
      BY <1>1, <3>1
  <2>2. place \in Injection(1..n, S)
    BY <1>10, <2>1 DEF Injection, IsInjective
  <2>3. IsFiniteSet(1..n) /\ Cardinality(1..n) = n /\ IsFiniteSet(S)
    BY <1>1, FS_Interval DEF S
  <2>. QED
    BY <2>2, <2>3, FS_Injection
<1>. QED
  BY <1>1, <1>11, <1>12, <1>13 DEF Before, S, sorted

(* Ranks can be compared.                                                   *)
LEMMA RankIsNumber ==
  ASSUME NEW signal
  PROVE  selection_rank(signal) \in Nat
BY DEF selection_rank

(* The sort of the signals.                                                 *)
LEMMA SortedIs ==
  ASSUME NEW s, IsFiniteSet(DOMAIN s), DOMAIN s \in SUBSET Int
  PROVE  LET sorted == sort_by_key(s, selection_rank) IN
         /\ Cardinality(DOMAIN s) \in Nat
         /\ DOMAIN sorted = 1..Cardinality(DOMAIN s)
         /\ \E place \in Surjection(1..Cardinality(DOMAIN s), DOMAIN s) :
              /\ \A k \in 1..Cardinality(DOMAIN s) : sorted[k] = s[place[k]]
              /\ \A j, k \in 1..Cardinality(DOMAIN s) : j < k =>
                   \/ selection_rank(s[place[j]]) < selection_rank(s[place[k]])
                   \/ /\ selection_rank(s[place[j]]) = selection_rank(s[place[k]])
                      /\ place[j] < place[k]
<1>. DEFINE rank == [i \in DOMAIN s |-> selection_rank(s[i])]
<1>1. rank \in [DOMAIN s -> Nat] /\ \A i \in DOMAIN s : rank[i] = selection_rank(s[i])
  BY RankIsNumber
<1>2. sort_by_key(s, selection_rank) = stable_sort(s, rank)
  BY DEF sort_by_key
<1>. HIDE DEF rank
<1>. DEFINE n == Cardinality(DOMAIN s)
            sorted == stable_sort(s, rank)
<1>3. /\ n \in Nat /\ DOMAIN sorted = 1..n
      /\ \E place \in Surjection(1..n, DOMAIN s) :
           /\ \A k \in 1..n : sorted[k] = s[place[k]]
           /\ \A j, k \in 1..n : j < k =>
                \/ rank[place[j]] < rank[place[k]]
                \/ rank[place[j]] = rank[place[k]] /\ place[j] < place[k]
  BY <1>1, StableSortIs, Zenon
<1>. HIDE DEF n, sorted
<1>4. PICK place \in Surjection(1..n, DOMAIN s) :
        /\ \A k \in 1..n : sorted[k] = s[place[k]]
        /\ \A j, k \in 1..n : j < k =>
             \/ rank[place[j]] < rank[place[k]]
             \/ rank[place[j]] = rank[place[k]] /\ place[j] < place[k]
  BY <1>3
<1>5. \A k \in 1..n : rank[place[k]] = selection_rank(s[place[k]])
  BY <1>1, <1>4 DEF Surjection
<1>6. \A j, k \in 1..n : j < k =>
        \/ selection_rank(s[place[j]]) < selection_rank(s[place[k]])
        \/ /\ selection_rank(s[place[j]]) = selection_rank(s[place[k]])
           /\ place[j] < place[k]
  BY <1>4, <1>5
<1>7. /\ n \in Nat /\ DOMAIN sorted = 1..n
      /\ \E at \in Surjection(1..n, DOMAIN s) :
           /\ \A k \in 1..n : sorted[k] = s[at[k]]
           /\ \A j, k \in 1..n : j < k =>
                \/ selection_rank(s[at[j]]) < selection_rank(s[at[k]])
                \/ /\ selection_rank(s[at[j]]) = selection_rank(s[at[k]])
                   /\ at[j] < at[k]
  <2>1. \A k \in 1..n : sorted[k] = s[place[k]]
    BY <1>4, Zenon
  <2>. QED
    BY <1>3, <1>6, <2>1, Zenon
<1>8. sort_by_key(s, selection_rank) = sorted
  BY <1>2 DEF sorted
<1>. HIDE DEF sorted
<1>. QED
  BY <1>7, <1>8, Zenon DEF n

-----------------------------------------------------------------------------
(* What is pushed.                                                          *)

(* The fallbacks bring an identifier or cannot replace the message.         *)
LEMMA FallbackNames ==
  ASSUME NEW c
  PROVE  /\ DOMAIN Fallbacks(c) = 1..5
         /\ \A i \in 1..5 : Fallbacks(c)[i][1] \notin Unsettled
         /\ \A i \in 1..5 : Fallbacks(c)[i][2] => Fallbacks(c)[i][1] # NoSignal
<1>1. stale_pointer_after_invalidating_helper(c) \notin Unsettled
  BY StaleNames DEF Unsettled, NoSignal
<1>2. DOMAIN Fallbacks(c) = 1..5
  BY DEF Fallbacks
<1>3. /\ Fallbacks(c)[1][1] = stale_pointer_after_invalidating_helper(c)
      /\ Fallbacks(c)[2][1] = "OpaqueScalarPointerDereference"
      /\ Fallbacks(c)[3][1] = "NullScalarDereferenceAfterPointerProof"
      /\ Fallbacks(c)[4][1] = "ScalarValueUsedAsPointer"
      /\ Fallbacks(c)[5][1] = "ProhibitedPointerArithmetic"
  BY DEF Fallbacks
<1>4. Fallbacks(c)[1][2] => Fallbacks(c)[1][1] # NoSignal
  BY DEF Fallbacks
<1>5. \A i \in 1..5 : Fallbacks(c)[i][1] \notin Unsettled
  BY <1>1, <1>3 DEF Unsettled
<1>6. \A i \in 2..5 : Fallbacks(c)[i][1] # NoSignal
  BY <1>3 DEF NoSignal
<1>. QED
  BY <1>2, <1>4, <1>5, <1>6

(* A signal that is pushed has its predicate, or is a fallback.             *)
LEMMA PushedIs ==
  ASSUME NEW c
  PROVE  /\ DOMAIN pushed_signals(c) \in SUBSET (1..64)
         /\ \A i \in DOMAIN pushed_signals(c) :
              \/ /\ i \in DOMAIN Registry(c) /\ Registry(c)[i][2]
                 /\ pushed_signals(c)[i] = Registry(c)[i][1]
              \/ pushed_signals(c)[i] \notin Unsettled
<1>. DEFINE hits == {j \in DOMAIN Registry(c) : Registry(c)[j][2]}
            fallback == FirstHolding(Fallbacks(c))
<1>1. proof_signals(c) = [i \in hits |-> Registry(c)[i][1]]
  BY DEF proof_signals
<1>2. hits \in SUBSET (1..64)
  BY RegistryDomain
<1>3. fallback \notin Unsettled
  <2>1. NoSignal \notin Unsettled
    BY DEF NoSignal, Unsettled
  <2>. QED
    BY <2>1, FallbackNames, FirstHoldingIs
<1>4. pushed_signals(c) = IF DOMAIN proof_signals(c) # {} \/ fallback = NoSignal
                          THEN proof_signals(c) ELSE <<fallback>>
  BY DEF pushed_signals
<1>5. CASE pushed_signals(c) = proof_signals(c)
  BY <1>1, <1>2, <1>5
<1>6. CASE pushed_signals(c) = <<fallback>>
  <2>. HIDE DEF fallback
  <2>1. DOMAIN <<fallback>> = {1} /\ <<fallback>>[1] = fallback
    OBVIOUS
  <2>. QED
    BY <1>3, <1>6, <2>1
<1>. QED
  BY <1>4, <1>5, <1>6

(* Sorting adds no signal.                                                  *)
LEMMA SortedNames ==
  ASSUME NEW c
  PROVE  /\ \E n \in Nat : DOMAIN sorted_signals(c) = 1..n
         /\ \A k \in DOMAIN sorted_signals(c) :
              \E i \in DOMAIN pushed_signals(c) :
                 sorted_signals(c)[k] = pushed_signals(c)[i]
<1>1. DOMAIN pushed_signals(c) \in SUBSET (1..64)
  BY PushedIs
<1>2. IsFiniteSet(1..64)
  <2>1. 1 \in Int /\ 64 \in Int
    OBVIOUS
  <2>. QED
    BY <2>1, FS_Interval, Zenon
<1>3. IsFiniteSet(DOMAIN pushed_signals(c)) /\ DOMAIN pushed_signals(c) \in SUBSET Int
  BY <1>1, <1>2, FS_Subset
<1>. QED
  <2>. DEFINE P == pushed_signals(c)
              n == Cardinality(DOMAIN P)
  <2>. HIDE DEF P
  <2>1. /\ n \in Nat
        /\ DOMAIN sort_by_key(P, selection_rank) = 1..n
        /\ \E place \in Surjection(1..n, DOMAIN P) :
             \A k \in 1..n : sort_by_key(P, selection_rank)[k] = P[place[k]]
    BY <1>3, SortedIs DEF P
  <2>2. sorted_signals(c) = sort_by_key(P, selection_rank)
    BY DEF sorted_signals, P
  <2>3. \A k \in 1..n : \E i \in DOMAIN P : sorted_signals(c)[k] = P[i]
    BY <2>1, <2>2 DEF Surjection
  <2>. QED
    BY <2>1, <2>2, <2>3 DEF P

(* None of the unsettled signals is pushed for an unknown message.          *)
LEMMA UnknownHasNoUnsettled ==
  ASSUME NEW c, c.obligation = "Unknown",
         \A i \in 1..24 : ~matches(REJECTION_PATTERNS[i], c.message),
         NEW i \in DOMAIN pushed_signals(c)
  PROVE  pushed_signals(c)[i] \notin Unsettled
<1>1. /\ "invalid access to map value" \notin c.message
      /\ "!read_ok" \notin c.message
      /\ c.message \cap {"invalid bpf_context access", "invalid ctx access",
                         "invalid access to context"} = {}
  BY UnknownSaysNothing
<1>2. ~map_value_guard_exceeds_value_size(c)
  BY DEF map_value_guard_exceeds_value_size
<1>3. ~bpf_prog_context_argument_mismatch(c)
  BY <1>1 DEF bpf_prog_context_argument_mismatch, terminal_error_is_context_access, SaysAny
<1>4. ~map_lookup_key_argument_unreadable(c)
  BY <1>1 DEF map_lookup_key_argument_unreadable, SaysAll
<1>5. ~packet_guard_undercovers_access(c) /\ ~packet_max_offset_precision_boundary(c)
  BY DEF packet_guard_undercovers_access, packet_max_offset_precision_boundary
<1>6. ~map_value_relation_precision_boundary(c)
  BY DEF map_value_relation_precision_boundary
<1>. QED
  BY <1>2, <1>3, <1>4, <1>5, <1>6, PushedIs, UnsettledAsks

-----------------------------------------------------------------------------
(* The run.                                                                 *)

(* The signals are those of the context of the input, the report is merged  *)
(* from the class of the message and the chosen signal, and the exit code   *)
(* is decided by the kind in the report.                                    *)
Inv ==
  /\ \/ signals = << >>
     \/ input.terminal /\ signals = sorted_signals(SignalContext(events, shown))
  /\ phase # "start" /\ ~parse_failed /\ input.terminal =>
       signals = sorted_signals(SignalContext(events, shown))
  /\ Reported =>
       /\ report.signal = runtime_proof_signal
       /\ report.error_id = merged_error_id(class(input), runtime_proof_signal)
       /\ report.diagnostic_kind = merged_kind(class(input), runtime_proof_signal)
  /\ phase = "done" =>
       exit.code = IF exit.fail_on_unsupported /\ report.diagnostic_kind # "supported"
                   THEN 2 ELSE 0

(* The predicates of the registry and then the fallbacks, one after the     *)
(* other.                                                                   *)
LEMMA EntriesAre ==
  ASSUME NEW c
  PROVE  /\ Len(Registry(c)) = 64
         /\ DOMAIN (Registry(c) \o Fallbacks(c)) = 1..69
         /\ \A i \in 1..64 : (Registry(c) \o Fallbacks(c))[i] = Registry(c)[i]
         /\ \A i \in 1..5 : (Registry(c) \o Fallbacks(c))[64 + i] = Fallbacks(c)[i]
<1>. DEFINE S == {Registry(c)[i] : i \in 1..64} \cup {Fallbacks(c)[i] : i \in 1..5}
            R == Registry(c)
            F == Fallbacks(c)
<1>1. /\ R = [i \in 1..64 |-> R[i]]
      /\ F = [i \in 1..5 |-> F[i]]
  <2>1. DOMAIN R = 1..64 /\ DOMAIN F = 1..5
    BY RegistryDomain, FallbackNames
  <2>2. R = [i \in DOMAIN R |-> R[i]]
    BY DEF Registry
  <2>3. F = [i \in DOMAIN F |-> F[i]]
    BY DEF Fallbacks
  <2>. HIDE DEF R, F
  <2>. QED
    BY <2>1, <2>2, <2>3
<1>2. R \in [1..64 -> S] /\ F \in [1..5 -> S]
  <2>1. \A i \in 1..64 : R[i] \in S
    BY Zenon
  <2>2. \A i \in 1..5 : F[i] \in S
    BY Zenon
  <2>. HIDE DEF R, F, S
  <2>. QED
    BY <1>1, <2>1, <2>2
<1>. HIDE DEF R, F, S
<1>3. R \in Seq(S) /\ F \in Seq(S)
  <2>1. \A n \in Nat : [1..n -> S] \subseteq Seq(S)
    BY SeqDef
  <2>2. 64 \in Nat /\ 5 \in Nat
    OBVIOUS
  <2>. QED
    BY <1>2, <2>1, <2>2, Zenon
<1>4. Len(R) = 64 /\ Len(F) = 5
  <2>1. /\ Len(R) \in Nat /\ DOMAIN R = 1..Len(R)
        /\ Len(F) \in Nat /\ DOMAIN F = 1..Len(F)
    BY <1>3, LenProperties
  <2>2. ASSUME NEW m \in Nat \ {0}, NEW n \in Nat, 1..m = 1..n
        PROVE  n = m
    <3>1. m \in 1..n /\ n >= m
      BY <2>2
    <3>2. n \in 1..m
      BY <2>2, <3>1
    <3>. QED
      BY <3>1, <3>2
  <2>3. DOMAIN R = 1..64 /\ DOMAIN F = 1..5
    BY <1>2
  <2>4. 64 \in Nat \ {0} /\ 5 \in Nat \ {0}
    OBVIOUS
  <2>. QED
    BY <2>1, <2>2, <2>3, <2>4, Zenon
<1>5. /\ R \o F \in Seq(S)
      /\ Len(R \o F) = 64 + 5
      /\ \A i \in 1..(64 + 5) : (R \o F)[i] = IF i <= 64 THEN R[i] ELSE F[i - 64]
  <2>1. /\ R \o F \in Seq(S)
        /\ Len(R \o F) = Len(R) + Len(F)
        /\ \A i \in 1..(Len(R) + Len(F)) :
             (R \o F)[i] = IF i <= Len(R) THEN R[i] ELSE F[i - Len(R)]
    BY <1>3, ConcatProperties
  <2>. QED
    BY <1>4, <2>1
<1>6. DOMAIN (R \o F) = 1..69
  <2>. DEFINE RF == R \o F
  <2>1. RF \in Seq(S) /\ Len(RF) = 69
    BY <1>5
  <2>. HIDE DEF RF
  <2>2. DOMAIN RF = 1..69
    BY <2>1, LenProperties
  <2>. QED
    BY <2>2 DEF RF
<1>7. \A i \in 1..64 : (R \o F)[i] = R[i]
  <2>1. \A i \in 1..64 : i \in 1..(64 + 5) /\ i <= 64
    OBVIOUS
  <2>. QED
    BY <1>5, <2>1, Zenon
<1>8. \A i \in 1..5 : (R \o F)[64 + i] = F[i]
  <2>. SUFFICES ASSUME NEW i \in 1..5
                PROVE  (R \o F)[64 + i] = F[i]
    OBVIOUS
  <2>1. 64 + i \in 1..(64 + 5) /\ ~(64 + i <= 64) /\ (64 + i) - 64 = i
    OBVIOUS
  <2>. QED
    BY <1>5, <2>1
<1>. QED
  BY <1>4, <1>6, <1>7, <1>8 DEF R, F

(* The places of the predicates that count: those that hold, a fallback     *)
(* only if nothing before it does.                                          *)
Counting(c) ==
  LET entries == Registry(c) \o Fallbacks(c)
  IN  {k \in 1..69 : /\ entries[k][2]
                     /\ k > 64 => \A j \in 1..(k - 1) : ~entries[j][2]}

(* The signals that are pushed are those that count, in order.              *)
LEMMA PushedAt ==
  ASSUME NEW c
  PROVE  LET pushed == pushed_signals(c) IN
         \E at \in Surjection(DOMAIN pushed, Counting(c)) :
           /\ \A i, j \in DOMAIN pushed : i < j => at[i] < at[j]
           /\ \A i \in DOMAIN pushed :
                pushed[i] = (Registry(c) \o Fallbacks(c))[at[i]][1]
<1>. DEFINE E == Registry(c) \o Fallbacks(c)
            R == Registry(c)
            F == Fallbacks(c)
            hits == {j \in DOMAIN R : R[j][2]}
            fallback == FirstHolding(F)
            P == pushed_signals(c)
<1>1. /\ proof_signals(c) = [i \in hits |-> R[i][1]]
      /\ P = IF DOMAIN proof_signals(c) # {} \/ fallback = NoSignal
             THEN proof_signals(c) ELSE <<fallback>>
  BY DEF proof_signals, pushed_signals
<1>2. /\ \A i \in 1..64 : E[i] = R[i]
      /\ \A i \in 1..5 : E[64 + i] = F[i]
      /\ DOMAIN R = 1..64
  BY EntriesAre, RegistryDomain
<1>3. \/ fallback = NoSignal /\ \A i \in 1..5 : ~F[i][2]
      \/ \E i \in 1..5 : /\ F[i][2] /\ fallback = F[i][1] /\ fallback # NoSignal
                          /\ \A j \in 1..5 : F[j][2] => i <= j
  BY FallbackNames, FirstHoldingIs
<1>4. \A k : k \in Counting(c) <=>
        /\ k \in 1..69 /\ E[k][2]
        /\ k > 64 => \A j \in 1..(k - 1) : ~E[j][2]
  BY DEF Counting
<1>. HIDE DEF E, R, F, fallback, P
<1>5. hits \in SUBSET (1..64) /\ \A i \in 1..64 : i \in hits <=> E[i][2]
  BY <1>2
<1>6. \A k \in 65..69 : k - 64 \in 1..5 /\ E[k] = F[k - 64]
  <2>. SUFFICES ASSUME NEW k \in 65..69
                PROVE  k - 64 \in 1..5 /\ E[k] = F[k - 64]
    OBVIOUS
  <2>1. k - 64 \in 1..5 /\ 64 + (k - 64) = k
    OBVIOUS
  <2>2. E[64 + (k - 64)] = F[k - 64]
    BY <1>2, <2>1
  <2>. QED
    BY <2>1, <2>2
<1>. HIDE DEF hits
<1>7. ASSUME NEW at \in Surjection(DOMAIN P, Counting(c)),
             \A i, j \in DOMAIN P : i < j => at[i] < at[j],
             \A i \in DOMAIN P : P[i] = E[at[i]][1]
      PROVE  \E a \in Surjection(DOMAIN P, Counting(c)) :
               /\ \A i, j \in DOMAIN P : i < j => a[i] < a[j]
               /\ \A i \in DOMAIN P : P[i] = E[a[i]][1]
  BY <1>7, Zenon
<1>8. CASE P = proof_signals(c)
  <2>1. DOMAIN P = hits /\ \A i \in hits : P[i] = R[i][1]
    BY <1>1, <1>8
  <2>2. Counting(c) = hits
    <3>1. ASSUME NEW k \in Counting(c)
          PROVE  k \in hits
      <4>1. k \in 1..69 /\ E[k][2]
        BY <1>4
      <4>2. CASE k \in 1..64
        BY <1>5, <4>1, <4>2
      <4>3. CASE k \in 65..69
        <5>1. \A j \in 1..64 : ~E[j][2]
          <6>1. k > 64 /\ \A j \in 1..64 : j \in 1..(k - 1)
            BY <4>3
          <6>. QED
            BY <1>4, <6>1
        <5>2. hits = {}
          BY <1>5, <5>1
        <5>3. fallback # NoSignal
          BY <1>3, <1>6, <4>1, <4>3
        <5>4. P = <<fallback>>
          BY <1>1, <5>2, <5>3
        <5>5. DOMAIN P = {1}
          BY <5>4
        <5>. QED
          BY <2>1, <5>2, <5>5
      <4>. QED
        BY <4>1, <4>2, <4>3
    <3>2. ASSUME NEW k \in hits
          PROVE  k \in Counting(c)
      <4>1. k \in 1..64 /\ E[k][2]
        BY <1>5
      <4>2. k \in 1..69 /\ ~(k > 64)
        BY <4>1
      <4>. QED
        BY <1>4, <4>1, <4>2
    <3>. QED
      BY <3>1, <3>2
  <2>. DEFINE at == [i \in hits |-> i]
  <2>3. /\ at \in Surjection(DOMAIN P, Counting(c))
        /\ \A i \in DOMAIN P : at[i] = i
    BY <2>1, <2>2 DEF Surjection
  <2>. HIDE DEF at
  <2>4. \A i \in DOMAIN P : P[i] = E[at[i]][1]
    BY <1>2, <1>5, <2>1, <2>3
  <2>. QED
    BY <1>7, <2>3, <2>4 DEF E, P
<1>9. CASE P # proof_signals(c)
  <2>1. hits = {} /\ fallback # NoSignal /\ P = <<fallback>>
    BY <1>1, <1>9
  <2>2. PICK f \in 1..5 : /\ F[f][2] /\ fallback = F[f][1]
                          /\ \A j \in 1..5 : F[j][2] => f <= j
    BY <1>3, <2>1
  <2>3. DOMAIN P = {1} /\ P[1] = fallback
    BY <2>1
  <2>4. E[64 + f] = F[f] /\ 64 + f \in 65..69
    BY <1>2
  <2>5. \A j \in 1..64 : ~E[j][2]
    BY <1>5, <2>1
  <2>6. ASSUME NEW j \in 65..69, E[j][2]
        PROVE  64 + f <= j
    <3>1. j - 64 \in 1..5 /\ F[j - 64][2]
      BY <1>6, <2>6
    <3>. QED
      BY <2>2, <3>1
  <2>7. Counting(c) = {64 + f}
    <3>1. 64 + f \in Counting(c)
      <4>1. 64 + f \in 1..69 /\ E[64 + f][2]
        BY <2>2, <2>4
      <4>2. ASSUME NEW j \in 1..((64 + f) - 1)
            PROVE  ~E[j][2]
        <5>1. j \in 1..64 \/ (j \in 65..69 /\ ~(64 + f <= j))
          OBVIOUS
        <5>. QED
          BY <2>5, <2>6, <5>1
      <4>. QED
        BY <1>4, <4>1, <4>2
    <3>2. ASSUME NEW k \in Counting(c)
          PROVE  k = 64 + f
      <4>1. k \in 1..69 /\ E[k][2] /\ (k > 64 => \A j \in 1..(k - 1) : ~E[j][2])
        BY <1>4
      <4>2. k \in 65..69
        <5>1. k \in 1..69 /\ k \notin 1..64
          BY <2>5, <4>1, Zenon
        <5>2. \A x \in 1..69 : x \notin 1..64 => x \in 65..69
          OBVIOUS
        <5>. QED
          BY <5>1, <5>2, Zenon
      <4>3. 64 + f <= k
        BY <2>6, <4>1, <4>2
      <4>4. ~(64 + f < k)
        <5>1. ASSUME 64 + f < k
              PROVE  64 + f \in 1..(k - 1)
          BY <4>2, <5>1
        <5>2. k > 64
          BY <4>2
        <5>. QED
          BY <2>2, <2>4, <4>1, <5>1, <5>2
      <4>. QED
        BY <4>2, <4>3, <4>4
    <3>. QED
      BY <3>1, <3>2
  <2>. DEFINE at == [i \in {1} |-> 64 + f]
  <2>8. at \in Surjection(DOMAIN P, Counting(c)) /\ at[1] = 64 + f
    BY <2>3, <2>7 DEF Surjection
  <2>. HIDE DEF at
  <2>9. \A i \in DOMAIN P : P[i] = E[at[i]][1]
    BY <2>2, <2>3, <2>4, <2>8
  <2>10. \A i, j \in DOMAIN P : i < j => at[i] < at[j]
    BY <2>3
  <2>. QED
    BY <1>7, <2>8, <2>9, <2>10 DEF E, P
<1>. QED
  BY <1>8, <1>9

(* What the predicates are asked about is the message of the input.         *)
LEMMA ContextHas ==
  ASSUME NEW all_events, NEW yes
  PROVE  /\ SignalContext(all_events, yes).message = input.message.phrases
         /\ SignalContext(all_events, yes).obligation = class(input).obligation
BY DEF SignalContext, EventContext

(* No signal brings an identifier of undiagnosed inputs.                    *)
LEMMA OverrideIsAnId ==
  ASSUME NEW signal
  PROVE  error_id_override(signal) \notin {"E000", "E099"}
BY DEF error_id_override, NoSignal

(* A signal is in the report only if it may override the class, and then it *)
(* is one of those found.                                                   *)
LEMMA ChosenIs ==
  ASSUME Inv
  PROVE  \/ runtime_proof_signal = NoSignal
         \/ /\ input.terminal
            /\ can_override_base_failure_class(runtime_proof_signal,
                                               class(input).failure_class)
            /\ \E i \in DOMAIN pushed_signals(SignalContext(events, shown)) :
                 runtime_proof_signal = pushed_signals(SignalContext(events, shown))[i]
<1>. DEFINE found == sorted_signals(SignalContext(events, shown))
            Allowed(signal) ==
              can_override_base_failure_class(signal, class(input).failure_class)
            entries == [k \in DOMAIN signals |-> <<signals[k], Allowed(signals[k])>>]
<1>1. runtime_proof_signal = FirstHolding(entries)
  BY DEF runtime_proof_signal
<1>. HIDE DEF Allowed
<1>2. /\ DOMAIN entries = DOMAIN signals
      /\ \A k \in DOMAIN signals : entries[k][1] = signals[k] /\ entries[k][2] = Allowed(signals[k])
  OBVIOUS
<1>. HIDE DEF entries
<1>3. CASE signals = << >>
  <2>1. DOMAIN entries = 1..0
    BY <1>2, <1>3
  <2>. QED
    BY <1>1, <2>1, FirstHoldingIs
<1>4. CASE input.terminal /\ signals = found
  <2>1. PICK n \in Nat : DOMAIN signals = 1..n
    BY <1>4, SortedNames
  <2>2. \/ runtime_proof_signal = NoSignal
        \/ \E k \in DOMAIN signals : entries[k][2] /\ runtime_proof_signal = entries[k][1]
    BY <1>1, <1>2, <2>1, FirstHoldingIs
  <2>3. \A k \in DOMAIN signals :
          \E i \in DOMAIN pushed_signals(SignalContext(events, shown)) :
             signals[k] = pushed_signals(SignalContext(events, shown))[i]
    BY <1>4, SortedNames
  <2>. QED
    BY <1>2, <1>4, <2>2, <2>3 DEF Allowed
<1>. QED
  BY <1>3, <1>4 DEF Inv

(* The two columns agree once they are merged.                              *)
LEMMA MergedAgree ==
  ASSUME Inv, NEW signal, signal = runtime_proof_signal
  PROVE  merged_kind(class(input), signal) # "supported"
           <=> merged_error_id(class(input), signal) \in {"E000", "E099"}
<1>. DEFINE base == class(input)
<1>1. CASE ~input.terminal
  <2>1. signal = NoSignal
    BY <1>1, ChosenIs
  <2>2. base.error_id = "E000" /\ base.diagnostic_kind = "unsupported_input"
    BY <1>1 DEF class, no_verifier_rejection_classification, custom_triage
  <2>. QED
    BY <2>1, <2>2 DEF merged_kind, merged_error_id
<1>2. CASE input.terminal /\ KnownClass(base)
  BY <1>2, OverrideIsAnId DEF KnownClass, merged_kind, merged_error_id
<1>3. CASE /\ input.terminal /\ base = unsupported_message_classification
           /\ \A i \in 1..24 : ~matches(REJECTION_PATTERNS[i], input.message.phrases)
  <2>1. /\ base.error_id = "E099" /\ base.obligation = "Unknown"
        /\ base.diagnostic_kind = "unsupported_verifier_message"
        /\ base.failure_class = "unsupported_verifier_message"
    BY <1>3 DEF unsupported_message_classification, custom_triage
  <2>2. CASE signal = NoSignal
    BY <2>1, <2>2 DEF merged_kind, merged_error_id
  <2>3. CASE signal # NoSignal
    <3>1. can_replace_unsupported_terminal(signal)
      BY <2>1, <2>3, ChosenIs DEF can_override_base_failure_class
    <3>2. signal \notin Unsettled
      BY <1>3, <2>1, <2>3, ChosenIs, ContextHas, UnknownHasNoUnsettled
    <3>. QED
      BY <2>1, <2>3, <3>1, <3>2, ReplacingHasId DEF merged_kind, merged_error_id
  <2>. QED
    BY <2>2, <2>3
<1>. QED
  BY <1>1, <1>2, <1>3, MessageClass DEF class

(* Inv is inductive.                                                        *)
LEMMA InvInit == Init => Inv
BY DEF Init, Inv, Reported

LEMMA InvNext ==
  ASSUME Inv, [Next]_vars
  PROVE  Inv'
<1>. DEFINE Found == \/ signals = << >>
                     \/ input.terminal /\ signals = sorted_signals(SignalContext(events, shown))
<1>1. ASSUME UNCHANGED <<input, events, shown, signals>>
      PROVE  /\ Found' /\ class(input') = class(input)
             /\ sorted_signals(SignalContext(events, shown))'
                  = sorted_signals(SignalContext(events, shown))
             /\ runtime_proof_signal' = runtime_proof_signal
  BY <1>1 DEF Inv, SignalContext, EventContext, runtime_proof_signal
<1>2. CASE ParseFails
  BY <1>1, <1>2 DEF ParseFails, Inv, Reported
<1>3. CASE SkipAnalysis
  BY <1>1, <1>3 DEF SkipAnalysis, Inv, Reported
<1>4. CASE analyze_verifier_log_with_context
  <2>1. /\ input' = input /\ input.terminal /\ phase' = "analyzed"
        /\ signals' = sorted_signals(SignalContext(events', shown'))
    BY <1>4 DEF analyze_verifier_log_with_context
  <2>2. SignalContext(events', shown') = SignalContext(events, shown)'
    BY <2>1 DEF SignalContext, EventContext
  <2>. QED
    BY <2>1, <2>2 DEF Inv, Reported
<1>5. CASE build_report
  <2>1. /\ UNCHANGED <<input, events, shown, signals>> /\ phase' = "reported"
        /\ phase = "analyzed" /\ UNCHANGED parse_failed
        /\ report'.signal = runtime_proof_signal
        /\ report'.error_id = merged_error_id(class(input), runtime_proof_signal)
        /\ report'.diagnostic_kind = merged_kind(class(input), runtime_proof_signal)
    BY <1>5 DEF build_report
  <2>. QED
    BY <1>1, <2>1 DEF Inv
<1>6. CASE \E fail_on_unsupported \in BOOLEAN : finish(fail_on_unsupported)
  <2>. PICK fail_on_unsupported \in BOOLEAN : finish(fail_on_unsupported)
    BY <1>6
  <2>1. /\ UNCHANGED <<input, events, shown, signals, parse_failed, report>>
        /\ phase = "reported" /\ phase' = "done"
        /\ exit'.fail_on_unsupported = fail_on_unsupported
        /\ exit'.code = IF fail_on_unsupported /\ report.diagnostic_kind # "supported"
                        THEN 2 ELSE 0
    BY DEF finish
  <2>. QED
    BY <1>1, <2>1 DEF Inv, Reported
<1>7. CASE UNCHANGED vars
  BY <1>1, <1>7 DEF vars, Inv, Reported
<1>. QED
  BY <1>2, <1>3, <1>4, <1>5, <1>6, <1>7 DEF Next

(* The report of a run and its exit code are what Inv says.                 *)
THEOREM InvHolds == Spec => []Inv
BY InvInit, InvNext, PTL DEF Spec

(* For every set of messages, instructions, source listings and state       *)
(* facts: no report is called supported under E000 or E099, every other one *)
(* is, and with --fail-on-unsupported exactly the former exit with 2.       *)
THEOREM IdsMatchKinds == Spec => []IdMatchesKind
<1>1. Inv => IdMatchesKind
  <2>. SUFFICES ASSUME Inv, Reported
                PROVE  /\ report.diagnostic_kind # "supported"
                            <=> report.error_id \in {"E000", "E099"}
                       /\ phase = "done" =>
                            (exit.code = 2 <=> /\ exit.fail_on_unsupported
                                               /\ report.error_id \in {"E000", "E099"})
    BY DEF IdMatchesKind
  <2>1. report.diagnostic_kind # "supported" <=> report.error_id \in {"E000", "E099"}
    BY MergedAgree DEF Inv
  <2>. QED
    BY <2>1 DEF Inv
<1>. QED
  BY <1>1, InvHolds, PTL

(* Of a sorted list, the first signal that may override is the best of the  *)
(* places that count.                                                       *)
LEMMA FirstIsBest ==
  ASSUME signals = sorted_signals(SignalContext(events, shown))
  PROVE  LET c == SignalContext(events, shown)
             entries == Registry(c) \o Fallbacks(c)
             Rank(i) == selection_rank(entries[i][1])
         IN  IF Admissible(c) = {} THEN runtime_proof_signal = NoSignal
             ELSE \E i \in Admissible(c) :
                    /\ runtime_proof_signal = entries[i][1]
                    /\ \A j \in Admissible(c) : \/ Rank(i) < Rank(j)
                                                \/ Rank(i) = Rank(j) /\ i <= j
<1>. DEFINE c == SignalContext(events, shown)
            E == Registry(c) \o Fallbacks(c)
            P == pushed_signals(c)
            n == Cardinality(DOMAIN P)
            A == Admissible(c)
            Allowed(signal) ==
              can_override_base_failure_class(signal, class(input).failure_class)
            Rank(i) == selection_rank(E[i][1])
            order == [k \in DOMAIN signals |-> <<signals[k], Allowed(signals[k])>>]
<1>1. runtime_proof_signal = FirstHolding(order)
  BY DEF runtime_proof_signal
<1>2. \A i : i \in A <=> i \in Counting(c) /\ Allowed(E[i][1])
  <2>1. DOMAIN E = 1..69 /\ Len(Registry(c)) = 64
    BY EntriesAre
  <2>2. \A i : i \in A <=>
          /\ i \in DOMAIN E /\ E[i][2]
          /\ i > Len(Registry(c)) => \A j \in 1..(i - 1) : ~E[j][2]
          /\ Allowed(E[i][1])
    BY DEF Admissible
  <2>3. \A i : i \in Counting(c) <=>
          /\ i \in 1..69 /\ E[i][2]
          /\ i > 64 => \A j \in 1..(i - 1) : ~E[j][2]
    BY DEF Counting
  <2>. HIDE DEF A, E, Allowed, c
  <2>. QED
    BY <2>1, <2>2, <2>3
<1>. HIDE DEF Allowed
<1>3. /\ DOMAIN order = DOMAIN signals
      /\ \A k \in DOMAIN signals : order[k][1] = signals[k] /\ order[k][2] = Allowed(signals[k])
  OBVIOUS
<1>. HIDE DEF order
<1>4. IsFiniteSet(DOMAIN P) /\ DOMAIN P \in SUBSET Int
  <2>1. DOMAIN P \in SUBSET (1..64)
    BY PushedIs
  <2>2. 1 \in Int /\ 64 \in Int
    OBVIOUS
  <2>3. IsFiniteSet(1..64)
    BY <2>2, FS_Interval, Zenon
  <2>. QED
    BY <2>1, <2>3, FS_Subset
<1>5. PICK at \in Surjection(DOMAIN P, Counting(c)) :
        /\ \A i, j \in DOMAIN P : i < j => at[i] < at[j]
        /\ \A i \in DOMAIN P : P[i] = E[at[i]][1]
  BY PushedAt
<1>6. signals = sort_by_key(P, selection_rank)
  BY DEF sorted_signals
<1>. HIDE DEF P, E, A, c
<1>7. /\ n \in Nat /\ DOMAIN signals = 1..n
      /\ \E place \in Surjection(1..n, DOMAIN P) :
           /\ \A k \in 1..n : signals[k] = P[place[k]]
           /\ \A j, k \in 1..n : j < k =>
                \/ selection_rank(P[place[j]]) < selection_rank(P[place[k]])
                \/ /\ selection_rank(P[place[j]]) = selection_rank(P[place[k]])
                   /\ place[j] < place[k]
  <2>. DEFINE sorted == sort_by_key(P, selection_rank)
  <2>1. /\ n \in Nat /\ DOMAIN sorted = 1..n
        /\ \E place \in Surjection(1..n, DOMAIN P) :
             /\ \A k \in 1..n : sorted[k] = P[place[k]]
             /\ \A j, k \in 1..n : j < k =>
                  \/ selection_rank(P[place[j]]) < selection_rank(P[place[k]])
                  \/ /\ selection_rank(P[place[j]]) = selection_rank(P[place[k]])
                     /\ place[j] < place[k]
    BY <1>4, SortedIs, Zenon
  <2>2. signals = sorted
    BY <1>6
  <2>. HIDE DEF sorted
  <2>. QED
    BY <2>1, <2>2
<1>8. PICK place \in Surjection(1..n, DOMAIN P) :
        /\ \A k \in 1..n : signals[k] = P[place[k]]
        /\ \A j, k \in 1..n : j < k =>
             \/ selection_rank(P[place[j]]) < selection_rank(P[place[k]])
             \/ /\ selection_rank(P[place[j]]) = selection_rank(P[place[k]])
                /\ place[j] < place[k]
  BY <1>7
<1>. DEFINE where == [k \in 1..n |-> at[place[k]]]
<1>9. /\ place \in [1..n -> DOMAIN P] /\ \A i \in DOMAIN P : \E k \in 1..n : place[k] = i
      /\ at \in [DOMAIN P -> Counting(c)] /\ \A i \in Counting(c) : \E k \in DOMAIN P : at[k] = i
  BY DEF Surjection
<1>10. \A k \in 1..n : where[k] = at[place[k]]
  OBVIOUS
<1>. HIDE DEF where, n
<1>11. \A k \in 1..n : where[k] \in Counting(c) /\ signals[k] = E[where[k]][1]
  BY <1>5, <1>8, <1>9, <1>10
<1>12. \A i \in Counting(c) : \E k \in 1..n : where[k] = i
  BY <1>9, <1>10
<1>13. ASSUME NEW j \in 1..n, NEW k \in 1..n, j < k
       PROVE  \/ Rank(where[j]) < Rank(where[k])
              \/ Rank(where[j]) = Rank(where[k]) /\ where[j] < where[k]
  <2>1. P[place[j]] = E[where[j]][1] /\ P[place[k]] = E[where[k]][1]
    BY <1>5, <1>9, <1>10
  <2>2. place[j] < place[k] => where[j] < where[k]
    BY <1>5, <1>9, <1>10
  <2>. QED
    BY <1>8, <1>13, <2>1, <2>2
<1>14. \/ runtime_proof_signal = NoSignal /\ \A k \in 1..n : ~Allowed(signals[k])
       \/ \E k \in 1..n : /\ Allowed(signals[k]) /\ runtime_proof_signal = signals[k]
                           /\ \A l \in 1..n : Allowed(signals[l]) => k <= l
  <2>1. DOMAIN order = 1..n /\ n \in Nat
    BY <1>3, <1>7
  <2>2. \/ FirstHolding(order) = NoSignal /\ \A i \in 1..n : ~order[i][2]
        \/ \E i \in 1..n : /\ order[i][2] /\ FirstHolding(order) = order[i][1]
                            /\ \A j \in 1..n : order[j][2] => i <= j
    BY <2>1, FirstHoldingIs
  <2>. QED
    BY <1>1, <1>3, <2>1, <2>2
<1>15. CASE A = {}
  <2>1. \A k \in 1..n : ~Allowed(signals[k])
    BY <1>2, <1>11, <1>15
  <2>. QED
    BY <1>14, <1>15, <2>1 DEF A, c
<1>16. CASE A # {}
  <2>1. PICK a \in A : TRUE
    BY <1>16
  <2>2. \E k \in 1..n : Allowed(signals[k])
    BY <1>2, <1>11, <1>12
  <2>3. PICK k \in 1..n : /\ Allowed(signals[k]) /\ runtime_proof_signal = signals[k]
                          /\ \A l \in 1..n : Allowed(signals[l]) => k <= l
    BY <1>14, <2>2
  <2>4. where[k] \in A /\ runtime_proof_signal = E[where[k]][1]
    BY <1>2, <1>11, <2>3
  <2>5. ASSUME NEW j \in A
        PROVE  \/ Rank(where[k]) < Rank(j)
               \/ Rank(where[k]) = Rank(j) /\ where[k] <= j
    <3>1. j \in Counting(c) /\ Allowed(E[j][1])
      BY <1>2
    <3>2. PICK l \in 1..n : where[l] = j
      BY <1>12, <3>1
    <3>3. k <= l
      BY <1>11, <2>3, <3>1, <3>2
    <3>4. where[k] \in 1..69 /\ j \in 1..69
      BY <1>11, <3>1 DEF Counting
    <3>5. CASE k = l
      <4>1. where[k] = j /\ Rank(where[k]) = Rank(j)
        BY <3>2, <3>5, Zenon
      <4>2. j <= j
        BY <3>4
      <4>. QED
        BY <4>1, <4>2, Zenon
    <3>6. CASE k < l
      <4>1. \/ Rank(where[k]) < Rank(where[l])
            \/ Rank(where[k]) = Rank(where[l]) /\ where[k] < where[l]
        BY <1>13, <3>6
      <4>2. where[k] < j => where[k] <= j
        <5>1. \A x, y \in 1..69 : x < y => x <= y
          OBVIOUS
        <5>. QED
          BY <3>4, <5>1, Zenon
      <4>. QED
        BY <3>2, <4>1, <4>2, Zenon
    <3>7. k = l \/ k < l
      BY <1>7, <3>3
    <3>. QED
      BY <3>5, <3>6, <3>7
  <2>. QED
    BY <1>16, <2>4, <2>5 DEF A, E, c
<1>. QED
  BY <1>15, <1>16

(* For every set of messages, instructions, source listings and state       *)
(* facts: the signal in the report has the smallest rank of those that      *)
(* apply and may override the class of the message, and among equals it is  *)
(* the one whose predicate comes first.                                     *)
THEOREM ReportsTheBest == Spec => []ReportsBest
<1>1. Inv => ReportsBest
  <2>. SUFFICES ASSUME Inv, Reported, ~parse_failed, input.terminal
                PROVE  LET c == SignalContext(events, shown)
                           entries == Registry(c) \o Fallbacks(c)
                           admissible == Admissible(c)
                           Rank(i) == selection_rank(entries[i][1])
                       IN  IF admissible = {} THEN report.signal = NoSignal
                           ELSE \E i \in admissible :
                                  /\ report.signal = entries[i][1]
                                  /\ \A j \in admissible :
                                       \/ Rank(i) < Rank(j)
                                       \/ Rank(i) = Rank(j) /\ i <= j
    BY DEF ReportsBest
  <2>1. signals = sorted_signals(SignalContext(events, shown))
    BY DEF Inv, Reported
  <2>2. report.signal = runtime_proof_signal
    BY DEF Inv
  <2>. QED
    BY <2>1, <2>2, FirstIsBest, Zenon
<1>. QED
  BY <1>1, InvHolds, PTL

-----------------------------------------------------------------------------
(* The fallbacks.                                                           *)

(* The signals that may not override what the source is blamed for.         *)
EnvironmentOnly ==
  {"ExceptionThrowWithLiveReference", "ContextFieldUnavailable", "BtfFuncInfoMissing"}

(* All others may.                                                          *)
LEMMA SourceOverridden ==
  ASSUME NEW signal, signal \notin EnvironmentOnly
  PROVE  can_override_base_failure_class(signal, "source_bug")
BY DEF EnvironmentOnly, can_override_base_failure_class

(* A message about a lost pointer blames the source and has no phrase of an *)
(* earlier pattern.                                                         *)
LEMMA PointerMessage ==
  ASSUME NEW message, NEW target,
         classify_with_context(message, target).obligation = "PointerProvenance"
  PROVE  /\ classify_with_context(message, target).failure_class = "source_bug"
         /\ ~matches(REJECTION_PATTERNS[9], message)
<1>. DEFINE hits == {i \in DOMAIN REJECTION_PATTERNS :
                       matches(REJECTION_PATTERNS[i], message)}
            kind == parse_rejection(message)
<1>1. \A k \in Kinds : classification(k).obligation = "PointerProvenance"
                        => k = "PointerProvenance"
  BY DEF classification, obligation_of, Kinds
<1>2. unsupported_message_classification.obligation # "PointerProvenance"
  BY DEF unsupported_message_classification, custom_triage
<1>3. classification("DynptrSafety").obligation # "PointerProvenance"
  BY <1>1 DEF Kinds
<1>4. kind = "PointerProvenance" /\ classify_with_context(message, target) = classification(kind)
  BY <1>1, <1>2, <1>3, ParsedKind DEF classify_with_context
<1>5. classification("PointerProvenance").failure_class = "source_bug"
  BY DEF classification
<1>6. hits # {}
  BY <1>4 DEF parse_rejection
<1>7. hits \in SUBSET (1..24) /\ hits \in SUBSET Nat
  BY PatternKinds
<1>. DEFINE first == CHOOSE i \in hits : \A j \in hits : i <= j
<1>8. first \in hits /\ \A j \in hits : first <= j
  <2>1. \E m \in hits : \A y \in hits : m <= y
    BY <1>6, <1>7, Least
  <2>. QED
    BY <2>1
<1>9. kind = REJECTION_PATTERNS[first].kind
  BY <1>6 DEF parse_rejection
<1>. HIDE DEF first, kind
<1>10. \A i \in 1..9 : REJECTION_PATTERNS[i].kind # "PointerProvenance"
  BY PatternOrder
<1>11. 9 \notin hits
  <2>1. first \in 1..24 /\ first \notin 1..9
    BY <1>4, <1>7, <1>8, <1>9, <1>10
  <2>2. ~(first <= 9)
    BY <2>1
  <2>. QED
    BY <1>8, <2>2
<1>12. ~matches(REJECTION_PATTERNS[9], message)
  <2>1. 9 \in DOMAIN REJECTION_PATTERNS
    BY PatternKinds
  <2>. QED
    BY <1>11, <2>1
<1>. QED
  BY <1>4, <1>5, <1>12

(* What every fallback asks for.                                            *)
LEMMA FallbackAsks ==
  ASSUME NEW c, NEW i \in 1..5, Fallbacks(c)[i][2]
  PROVE  /\ c.obligation = "PointerProvenance"
         /\ c.insn \in {"memory", "alu"}
         /\ c.message \cap PointerPhrases # {}
<1>1. ScalarAccess(c) =>
        /\ c.obligation = "PointerProvenance" /\ c.insn = "memory"
        /\ c.message \cap {"invalid mem access 'scalar'", "invalid mem access 'inv'"} # {}
  BY DEF ScalarAccess, terminal_error_is_invalid_scalar_memory_access, SaysAny
<1>2. stale_pointer_after_invalidating_helper(c) # NoSignal => ScalarAccess(c)
  <2>. DEFINE entries ==
         << <<"StalePointerAfterInvalidatingHelper",
              ScalarAccess(c) /\ Shown(c, "StalePointerAfterInvalidatingHelper")>>,
            <<"DynptrDataPointerInvalidatedBeforeUse",
              ScalarAccess(c) /\ Shown(c, "DynptrDataPointerInvalidatedBeforeUse")>> >>
  <2>1. stale_pointer_after_invalidating_helper(c) = FirstHolding(entries)
    BY DEF stale_pointer_after_invalidating_helper
  <2>2. /\ DOMAIN entries = 1..2
        /\ entries[1][2] = (ScalarAccess(c) /\ Shown(c, "StalePointerAfterInvalidatingHelper"))
        /\ entries[2][2] = (ScalarAccess(c) /\ Shown(c, "DynptrDataPointerInvalidatedBeforeUse"))
    OBVIOUS
  <2>. HIDE DEF entries
  <2>3. \A k \in 1..2 : entries[k][2] => ScalarAccess(c)
    <3>1. (entries[1][2] => ScalarAccess(c)) /\ (entries[2][2] => ScalarAccess(c))
      BY <2>2
    <3>2. \A k \in 1..2 : k = 1 \/ k = 2
      OBVIOUS
    <3>. QED
      BY <3>1, <3>2, Zenon
  <2>. QED
    BY <2>1, <2>2, <2>3, FirstHoldingIs
<1>3. scalar_value_used_as_pointer(c) =>
        \/ ScalarAccess(c)
        \/ /\ c.obligation = "PointerProvenance" /\ c.insn = "alu"
           /\ "pointer arithmetic" \in c.message
  BY DEF scalar_value_used_as_pointer, SaysAll
<1>4. prohibited_pointer_arithmetic(c) =>
        /\ c.obligation = "PointerProvenance" /\ c.insn = "alu"
        /\ c.message \cap {"pointer arithmetic", "bitwise operator"} # {}
  BY DEF prohibited_pointer_arithmetic, SaysAny
<1>5. /\ Fallbacks(c)[1][2] => ScalarAccess(c)
      /\ Fallbacks(c)[2][2] => ScalarAccess(c)
      /\ Fallbacks(c)[3][2] => ScalarAccess(c)
      /\ Fallbacks(c)[4][2] => scalar_value_used_as_pointer(c)
      /\ Fallbacks(c)[5][2] => prohibited_pointer_arithmetic(c)
  BY <1>2 DEF Fallbacks, opaque_scalar_pointer_dereference,
              null_scalar_dereference_after_pointer_proof
<1>6. \/ ScalarAccess(c) \/ scalar_value_used_as_pointer(c) \/ prohibited_pointer_arithmetic(c)
  <2>1. i = 1 \/ i = 2 \/ i = 3 \/ i = 4 \/ i = 5
    OBVIOUS
  <2>. QED
    BY <1>5, <2>1
<1>. QED
  BY <1>1, <1>3, <1>4, <1>6 DEF PointerPhrases

(* A message that is not about BTF and a pointer at once.                   *)
OneSubject(message) ==
  "missing btf func_info" \in message => message \cap PointerPhrases = {}

(* A message that is not about the context.                                 *)
NotContext(message) == ~matches(REJECTION_PATTERNS[9], message)

(* Where a fallback holds, everything that holds may override.              *)
LEMMA HoldingMayOverride ==
  ASSUME NEW c, NEW f \in 1..5, Fallbacks(c)[f][2],
         OneSubject(c.message), NotContext(c.message)
  PROVE  /\ \A i \in 1..64 : Registry(c)[i][2] => Registry(c)[i][1] \notin EnvironmentOnly
         /\ \A i \in 1..5 : Fallbacks(c)[i][1] \notin EnvironmentOnly
<1>1. ~exception_throw_with_live_reference(c)
  BY FallbackAsks DEF exception_throw_with_live_reference
<1>2. ~btf_func_info_missing(c)
  BY FallbackAsks DEF btf_func_info_missing, SaysAll, OneSubject
<1>3. ~context_field_unavailable(c)
  <2>. DEFINE phrases == {"invalid bpf_context access", "invalid ctx access",
                           "invalid access to context"}
  <2>1. REJECTION_PATTERNS[9] = AnyOf("ContextUnavailable", phrases) /\ phrases # {}
    BY DEF REJECTION_PATTERNS
  <2>. HIDE DEF phrases
  <2>2. ~matches(AnyOf("ContextUnavailable", phrases), c.message)
    BY <2>1 DEF NotContext
  <2>3. phrases \cap c.message = {}
    BY <2>1, <2>2, Unmatched
  <2>. QED
    BY <2>3 DEF context_field_unavailable, terminal_error_is_context_access, SaysAny, phrases
<1>4. bytecode_only_lowering_signal(c) \notin EnvironmentOnly
  BY BytecodeOnlyNames DEF EnvironmentOnly, NoSignal
<1>5. \A i \in 1..64 : i \notin {8, 13, 16, 20} => Registry(c)[i][1] \notin EnvironmentOnly
  BY DEF Registry, EnvironmentOnly
<1>6. /\ Registry(c)[8][1] = bytecode_only_lowering_signal(c)
      /\ Registry(c)[13][2] = context_field_unavailable(c)
      /\ Registry(c)[16][2] = exception_throw_with_live_reference(c)
      /\ Registry(c)[20][2] = btf_func_info_missing(c)
  BY DEF Registry
<1>7. \A i \in 1..5 : Fallbacks(c)[i][1] \notin EnvironmentOnly
  <2>1. stale_pointer_after_invalidating_helper(c) \notin EnvironmentOnly
    BY StaleNames DEF EnvironmentOnly, NoSignal
  <2>2. /\ Fallbacks(c)[1][1] = stale_pointer_after_invalidating_helper(c)
        /\ Fallbacks(c)[2][1] = "OpaqueScalarPointerDereference"
        /\ Fallbacks(c)[3][1] = "NullScalarDereferenceAfterPointerProof"
        /\ Fallbacks(c)[4][1] = "ScalarValueUsedAsPointer"
        /\ Fallbacks(c)[5][1] = "ProhibitedPointerArithmetic"
    BY DEF Fallbacks
  <2>3. \A i \in 1..5 : i = 1 \/ i = 2 \/ i = 3 \/ i = 4 \/ i = 5
    OBVIOUS
  <2>. QED
    BY <2>1, <2>2, <2>3 DEF EnvironmentOnly
<1>. QED
  BY <1>1, <1>2, <1>3, <1>4, <1>5, <1>6, <1>7

(* An admissible signal is in front of the fallbacks that hold, or is one.  *)
LEMMA FallbackAdmitted ==
  ASSUME input.terminal, NEW c, c.message = input.message.phrases,
         c.obligation = class(input).obligation,
         OneSubject(c.message), NEW f \in 1..5, Fallbacks(c)[f][2]
  PROVE  Admissible(c) # {}
<1>. DEFINE E == Registry(c) \o Fallbacks(c)
            holding == {i \in 1..69 : E[i][2]}
<1>1. /\ class(input).failure_class = "source_bug"
      /\ NotContext(c.message)
  <2>1. class(input) = classify_with_context(input.message.phrases, input.site.target)
    BY DEF class
  <2>2. class(input).obligation = "PointerProvenance"
    BY FallbackAsks
  <2>. QED
    BY <2>1, <2>2, PointerMessage DEF NotContext
<1>2. /\ \A i \in 1..64 : Registry(c)[i][2] => Registry(c)[i][1] \notin EnvironmentOnly
      /\ \A i \in 1..5 : Fallbacks(c)[i][1] \notin EnvironmentOnly
  BY <1>1, HoldingMayOverride
<1>3. /\ Len(Registry(c)) = 64 /\ DOMAIN E = 1..69
      /\ \A i \in 1..64 : E[i] = Registry(c)[i]
      /\ \A i \in 1..5 : E[64 + i] = Fallbacks(c)[i]
  BY EntriesAre
<1>4. \A i : i \in Admissible(c) <=>
        /\ i \in DOMAIN E /\ E[i][2]
        /\ i > Len(Registry(c)) => \A j \in 1..(i - 1) : ~E[j][2]
        /\ can_override_base_failure_class(E[i][1], class(input).failure_class)
  BY DEF Admissible
<1>. HIDE DEF E
<1>5. holding \in SUBSET Nat /\ holding # {}
  <2>1. 64 + f \in 1..69 /\ E[64 + f][2]
    BY <1>3
  <2>. QED
    BY <2>1
<1>6. PICK m \in holding : \A j \in holding : m <= j
  BY <1>5, Least
<1>7. m \in 1..69 /\ E[m][2]
  OBVIOUS
<1>8. \A j \in 1..(m - 1) : ~E[j][2]
  <2>. SUFFICES ASSUME NEW j \in 1..(m - 1), E[j][2]
                PROVE  FALSE
    OBVIOUS
  <2>1. j \in 1..69 /\ ~(m <= j)
    BY <1>7
  <2>. QED
    BY <1>6, <2>1
<1>9. E[m][1] \notin EnvironmentOnly
  <2>1. CASE m \in 1..64
    BY <1>2, <1>3, <1>7, <2>1
  <2>2. CASE m \notin 1..64
    <3>1. m - 64 \in 1..5 /\ 64 + (m - 64) = m
      BY <1>7, <2>2
    <3>2. E[64 + (m - 64)] = Fallbacks(c)[m - 64]
      BY <1>3, <3>1
    <3>. QED
      BY <1>2, <3>1, <3>2
  <2>. QED
    BY <2>1, <2>2
<1>10. can_override_base_failure_class(E[m][1], class(input).failure_class)
  BY <1>1, <1>9, SourceOverridden
<1>. QED
  BY <1>3, <1>4, <1>7, <1>8, <1>10

(* The message of an input is one of the messages, or there is none.        *)
MessageKnown == input.terminal => input.message \in Messages

(* It stays the same.                                                       *)
LEMMA MessageStays == Spec => []MessageKnown
<1>1. Init => MessageKnown
  <2>1. ~NoRejection.terminal
    BY DEF NoRejection
  <2>2. ASSUME NEW message \in Messages, NEW site, NEW sources, NEW nearest, NEW not_a_struct,
               NEW facts,
               input = [terminal |-> TRUE, message |-> message, site |-> site,
                        sources |-> sources, nearest |-> nearest,
                        ptr_is_not_a_struct |-> not_a_struct, facts |-> facts]
        PROVE  MessageKnown
    BY <2>2 DEF MessageKnown
  <2>3. CASE input = NoRejection
    BY <2>1, <2>3 DEF MessageKnown
  <2>. QED
    BY <2>2, <2>3, Zenon DEF Init
<1>2. MessageKnown /\ [Next]_vars => MessageKnown'
  BY DEF MessageKnown, Next, vars, ParseFails, SkipAnalysis, analyze_verifier_log_with_context,
         build_report, finish
<1>. QED
  BY <1>1, <1>2, PTL DEF Spec

(* For every set of messages none of which is about missing BTF and about a *)
(* pointer at once: the signal in the report is the best of those that      *)
(* apply and may override, and no signal that may not keeps push_fallback   *)
(* from trying one that may.                                                *)
THEOREM BestIsChosen == Spec => []ChosenIsBest
<1>1. MessageKnown => FallbacksReached
  <2>. SUFFICES ASSUME input.terminal, MessageKnown,
                       NEW i \in DOMAIN Fallbacks(SignalContext(events, shown)),
                       Fallbacks(SignalContext(events, shown))[i][2]
                PROVE  Admissible(SignalContext(events, shown)) # {}
    BY DEF FallbacksReached
  <2>. DEFINE c == SignalContext(events, shown)
  <2>1. c.message = input.message.phrases /\ c.obligation = class(input).obligation
    BY ContextHas
  <2>2. OneSubject(c.message)
    BY <2>1, MessagesAssumption DEF MessageKnown, OneSubject
  <2>3. i \in 1..5
    BY FallbackNames
  <2>. HIDE DEF c
  <2>4. Fallbacks(c)[i][2]
    BY DEF c
  <2>5. Admissible(c) # {}
    BY <2>1, <2>2, <2>3, <2>4, FallbackAdmitted
  <2>. QED
    BY <2>5 DEF c
<1>2. ReportsBest /\ FallbacksReached => ChosenIsBest
  BY DEF ChosenIsBest
<1>. QED
  BY <1>1, <1>2, MessageStays, ReportsTheBest, PTL

-----------------------------------------------------------------------------
(* The sort by lines and the removal of neighbours.                         *)

(* Counting from 0 to n.                                                    *)
LEMMA CountUp ==
  ASSUME NEW n \in Nat, NEW T, 0 \in T, \A k \in 1..n : k - 1 \in T => k \in T
  PROVE  \A k \in 0..n : k \in T
<1>. DEFINE bad == {k \in 0..n : k \notin T}
<1>. SUFFICES ASSUME bad # {} PROVE FALSE
  OBVIOUS
<1>1. bad \in SUBSET Nat
  OBVIOUS
<1>. HIDE DEF bad
<1>2. PICK m \in bad : \A y \in bad : m <= y
  BY <1>1, Least
<1>3. m \in 0..n /\ m \notin T
  BY DEF bad
<1>4. m \in 1..n /\ m - 1 \in 0..n /\ ~(m <= m - 1)
  BY <1>3
<1>5. m - 1 \in T
  BY <1>2, <1>4 DEF bad
<1>. QED
  BY <1>3, <1>4, <1>5

(* place lists the elements of s in the order of their ranks.               *)
Sorts(place, sorted, s, rank, n) ==
  /\ place \in [1..n -> DOMAIN s]
  /\ \A i \in DOMAIN s : \E k \in 1..n : place[k] = i
  /\ DOMAIN sorted = 1..n
  /\ \A k \in 1..n : sorted[k] = s[place[k]]
  /\ \A j, k \in 1..n : j < k =>
       \/ rank[place[j]] < rank[place[k]]
       \/ rank[place[j]] = rank[place[k]] /\ place[j] < place[k]

(* What a stable sort does, for a list some of whose places may be empty.   *)
LEMMA Sorting ==
  ASSUME NEW s, NEW n \in Nat, DOMAIN s \in SUBSET (1..n), NEW rank \in [DOMAIN s -> Nat]
  PROVE  \E m \in Nat : \E place : Sorts(place, stable_sort(s, rank), s, rank, m)
<1>. DEFINE m == Cardinality(DOMAIN s)
            sorted == stable_sort(s, rank)
<1>1. IsFiniteSet(1..n)
  BY FS_Interval
<1>2. IsFiniteSet(DOMAIN s) /\ DOMAIN s \in SUBSET Int
  BY <1>1, FS_Subset
<1>3. /\ m \in Nat /\ DOMAIN sorted = 1..m
      /\ \E place \in Surjection(1..m, DOMAIN s) :
           /\ \A k \in 1..m : sorted[k] = s[place[k]]
           /\ \A j, k \in 1..m : j < k =>
                \/ rank[place[j]] < rank[place[k]]
                \/ rank[place[j]] = rank[place[k]] /\ place[j] < place[k]
  BY <1>2, StableSortIs, Zenon
<1>. HIDE DEF m, sorted
<1>4. PICK place \in Surjection(1..m, DOMAIN s) :
        /\ \A k \in 1..m : sorted[k] = s[place[k]]
        /\ \A j, k \in 1..m : j < k =>
             \/ rank[place[j]] < rank[place[k]]
             \/ rank[place[j]] = rank[place[k]] /\ place[j] < place[k]
  BY <1>3
<1>5. place \in [1..m -> DOMAIN s] /\ \A i \in DOMAIN s : \E k \in 1..m : place[k] = i
  BY <1>4 DEF Surjection
<1>6. Sorts(place, sorted, s, rank, m)
  BY <1>3, <1>4, <1>5, Zenon DEF Sorts
<1>. QED
  BY <1>3, <1>6, Zenon DEF sorted

(* The place of the last element kept is a recursive function.              *)
KeptAt(kept, n, same) ==
  kept = [k \in 0..n |-> IF k = 0 THEN 0
                         ELSE IF <<k, kept[k - 1]>> \in same THEN kept[k - 1] ELSE k]

LEMMA KeptExists ==
  ASSUME NEW n \in Nat, NEW same
  PROVE  \E kept : KeptAt(kept, n, same)
<1>. DEFINE T == {m \in 0..n : \E f : KeptAt(f, m, same)}
<1>1. 0 \in T
  <2>. DEFINE f == [k \in 0..0 |-> 0]
  <2>1. KeptAt(f, 0, same)
    BY DEF KeptAt
  <2>. HIDE DEF f
  <2>. QED
    BY <2>1
<1>2. ASSUME NEW m \in 1..n, m - 1 \in T
      PROVE  m \in T
  <2>1. PICK f : KeptAt(f, m - 1, same)
    BY <1>2
  <2>. DEFINE Step(k, last) == IF k = 0 THEN 0 ELSE IF <<k, last>> \in same THEN last ELSE k
              g == [k \in 0..m |-> IF k = m THEN Step(m, f[m - 1]) ELSE f[k]]
  <2>2. \A k \in 0..(m - 1) : f[k] = Step(k, f[k - 1])
    BY <2>1 DEF KeptAt
  <2>3. \A k \in 0..m : g[k] = IF k = m THEN Step(m, f[m - 1]) ELSE f[k]
    OBVIOUS
  <2>4. g = [k \in 0..m |-> g[k]]
    OBVIOUS
  <2>. HIDE DEF g
  <2>5. ASSUME NEW k \in 0..m
        PROVE  g[k] = Step(k, g[k - 1])
    <3>1. CASE k = 0
      <4>1. k # m /\ k \in 0..(m - 1)
        BY <3>1
      <4>. QED
        BY <2>2, <2>3, <3>1, <4>1
    <3>2. CASE k # 0 /\ k # m
      <4>1. k \in 0..(m - 1) /\ k - 1 \in 0..m /\ k - 1 # m
        BY <3>2
      <4>2. g[k] = f[k] /\ g[k - 1] = f[k - 1] /\ f[k] = Step(k, f[k - 1])
        BY <2>2, <2>3, <3>2, <4>1
      <4>. QED
        BY <4>2
    <3>3. CASE k = m
      <4>1. m - 1 \in 0..m /\ m - 1 # m
        OBVIOUS
      <4>2. g[m] = Step(m, f[m - 1]) /\ g[m - 1] = f[m - 1]
        BY <2>3, <3>3, <4>1
      <4>. QED
        BY <3>3, <4>2
    <3>. QED
      BY <3>1, <3>2, <3>3
  <2>6. g = [k \in 0..m |-> Step(k, g[k - 1])]
    BY <2>4, <2>5
  <2>7. KeptAt(g, m, same)
    BY <2>6 DEF KeptAt
  <2>. QED
    BY <2>7
<1>. HIDE DEF T
<1>3. n \in 0..n /\ \A k \in 0..n : k \in T
  BY <1>1, <1>2, CountUp
<1>4. n \in T
  BY <1>3
<1>. QED
  BY <1>4 DEF T

(* The elements that are left keep their order, and what is dropped is      *)
(* paired with one that is left in front of it.                             *)
Keeps(at, left, s, n, same, m) ==
  /\ at \in [1..m -> 1..n]
  /\ DOMAIN left = 1..m
  /\ \A k \in 1..m : left[k] = s[at[k]]
  /\ \A j, k \in 1..m : j < k => at[j] < at[k]
  /\ \A j \in 1..n : \E k \in 1..m : at[k] <= j /\ (at[k] = j \/ <<j, at[k]>> \in same)

LEMMA Deduping ==
  ASSUME NEW s, NEW n \in Nat, DOMAIN s = 1..n, Len(s) = n,
         NEW same, \A k \in 1..n : <<k, 0>> \notin same
  PROVE  \E m \in Nat : \E at : Keeps(at, deduped(s, same), s, n, same, m)
<1>. DEFINE kept[k \in 0..n] ==
              IF k = 0 THEN 0
              ELSE LET last == kept[k - 1] IN IF <<k, last>> \in same THEN last ELSE k
            heads == {k \in 1..n : kept[k] = k}
            h == [k \in heads |-> s[k]]
            rank == [k \in heads |-> k]
            left == deduped(s, same)
<1>1. left = stable_sort(h, rank)
  BY DEF deduped
<1>2. KeptAt(kept, n, same)
  <2>1. \E f : f = [k \in 0..n |->
                      IF k = 0 THEN 0
                      ELSE LET last == f[k - 1] IN IF <<k, last>> \in same THEN last ELSE k]
    BY KeptExists, Zenon DEF KeptAt
  <2>2. kept = [k \in 0..n |->
                  IF k = 0 THEN 0
                  ELSE LET last == kept[k - 1] IN IF <<k, last>> \in same THEN last ELSE k]
    BY <2>1 DEF kept
  <2>. QED
    BY <2>2, Zenon DEF KeptAt
<1>. HIDE DEF kept
<1>3. \A k \in 0..n : kept[k] = IF k = 0 THEN 0
                                ELSE IF <<k, kept[k - 1]>> \in same THEN kept[k - 1] ELSE k
  BY <1>2 DEF KeptAt
<1>. DEFINE Good(k) == /\ kept[k] \in 1..k /\ kept[kept[k]] = kept[k]
                       /\ kept[k] = k \/ <<k, kept[k]>> \in same
            T == {k \in 0..n : k # 0 => Good(k)}
<1>4. \A k \in 0..n : k \in T
  <2>1. 0 \in T
    OBVIOUS
  <2>2. ASSUME NEW k \in 1..n, k - 1 \in T
        PROVE  k \in T
    <3>1. k \in 0..n /\ k # 0 /\ k - 1 \in 0..n
      OBVIOUS
    <3>2. CASE <<k, kept[k - 1]>> \in same
      <4>1. kept[k] = kept[k - 1]
        BY <1>3, <3>1, <3>2
      <4>2. k - 1 # 0
        BY <1>3, <3>1, <3>2
      <4>3. Good(k - 1)
        BY <2>2, <4>2
      <4>4. kept[k - 1] \in 1..k
        BY <4>3
      <4>. QED
        BY <3>1, <3>2, <4>1, <4>3, <4>4
    <3>3. CASE <<k, kept[k - 1]>> \notin same
      <4>1. kept[k] = k
        BY <1>3, <3>1, <3>3
      <4>. QED
        BY <3>1, <4>1
    <3>. QED
      BY <3>2, <3>3
  <2>. HIDE DEF T
  <2>. QED
    BY <2>1, <2>2, CountUp
<1>5. \A j \in 1..n : Good(j)
  BY <1>4
<1>6. /\ DOMAIN h = heads /\ heads \in SUBSET (1..n)
      /\ \A k \in heads : h[k] = s[k] /\ rank[k] = k
      /\ rank \in [heads -> Nat]
      /\ \A k \in 1..n : k \in heads <=> kept[k] = k
  OBVIOUS
<1>. HIDE DEF heads, h, rank, left
<1>7. PICK m \in Nat : \E place : Sorts(place, stable_sort(h, rank), h, rank, m)
  BY <1>6, Sorting
<1>8. PICK at : Sorts(at, stable_sort(h, rank), h, rank, m)
  BY <1>7
<1>9. /\ at \in [1..m -> heads]
      /\ \A i \in heads : \E k \in 1..m : at[k] = i
      /\ DOMAIN left = 1..m
      /\ \A k \in 1..m : left[k] = h[at[k]]
      /\ \A j, k \in 1..m : j < k =>
           \/ rank[at[j]] < rank[at[k]]
           \/ rank[at[j]] = rank[at[k]] /\ at[j] < at[k]
  BY <1>1, <1>6, <1>8 DEF Sorts
<1>10. at \in [1..m -> 1..n]
  BY <1>6, <1>9
<1>11. \A k \in 1..m : left[k] = s[at[k]]
  BY <1>6, <1>9
<1>12. \A j, k \in 1..m : j < k => at[j] < at[k]
  BY <1>6, <1>9
<1>13. ASSUME NEW j \in 1..n
       PROVE  \E k \in 1..m : at[k] <= j /\ (at[k] = j \/ <<j, at[k]>> \in same)
  <2>1. Good(j)
    BY <1>5
  <2>2. kept[j] \in 1..n /\ kept[j] <= j
    BY <2>1
  <2>3. kept[j] \in heads
    BY <1>6, <2>1, <2>2
  <2>4. PICK k \in 1..m : at[k] = kept[j]
    BY <1>9, <2>3
  <2>. QED
    BY <2>1, <2>2, <2>4
<1>14. Keeps(at, left, s, n, same, m)
  BY <1>9, <1>10, <1>11, <1>12, <1>13, Zenon DEF Keeps
<1>. QED
  BY <1>14, Zenon DEF left
-----------------------------------------------------------------------------
(* The places of the events.                                                *)

(* Source comments as the parser makes them.                                *)
Comment == [pc : Nat, path : STRING, line : Nat, text : SUBSET STRING]

(* The places a list of comments names.                                     *)
Locations(sources) == {Location(sources[i]) : i \in DOMAIN sources}

(* Of some of the comments, one has the largest field.                      *)
LEMMA MaxByKeyIs ==
  ASSUME NEW sources \in Seq(Comment), NEW indices \in SUBSET DOMAIN sources, indices # {},
         NEW field \in {"pc", "line"}
  PROVE  \E i \in indices : MaxByKey(sources, indices, field) = sources[i]
<1>. DEFINE n == Len(sources)
            s == [i \in indices |-> i]
            rank == [i \in indices |-> sources[i][field]]
<1>1. n \in Nat /\ DOMAIN sources = 1..n
  OBVIOUS
<1>2. \A i \in indices : sources[i][field] \in Nat
  <2>1. \A i \in indices : sources[i] \in Comment
    OBVIOUS
  <2>2. \A x \in Comment : x[field] \in Nat
    BY DEF Comment
  <2>. QED
    BY <2>1, <2>2
<1>3. /\ DOMAIN s = indices /\ rank \in [indices -> Nat]
      /\ \A i \in indices : s[i] = i /\ rank[i] = sources[i][field]
  BY <1>2
<1>. HIDE DEF n, s, rank
<1>4. PICK m \in Nat : \E place : Sorts(place, stable_sort(s, rank), s, rank, m)
  BY <1>1, <1>3, Sorting
<1>5. PICK place : Sorts(place, stable_sort(s, rank), s, rank, m)
  BY <1>4
<1>6. /\ place \in [1..m -> indices] /\ \A i \in indices : \E k \in 1..m : place[k] = i
      /\ \A j, k \in 1..m : j < k =>
           \/ rank[place[j]] < rank[place[k]]
           \/ rank[place[j]] = rank[place[k]] /\ place[j] < place[k]
  BY <1>3, <1>5 DEF Sorts
<1>7. m \in 1..m
  BY <1>6
<1>8. ASSUME NEW j \in indices
      PROVE  \/ sources[j][field] < sources[place[m]][field]
             \/ sources[j][field] = sources[place[m]][field] /\ j <= place[m]
  <2>1. PICK k \in 1..m : place[k] = j
    BY <1>6
  <2>2. k = m \/ k < m
    OBVIOUS
  <2>3. place[m] \in indices /\ j \in Nat
    BY <1>1, <1>6, <1>7
  <2>4. place[m] \in Nat
    BY <1>1, <2>3
  <2>5. rank[j] = sources[j][field] /\ rank[place[m]] = sources[place[m]][field]
    BY <1>3, <2>3
  <2>. QED
    BY <1>6, <1>7, <2>1, <2>2, <2>3, <2>4, <2>5
<1>9. place[m] \in indices
  BY <1>6, <1>7
<1>. DEFINE last == CHOOSE i \in indices : \A j \in indices :
                      \/ sources[j][field] < sources[i][field]
                      \/ sources[j][field] = sources[i][field] /\ j <= i
<1>10. last \in indices
  BY <1>8, <1>9, Zenon
<1>11. MaxByKey(sources, indices, field) = sources[last]
  BY Zenon DEF MaxByKey
<1>. QED
  BY <1>10, <1>11

LEMMA SourceForPc ==
  ASSUME NEW sources \in Seq(Comment), NEW pc
  PROVE  source_for_pc(sources, pc) \in {NoSource} \cup Locations(sources)
<1>. DEFINE found == CommentsAtOrBefore(sources, pc)
<1>1. found \in SUBSET DOMAIN sources
  BY DEF CommentsAtOrBefore
<1>. HIDE DEF found
<1>2. CASE found = {}
  BY <1>2 DEF source_for_pc, found
<1>3. CASE found # {}
  <2>1. PICK i \in found : MaxByKey(sources, found, "pc") = sources[i]
    BY <1>1, <1>3, MaxByKeyIs
  <2>2. source_for_pc(sources, pc) = Location(sources[i])
    BY <1>3, <2>1 DEF source_for_pc, found
  <2>. QED
    BY <1>1, <2>1, <2>2 DEF Locations
<1>. QED
  BY <1>2, <1>3

LEMMA TerminalSource ==
  ASSUME NEW sources \in Seq(Comment), NEW pc
  PROVE  /\ terminal_source(sources, pc) \in {NoSource} \cup Locations(sources)
         /\ sources # << >> => Location(Last(sources)) \in Locations(sources)
<1>1. ASSUME sources # << >>
      PROVE  Location(Last(sources)) \in Locations(sources)
  <2>1. Len(sources) \in DOMAIN sources
    BY <1>1
  <2>. QED
    BY <2>1 DEF Last, Locations
<1>. QED
  BY <1>1, SourceForPc DEF terminal_source

LEMMA SourceInRejectedFile ==
  ASSUME NEW sources \in Seq(Comment), NEW pc, NEW rejected
  PROVE  source_for_pc_in_rejected_file(sources, pc, rejected)
           \in {NoSource} \cup Locations(sources)
<1>. DEFINE found == {i \in CommentsAtOrBefore(sources, pc) : sources[i].path = rejected.path}
<1>1. found \in SUBSET DOMAIN sources
  BY DEF CommentsAtOrBefore
<1>2. source_for_pc_in_rejected_file(sources, pc, rejected)
        = IF rejected = NoSource \/ found = {} THEN NoSource
          ELSE IF Location(MaxByKey(sources, found, "pc")) = rejected THEN NoSource
               ELSE Location(MaxByKey(sources, found, "pc"))
  BY DEF source_for_pc_in_rejected_file
<1>. HIDE DEF found
<1>3. found # {} => Location(MaxByKey(sources, found, "pc")) \in Locations(sources)
  BY <1>1, MaxByKeyIs DEF Locations
<1>. QED
  BY <1>2, <1>3

LEMMA LatestSource ==
  ASSUME NEW sources \in Seq(Comment), NEW rejected, NEW matching \in SUBSET DOMAIN sources,
         latest_source_before(sources, rejected, matching) # NoComment
  PROVE  \E i \in DOMAIN sources : latest_source_before(sources, rejected, matching) = sources[i]
<1>. DEFINE found == {i \in matching : /\ sources[i].path = rejected.path
                                       /\ sources[i].line < rejected.line}
<1>1. found \in SUBSET DOMAIN sources
  OBVIOUS
<1>2. latest_source_before(sources, rejected, matching)
        = IF rejected = NoSource \/ found = {} THEN NoComment
          ELSE MaxByKey(sources, found, "line")
  BY DEF latest_source_before
<1>. HIDE DEF found
<1>3. ~(rejected = NoSource \/ found = {})
  BY <1>2
<1>. QED
  BY <1>1, <1>2, <1>3, MaxByKeyIs

(* The places, pcs and events an analysis can come up with.                 *)
Places(c) == {NoSource, c.rejected} \cup Locations(c.sources)
Pcs(c) == {None, c.pc, proved(c), lost(c)} \cup {c.sources[i].pc : i \in DOMAIN c.sources}
Roles == {"ProofEstablished", "ProofLost", "Rejected"}
Evidence == {"SourceComment", "VerifierState", "TerminalVerifier"}
EventsAt(c) == [role : Roles, evidence : Evidence, pc : Pcs(c), source : Places(c)]

LEMMA EventAt ==
  ASSUME NEW c, NEW role \in Roles, NEW evidence \in Evidence, NEW pc \in Pcs(c),
         NEW source \in Places(c)
  PROVE  Event(role, evidence, pc, source) \in EventsAt(c)
BY DEF Event, EventsAt

LEMMA OptAt ==
  ASSUME NEW E, NEW condition, NEW element, condition => element \in E
  PROVE  Opt(condition, element) \in Seq(E)
BY DEF Opt

LEMMA FromCommentAt ==
  ASSUME NEW c, c.sources \in Seq(Comment), NEW role \in Roles,
         NEW matching \in SUBSET DOMAIN c.sources
  PROVE  FromComment(c, role, matching) \in Seq(EventsAt(c))
<1>. DEFINE comment == latest_source_before(c.sources, c.rejected, matching)
            event == Event(role, "SourceComment", comment.pc, Location(comment))
<1>1. FromComment(c, role, matching) = Opt(comment # NoComment, event)
  BY DEF FromComment
<1>2. ASSUME comment # NoComment
      PROVE  event \in EventsAt(c)
  <2>1. PICK i \in DOMAIN c.sources : comment = c.sources[i]
    BY <1>2, LatestSource
  <2>. HIDE DEF comment
  <2>2. comment.pc \in Pcs(c)
    BY <2>1 DEF Pcs
  <2>3. Location(comment) \in Places(c)
    BY <2>1 DEF Places, Locations
  <2>4. "SourceComment" \in Evidence
    BY DEF Evidence
  <2>. QED
    BY <2>2, <2>3, <2>4, EventAt
<1>. HIDE DEF comment, event
<1>. QED
  BY <1>1, <1>2, OptAt

LEMMA StateEventAt ==
  ASSUME NEW c, c.sources \in Seq(Comment), NEW role \in Roles, NEW pc \in {proved(c), lost(c)}
  PROVE  /\ Event(role, "VerifierState", pc, source_for_pc(c.sources, pc)) \in EventsAt(c)
         /\ FromState(c, role, pc) \in Seq(EventsAt(c))
<1>1. pc \in Pcs(c)
  BY DEF Pcs
<1>2. source_for_pc(c.sources, pc) \in Places(c)
  BY SourceForPc DEF Places
<1>3. Event(role, "VerifierState", pc, source_for_pc(c.sources, pc)) \in EventsAt(c)
  <2>1. "VerifierState" \in Evidence
    BY DEF Evidence
  <2>. QED
    BY <1>1, <1>2, <2>1, EventAt
<1>. QED
  BY <1>3, OptAt DEF FromState

(* A sequence of one element.                                               *)
LEMMA OneIsSeq ==
  ASSUME NEW S
  PROVE  \A x \in S : <<x>> \in Seq(S)
OBVIOUS

(* Every event is at one of the places.                                     *)
LEMMA ProofEventsAt ==
  ASSUME NEW c, c.sources \in Seq(Comment)
  PROVE  proof_events(c) \in Seq(EventsAt(c))
<1>. DEFINE E == EventsAt(c)
<1>0. /\ "ProofLost" \in Roles /\ "ProofEstablished" \in Roles
      /\ "SourceComment" \in Evidence /\ "VerifierState" \in Evidence
  BY DEF Roles, Evidence
<1>1. \A predicate : Matching(c, predicate) \in SUBSET DOMAIN c.sources
  BY DEF Matching
<1>2. \A role \in Roles, matching \in SUBSET DOMAIN c.sources :
        FromComment(c, role, matching) \in Seq(E)
  BY FromCommentAt
<1>3. \A role \in Roles : \A predicate :
        FromComment(c, role, Matching(c, predicate)) \in Seq(E)
  BY <1>1, <1>2
<1>4. /\ FromState(c, "ProofLost", lost(c)) \in Seq(E)
      /\ FromState(c, "ProofEstablished", proved(c)) \in Seq(E)
      /\ Event("ProofLost", "VerifierState", lost(c), source_for_pc(c.sources, lost(c))) \in E
  BY <1>0, StateEventAt
<1>5. Event("ProofLost", "VerifierState", lost(c),
            source_for_pc_in_rejected_file(c.sources, lost(c), c.rejected)) \in E
  <2>1. lost(c) \in Pcs(c)
    BY DEF Pcs
  <2>2. source_for_pc_in_rejected_file(c.sources, lost(c), c.rejected) \in Places(c)
    BY SourceInRejectedFile DEF Places
  <2>. QED
    BY <1>0, <2>1, <2>2, EventAt
<1>6. Event("ProofLost", "SourceComment", None, c.rejected) \in E
  BY <1>0, EventAt DEF Pcs, Places
<1>7. \A condition, element : element \in E => Opt(condition, element) \in Seq(E)
  BY OptAt
<1>. HIDE DEF E
<1>8. << >> \in Seq(E) /\ \A x, y \in Seq(E) : x \o y \in Seq(E)
  OBVIOUS
<1>9. pointer_provenance_events(c) \in Seq(E)
  <2>1. Matching(c, "if (") \ Matching(c, "data_end") \in SUBSET DOMAIN c.sources
    BY <1>1
  <2>2. FromComment(c, "ProofLost", Matching(c, "if (") \ Matching(c, "data_end")) \in Seq(E)
    BY <1>0, <1>2, <2>1
  <2>. QED
    BY <1>0, <1>3, <1>4, <1>8, <2>2 DEF pointer_provenance_events
<1>10. packet_bounds_events(c) \in Seq(E)
  BY <1>0, <1>3, <1>4, <1>5, <1>7, <1>8 DEF packet_bounds_events
<1>11. \A predicate : LossFromCommentOrState(c, Matching(c, predicate)) \in Seq(E)
  BY <1>0, <1>3, <1>4 DEF LossFromCommentOrState
<1>12. scalar_range_events(c) \in Seq(E)
  BY <1>0, <1>3, <1>8, <1>11 DEF scalar_range_events
<1>13. nullable_pointer_events(c) \in Seq(E)
  BY <1>0, <1>3, <1>8, <1>11 DEF nullable_pointer_events
<1>14. stack_initialized_events(c) \in Seq(E)
  BY <1>0, <1>3 DEF stack_initialized_events
<1>15. reference_lifecycle_events(c) \in Seq(E)
  BY <1>0, <1>3, <1>6, <1>7, <1>8 DEF reference_lifecycle_events
<1>16. environment_capability_events(c) \in Seq(E)
  <2>1. \A x \in E : <<x>> \in Seq(E)
    BY OneIsSeq, Zenon
  <2>. QED
    BY <1>0, <1>3, <1>6, <2>1 DEF environment_capability_events
<1>. QED
  BY <1>8, <1>9, <1>10, <1>12, <1>13, <1>14, <1>15, <1>16 DEF proof_events, E
-----------------------------------------------------------------------------
(* The related spans.                                                       *)

(* related_spans_from_proof_events with its parts named.                    *)
Located(all) ==
  [i \in {i \in DOMAIN all : all[i].role # "Rejected" /\ all[i].source # NoSource} |-> all[i]]
LineRank(s) == [i \in DOMAIN s |-> related_span_key(s[i])]
SpanOf(e) == [path |-> e.source.path, line |-> e.source.line,
              text |-> e.source.text, evidence |-> e.evidence]
SpansOf(s) == [i \in DOMAIN s |-> SpanOf(s[i])]
AtOnePlace(s) ==
  {q \in (DOMAIN s) \X (DOMAIN s) : s[q[1]].path = s[q[2]].path /\ s[q[1]].line = s[q[2]].line}
SortedSpans(all) == SpansOf(stable_sort(Located(all), LineRank(Located(all))))
Related(all) == deduped(SortedSpans(all), AtOnePlace(SortedSpans(all)))

LEMMA RelatedIs ==
  /\ related_spans_from_proof_events = Related(events)
  /\ related_spans_from_proof_events' = Related(events')
BY DEF related_spans_from_proof_events, Related, SortedSpans, AtOnePlace, SpansOf, SpanOf,
       LineRank, Located, sort_by_key, dedup_by

(* A list that is a function on 1..n has length n.                          *)
LEMMA LengthIs ==
  ASSUME NEW s, NEW n \in Nat, s = [k \in 1..n |-> s[k]]
  PROVE  Len(s) = n
OBVIOUS

LEMMA SortedIsFunction ==
  ASSUME NEW s, NEW rank
  PROVE  stable_sort(s, rank) = [k \in DOMAIN stable_sort(s, rank) |-> stable_sort(s, rank)[k]]
<1>. DEFINE n == Cardinality(DOMAIN s)
            Nth(k) == s[CHOOSE i \in DOMAIN s :
                          Cardinality({j \in DOMAIN s :
                                         \/ rank[j] < rank[i]
                                         \/ rank[j] = rank[i] /\ j < i}) + 1 = k]
<1>1. stable_sort(s, rank) = [k \in 1..n |-> Nth(k)]
  BY DEF stable_sort
<1>. HIDE DEF Nth, n
<1>. QED
  BY <1>1

(* Two numbers and a bit compare as their halves do.                        *)
LEMMA Halves ==
  ASSUME NEW a \in Nat, NEW b \in Nat, NEW x \in {0, 1}, NEW y \in {0, 1},
         2 * a + x <= 2 * b + y
  PROVE  a <= b /\ (a = b => x <= y)
OBVIOUS

LEMMA StrengthIs ==
  ASSUME NEW evidence
  PROVE  evidence_strength_rank(evidence) \in {0, 1}
BY DEF evidence_strength_rank

(* Every place is shown, and where it is shown first the evidence is the    *)
(* strongest.                                                               *)
LEMMA RelatedShows ==
  ASSUME NEW all, NEW n \in Nat, DOMAIN all = 1..n, \A i \in 1..n : all[i].source.line \in Nat
  PROVE  \E m \in Nat :
           /\ DOMAIN Related(all) = 1..m
           /\ \A k \in 1..m : Related(all)[k].line \in Nat
           /\ \A i \in 1..n : all[i].role # "Rejected" /\ all[i].source # NoSource =>
                \E k \in 1..m :
                  /\ Related(all)[k].path = all[i].source.path
                  /\ Related(all)[k].line = all[i].source.line
                  /\ \A l \in 1..k :
                       Related(all)[l].line = all[i].source.line =>
                         evidence_strength_rank(Related(all)[l].evidence)
                           <= evidence_strength_rank(all[i].evidence)
<1>. DEFINE s == Located(all)
            rank == LineRank(s)
            sorted == stable_sort(s, rank)
            spans == SortedSpans(all)
            same == AtOnePlace(spans)
            related == Related(all)
<1>1. /\ DOMAIN s \in SUBSET (1..n)
      /\ \A i \in DOMAIN s : s[i] = all[i]
      /\ \A i \in 1..n : all[i].role # "Rejected" /\ all[i].source # NoSource => i \in DOMAIN s
  BY DEF Located
<1>. HIDE DEF s
<1>2. /\ DOMAIN rank = DOMAIN s
      /\ \A i \in DOMAIN s :
           rank[i] = 2 * all[i].source.line + evidence_strength_rank(all[i].evidence)
  BY <1>1 DEF LineRank, related_span_key
<1>3. rank \in [DOMAIN s -> Nat]
  <2>1. \A i \in DOMAIN s : rank[i] \in Nat
    <3>. SUFFICES ASSUME NEW i \in DOMAIN s
                  PROVE  rank[i] \in Nat
      OBVIOUS
    <3>1. all[i].source.line \in Nat /\ evidence_strength_rank(all[i].evidence) \in {0, 1}
      BY <1>1, StrengthIs
    <3>2. \A x \in Nat : \A y \in {0, 1} : 2 * x + y \in Nat
      OBVIOUS
    <3>. QED
      BY <1>2, <3>1, <3>2
  <2>2. rank = [i \in DOMAIN s |-> rank[i]]
    BY DEF LineRank
  <2>. HIDE DEF rank
  <2>. QED
    BY <2>1, <2>2
<1>. HIDE DEF rank
<1>4. PICK p \in Nat : \E place : Sorts(place, sorted, s, rank, p)
  BY <1>1, <1>3, Sorting
<1>5. PICK place : Sorts(place, sorted, s, rank, p)
  BY <1>4
<1>. HIDE DEF sorted
<1>6. /\ place \in [1..p -> DOMAIN s]
      /\ \A i \in DOMAIN s : \E k \in 1..p : place[k] = i
      /\ DOMAIN sorted = 1..p
      /\ \A k \in 1..p : sorted[k] = s[place[k]]
      /\ \A j, k \in 1..p : j < k =>
           \/ rank[place[j]] < rank[place[k]]
           \/ rank[place[j]] = rank[place[k]] /\ place[j] < place[k]
  BY <1>5 DEF Sorts
<1>7. spans = [k \in 1..p |-> SpanOf(sorted[k])]
  BY <1>6 DEF SortedSpans, SpansOf, sorted, rank, s
<1>8. /\ DOMAIN spans = 1..p
      /\ \A k \in 1..p : spans[k] = SpanOf(all[place[k]])
      /\ spans = [k \in 1..p |-> spans[k]]
  BY <1>1, <1>6, <1>7
<1>. HIDE DEF spans
<1>9. Len(spans) = p
  BY <1>8, LengthIs
<1>10. /\ \A k \in 1..p : <<k, 0>> \notin same
       /\ \A j, k \in 1..p : <<j, k>> \in same =>
            spans[j].path = spans[k].path /\ spans[j].line = spans[k].line
  BY <1>8 DEF AtOnePlace
<1>. HIDE DEF same
<1>11. PICK m \in Nat : \E at : Keeps(at, deduped(spans, same), spans, p, same, m)
  BY <1>8, <1>9, <1>10, Deduping
<1>12. PICK at : Keeps(at, deduped(spans, same), spans, p, same, m)
  BY <1>11
<1>13. related = deduped(spans, same)
  BY DEF Related, spans, same
<1>. HIDE DEF related
<1>14. /\ at \in [1..m -> 1..p]
       /\ DOMAIN related = 1..m
       /\ \A k \in 1..m : related[k] = spans[at[k]]
       /\ \A j, k \in 1..m : j < k => at[j] < at[k]
       /\ \A j \in 1..p : \E k \in 1..m : at[k] <= j /\ (at[k] = j \/ <<j, at[k]>> \in same)
  BY <1>12, <1>13 DEF Keeps
<1>15. \A k \in 1..m : /\ at[k] \in 1..p /\ place[at[k]] \in DOMAIN s
                       /\ related[k] = SpanOf(all[place[at[k]]])
  BY <1>6, <1>8, <1>14
<1>16. \A e : /\ SpanOf(e).path = e.source.path /\ SpanOf(e).line = e.source.line
              /\ SpanOf(e).evidence = e.evidence
  BY DEF SpanOf
<1>17. \A k \in 1..m : related[k].line \in Nat
  BY <1>1, <1>15, <1>16
<1>18. ASSUME NEW i \in 1..n, all[i].role # "Rejected", all[i].source # NoSource
       PROVE  \E k \in 1..m :
                /\ related[k].path = all[i].source.path
                /\ related[k].line = all[i].source.line
                /\ \A l \in 1..k :
                     related[l].line = all[i].source.line =>
                       evidence_strength_rank(related[l].evidence)
                         <= evidence_strength_rank(all[i].evidence)
  <2>1. i \in DOMAIN s
    BY <1>1, <1>18
  <2>2. PICK j \in 1..p : place[j] = i
    BY <1>6, <2>1
  <2>3. PICK k \in 1..m : at[k] <= j /\ (at[k] = j \/ <<j, at[k]>> \in same)
    BY <1>14
  <2>4. related[k].path = all[i].source.path /\ related[k].line = all[i].source.line
    <3>1. spans[j].path = all[i].source.path /\ spans[j].line = all[i].source.line
      BY <1>8, <1>16, <2>2
    <3>2. spans[at[k]].path = spans[j].path /\ spans[at[k]].line = spans[j].line
      BY <1>10, <1>15, <2>3
    <3>. QED
      BY <1>14, <3>1, <3>2
  <2>5. ASSUME NEW l \in 1..k, related[l].line = all[i].source.line
        PROVE  evidence_strength_rank(related[l].evidence)
                 <= evidence_strength_rank(all[i].evidence)
    <3>. DEFINE q == place[at[l]]
    <3>1. l \in 1..m /\ (l = k \/ l < k)
      OBVIOUS
    <3>2. at[l] \in 1..p /\ at[k] \in 1..p /\ at[l] <= at[k]
      <4>1. at[l] \in 1..p /\ at[k] \in 1..p
        BY <1>15, <3>1
      <4>2. l < k => at[l] < at[k]
        BY <1>14, <3>1
      <4>. QED
        BY <3>1, <4>1, <4>2
    <3>3. at[l] = j \/ at[l] < j
      BY <2>3, <3>2
    <3>4. q \in DOMAIN s /\ q \in 1..n
      BY <1>1, <1>15, <3>1
    <3>5. related[l].line = all[q].source.line /\ related[l].evidence = all[q].evidence
      BY <1>15, <1>16, <3>1
    <3>6. rank[q] < rank[i] \/ rank[q] = rank[i]
      BY <1>6, <2>2, <3>2, <3>3
    <3>. HIDE DEF q
    <3>7. rank[q] \in Nat /\ rank[i] \in Nat
      BY <1>3, <2>1, <3>4
    <3>8. rank[q] <= rank[i]
      BY <3>6, <3>7
    <3>9. /\ rank[q] = 2 * all[q].source.line + evidence_strength_rank(all[q].evidence)
          /\ rank[i] = 2 * all[i].source.line + evidence_strength_rank(all[i].evidence)
      BY <1>2, <2>1, <3>4
    <3>10. /\ all[q].source.line \in Nat /\ all[i].source.line \in Nat
           /\ evidence_strength_rank(all[q].evidence) \in {0, 1}
           /\ evidence_strength_rank(all[i].evidence) \in {0, 1}
      BY <3>4, StrengthIs
    <3>11. all[q].source.line = all[i].source.line
             => evidence_strength_rank(all[q].evidence) <= evidence_strength_rank(all[i].evidence)
      BY <3>8, <3>9, <3>10, Halves
    <3>. QED
      BY <2>5, <3>5, <3>11
  <2>. QED
    BY <2>4, <2>5
<1>. QED
  BY <1>14, <1>17, <1>18 DEF related
-----------------------------------------------------------------------------
(* The source block.                                                        *)

(* render_source_block with its parts named.                                *)
HasText(span) == span.text # {}
Plain(span) == [line |-> span.line, text |-> span.text, primary |-> FALSE]
Marked(span) == [line |-> span.line, text |-> span.text, primary |-> TRUE]
LinesOf(related, span) ==
  [i \in DOMAIN related |-> Plain(related[i])] \o Opt(HasText(span), Marked(span))
BlockRank(s) == [i \in DOMAIN s |-> block_key(s[i])]
AlikeLines(s) ==
  {q \in (DOMAIN s) \X (DOMAIN s) : s[q[1]].line = s[q[2]].line /\ s[q[1]].text = s[q[2]].text}
SortedLines(related, span) ==
  stable_sort(LinesOf(related, span), BlockRank(LinesOf(related, span)))
Block(related, span) ==
  deduped(SortedLines(related, span), AlikeLines(SortedLines(related, span)))

LEMMA BlockIs ==
  ASSUME NEW related
  PROVE  render_source_block(related) = Block(related, source_span)
BY DEF render_source_block, Block, SortedLines, AlikeLines, BlockRank, LinesOf, Plain, Marked,
       HasText, sort_by_key, dedup_by

(* The lines before they are sorted: the related ones and then the rejected *)
(* one, if there is one.                                                    *)
LEMMA LinesAre ==
  ASSUME NEW related, NEW m \in Nat, DOMAIN related = 1..m, NEW span
  PROVE  /\ DOMAIN LinesOf(related, span) = 1..(IF HasText(span) THEN m + 1 ELSE m)
         /\ \A i \in 1..m : LinesOf(related, span)[i] = Plain(related[i])
         /\ HasText(span) => LinesOf(related, span)[m + 1] = Marked(span)
<1>. DEFINE X == {Plain(related[i]) : i \in 1..m} \cup {Marked(span)}
            a == [i \in 1..m |-> Plain(related[i])]
            b == Opt(HasText(span), Marked(span))
<1>1. a \in Seq(X) /\ Len(a) = m /\ \A i \in 1..m : a[i] = Plain(related[i])
  <2>1. \A i \in 1..m : Plain(related[i]) \in X
    OBVIOUS
  <2>. HIDE DEF X
  <2>. QED
    BY <2>1
<1>2. /\ b \in Seq(X)
      /\ ~HasText(span) => b = << >>
      /\ HasText(span) => b = <<Marked(span)>>
  <2>1. Marked(span) \in X
    OBVIOUS
  <2>. HIDE DEF X
  <2>. QED
    BY <2>1 DEF Opt
<1>3. LinesOf(related, span) = a \o b
  BY DEF LinesOf
<1>. HIDE DEF X, a, b
<1>4. CASE ~HasText(span)
  <2>1. DOMAIN (a \o b) = 1..m /\ \A i \in 1..m : (a \o b)[i] = a[i]
    BY <1>1, <1>2, <1>4
  <2>. QED
    BY <1>1, <1>3, <1>4, <2>1
<1>5. CASE HasText(span)
  <2>1. Len(b) = 1 /\ b[1] = Marked(span)
    BY <1>2, <1>5
  <2>2. /\ DOMAIN (a \o b) = 1..(m + 1) /\ \A i \in 1..m : (a \o b)[i] = a[i]
        /\ (a \o b)[m + 1] = b[1]
    <3>1. /\ a \o b \in Seq(X) /\ Len(a \o b) = m + 1
          /\ \A i \in 1..(m + 1) : (a \o b)[i] = IF i <= m THEN a[i] ELSE b[i - m]
      <4>1. /\ a \o b \in Seq(X) /\ Len(a \o b) = Len(a) + Len(b)
            /\ \A i \in 1..(Len(a) + Len(b)) :
                 (a \o b)[i] = IF i <= Len(a) THEN a[i] ELSE b[i - Len(a)]
        BY <1>1, <1>2, ConcatProperties, Zenon
      <4>2. Len(a) = m /\ Len(b) = 1
        BY <1>1, <2>1
      <4>. QED
        BY <4>1, <4>2, Zenon
    <3>2. /\ \A i \in 1..m : i \in 1..(m + 1) /\ i <= m
          /\ m + 1 \in 1..(m + 1) /\ ~(m + 1 <= m) /\ (m + 1) - m = 1
      OBVIOUS
    <3>3. DOMAIN (a \o b) = 1..(m + 1)
      BY <3>1, LenProperties
    <3>. QED
      BY <3>1, <3>2, <3>3
  <2>. QED
    BY <1>1, <1>3, <1>5, <2>1, <2>2
<1>. QED
  BY <1>4, <1>5

LEMMA LineIs ==
  ASSUME NEW span
  PROVE  /\ Plain(span).line = span.line /\ Plain(span).text = span.text
         /\ Marked(span).line = span.line
         /\ ~Plain(span).primary /\ Marked(span).primary
         /\ block_key(Plain(span)) = 2 * span.line + 1
         /\ block_key(Marked(span)) = 2 * span.line + 0
BY DEF Plain, Marked, block_key

(* The rejected line is marked once, every related line is shown, and the   *)
(* lines are in order.                                                      *)
LEMMA BlockShows ==
  ASSUME NEW related, NEW m \in Nat, DOMAIN related = 1..m,
         \A k \in 1..m : related[k].line \in Nat, NEW span, span.line \in Nat
  PROVE  LET block == Block(related, span) IN
         /\ Cardinality({k \in DOMAIN block : block[k].primary})
              = IF HasText(span) THEN 1 ELSE 0
         /\ \A k \in DOMAIN related : \E l \in DOMAIN block :
              block[l].line = related[k].line /\ block[l].text = related[k].text
         /\ \A k, l \in DOMAIN block : k < l => block[k].line <= block[l].line
<1>. DEFINE lines == LinesOf(related, span)
            n == IF HasText(span) THEN m + 1 ELSE m
            rank == BlockRank(lines)
            sorted == SortedLines(related, span)
            same == AlikeLines(sorted)
            block == Block(related, span)
<1>1. /\ DOMAIN lines = 1..n
      /\ \A i \in 1..m : lines[i] = Plain(related[i])
      /\ HasText(span) => lines[m + 1] = Marked(span)
  BY LinesAre
<1>. HIDE DEF lines
<1>2. n \in Nat /\ 1..m \subseteq 1..n /\ (HasText(span) => m + 1 \in 1..n)
      /\ \A i \in 1..n : i \in 1..m \/ (i = m + 1 /\ HasText(span))
  OBVIOUS
<1>. HIDE DEF n
<1>3. rank = [i \in 1..n |-> rank[i]] /\ \A i \in 1..n : rank[i] = block_key(lines[i])
  BY <1>1 DEF BlockRank
<1>. HIDE DEF rank
<1>4. /\ \A i \in 1..m : rank[i] = 2 * related[i].line + 1
      /\ HasText(span) => rank[m + 1] = 2 * span.line + 0
      /\ \A i \in 1..n : ~lines[i].primary <=> i \in 1..m
      /\ \A i \in 1..m : lines[i].line = related[i].line /\ lines[i].text = related[i].text
      /\ HasText(span) => lines[m + 1].line = span.line
  <2>1. \A i \in 1..m : rank[i] = 2 * related[i].line + 1
    <3>1. \A i \in 1..m : rank[i] = block_key(Plain(related[i]))
      BY <1>1, <1>2, <1>3
    <3>. QED
      BY <3>1, LineIs
  <2>2. HasText(span) => rank[m + 1] = 2 * span.line + 0
    BY <1>1, <1>2, <1>3, LineIs
  <2>3. \A i \in 1..m : lines[i].line = related[i].line /\ lines[i].text = related[i].text
    BY <1>1, LineIs
  <2>4. HasText(span) => lines[m + 1].line = span.line
    BY <1>1, LineIs
  <2>5. \A i \in 1..m : ~lines[i].primary
    BY <1>1, LineIs
  <2>6. HasText(span) => lines[m + 1].primary
    BY <1>1, LineIs
  <2>7. ~(m + 1 \in 1..m)
    OBVIOUS
  <2>8. \A i \in 1..n : ~lines[i].primary <=> i \in 1..m
    BY <1>2, <2>5, <2>6, <2>7, Zenon
  <2>. QED
    BY <2>1, <2>2, <2>3, <2>4, <2>8
<1>5. \A i \in 1..n : lines[i].line \in Nat
  BY <1>2, <1>4
<1>6. \A i \in 1..n : \E x \in {0, 1} : rank[i] = 2 * lines[i].line + x
  BY <1>2, <1>4
<1>7. rank \in [DOMAIN lines -> Nat]
  <2>1. \A i \in 1..n : rank[i] \in Nat
    BY <1>5, <1>6
  <2>. QED
    BY <1>1, <1>3, <2>1
<1>8. sorted = stable_sort(lines, rank)
  BY DEF SortedLines, lines, rank
<1>. HIDE DEF sorted
<1>9. PICK p \in Nat : \E place : Sorts(place, sorted, lines, rank, p)
  BY <1>1, <1>2, <1>7, <1>8, Sorting
<1>10. PICK place : Sorts(place, sorted, lines, rank, p)
  BY <1>9
<1>11. /\ place \in [1..p -> 1..n]
       /\ \A i \in 1..n : \E k \in 1..p : place[k] = i
       /\ DOMAIN sorted = 1..p
       /\ \A k \in 1..p : sorted[k] = lines[place[k]]
       /\ \A j, k \in 1..p : j < k =>
            \/ rank[place[j]] < rank[place[k]]
            \/ rank[place[j]] = rank[place[k]] /\ place[j] < place[k]
  BY <1>1, <1>10 DEF Sorts
<1>12. Len(sorted) = p
  BY <1>8, <1>11, SortedIsFunction, LengthIs
<1>13. /\ \A k \in 1..p : <<k, 0>> \notin same
       /\ \A j, k \in 1..p : <<j, k>> \in same =>
            sorted[j].line = sorted[k].line /\ sorted[j].text = sorted[k].text
  BY <1>11, SMTT(30) DEF AlikeLines
<1>. HIDE DEF same
<1>14. PICK q \in Nat : \E at : Keeps(at, deduped(sorted, same), sorted, p, same, q)
  BY <1>11, <1>12, <1>13, Deduping
<1>15. PICK at : Keeps(at, deduped(sorted, same), sorted, p, same, q)
  BY <1>14
<1>16. block = deduped(sorted, same)
  BY DEF Block, sorted, same
<1>. HIDE DEF block
<1>17. /\ at \in [1..q -> 1..p]
       /\ DOMAIN block = 1..q
       /\ \A k \in 1..q : block[k] = sorted[at[k]]
       /\ \A j, k \in 1..q : j < k => at[j] < at[k]
       /\ \A j \in 1..p : \E k \in 1..q : at[k] <= j /\ (at[k] = j \/ <<j, at[k]>> \in same)
  BY <1>15, <1>16 DEF Keeps
<1>18. \A k \in 1..q : /\ at[k] \in 1..p /\ place[at[k]] \in 1..n
                       /\ block[k] = lines[place[at[k]]]
  BY <1>11, <1>17
(* From top to bottom. *)
<1>19. ASSUME NEW k \in DOMAIN block, NEW l \in DOMAIN block, k < l
       PROVE  block[k].line <= block[l].line
  <2>. DEFINE i == place[at[k]]
              j == place[at[l]]
  <2>1. k \in 1..q /\ l \in 1..q
    BY <1>17
  <2>2. /\ i \in 1..n /\ j \in 1..n /\ block[k] = lines[i] /\ block[l] = lines[j]
        /\ at[k] \in 1..p /\ at[l] \in 1..p
    BY <1>18, <2>1
  <2>3. at[k] < at[l]
    BY <1>17, <1>19, <2>1
  <2>4. rank[i] < rank[j] \/ rank[i] = rank[j]
    BY <1>11, <2>2, <2>3
  <2>. HIDE DEF i, j
  <2>5. rank[i] \in Nat /\ rank[j] \in Nat
    BY <1>1, <1>7, <2>2
  <2>6. rank[i] <= rank[j]
    BY <2>4, <2>5
  <2>7. PICK x \in {0, 1} : rank[i] = 2 * lines[i].line + x
    BY <1>6, <2>2
  <2>8. PICK y \in {0, 1} : rank[j] = 2 * lines[j].line + y
    BY <1>6, <2>2
  <2>9. lines[i].line \in Nat /\ lines[j].line \in Nat
    BY <1>5, <2>2
  <2>10. 2 * lines[i].line + x <= 2 * lines[j].line + y
    BY <2>6, <2>7, <2>8, Zenon
  <2>11. lines[i].line <= lines[j].line
    BY <2>9, <2>10, Halves, Zenon
  <2>. QED
    BY <2>2, <2>11
(* Every related line. *)
<1>20. ASSUME NEW k \in DOMAIN related
       PROVE  \E l \in DOMAIN block :
                block[l].line = related[k].line /\ block[l].text = related[k].text
  <2>1. k \in 1..m /\ k \in 1..n
    BY <1>2
  <2>2. PICK j \in 1..p : place[j] = k
    BY <1>11, <2>1
  <2>3. PICK l \in 1..q : at[l] <= j /\ (at[l] = j \/ <<j, at[l]>> \in same)
    BY <1>17
  <2>4. sorted[at[l]].line = sorted[j].line /\ sorted[at[l]].text = sorted[j].text
    BY <1>13, <1>18, <2>3
  <2>5. sorted[j].line = related[k].line /\ sorted[j].text = related[k].text
    BY <1>4, <1>11, <2>1, <2>2
  <2>. QED
    BY <1>17, <2>4, <2>5
(* The mark. *)
<1>. DEFINE marked == {k \in DOMAIN block : block[k].primary}
<1>21. ASSUME ~HasText(span)
       PROVE  Cardinality(marked) = 0
  <2>1. \A i \in 1..n : i \in 1..m
    BY <1>2, <1>21
  <2>2. \A k \in 1..q : ~block[k].primary
    BY <1>4, <1>18, <2>1
  <2>3. marked = {}
    BY <1>17, <2>2
  <2>. QED
    BY <2>3, FS_EmptySet
<1>22. ASSUME HasText(span)
       PROVE  Cardinality(marked) = 1
  <2>. DEFINE r == m + 1
  <2>1. r \in 1..n /\ r \notin 1..m /\ \A i \in 1..n : i = r \/ i \in 1..m
    BY <1>2, <1>22
  <2>2. PICK j \in 1..p : place[j] = r
    BY <1>11, <2>1
  <2>3. PICK k \in 1..q : at[k] <= j /\ (at[k] = j \/ <<j, at[k]>> \in same)
    BY <1>17
  <2>4. at[k] \in 1..p /\ rank[r] = 2 * span.line + 0 /\ lines[r].line = span.line
    BY <1>4, <1>18, <1>22
  <2>. HIDE DEF r
  <2>5. at[k] = j
    <3>. SUFFICES ASSUME at[k] # j PROVE FALSE
      OBVIOUS
    <3>. DEFINE i == place[at[k]]
    <3>1. at[k] < j /\ <<j, at[k]>> \in same
      BY <2>3, <2>4
    <3>2. i \in 1..n /\ lines[i].line = span.line
      <4>1. i \in 1..n
        BY <1>18, Zenon
      <4>2. sorted[j].line = sorted[at[k]].line
        BY <1>13, <2>4, <3>1, Zenon
      <4>3. sorted[j] = lines[r] /\ sorted[at[k]] = lines[i]
        BY <1>11, <2>2, <2>4, Zenon
      <4>. QED
        BY <2>4, <4>1, <4>2, <4>3, Zenon
    <3>3. rank[i] < rank[r] \/ (rank[i] = rank[r] /\ i < r)
      BY <1>11, <2>2, <2>4, <3>1
    <3>. HIDE DEF i
    <3>4. rank[i] \in Nat /\ rank[r] \in Nat /\ r \in Nat
      BY <1>1, <1>7, <2>1, <3>2
    <3>5. i # r
      BY <3>3, <3>4
    <3>6. i \in 1..m
      BY <2>1, <3>2, <3>5
    <3>7. rank[i] = 2 * span.line + 1
      BY <1>4, <3>2, <3>6
    <3>8. rank[i] <= rank[r]
      BY <3>3, <3>4
    <3>. QED
      BY <2>4, <3>7, <3>8
  <2>6. ASSUME NEW l \in 1..q
        PROVE  block[l].primary <=> l = k
    <3>1. block[l] = lines[place[at[l]]] /\ place[at[l]] \in 1..n
      BY <1>18
    <3>2. ~block[l].primary <=> place[at[l]] \in 1..m
      BY <1>4, <3>1
    <3>3. place[at[l]] \in 1..m <=> place[at[l]] # r
      BY <2>1, <3>1
    <3>4. l = k => place[at[l]] = r
      BY <2>2, <2>5
    <3>5. l # k => place[at[l]] # r
      <4>. SUFFICES ASSUME l # k, place[at[l]] = place[at[k]]
                    PROVE  FALSE
        BY <2>2, <2>5
      <4>1. at[l] \in 1..p /\ at[k] \in 1..p
        BY <1>18
      <4>2. l < k \/ k < l
        OBVIOUS
      <4>3. at[l] < at[k] \/ at[k] < at[l]
        BY <1>17, <4>2
      <4>4. place[at[l]] \in Nat /\ rank[place[at[l]]] \in Nat
        BY <1>1, <1>7, <1>18
      <4>5. \A x \in Nat : ~(x < x)
        OBVIOUS
      <4>6. at[l] < at[k] =>
              \/ rank[place[at[l]]] < rank[place[at[k]]]
              \/ rank[place[at[l]]] = rank[place[at[k]]] /\ place[at[l]] < place[at[k]]
        BY <1>11, <4>1
      <4>7. at[k] < at[l] =>
              \/ rank[place[at[k]]] < rank[place[at[l]]]
              \/ rank[place[at[k]]] = rank[place[at[l]]] /\ place[at[k]] < place[at[l]]
        BY <1>11, <4>1
      <4>. QED
        BY <4>3, <4>4, <4>5, <4>6, <4>7
    <3>. QED
      BY <3>2, <3>3, <3>4, <3>5, Zenon
  <2>7. marked = {k}
    BY <1>17, <2>6
  <2>8. Cardinality({k}) = 1
    BY FS_Singleton
  <2>. QED
    BY <2>7, <2>8
<1>23. Cardinality(marked) = IF HasText(span) THEN 1 ELSE 0
  BY <1>21, <1>22
<1>. QED
  BY <1>19, <1>20, <1>23, Zenon DEF block
-----------------------------------------------------------------------------
(* What the report shows of the source.                                     *)

(* The events of the report are those of the analysis, their sources        *)
(* comments of the log, and the spans and the block are made from them.     *)
SourceInv ==
  /\ input.sources \in Seq(Comment)
  /\ input.nearest \in NearestSources(input.sources)
  /\ \/ events = << >>
     \/ events = Append(proof_events(EventContext), Rejection(EventContext))
  /\ Reported => /\ report.related = Related(events)
                 /\ report.block = Block(report.related, source_span)

LEMMA SourceInvInit == Init => SourceInv
<1>1. /\ NoRejection.sources = << >> /\ NoRejection.nearest = NoSource
  BY DEF NoRejection
<1>2. << >> \in Seq(Comment) /\ NoSource \in NearestSources(<< >>)
  BY DEF NearestSources
<1>3. ASSUME NEW message, NEW site, NEW sources \in Listings,
             NEW nearest \in NearestSources(sources), NEW not_a_struct, NEW facts,
             input = [terminal |-> TRUE, message |-> message, site |-> site,
                      sources |-> sources, nearest |-> nearest,
                      ptr_is_not_a_struct |-> not_a_struct, facts |-> facts]
      PROVE  input.sources \in Seq(Comment) /\ input.nearest \in NearestSources(input.sources)
  <2>1. input.sources = sources /\ input.nearest = nearest
    BY <1>3
  <2>2. sources \in Seq(Comment)
    BY ListingsAssumption DEF Comment
  <2>. QED
    BY <2>1, <2>2
<1>. SUFFICES ASSUME Init PROVE SourceInv
  OBVIOUS
<1>5. input.sources \in Seq(Comment) /\ input.nearest \in NearestSources(input.sources)
  <2>1. CASE input = NoRejection
    BY <1>1, <1>2, <2>1
  <2>. QED
    BY <1>3, <2>1, Zenon DEF Init
<1>6. events = << >> /\ ~Reported
  BY DEF Init, Reported
<1>. QED
  BY <1>5, <1>6 DEF SourceInv

LEMMA SourceInvNext ==
  ASSUME SourceInv, [Next]_vars
  PROVE  SourceInv'
<1>1. ASSUME UNCHANGED <<input, events>>
      PROVE  EventContext' = EventContext /\ source_span' = source_span
  BY <1>1 DEF EventContext, source_span
<1>2. ASSUME UNCHANGED input
      PROVE  EventContext' = EventContext
  BY <1>2 DEF EventContext
<1>3. CASE ParseFails
  BY <1>1, <1>3 DEF ParseFails, SourceInv, Reported
<1>4. CASE SkipAnalysis
  BY <1>1, <1>4 DEF SkipAnalysis, SourceInv, Reported
<1>5. CASE analyze_verifier_log_with_context
  BY <1>2, <1>5 DEF analyze_verifier_log_with_context, SourceInv, Reported
<1>6. CASE build_report
  <2>1. /\ UNCHANGED <<input, events>>
        /\ report'.related = related_spans_from_proof_events
        /\ report'.block = render_source_block(related_spans_from_proof_events)
    BY <1>6 DEF build_report
  <2>2. report'.related = Related(events')
    BY <2>1, RelatedIs
  <2>3. report'.block = Block(report'.related, source_span)
    BY <2>1, BlockIs
  <2>. QED
    BY <1>1, <2>1, <2>2, <2>3 DEF SourceInv
<1>7. CASE \E fail_on_unsupported \in BOOLEAN : finish(fail_on_unsupported)
  BY <1>1, <1>7 DEF finish, SourceInv, Reported
<1>8. CASE UNCHANGED vars
  BY <1>1, <1>8 DEF vars, SourceInv, Reported
<1>. QED
  BY <1>3, <1>4, <1>5, <1>6, <1>7, <1>8 DEF Next

(* Every place of a report has a line.                                      *)
LEMMA PlacesHaveLines ==
  ASSUME SourceInv
  PROVE  /\ Len(events) \in Nat /\ DOMAIN events = 1..Len(events)
         /\ \A i \in DOMAIN events : events[i].source.line \in Nat
         /\ source_span.line \in Nat
<1>. DEFINE c == EventContext
            S == input.sources
<1>1. c.sources = S /\ c.rejected = terminal_source(S, input.site.pc) /\ S \in Seq(Comment)
  BY DEF EventContext, SourceInv
<1>2. NoSource.line \in Nat
  <2>1. NoSource.line = None
    BY Zenon DEF NoSource
  <2>. QED
    BY <2>1 DEF None
<1>3. \A place \in Locations(S) : place.line \in Nat
  <2>. SUFFICES ASSUME NEW i \in DOMAIN S
                PROVE  Location(S[i]).line \in Nat
    BY DEF Locations
  <2>1. S[i] \in Comment
    BY <1>1
  <2>2. S[i].line \in Nat
    BY <2>1 DEF Comment
  <2>. QED
    BY <2>2 DEF Location
<1>4. \A place \in Places(c) : place.line \in Nat
  <2>1. c.rejected \in {NoSource} \cup Locations(S)
    BY <1>1, TerminalSource
  <2>. QED
    BY <1>1, <1>2, <1>3, <2>1 DEF Places
<1>5. events \in Seq(EventsAt(c))
  <2>1. proof_events(c) \in Seq(EventsAt(c))
    BY <1>1, ProofEventsAt
  <2>2. Rejection(c) \in EventsAt(c)
    <3>1. "Rejected" \in Roles /\ "TerminalVerifier" \in Evidence
      BY DEF Roles, Evidence
    <3>2. c.pc \in Pcs(c) /\ c.rejected \in Places(c)
      BY DEF Pcs, Places
    <3>. QED
      BY <3>1, <3>2, EventAt DEF Rejection
  <2>3. events = << >> \/ events = Append(proof_events(c), Rejection(c))
    BY DEF SourceInv
  <2>4. Append(proof_events(c), Rejection(c)) \in Seq(EventsAt(c))
    BY <2>1, <2>2, AppendProperties, Zenon
  <2>5. << >> \in Seq(EventsAt(c))
    OBVIOUS
  <2>. QED
    BY <2>3, <2>4, <2>5, Zenon
<1>. HIDE DEF c, S
<1>6. Len(events) \in Nat /\ DOMAIN events = 1..Len(events)
  BY <1>5
<1>7. \A i \in DOMAIN events : events[i].source.line \in Nat
  <2>. SUFFICES ASSUME NEW i \in DOMAIN events
                PROVE  events[i].source.line \in Nat
    OBVIOUS
  <2>1. events[i] \in EventsAt(c)
    BY <1>5
  <2>2. events[i].source \in Places(c)
    BY <2>1 DEF EventsAt
  <2>. QED
    BY <1>4, <2>2
<1>8. source_span.line \in Nat
  <2>. DEFINE rejections == {i \in DOMAIN events : events[i].role = "Rejected"}
  <2>1. source_span = IF rejections # {} /\ events[Min(rejections)].source # NoSource
                      THEN events[Min(rejections)].source ELSE input.nearest
    BY DEF source_span
  <2>2. rejections \in SUBSET Nat /\ rejections \in SUBSET DOMAIN events
    BY <1>6
  <2>. HIDE DEF rejections
  <2>3. ASSUME rejections # {}
        PROVE  Min(rejections) \in DOMAIN events
    <3>1. \E x \in rejections : \A y \in rejections : x <= y
      BY <2>2, <2>3, Least
    <3>2. Min(rejections) \in rejections
      BY <3>1 DEF Min
    <3>. QED
      BY <2>2, <3>2
  <2>4. input.nearest.line \in Nat
    <3>1. input.nearest \in {NoSource} \cup Locations(S)
      BY <1>1, TerminalSource DEF SourceInv, NearestSources, S
    <3>. QED
      BY <1>2, <1>3, <3>1
  <2>. QED
    BY <1>7, <2>1, <2>3, <2>4
<1>. QED
  BY <1>6, <1>7, <1>8

(* For every set of messages, instructions, source listings and state       *)
(* facts: no event is lost between the analysis and the report.  Every      *)
(* place an event names is among the related spans, and the first span      *)
(* there carries the strongest evidence any event has for it.               *)
THEOREM SpansAreStrongest == Spec => []SpansShowStrongest
<1>1. SourceInv => SpansShowStrongest
  <2>. SUFFICES ASSUME SourceInv, Reported, NEW i \in DOMAIN events,
                       events[i].role # "Rejected", events[i].source # NoSource
                PROVE  LET here == {k \in DOMAIN report.related :
                                      /\ report.related[k].path = events[i].source.path
                                      /\ report.related[k].line = events[i].source.line}
                       IN  /\ here # {}
                           /\ evidence_strength_rank(report.related[Min(here)].evidence)
                                <= evidence_strength_rank(events[i].evidence)
    BY DEF SpansShowStrongest
  <2>. DEFINE R == report.related
              here == {k \in DOMAIN R : /\ R[k].path = events[i].source.path
                                        /\ R[k].line = events[i].source.line}
  <2>1. R = Related(events)
    BY DEF SourceInv
  <2>2. PICK m \in Nat :
          /\ DOMAIN Related(events) = 1..m
          /\ \A j \in 1..Len(events) :
               events[j].role # "Rejected" /\ events[j].source # NoSource =>
                 \E k \in 1..m :
                   /\ Related(events)[k].path = events[j].source.path
                   /\ Related(events)[k].line = events[j].source.line
                   /\ \A l \in 1..k :
                        Related(events)[l].line = events[j].source.line =>
                          evidence_strength_rank(Related(events)[l].evidence)
                            <= evidence_strength_rank(events[j].evidence)
    BY PlacesHaveLines, RelatedShows
  <2>3. i \in 1..Len(events)
    BY PlacesHaveLines
  <2>4. PICK k \in 1..m :
          /\ R[k].path = events[i].source.path
          /\ R[k].line = events[i].source.line
          /\ \A l \in 1..k : R[l].line = events[i].source.line =>
               evidence_strength_rank(R[l].evidence) <= evidence_strength_rank(events[i].evidence)
    BY <2>1, <2>2, <2>3
  <2>5. DOMAIN R = 1..m
    BY <2>1, <2>2
  <2>. HIDE DEF R
  <2>6. k \in here /\ here \in SUBSET Nat
    BY <2>4, <2>5
  <2>7. \A l \in here : l \in 1..m /\ R[l].line = events[i].source.line
    BY <2>5
  <2>. HIDE DEF here
  <2>8. \E x \in here : \A y \in here : x <= y
    BY <2>6, Least
  <2>9. Min(here) \in here /\ \A y \in here : Min(here) <= y
    BY <2>8 DEF Min
  <2>10. Min(here) \in 1..k
    <3>1. Min(here) \in 1..m /\ Min(here) <= k
      BY <2>6, <2>7, <2>9, Zenon
    <3>2. \A x \in 1..m : x <= k => x \in 1..k
      OBVIOUS
    <3>. QED
      BY <3>1, <3>2, Zenon
  <2>11. evidence_strength_rank(R[Min(here)].evidence)
           <= evidence_strength_rank(events[i].evidence)
    BY <2>4, <2>7, <2>9, <2>10
  <2>12. here # {}
    BY <2>6
  <2>. QED
    BY <2>11, <2>12, Zenon DEF here, R
<1>. QED
  BY <1>1, SourceInvInit, SourceInvNext, PTL DEF Spec

(* For every set of messages, instructions, source listings and state       *)
(* facts: the source block marks the rejected line exactly once if the text *)
(* of its source is known and not empty, and else no line; it shows every   *)
(* related line, and reads from top to bottom.                              *)
THEOREM BlockShowsTheRejection == Spec => []BlockShowsRejection
<1>1. SourceInv => BlockShowsRejection
  <2>. SUFFICES ASSUME SourceInv, Reported
                PROVE  /\ Cardinality({k \in DOMAIN report.block : report.block[k].primary})
                            = IF source_span.text = {} THEN 0 ELSE 1
                       /\ \A k \in DOMAIN report.related : \E l \in DOMAIN report.block :
                            /\ report.block[l].line = report.related[k].line
                            /\ report.block[l].text = report.related[k].text
                       /\ \A k, l \in DOMAIN report.block :
                            k < l => report.block[k].line <= report.block[l].line
    BY DEF BlockShowsRejection
  <2>1. report.related = Related(events) /\ report.block = Block(report.related, source_span)
    BY DEF SourceInv
  <2>2. PICK m \in Nat : /\ DOMAIN Related(events) = 1..m
                         /\ \A k \in 1..m : Related(events)[k].line \in Nat
    BY PlacesHaveLines, RelatedShows
  <2>3. /\ DOMAIN report.related = 1..m
        /\ \A k \in 1..m : report.related[k].line \in Nat
        /\ source_span.line \in Nat
    BY <2>1, <2>2, PlacesHaveLines
  <2>. DEFINE block == Block(report.related, source_span)
  <2>4. /\ Cardinality({k \in DOMAIN block : block[k].primary})
             = IF HasText(source_span) THEN 1 ELSE 0
        /\ \A k \in DOMAIN report.related : \E l \in DOMAIN block :
             block[l].line = report.related[k].line /\ block[l].text = report.related[k].text
        /\ \A k, l \in DOMAIN block : k < l => block[k].line <= block[l].line
    BY <2>3, BlockShows, Zenon
  <2>5. report.block = block
    BY <2>1
  <2>. HIDE DEF block
  <2>. QED
    BY <2>4, <2>5, Zenon DEF HasText
<1>. QED
  BY <1>1, SourceInvInit, SourceInvNext, PTL DEF Spec

=============================================================================
