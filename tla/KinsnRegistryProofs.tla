------------------------ MODULE KinsnRegistryProofs ------------------------
(***************************************************************************)
(* Theorems about KinsnRegistry for every set of targets, ids, offsets and *)
(* map counts.                                                             *)
(***************************************************************************)
EXTENDS KinsnRegistry, TLAPS

(* The two indices agree and have their types: together inductive.          *)
Inv == TypeOK /\ IndicesAgree

LEMMA InitInv == Init => Inv
<1>. SUFFICES ASSUME Init
              PROVE  Inv
  OBVIOUS
<1>1. /\ by_name \in [Targets -> Keys \cup {Unregistered}]
      /\ DOMAIN by_call = {}
  BY DEF Init
<1>2. target \in [Targets -> [object: BOOLEAN, call_offset: Int]]
  BY TargetsAssumption DEF Init
<1>3. Registered = {}
  BY DEF Init, Registered, Unregistered, Key
<1>4. map_count \in MapCounts \cup {NotShifted, Failed}
  BY DEF Init
<1>. QED
  BY <1>1, <1>2, <1>3, <1>4 DEF Inv, TypeOK, IndicesAgree

(* An unregistered target is told from a registered one by its BTF id.      *)
LEMMA RegisteredKeys ==
    /\ Unregistered \notin Keys
    /\ \A k \in Keys : k.btf_id # NoBtfId
    /\ Unregistered.btf_id = NoBtfId
BY TargetsAssumption DEF Unregistered, Key, Keys, NoBtfId

LEMMA SetKeepsInv ==
    ASSUME Inv, NEW n \in Targets, NEW btf_id \in BtfIds, NEW call_off \in CallOffs,
           set_kinsn_call_for_target_name(n, btf_id, call_off)
    PROVE  Inv'
<1>. DEFINE key == Key(btf_id, call_off)
<1>1. /\ key \in Keys
      /\ key \in DOMAIN by_call => by_call[key] = n
      /\ by_call' = [k \in (DOMAIN by_call \ {by_name[n]}) \cup {key} |->
                        IF k = key THEN n ELSE by_call[k]]
      /\ by_name' = [by_name EXCEPT ![n] = key]
      /\ UNCHANGED <<target, map_count>>
  BY DEF set_kinsn_call_for_target_name, Rebind, Key, Keys
<1>. HIDE DEF key
<1>2. TypeOK'
  BY <1>1 DEF Inv, TypeOK
<1>3. IndicesAgree'
  <2>1. ASSUME NEW m \in Registered'
        PROVE  by_name'[m] \in DOMAIN by_call' /\ by_call'[by_name'[m]] = m
    BY <1>1, RegisteredKeys DEF Inv, TypeOK, IndicesAgree, Registered
  <2>2. ASSUME NEW k \in DOMAIN by_call'
        PROVE  by_name'[by_call'[k]] = k
    BY <1>1 DEF Inv, TypeOK, IndicesAgree
  <2>. QED
    BY <2>1, <2>2 DEF IndicesAgree
<1>. QED
  BY <1>2, <1>3 DEF Inv

LEMMA ShiftKeepsInv ==
    ASSUME Inv, NEW maps \in MapCounts, shift_target_module_call_offsets(maps)
    PROVE  Inv'
<1>1. ASSUME NEW n \in Targets
      PROVE  Shifted(target[n].call_offset, maps) \in Int
  BY TargetsAssumption DEF Inv, TypeOK, Shifted, module_fd_array_base
<1>2. target' \in [Targets -> [object: BOOLEAN, call_offset: Int]]
  BY <1>1 DEF shift_target_module_call_offsets, Inv, TypeOK
<1>. QED
  BY <1>2 DEF shift_target_module_call_offsets, Inv, TypeOK, IndicesAgree, Registered

LEMMA NextKeepsInv == Inv /\ [Next]_vars => Inv'
<1>. SUFFICES ASSUME Inv, [Next]_vars
              PROVE  Inv'
  OBVIOUS
<1>1. CASE UNCHANGED vars
  BY <1>1 DEF vars, Inv, TypeOK, IndicesAgree, Registered
<1>. QED
  BY <1>1, SetKeepsInv, ShiftKeepsInv DEF Next

(* Types.                                                                   *)
THEOREM TypeCorrect == Spec => []TypeOK
<1>1. Inv => TypeOK
  BY DEF Inv
<1>. QED
  BY <1>1, InitInv, NextKeepsInv, PTL DEF Spec

(* Whatever registrations and shifts happen, by_name and by_call are        *)
(* inverse: what a pass emits for a target is read back as that target.     *)
THEOREM IndicesAlwaysAgree == Spec => []IndicesAgree
<1>1. Inv => IndicesAgree
  BY DEF Inv
<1>. QED
  BY <1>1, InitInv, NextKeepsInv, PTL DEF Spec

(* No registration takes a call away from another target.                   *)
THEOREM RegistrationUndisturbing == Spec => OthersUndisturbed
<1>. DEFINE A == \A k \in DOMAIN by_call :
                   \/ k \in DOMAIN by_call' /\ by_call'[k] = by_call[k]
                   \/ by_name'[by_call[k]] # by_name[by_call[k]]
<1>1. Inv /\ [Next]_vars => [A]_vars
  <2>. SUFFICES ASSUME Inv, Next, NEW k \in DOMAIN by_call
                PROVE  \/ k \in DOMAIN by_call' /\ by_call'[k] = by_call[k]
                       \/ by_name'[by_call[k]] # by_name[by_call[k]]
    OBVIOUS
  <2>1. CASE \E maps \in MapCounts : shift_target_module_call_offsets(maps)
    BY <2>1 DEF shift_target_module_call_offsets
  <2>2. ASSUME NEW n \in Targets, NEW btf_id \in BtfIds, NEW call_off \in CallOffs,
               set_kinsn_call_for_target_name(n, btf_id, call_off)
        PROVE  \/ k \in DOMAIN by_call' /\ by_call'[k] = by_call[k]
               \/ by_name'[by_call[k]] # by_name[by_call[k]]
    <3>. DEFINE key == Key(btf_id, call_off)
    <3>1. /\ key \in DOMAIN by_call => by_call[key] = n
          /\ by_call' = [c \in (DOMAIN by_call \ {by_name[n]}) \cup {key} |->
                            IF c = key THEN n ELSE by_call[c]]
          /\ by_name' = [by_name EXCEPT ![n] = key]
      BY <2>2 DEF set_kinsn_call_for_target_name, Rebind
    <3>. HIDE DEF key
    <3>2. CASE k = key
      BY <3>1, <3>2
    <3>3. CASE k # key /\ k # by_name[n]
      BY <3>1, <3>3
    <3>4. CASE k # key /\ k = by_name[n]
      BY <3>1, <3>4, RegisteredKeys DEF Inv, TypeOK, IndicesAgree, Registered
    <3>. QED
      BY <3>2, <3>3, <3>4
  <2>. QED
    BY <2>1, <2>2 DEF Next
<1>. QED
  BY <1>1, InitInv, NextKeepsInv, PTL DEF Spec, OthersUndisturbed

(* A target that is shifted lands behind the maps.                          *)
LEMMA ShiftedSlot ==
    ASSUME NEW maps \in Nat, NEW off \in Int, off > 0
    PROVE  /\ Shifted(off, maps) >= maps
           /\ Shifted(off, maps) <= I16Max => Shifted(off, maps) \in 1..I16Max
<1>1. I16Max \in Int
  BY DEF I16Max
<1>2. Shifted(off, maps) \in Int /\ Shifted(off, maps) >= maps /\ Shifted(off, maps) >= 1
  BY DEF Shifted, module_fd_array_base
<1>. QED
  BY <1>1, <1>2

LEMMA ShiftedAll ==
    ASSUME Inv, NEW maps \in MapCounts, shift_target_module_call_offsets(maps),
           map_count' \in MapCounts
    PROVE  /\ map_count' = maps
           /\ \A n \in Targets :
                /\ ShiftOk(n, maps)
                /\ target'[n].call_offset = Shifted(target[n].call_offset, maps)
<1>. DEFINE done == {n \in Targets : \A m \in Targets : m <= n => ShiftOk(m, maps)}
<1>1. /\ map_count' = IF done = Targets THEN maps ELSE Failed
      /\ target' = [n \in Targets |->
                       IF n \in done
                       THEN [target[n] EXCEPT !.call_offset = Shifted(@, maps)]
                       ELSE target[n]]
  BY DEF shift_target_module_call_offsets
<1>2. Failed \notin MapCounts
  BY TargetsAssumption DEF Failed
<1>3. done = Targets
  BY <1>1, <1>2
<1>4. \A n \in Targets : n <= n
  BY TargetsAssumption
<1>. QED
  BY <1>1, <1>3, <1>4 DEF Inv, TypeOK

(* After a successful shift every module offset is behind the maps and fits *)
(* in 16 bits.                                                              *)
THEOREM SlotsAlwaysBehindMaps == Spec => []ModuleSlotsBehindMaps
<1>1. Init => ModuleSlotsBehindMaps
  BY TargetsAssumption DEF Init, ModuleSlotsBehindMaps, NotShifted
<1>2. Inv /\ ModuleSlotsBehindMaps /\ [Next]_vars => ModuleSlotsBehindMaps'
  <2>. SUFFICES ASSUME Inv, ModuleSlotsBehindMaps, [Next]_vars
                PROVE  ModuleSlotsBehindMaps'
    OBVIOUS
  <2>1. CASE UNCHANGED <<target, map_count>>
    BY <2>1 DEF ModuleSlotsBehindMaps
  <2>2. ASSUME NEW maps \in MapCounts, shift_target_module_call_offsets(maps),
               map_count' \in MapCounts, NEW n \in Targets, target'[n].call_offset # 0
        PROVE  target'[n].call_offset >= map_count' /\ target'[n].call_offset \in 1..I16Max
    <3>. DEFINE off == target[n].call_offset
    <3>1. /\ map_count' = maps
          /\ ShiftOk(n, maps)
          /\ target'[n].call_offset = Shifted(off, maps)
      BY <2>2, ShiftedAll
    <3>2. off \in Int /\ maps \in Nat /\ off # 0
      BY <2>2, <3>1, TargetsAssumption DEF Inv, TypeOK, Shifted
    <3>3. off > 0 /\ Shifted(off, maps) <= I16Max
      BY <3>1, <3>2 DEF ShiftOk
    <3>. QED
      BY <3>1, <3>2, <3>3, ShiftedSlot
  <2>3. CASE \E maps \in MapCounts : shift_target_module_call_offsets(maps)
    BY <2>2, <2>3 DEF ModuleSlotsBehindMaps
  <2>. QED
    BY <2>1, <2>3 DEF Next, vars, set_kinsn_call_for_target_name
<1>. QED
  BY <1>1, <1>2, InitInv, NextKeepsInv, PTL DEF Spec

(* Shifting is injective on the offsets it accepts, and keeps 0 apart.      *)
LEMMA ShiftedApart ==
    ASSUME NEW maps \in Nat, NEW x \in Int, NEW y \in Int,
           x # 0 => x > 0, y # 0 => y > 0
    PROVE  /\ Shifted(x, maps) = 0 <=> x = 0
           /\ Shifted(x, maps) = Shifted(y, maps) => x = y
BY DEF Shifted, module_fd_array_base

(* A successful shift of target.json merges no two offsets, and a function  *)
(* of the kernel stays one.                                                 *)
THEOREM OffsetsStayApart == Spec => ShiftKeepsOffsetsApart
<1>. DEFINE A == map_count' \in MapCounts /\ map_count = NotShifted =>
                   \A n \in Targets :
                      /\ (target'[n].call_offset = 0) = (target[n].call_offset = 0)
                      /\ \A m \in Targets :
                            target'[n].call_offset = target'[m].call_offset
                              => target[n].call_offset = target[m].call_offset
<1>1. Inv /\ [Next]_vars => [A]_vars
  <2>. SUFFICES ASSUME Inv, Next, map_count' \in MapCounts, map_count = NotShifted,
                       NEW n \in Targets, NEW m \in Targets
                PROVE  /\ (target'[n].call_offset = 0) = (target[n].call_offset = 0)
                       /\ target'[n].call_offset = target'[m].call_offset
                            => target[n].call_offset = target[m].call_offset
    OBVIOUS
  <2>1. NotShifted \notin MapCounts
    BY TargetsAssumption DEF NotShifted
  <2>2. PICK maps \in MapCounts : shift_target_module_call_offsets(maps)
    BY <2>1 DEF Next, set_kinsn_call_for_target_name
  <2>. DEFINE x == target[n].call_offset
              y == target[m].call_offset
  <2>3. /\ ShiftOk(n, maps) /\ target'[n].call_offset = Shifted(x, maps)
        /\ ShiftOk(m, maps) /\ target'[m].call_offset = Shifted(y, maps)
    BY <2>2, ShiftedAll
  <2>4. x \in Int /\ y \in Int /\ maps \in Nat
    BY TargetsAssumption DEF Inv, TypeOK
  <2>5. (x # 0 => x > 0) /\ (y # 0 => y > 0)
    BY <2>3 DEF ShiftOk
  <2>. HIDE DEF x, y
  <2>6. /\ Shifted(x, maps) = 0 <=> x = 0
        /\ Shifted(x, maps) = Shifted(y, maps) => x = y
    BY <2>4, <2>5, ShiftedApart
  <2>. QED
    BY <2>3, <2>6 DEF x, y
<1>. QED
  BY <1>1, InitInv, NextKeepsInv, PTL DEF Spec, ShiftKeepsOffsetsApart

=============================================================================
