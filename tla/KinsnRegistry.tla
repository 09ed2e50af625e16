--------------------------- MODULE KinsnRegistry ---------------------------
(***************************************************************************)
(* The registry of kinsn targets (native instructions called like kernel   *)
(* functions): by_name says which call encodes a target when a pass emits  *)
(* it, by_call says which target a call in the bytecode stands for.  The   *)
(* two indices are updated by hand and must stay inverse to each other.    *)
(* The targets come from a target.json whose offsets into the fd_array are *)
(* first shifted behind the program's maps.                                *)
(*                                                                         *)
(* A call that returns an error changes nothing in the registry, so it is  *)
(* a stuttering step.  A shift that fails has changed the targets before   *)
(* the offending one.                                                      *)
(***************************************************************************)
EXTENDS Integers

CONSTANTS
    Targets,    \* names of the built-in descriptors, as numbers in name order
    BtfIds,     \* BTF function ids a caller may register, negative ones too
    CallOffs,   \* fd_array offsets a caller may register
    JsonOffs,   \* fd_array offsets target.json may hold
    MapCounts   \* numbers of maps a program may have

ASSUME TargetsAssumption ==
    /\ Targets \subseteq Nat /\ MapCounts \subseteq Nat
    /\ BtfIds \subseteq Int /\ CallOffs \subseteq Int /\ JsonOffs \subseteq Int

VARIABLES
    by_name,    \* target -> call it was registered with, or Unregistered
    by_call,    \* call -> target, a function on the registered calls
    target,     \* target -> its entry in target.json
    map_count   \* maps in front of the module slots once shifted, NotShifted or Failed

vars == <<by_name, by_call, target, map_count>>

I16Max == 32767

(* KinsnCallKey, and the entry insert_builtin_descriptor makes.             *)
Key(btf_id, call_off) == [btf_id |-> btf_id, call_off |-> call_off]

Keys == [btf_id: {i \in BtfIds : i >= 0}, call_off: CallOffs]

NoBtfId == -1

Unregistered == Key(NoBtfId, 0)

Registered == {n \in Targets : by_name[n].btf_id # NoBtfId}

NotShifted == -1

Failed == -2

-----------------------------------------------------------------------------
(* KinsnRegistry::new: every descriptor, no call yet.  `object`: the target *)
(* names the BTF object of a module.                                        *)
Init ==
    /\ by_name = [n \in Targets |-> Unregistered]
    /\ by_call = [k \in {} |-> 0]
    /\ target \in [Targets -> [object: BOOLEAN, call_offset: JsonOffs]]
    /\ map_count = NotShifted

(* Definitions with a capitalised suffix (Rebind_InsertsFirst) are wrong    *)
(* variants of the one that follows; no specification uses them and each    *)
(* must break a property.                                                   *)

(* The indices after the call `key` has been given to target n: the call n  *)
(* had before is dropped first, then the new one is put in.                 *)
Rebind_InsertsFirst(n, key) ==
    /\ by_call' = [k \in (DOMAIN by_call \cup {key}) \ {by_name[n]} |->
                      IF k = key THEN n ELSE by_call[k]]
    /\ by_name' = [by_name EXCEPT ![n] = key]

Rebind(n, key) ==
    /\ by_call' = [k \in (DOMAIN by_call \ {by_name[n]}) \cup {key} |->
                      IF k = key THEN n ELSE by_call[k]]
    /\ by_name' = [by_name EXCEPT ![n] = key]

set_kinsn_call_for_target_name_Steals(n, btf_id, call_off) ==
    /\ btf_id >= 0
    /\ Rebind(n, Key(btf_id, call_off))
    /\ UNCHANGED <<target, map_count>>

set_kinsn_call_for_target_name(n, btf_id, call_off) ==
    LET key == Key(btf_id, call_off) IN
    /\ btf_id >= 0
    /\ key \in DOMAIN by_call => by_call[key] = n
    /\ Rebind(n, key)
    /\ UNCHANGED <<target, map_count>>

-----------------------------------------------------------------------------
(* Shifting target.json.  Offset 0 means a function of the kernel itself.   *)

module_fd_array_base_Zero(maps) == maps

module_fd_array_base(maps) == IF maps > 1 THEN maps ELSE 1

Shifted(off, maps) == IF off = 0 THEN 0 ELSE module_fd_array_base(maps) + off - 1

ShiftOk_NoLimit(n, maps) ==
    LET t == target[n] IN t.call_offset # 0 => t.call_offset > 0 /\ t.object

ShiftOk(n, maps) ==
    LET t == target[n] IN
    t.call_offset # 0 =>
        /\ t.call_offset > 0
        /\ t.object
        /\ Shifted(t.call_offset, maps) <= I16Max

(* Targets are taken in name order up to the first that cannot be shifted.  *)
shift_target_module_call_offsets(maps) ==
    LET done == {n \in Targets : \A m \in Targets : m <= n => ShiftOk(m, maps)} IN
    /\ map_count = NotShifted
    /\ target' = [n \in Targets |->
                    IF n \in done
                    THEN [target[n] EXCEPT !.call_offset = Shifted(@, maps)]
                    ELSE target[n]]
    /\ map_count' = IF done = Targets THEN maps ELSE Failed
    /\ UNCHANGED <<by_name, by_call>>

Next ==
    \/ \E n \in Targets, btf_id \in BtfIds, call_off \in CallOffs :
          set_kinsn_call_for_target_name(n, btf_id, call_off)
    \/ \E maps \in MapCounts : shift_target_module_call_offsets(maps)

Spec == Init /\ [][Next]_vars

-----------------------------------------------------------------------------
(* Properties.                                                              *)

(* Types; a registered BTF id is never negative.                            *)
TypeOK ==
    /\ by_name \in [Targets -> Keys \cup {Unregistered}]
    /\ DOMAIN by_call \subseteq Keys
    /\ \A k \in DOMAIN by_call : by_call[k] \in Targets
    /\ target \in [Targets -> [object: BOOLEAN, call_offset: Int]]
    /\ map_count \in MapCounts \cup {NotShifted, Failed}

(* The indices are inverse to each other: the call a pass emits for a       *)
(* target is read back as that target, and a call that a target was moved   *)
(* away from stands for nothing.                                            *)
IndicesAgree ==
    /\ \A n \in Registered : by_name[n] \in DOMAIN by_call /\ by_call[by_name[n]] = n
    /\ \A k \in DOMAIN by_call : by_name[by_call[k]] = k

(* Registering a target never changes what a call of another target stands  *)
(* for, nor takes that call away.                                           *)
OthersUndisturbed ==
    [][ \A k \in DOMAIN by_call :
          \/ k \in DOMAIN by_call' /\ by_call'[k] = by_call[k]
          \/ by_name'[by_call[k]] # by_name[by_call[k]] ]_vars

(* After a successful shift every module slot lies behind the program's     *)
(* maps and fits the 16-bit offset field of a call.                         *)
ModuleSlotsBehindMaps ==
    map_count \in MapCounts => \A n \in Targets :
        LET off == target[n].call_offset IN
        off # 0 => off >= map_count /\ off \in 1..I16Max

(* A successful shift merges no two offsets and neither makes nor unmakes   *)
(* the offset 0 of the kernel's own functions.                              *)
ShiftKeepsOffsetsApart ==
    [][ map_count' \in MapCounts /\ map_count = NotShifted =>
          LET before(n) == target[n].call_offset
              after(n)  == target'[n].call_offset
          IN  \A n \in Targets :
                 /\ (after(n) = 0) = (before(n) = 0)
                 /\ \A m \in Targets : after(n) = after(m) => before(n) = before(m) ]_vars

=============================================================================
