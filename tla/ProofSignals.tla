----------------------------- MODULE ProofSignals -----------------------------
(***************************************************************************)
(* The proof signals of the diagnostic CLI (crates/bpfix/src/diagnostic):  *)
(* explanations that are more precise than the class of the message.       *)
(*                                                                         *)
(* A predicate keeps what it asks of the message, the obligation, the      *)
(* register, the rejected instruction, the sources and the events.  What   *)
(* it goes on to ask of the verifier states and of the instruction text is *)
(* an input: Shown(c, signal).  c.insn is the kind of the rejected         *)
(* instruction ("none" when the log does not show it), c.target the kind   *)
(* of function the nearest call above the message calls, which is the      *)
(* rejected instruction itself if that is a call.                          *)
(***************************************************************************)
EXTENDS ProofEvents, Classifier

Shown(c, signal) == signal \in c.shown

SaysAny(c, phrases) == c.message \cap phrases # {}
SaysAll(c, phrases) == phrases \subseteq c.message
HasRegister(c) == c.register # NoRegister

\* terminal_or_nearest_call_instruction_site: the rejected instruction, which
\* then has to be a call, or else the nearest call.
CallSite(c, target) == c.insn \in {"call", "none"} /\ c.target = target

terminal_error_is_invalid_scalar_memory_access(c) ==
  SaysAny(c, {"invalid mem access 'scalar'", "invalid mem access 'inv'"})
terminal_error_mentions_packet_end(c) == SaysAny(c, {"pkt_end", "ptr_to_packet_end"})
terminal_error_is_context_access(c) ==
  SaysAny(c, {"invalid bpf_context access", "invalid ctx access",
              "invalid access to context"})

\* Of signals with conditions, in the order in which the code asks: the first
\* whose condition holds.
FirstHolding(entries) ==
  LET hits == {i \in DOMAIN entries : entries[i][2]}
  IN  IF hits = {} THEN NoSignal
      ELSE entries[CHOOSE i \in hits : \A j \in hits : i <= j][1]

\* An event with the role, the evidence and a source whose text has the property.
HasEvent(c, role, evidence, texts) ==
  \E i \in DOMAIN c.events :
     /\ c.events[i].role = role
     /\ c.events[i].evidence = evidence
     /\ c.events[i].source # NoSource
     /\ c.events[i].source.text \cap texts # {}

\* As above, whatever the source, and even without one.
HasAnyEvent(c, role, evidence) ==
  \E i \in DOMAIN c.events :
     c.events[i].role = role /\ c.events[i].evidence = evidence

-----------------------------------------------------------------------------
(* lowering_signal.rs                                                       *)

stack_alignment_lowering_signal(c) ==
  /\ c.obligation = "Alignment"
  /\ SaysAll(c, {"misaligned stack access"})
  /\ c.insn = "memory"
  /\ Shown(c, "WideStackAlignment")

atomic_memory_alignment_scalar_base(c) ==
  /\ c.obligation = "Alignment"
  /\ SaysAll(c, {"misaligned access"})
  /\ c.insn = "memory"
  /\ Shown(c, "AtomicMemoryAccessScalarBase")

loop_back_edge_state_repeats(c) ==
  c.obligation = "LoopBound" /\ Shown(c, "LoopBackEdgeStateRepeats")

pointer_shift_lowering_signal(c) ==
  /\ c.obligation = "PointerProvenance"
  /\ SaysAll(c, {"pointer arithmetic with <<="})
  /\ HasRegister(c)
  /\ c.insn = "alu"
  /\ Shown(c, "PointerShiftDropsProvenance")

modified_context_pointer_lowering_signal(c) ==
  /\ SaysAll(c, {"dereference of modified ctx ptr"})
  /\ HasRegister(c)
  /\ c.insn = "memory"
  /\ Shown(c, "ModifiedContextPointer")

shared_instruction_pointer_merge_signal(c) ==
  /\ SaysAll(c, {"same insn cannot be used with different pointers"})
  /\ c.insn = "memory"
  /\ Shown(c, "SharedInstructionPointerMerge")

subprogram_context_argument_dropped_signal(c) ==
  /\ SaysAll(c, {"expects pointer to ctx", "caller passes invalid args into func"})
  /\ c.insn = "call"
  /\ c.sources # << >>
  /\ Shown(c, "SubprogramContextArgumentDropped")

\* Only for logs without source comments: the first of the explanations that
\* applies.
bytecode_only_lowering_signal(c) ==
  LET Found(signal, obligation) ==
        /\ c.sources = << >> /\ HasRegister(c)
        /\ c.obligation = obligation
        /\ Shown(c, signal)
  IN  FirstHolding(
        << <<"Alu32PointerCopyDropsProvenance",
             Found("Alu32PointerCopyDropsProvenance", "PointerProvenance")>>,
           <<"SharedInstructionPathProofLoss",
             Found("SharedInstructionPathProofLoss", "PointerProvenance")>>,
           <<"ConstantScalarMemoryLoad",
             /\ Found("ConstantScalarMemoryLoad", "PointerProvenance")
             /\ SaysAll(c, {"invalid mem access 'scalar'"})>>,
           <<"SharedInstructionUninitializedRegister",
             /\ Found("SharedInstructionUninitializedRegister", "StackInitialized")
             /\ SaysAll(c, {"!read_ok"})>> >>)

-----------------------------------------------------------------------------
(* context_signal.rs.  A line "type PTR is not a struct" just above the     *)
(* message decides between the two context-access signals.                  *)

bpf_prog_context_argument_mismatch(c) ==
  /\ terminal_error_is_context_access(c)
  /\ c.ptr_is_not_a_struct
  /\ c.rejected # NoSource
  /\ Shown(c, "ContextAccessSourceArgumentMismatch")

context_field_unavailable(c) ==
  /\ terminal_error_is_context_access(c)
  /\ ~c.ptr_is_not_a_struct
  /\ c.insn = "memory"
  /\ Shown(c, "ContextFieldUnavailable")

\* The condition the pointer-provenance signals share: a memory access through
\* a register the verifier sees as a scalar.
ScalarAccess(c) ==
  /\ c.obligation = "PointerProvenance"
  /\ terminal_error_is_invalid_scalar_memory_access(c)
  /\ HasRegister(c)
  /\ c.insn = "memory"

trace_context_scalar_argument_dereference(c) ==
  /\ ScalarAccess(c)
  /\ c.sources # << >>
  /\ Shown(c, "TraceContextScalarArgumentMismatch")

packet_context_field_access_in_unsupported_program(c) ==
  ScalarAccess(c) /\ Shown(c, "PacketContextFieldAccessInUnsupportedProgram")

kernel_object_field_access_mismatch(c) ==
  /\ SaysAll(c, {"access beyond struct"})
  /\ c.insn = "memory"
  /\ Shown(c, "KernelObjectFieldAccessMismatch")

-----------------------------------------------------------------------------
(* protocol_signal.rs, helper_contract_signal.rs                            *)

exception_throw_with_live_reference(c) ==
  /\ c.insn = "call"
  /\ c.target = "throw"
  /\ Shown(c, "ExceptionThrowWithLiveReference")

reference_live_at_exit(c) ==
  /\ c.obligation \in {"ReferenceLifecycle", "Unknown"}
  /\ SaysAll(c, {"unreleased reference id="})
  /\ c.insn = "exit"
  /\ Shown(c, "ReferenceLiveAtExit")

exception_callback_protocol_violation(c) ==
  /\ \/ SaysAll(c, {"cannot call exception cb directly"})
     \/ SaysAll(c, {"at program exit", "register r0", "should have been in"})
  /\ Shown(c, "ExceptionCallbackProtocolViolation")

sleepable_call_in_non_sleepable_context(c) ==
  /\ SaysAny(c, {"may sleep", "sleepable helper", "non-sleepable"})
  /\ SaysAny(c, {"non-sleepable", "preempt-disabled"})
  /\ c.insn = "call"
  /\ Shown(c, "SleepableCallInNonSleepableContext")

modern_bpf_object_protocol_violation(c) ==
  /\ c.insn = "call"
  /\ HasRegister(c) \/ SaysAny(c, {"arg#", "args#", "has no valid kptr"})
  /\ \/ SaysAny(c, {"has no valid kptr", "must be a rcu pointer",
                    "must be referenced or trusted", "expected pointer to struct",
                    "type=scalar expected=fp",
                    "memory, len pair leads to invalid memory access"})
     \/ SaysAll(c, {"pointer type struct", "must point to scalar"})
  /\ Shown(c, "ModernBpfObjectProtocolViolation")

map_pointer_argument_scalar_zero(c) ==
  /\ SaysAll(c, {"expected=map_ptr"})
  /\ c.register = 1
  /\ c.insn = "call"
  /\ c.rejected # NoSource
  /\ Shown(c, "MapPointerArgumentScalarZero")

btf_func_info_missing(c) ==
  SaysAll(c, {"missing btf func_info"}) /\ Shown(c, "BtfFuncInfoMissing")

subprogram_reference_metadata_missing(c) ==
  /\ SaysAll(c, {"caller passes invalid args into func", "arg#"})
  /\ c.insn = "call"
  /\ c.sources # << >>
  /\ Shown(c, "SubprogramReferenceMetadataMissing")

map_pointer_raw_access_contract(c) ==
  /\ c.obligation = "HelperArgument"
  /\ SaysAll(c, {"only read from bpf_array is supported"})
  /\ c.insn = "memory"
  /\ Shown(c, "MapPointerRawAccessContract")

perf_event_output_packet_access(c) ==
  /\ c.obligation = "HelperArgument"
  /\ SaysAll(c, {"helper access to the packet is not allowed"})
  /\ c.insn = "call"
  /\ Shown(c, "PerfEventOutputPacketAccess")

-----------------------------------------------------------------------------
(* stack_signal.rs                                                          *)

map_lookup_key_argument_unreadable(c) ==
  /\ SaysAll(c, {"!read_ok"})
  /\ c.register = 2
  /\ c.insn = "call"
  /\ c.rejected # NoSource
  /\ Shown(c, "MapLookupKeyArgumentUnreadable")

Unreadable(c) == c.obligation = "StackInitialized" /\ SaysAll(c, {"!read_ok"})

unreadable_program_entry_argument(c) ==
  /\ Unreadable(c)
  /\ HasRegister(c) /\ c.register >= 2
  /\ c.insn # "none"
  /\ c.sources # << >>
  /\ Shown(c, "UnreadableProgramEntryArgument")

unreadable_helper_argument(c) ==
  /\ Unreadable(c)
  /\ c.register = 5
  /\ c.insn = "call"
  /\ Shown(c, "UnreadableHelperArgument")

unreadable_return_register(c) ==
  Unreadable(c) /\ c.register = 0 /\ c.insn = "exit"

legacy_skb_load_unreadable_register(c) ==
  /\ Unreadable(c)
  /\ c.register = 6
  /\ c.insn = "memory"
  /\ Shown(c, "LegacySkbLoadUnreadableRegister")

helper_stack_read_exceeds_initialized_range(c) ==
  /\ c.obligation = "StackInitialized"
  /\ SaysAll(c, {"read from stack", "memory, len pair"})
  /\ c.insn = "call"
  /\ Shown(c, "HelperStackReadExceedsInitializedRange")

\* The same issue, with some of the bytes initialized.
helper_stack_read_length_exceeds_initialized_range(c) ==
  /\ helper_stack_read_exceeds_initialized_range(c)
  /\ Shown(c, "HelperStackReadLengthExceedsInitializedRange")

helper_stack_write_beyond_frame(c) ==
  /\ c.obligation = "StackInitialized"
  /\ SaysAll(c, {"invalid write to stack"})
  /\ HasRegister(c)
  /\ c.insn = "call"
  /\ Shown(c, "HelperStackWriteBeyondFrame")

-----------------------------------------------------------------------------
(* dynptr_signal.rs, iterator_signal.rs                                     *)

dynptr_protocol_signal_obligation(obligation) ==
  obligation \in {"DynptrSafety", "HelperArgument", "ReferenceLifecycle",
                  "StackInitialized", "TypeContract", "Unknown"}

dynptr_uninitialized_argument(c) ==
  /\ dynptr_protocol_signal_obligation(c.obligation)
  /\ SaysAll(c, {"expected an initialized dynptr"})
  /\ CallSite(c, "dynptr")
  /\ Shown(c, "DynptrUninitializedArgument")

dynptr_referenced_slot_overwrite(c) ==
  /\ dynptr_protocol_signal_obligation(c.obligation)
  /\ SaysAll(c, {"cannot overwrite referenced dynptr"})
  /\ CallSite(c, "dynptr") \/ c.insn = "memory"
  /\ Shown(c, "DynptrReferencedSlotOverwrite")

dynptr_readonly_packet_write(c) ==
  /\ dynptr_protocol_signal_obligation(c.obligation)
  /\ SaysAll(c, {"does not allow writes to packet data"})
  /\ CallSite(c, "dynptr")
  /\ Shown(c, "DynptrReadonlyPacketWrite")

dynptr_stack_slot_write_overlap(c) ==
  /\ c.obligation \in {"DynptrSafety", "HelperArgument", "StackInitialized", "Unknown"}
  /\ SaysAll(c, {"potential write to dynptr"})
  /\ c.insn # "none"
  /\ Shown(c, "DynptrStackSlotWriteOverlap")

\* stack_access_site_from_context: the range the message names, or the one a
\* rejected load reads.
StackAccessSite(c) ==
  c.insn = "memory" \/ (c.insn # "none" /\ SaysAll(c, {"invalid read from stack"}))

dynptr_stack_storage_access(c) ==
  /\ c.obligation \in {"StackInitialized", "Unknown"}
  /\ StackAccessSite(c)
  /\ Shown(c, "DynptrStackStorageAccess")

dynptr_helper_argument_state_mismatch(c) ==
  /\ c.obligation \in {"DynptrSafety", "HelperArgument", "TypeContract",
                       "ReferenceLifecycle", "Unknown"}
  /\ CallSite(c, "dynptr")
  /\ Shown(c, "DynptrHelperArgumentStateMismatch")

dynptr_release_unacquired_reference(c) ==
  /\ c.obligation \in {"DynptrSafety", "ReferenceLifecycle", "HelperArgument", "Unknown"}
  /\ SaysAll(c, {"unacquired reference"})
  /\ CallSite(c, "dynptr")
  /\ Shown(c, "DynptrReleaseUnacquiredReference")

dynptr_slice_variable_length(c) ==
  CallSite(c, "dynptr") /\ Shown(c, "DynptrSliceVariableLength")

iterator_helper_argument_state_mismatch(c) ==
  /\ c.obligation \in {"IteratorLifecycle", "HelperArgument", "StackInitialized", "Unknown"}
  /\ c.insn = "call"
  /\ c.target = "iterator"
  /\ Shown(c, "IteratorHelperArgumentStateMismatch")

iterator_stack_storage_access(c) ==
  /\ c.obligation \in {"StackInitialized", "Unknown"}
  /\ StackAccessSite(c)
  /\ Shown(c, "IteratorStackStorageAccess")

-----------------------------------------------------------------------------
(* irq_signal.rs, callback_signal.rs                                        *)

irq_flag_state_mismatch(c) ==
  /\ c.obligation \in {"LockState", "HelperArgument", "StackInitialized", "Unknown"}
  /\ c.insn = "call"
  /\ c.target = "irq"
  /\ Shown(c, "IrqFlagStateMismatch")

irq_restore_order_mismatch(c) ==
  /\ c.obligation \in {"LockState", "KfuncReference", "ReferenceLifecycle",
                       "HelperArgument", "Unknown"}
  /\ SaysAll(c, {"cannot restore irq state out of order"})
  /\ CallSite(c, "irq")
  /\ Shown(c, "IrqRestoreOrderMismatch")

irq_restore_helper_class_mismatch(c) ==
  /\ c.obligation \in {"LockState", "KfuncReference", "ReferenceLifecycle",
                       "HelperArgument", "Unknown"}
  /\ SaysAll(c, {"function calls are not allowed", "holding a lock"})
  /\ CallSite(c, "irq")
  /\ Shown(c, "IrqRestoreHelperClassMismatch")

irq_state_live_at_exit(c) ==
  /\ c.obligation \in {"LockState", "KfuncReference", "ReferenceLifecycle", "Unknown"}
  /\ SaysAll(c, {"bpf_exit instruction", "bpf_local_irq_save-ed"})
  /\ c.insn = "exit"
  /\ Shown(c, "IrqStateLiveAtExit")

callback_call_while_locked(c) ==
  /\ SaysAll(c, {"function calls are not allowed", "holding a lock"})
  /\ c.insn = "call"
  /\ Shown(c, "CallbackCallWhileLocked")

-----------------------------------------------------------------------------
(* nullable_signal.rs, type_contract_signal.rs                              *)

nullable_pointer_use_without_proof(c) ==
  /\ c.obligation = "NullablePointer"
  /\ SaysAny(c, {"_or_null", "possibly null pointer"})
  /\ ~SaysAll(c, {"trusted arg"})
  /\ IF SaysAll(c, {"helper arg"}) THEN c.insn = "call" ELSE HasRegister(c)
  /\ Shown(c, "NullablePointerUseWithoutProof")

trusted_nullable_argument(c) ==
  /\ c.insn = "call"
  /\ SaysAny(c, {"trusted arg", "helper arg"}) \/ c.obligation = "Unknown"
  /\ Shown(c, "TrustedNullableArgument")

kfunc_argument_type_mismatch(c) ==
  /\ \/ SaysAll(c, {"must be a rcu pointer"})
     \/ SaysAll(c, {"pointer type struct", "must point to scalar"})
     \/ SaysAll(c, {"kernel function", "expected pointer to struct", " but r"})
  /\ c.insn = "call"
  /\ HasRegister(c) \/ SaysAll(c, {"arg#"})
  /\ Shown(c, "KfuncArgumentTypeMismatch")

verifier_type_contract_mismatch(c) ==
  /\ c.obligation = "TypeContract"
  /\ SaysAll(c, {"type=", "expected="})
  /\ ~SaysAny(c, {"trusted arg", "_or_null"})
  /\ ~SaysAll(c, {"type=scalar", "expected=map_ptr"})
  /\ c.register \in 1..5
  /\ c.insn = "call"
  /\ Shown(c, "VerifierTypeContractMismatch")

-----------------------------------------------------------------------------
(* scalar_range_signal.rs                                                   *)

memory_object_access_out_of_bounds(c) ==
  /\ c.obligation = "ScalarRange"
  /\ SaysAll(c, {"invalid access to memory", "mem_size="})
  /\ c.insn = "memory"
  /\ Shown(c, "MemoryObjectAccessOutOfBounds")

return_range_out_of_bounds(c) ==
  /\ c.obligation = "ScalarRange"
  /\ SaysAll(c, {"at program exit", "register r", "should have been in"})
  /\ c.insn = "exit"
  /\ Shown(c, "ReturnRangeOutOfBounds")

stack_variable_offset_out_of_bounds(c) ==
  /\ c.obligation = "ScalarRange"
  /\ SaysAll(c, {"unbounded variable-offset", "stack"})
  /\ c.insn = "memory"
  /\ Shown(c, "StackVariableOffsetOutOfBounds")

scalar_range_unsafe_at_use(c) ==
  /\ c.obligation = "ScalarRange"
  /\ ~SaysAll(c, {"program exit"})
  /\ SaysAny(c, {"min value is negative", "zero-sized", "unbounded variable-offset",
                 "unbounded memory access", "math between",
                 "invalid access to map value", "invalid access to memory",
                 "pointer be out of bounds", "outside of the allowed memory range"})
  /\ HasRegister(c)
  /\ c.insn # "none"
  /\ Shown(c, "ScalarRangeUnsafeAtUse")

-----------------------------------------------------------------------------
(* packet_signal.rs: two of the signals follow from the events alone.       *)

packet_pointer_proof_lost_after_bounds_check(c) ==
  /\ c.obligation = "PointerProvenance"
  /\ HasEvent(c, "ProofLost", "VerifierState", {"packet_bounds_check"})

packet_range_proof_lost_before_access(c) ==
  /\ c.obligation = "PacketBounds"
  /\ HasEvent(c, "ProofEstablished", "VerifierState",
              {"packet_bounds_check", "packet_pointer_derivation"})
  /\ HasAnyEvent(c, "ProofLost", "VerifierState")

packet_guard_undercovers_access(c) ==
  /\ c.obligation = "PacketBounds"
  /\ HasRegister(c)
  /\ ~HasAnyEvent(c, "ProofEstablished", "VerifierState")
  /\ HasEvent(c, "ProofLost", "VerifierState", {"packet_bounds_check"})
  /\ Shown(c, "PacketGuardUndercoversAccess")

packet_access_without_bounds_proof(c) ==
  /\ c.obligation = "PacketBounds"
  /\ HasRegister(c)
  /\ c.insn \in {"memory", "call"}
  /\ Shown(c, "PacketAccessWithoutBoundsProof")

packet_max_offset_precision_boundary(c) ==
  /\ c.obligation = "PacketBounds"
  /\ HasRegister(c)
  /\ HasEvent(c, "ProofEstablished", "SourceComment", {"packet_bounds_check"})
  /\ Shown(c, "PacketMaxOffsetPrecisionBoundary")

-----------------------------------------------------------------------------
(* map_value_signal.rs.  "size > value_size" is not a phrase: it stands for *)
(* what the two numbers of the message say.                                 *)

map_value_wide_access(c) ==
  /\ SaysAll(c, {"invalid access to map value", "size > value_size"})
  /\ HasRegister(c)
  /\ c.insn = "memory"
  /\ Shown(c, "MapValueWideAccess")

map_value_checked_offset_relation_lost(c) ==
  /\ SaysAll(c, {"invalid access to map value"})
  /\ ~SaysAll(c, {"size > value_size"})
  /\ HasRegister(c)
  /\ c.rejected # NoSource
  /\ c.obligation = "ScalarRange"
  /\ HasEvent(c, "ProofEstablished", "SourceComment", {"scalar_guard"})
  /\ Shown(c, "MapValueCheckedOffsetRelationLost")

\* The guard has to lie before the rejected instruction, by pc as well.
map_value_guard_exceeds_value_size(c) ==
  /\ SaysAll(c, {"invalid access to map value"})
  /\ ~SaysAll(c, {"size > value_size"})
  /\ HasRegister(c)
  /\ c.insn = "memory"
  /\ c.rejected # NoSource
  /\ c.obligation = "ScalarRange"
  /\ \E i \in DOMAIN c.events :
        /\ c.events[i].role = "ProofEstablished"
        /\ "scalar_guard" \in c.events[i].source.text
        /\ c.events[i].pc # None /\ c.events[i].pc < c.pc
  /\ Shown(c, "MapValueGuardExceedsValueSize")

map_value_access_out_of_bounds(c) ==
  /\ SaysAll(c, {"invalid access to map value"})
  /\ \/ c.insn = "call"
     \/ c.insn = "memory" /\ ~SaysAll(c, {"size > value_size"})
  /\ Shown(c, "MapValueAccessOutOfBounds")

map_value_relation_precision_boundary(c) ==
  /\ c.obligation = "ScalarRange"
  /\ SaysAll(c, {"invalid access to map value"})
  /\ c.insn = "call"
  /\ c.sources # << >>
  /\ Shown(c, "MapValueRelationPrecisionBoundary")

-----------------------------------------------------------------------------
(* The fallbacks, all about pointers the verifier lost track of.            *)

\* A packet pointer is looked for first, then a dynptr data pointer.
stale_pointer_after_invalidating_helper(c) ==
  FirstHolding(
    << <<"StalePointerAfterInvalidatingHelper",
         ScalarAccess(c) /\ Shown(c, "StalePointerAfterInvalidatingHelper")>>,
       <<"DynptrDataPointerInvalidatedBeforeUse",
         ScalarAccess(c) /\ Shown(c, "DynptrDataPointerInvalidatedBeforeUse")>> >>)

opaque_scalar_pointer_dereference(c) ==
  ScalarAccess(c) /\ Shown(c, "OpaqueScalarPointerDereference")

null_scalar_dereference_after_pointer_proof(c) ==
  ScalarAccess(c) /\ Shown(c, "NullScalarDereferenceAfterPointerProof")

scalar_value_used_as_pointer(c) ==
  /\ \/ ScalarAccess(c)
     \/ /\ c.obligation = "PointerProvenance"
        /\ SaysAll(c, {"pointer arithmetic"})
        /\ terminal_error_mentions_packet_end(c)
        /\ HasRegister(c)
        /\ c.insn = "alu"
  /\ Shown(c, "ScalarValueUsedAsPointer")

prohibited_pointer_arithmetic(c) ==
  /\ c.obligation = "PointerProvenance"
  /\ SaysAny(c, {"pointer arithmetic", "bitwise operator"})
  /\ ~terminal_error_mentions_packet_end(c)
  /\ HasRegister(c)
  /\ c.insn = "alu"
  /\ Shown(c, "ProhibitedPointerArithmetic")

=============================================================================
