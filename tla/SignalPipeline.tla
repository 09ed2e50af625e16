---------------------------- MODULE SignalPipeline ----------------------------
(***************************************************************************)
(* The order in which the diagnostic CLI looks for proof signals           *)
(* (diagnostic/signal_pipeline.rs) and what each signal says               *)
(* (SIGNAL_INFOS of diagnostic/signal.rs).                                 *)
(***************************************************************************)
EXTENDS ProofSignals, FiniteSets, Integers

\* A stable sort of the elements of s by their ranks.  The elements of a filtered
\* list keep the positions they had before.
stable_sort(s, rank) ==
  LET Before(i, j) == \/ rank[i] < rank[j]
                      \/ rank[i] = rank[j] /\ i < j
      Place(i) == Cardinality({j \in DOMAIN s : Before(j, i)}) + 1
  IN  [k \in 1..Cardinality(DOMAIN s) |-> s[CHOOSE i \in DOMAIN s : Place(i) = k]]

\* slice::sort_by_key.
sort_by_key(s, key(_)) == stable_sort(s, [i \in DOMAIN s |-> key(s[i])])

\* The elements of s that are left when one that same pairs with the last
\* element kept before it is dropped; kept[k] is the place of the last one kept
\* among the first k.
deduped(s, same) ==
  LET kept[k \in 0..Len(s)] ==
        IF k = 0 THEN 0
        ELSE LET last == kept[k - 1] IN IF <<k, last>> \in same THEN last ELSE k
      heads == {k \in DOMAIN s : kept[k] = k}
  IN  stable_sort([k \in heads |-> s[k]], [k \in heads |-> k])

\* Vec::dedup_by.
dedup_by(s, same(_, _)) ==
  deduped(s, {q \in (DOMAIN s) \X (DOMAIN s) : same(s[q[1]], s[q[2]])})

\* A signal and whether its predicate holds, in the order of the pushes.
Registry(c) ==
  << <<"WideStackAlignment", stack_alignment_lowering_signal(c)>>,
     <<"AtomicMemoryAccessScalarBase",
       atomic_memory_alignment_scalar_base(c)>>,
     <<"LoopBackEdgeStateRepeats", loop_back_edge_state_repeats(c)>>,
     <<"PointerShiftDropsProvenance", pointer_shift_lowering_signal(c)>>,
     <<"ModifiedContextPointer", modified_context_pointer_lowering_signal(c)>>,
     <<"SharedInstructionPointerMerge",
       shared_instruction_pointer_merge_signal(c)>>,
     <<"SubprogramContextArgumentDropped",
       subprogram_context_argument_dropped_signal(c)>>,
     <<bytecode_only_lowering_signal(c),
       bytecode_only_lowering_signal(c) # NoSignal>>,
     <<"MapValueRelationPrecisionBoundary",
       map_value_relation_precision_boundary(c)>>,
     <<"PacketMaxOffsetPrecisionBoundary",
       packet_max_offset_precision_boundary(c)>>,
     <<"ContextAccessSourceArgumentMismatch",
       bpf_prog_context_argument_mismatch(c)>>,
     <<"TraceContextScalarArgumentMismatch",
       trace_context_scalar_argument_dereference(c)>>,
     <<"ContextFieldUnavailable", context_field_unavailable(c)>>,
     <<"PacketContextFieldAccessInUnsupportedProgram",
       packet_context_field_access_in_unsupported_program(c)>>,
     <<"KernelObjectFieldAccessMismatch",
       kernel_object_field_access_mismatch(c)>>,
     <<"ExceptionThrowWithLiveReference",
       exception_throw_with_live_reference(c)>>,
     <<"ReferenceLiveAtExit", reference_live_at_exit(c)>>,
     <<"ExceptionCallbackProtocolViolation",
       exception_callback_protocol_violation(c)>>,
     <<"MapPointerArgumentScalarZero", map_pointer_argument_scalar_zero(c)>>,
     <<"BtfFuncInfoMissing", btf_func_info_missing(c)>>,
     <<"SubprogramReferenceMetadataMissing",
       subprogram_reference_metadata_missing(c)>>,
     <<"MapLookupKeyArgumentUnreadable",
       map_lookup_key_argument_unreadable(c)>>,
     <<"UnreadableProgramEntryArgument",
       unreadable_program_entry_argument(c)>>,
     <<"UnreadableHelperArgument", unreadable_helper_argument(c)>>,
     <<"MapPointerRawAccessContract", map_pointer_raw_access_contract(c)>>,
     <<"PerfEventOutputPacketAccess", perf_event_output_packet_access(c)>>,
     <<"UnreadableReturnRegister", unreadable_return_register(c)>>,
     <<"LegacySkbLoadUnreadableRegister",
       legacy_skb_load_unreadable_register(c)>>,
     <<"HelperStackReadLengthExceedsInitializedRange",
       helper_stack_read_length_exceeds_initialized_range(c)>>,
     <<"HelperStackReadExceedsInitializedRange",
       helper_stack_read_exceeds_initialized_range(c)>>,
     <<"HelperStackWriteBeyondFrame", helper_stack_write_beyond_frame(c)>>,
     <<"DynptrUninitializedArgument", dynptr_uninitialized_argument(c)>>,
     <<"DynptrReferencedSlotOverwrite", dynptr_referenced_slot_overwrite(c)>>,
     <<"DynptrReadonlyPacketWrite", dynptr_readonly_packet_write(c)>>,
     <<"DynptrStackSlotWriteOverlap", dynptr_stack_slot_write_overlap(c)>>,
     <<"DynptrStackStorageAccess", dynptr_stack_storage_access(c)>>,
     <<"DynptrHelperArgumentStateMismatch",
       dynptr_helper_argument_state_mismatch(c)>>,
     <<"DynptrReleaseUnacquiredReference",
       dynptr_release_unacquired_reference(c)>>,
     <<"DynptrSliceVariableLength", dynptr_slice_variable_length(c)>>,
     <<"IteratorHelperArgumentStateMismatch",
       iterator_helper_argument_state_mismatch(c)>>,
     <<"IteratorStackStorageAccess", iterator_stack_storage_access(c)>>,
     <<"IrqFlagStateMismatch", irq_flag_state_mismatch(c)>>,
     <<"IrqRestoreOrderMismatch", irq_restore_order_mismatch(c)>>,
     <<"IrqRestoreHelperClassMismatch", irq_restore_helper_class_mismatch(c)>>,
     <<"IrqStateLiveAtExit", irq_state_live_at_exit(c)>>,
     <<"SleepableCallInNonSleepableContext",
       sleepable_call_in_non_sleepable_context(c)>>,
     <<"CallbackCallWhileLocked", callback_call_while_locked(c)>>,
     <<"NullablePointerUseWithoutProof",
       nullable_pointer_use_without_proof(c)>>,
     <<"ModernBpfObjectProtocolViolation",
       modern_bpf_object_protocol_violation(c)>>,
     <<"KfuncArgumentTypeMismatch", kfunc_argument_type_mismatch(c)>>,
     <<"TrustedNullableArgument", trusted_nullable_argument(c)>>,
     <<"VerifierTypeContractMismatch", verifier_type_contract_mismatch(c)>>,
     <<"MemoryObjectAccessOutOfBounds",
       memory_object_access_out_of_bounds(c)>>,
     <<"ReturnRangeOutOfBounds", return_range_out_of_bounds(c)>>,
     <<"StackVariableOffsetOutOfBounds",
       stack_variable_offset_out_of_bounds(c)>>,
     <<"ScalarRangeUnsafeAtUse", scalar_range_unsafe_at_use(c)>>,
     <<"PacketPointerProofLostAfterBoundsCheck",
       packet_pointer_proof_lost_after_bounds_check(c)>>,
     <<"PacketRangeProofLostBeforeAccess",
       packet_range_proof_lost_before_access(c)>>,
     <<"PacketGuardUndercoversAccess", packet_guard_undercovers_access(c)>>,
     <<"PacketAccessWithoutBoundsProof",
       packet_access_without_bounds_proof(c)>>,
     <<"MapValueWideAccess", map_value_wide_access(c)>>,
     <<"MapValueCheckedOffsetRelationLost",
       map_value_checked_offset_relation_lost(c)>>,
     <<"MapValueGuardExceedsValueSize",
       map_value_guard_exceeds_value_size(c)>>,
     <<"MapValueAccessOutOfBounds", map_value_access_out_of_bounds(c)>> >>

\* The signals pushed, in order: each at the place of its predicate.
proof_signals(c) ==
  LET entries == Registry(c)
  IN  [i \in {j \in DOMAIN entries : entries[j][2]} |-> entries[i][1]]

\* Each is tried only while nothing has been found.
Fallbacks(c) ==
  << <<stale_pointer_after_invalidating_helper(c),
       stale_pointer_after_invalidating_helper(c) # NoSignal>>,
     <<"OpaqueScalarPointerDereference", opaque_scalar_pointer_dereference(c)>>,
     <<"NullScalarDereferenceAfterPointerProof",
       null_scalar_dereference_after_pointer_proof(c)>>,
     <<"ScalarValueUsedAsPointer", scalar_value_used_as_pointer(c)>>,
     <<"ProhibitedPointerArithmetic", prohibited_pointer_arithmetic(c)>> >>

\* The signals of one analysis before they are sorted.
pushed_signals(c) ==
  LET pushed == proof_signals(c)
      fallback == FirstHolding(Fallbacks(c))
  IN  IF DOMAIN pushed # {} \/ fallback = NoSignal THEN pushed ELSE <<fallback>>

-----------------------------------------------------------------------------
(* SIGNAL_INFOS.  A signal that is in none of the sets of a column has the  *)
(* value most of the rows have.                                             *)

failure_class_of(signal) ==
  CASE signal \in
       {"WideStackAlignment", "SharedInstructionPointerMerge",
        "SharedInstructionPathProofLoss", "Alu32PointerCopyDropsProvenance",
        "ConstantScalarMemoryLoad", "SharedInstructionUninitializedRegister",
        "PointerShiftDropsProvenance", "ModifiedContextPointer",
        "SubprogramContextArgumentDropped",
        "PacketPointerProofLostAfterBoundsCheck",
        "PacketRangeProofLostBeforeAccess", "MapValueWideAccess",
        "MapValueCheckedOffsetRelationLost"}
         -> "lowering_artifact"
    [] signal \in
       {"PacketMaxOffsetPrecisionBoundary",
        "MapValueRelationPrecisionBoundary"}
         -> "verifier_false_positive"
    [] signal \in
       {"MapPointerArgumentScalarZero", "BtfFuncInfoMissing",
        "ContextFieldUnavailable"}
         -> "environment_or_configuration"
    [] OTHER -> "source_bug"

help_safety_of(signal) ==
  IF signal \in
     {"MapPointerArgumentScalarZero", "BtfFuncInfoMissing",
      "PacketMaxOffsetPrecisionBoundary", "MapValueRelationPrecisionBoundary"}
  THEN "triage_only" ELSE "repair_hint"

selection_rank(signal) ==
  CASE signal = "MapValueRelationPrecisionBoundary" -> 4
    [] signal = "MapValueGuardExceedsValueSize" -> 5
    [] signal = "MapValueAccessOutOfBounds" -> 6
    [] signal = "SleepableCallInNonSleepableContext" -> 7
    [] signal = "ModernBpfObjectProtocolViolation" -> 8
    [] signal = "HelperStackReadLengthExceedsInitializedRange" -> 9
    [] signal = "VerifierTypeContractMismatch" -> 12
    [] signal \in {"WideStackAlignment", "SharedInstructionPointerMerge",
                  "PointerShiftDropsProvenance", "ModifiedContextPointer",
                  "SubprogramContextArgumentDropped"} -> 20
    [] signal = "PacketMaxOffsetPrecisionBoundary" -> 30
    [] signal = "PacketGuardUndercoversAccess" -> 40
    [] signal = "PacketAccessWithoutBoundsProof" -> 50
    [] signal \in {"MemoryObjectAccessOutOfBounds", "ReturnRangeOutOfBounds",
                  "StackVariableOffsetOutOfBounds"} -> 55
    [] signal = "ScalarRangeUnsafeAtUse" -> 60
    [] OTHER -> 10

can_replace_unsupported_terminal(signal) ==
  signal \in
    {"MapValueGuardExceedsValueSize", "MapPointerArgumentScalarZero",
     "BtfFuncInfoMissing", "SubprogramReferenceMetadataMissing",
     "DynptrStackStorageAccess", "DynptrStackSlotWriteOverlap",
     "DynptrHelperArgumentStateMismatch", "DynptrReleaseUnacquiredReference",
     "DynptrSliceVariableLength", "IteratorStackStorageAccess",
     "IteratorHelperArgumentStateMismatch", "IrqFlagStateMismatch",
     "IrqRestoreOrderMismatch", "IrqRestoreHelperClassMismatch",
     "IrqStateLiveAtExit", "SleepableCallInNonSleepableContext",
     "CallbackCallWhileLocked", "TrustedNullableArgument",
     "ContextAccessSourceArgumentMismatch",
     "TraceContextScalarArgumentMismatch", "ExceptionThrowWithLiveReference",
     "ReferenceLiveAtExit", "MapLookupKeyArgumentUnreadable",
     "PacketGuardUndercoversAccess", "PacketMaxOffsetPrecisionBoundary",
     "MapValueRelationPrecisionBoundary"}

\* NoSignal where the classifier's identifier stays.
error_id_override(signal) ==
  CASE signal = "PacketAccessWithoutBoundsProof" -> "E001"
    [] signal = "NullablePointerUseWithoutProof" -> "E002"
    [] signal \in
         {"UnreadableReturnRegister", "LegacySkbLoadUnreadableRegister",
          "HelperStackReadLengthExceedsInitializedRange",
          "HelperStackReadExceedsInitializedRange"}
         -> "E003"
    [] signal \in
         {"ExceptionThrowWithLiveReference", "ReferenceLiveAtExit"}
         -> "E004"
    [] signal \in
         {"MapValueAccessOutOfBounds", "MemoryObjectAccessOutOfBounds",
          "ReturnRangeOutOfBounds", "StackVariableOffsetOutOfBounds"}
         -> "E005"
    [] signal = "HelperStackWriteBeyondFrame" -> "E006"
    [] signal = "AtomicMemoryAccessScalarBase" -> "E007"
    [] signal = "VerifierTypeContractMismatch" -> "E008"
    [] signal \in
         {"UnreadableHelperArgument", "MapPointerRawAccessContract",
          "PerfEventOutputPacketAccess"}
         -> "E010"
    [] signal \in
         {"NullScalarDereferenceAfterPointerProof",
          "TraceContextScalarArgumentMismatch",
          "PacketContextFieldAccessInUnsupportedProgram",
          "KernelObjectFieldAccessMismatch", "UnreadableProgramEntryArgument",
          "ScalarValueUsedAsPointer", "OpaqueScalarPointerDereference",
          "StalePointerAfterInvalidatingHelper",
          "DynptrDataPointerInvalidatedBeforeUse"}
         -> "E011"
    [] signal \in
         {"DynptrStackStorageAccess", "DynptrUninitializedArgument",
          "DynptrReferencedSlotOverwrite", "DynptrReadonlyPacketWrite"}
         -> "E012"
    [] signal \in
         {"IrqRestoreOrderMismatch", "IrqRestoreHelperClassMismatch",
          "IrqStateLiveAtExit", "KfuncArgumentTypeMismatch",
          "ExceptionCallbackProtocolViolation"}
         -> "E013"
    [] signal \in
         {"IteratorStackStorageAccess", "IteratorHelperArgumentStateMismatch"}
         -> "E014"
    [] signal \in
         {"CallbackCallWhileLocked", "TrustedNullableArgument"}
         -> "E015"
    [] signal = "SleepableCallInNonSleepableContext" -> "E016"
    [] signal = "LoopBackEdgeStateRepeats" -> "E018"
    [] signal \in
         {"DynptrStackSlotWriteOverlap", "DynptrHelperArgumentStateMismatch",
          "DynptrReleaseUnacquiredReference", "DynptrSliceVariableLength"}
         -> "E019"
    [] signal = "IrqFlagStateMismatch" -> "E020"
    [] signal \in
         {"MapPointerArgumentScalarZero", "BtfFuncInfoMissing",
          "SubprogramReferenceMetadataMissing"}
         -> "E021"
    [] signal = "ModernBpfObjectProtocolViolation" -> "E023"
    [] OTHER -> NoSignal

\* Mutant: an unstable sort that turns signals of one rank round.
sorted_signals_Reversed(c) ==
  LET pushed == pushed_signals(c)
  IN  sort_by_key([i \in {-j : j \in DOMAIN pushed} |-> pushed[-i]], selection_rank)

\* A stable sort: among signals of one rank the order of the pushes stays.
sorted_signals(c) == sort_by_key(pushed_signals(c), selection_rank)

can_override_base_failure_class(signal, base) ==
  IF base = "unsupported_verifier_message" THEN can_replace_unsupported_terminal(signal)
  ELSE CASE signal \in {"ExceptionThrowWithLiveReference", "ContextFieldUnavailable",
                        "BtfFuncInfoMissing"}
              -> base = "environment_or_configuration"
         [] signal \in {"ContextAccessSourceArgumentMismatch",
                        "SubprogramReferenceMetadataMissing"}
              -> base \in {"source_bug", "environment_or_configuration"}
         [] OTHER -> base = "source_bug"

=============================================================================
