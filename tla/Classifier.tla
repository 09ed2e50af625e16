------------------------------ MODULE Classifier ------------------------------
(***************************************************************************)
(* The failure classifier of the CLI (crates/bpfix/src/classifier.rs).     *)
(* A verifier message is the set of marker phrases it contains, in lower   *)
(* case: the code only ever asks whether a message contains a phrase.      *)
(***************************************************************************)
EXTENDS Sequences, Naturals

\* The result of a lookup that finds nothing.
NoSignal == "none"

-----------------------------------------------------------------------------
(* REJECTION_PATTERNS: tried in order, the first that matches decides.      *)

AnyOf(kind, phrases) == [kind |-> kind, any |-> phrases, all |-> {}]
AllOf(kind, phrases) == [kind |-> kind, any |-> {}, all |-> phrases]

REJECTION_PATTERNS ==
  << AnyOf("PacketBounds", {"invalid access to packet", "outside of the packet"}),
     AnyOf("NullablePointer",
         {"map_value_or_null", "ptr_or_null", "mem_or_null", "possibly null"}),
     AllOf("DynptrSafety", {"dynptr", "uninitialized"}),
     AnyOf("StackInitialized",
         {"invalid read from stack", "invalid indirect read from stack",
          "invalid write to stack", "uninitialized", "!read_ok"}),
     AnyOf("ReferenceLifecycle",
         {"unreleased reference", "reference has not been released"}),
     AnyOf("Alignment", {"misaligned", "not aligned"}),
     AnyOf("HelperArgument",
         {"caller passes invalid args", "invalid args", "invalid argument",
          "bad argument", "arg#", "helper access to the packet is not allowed",
          "cannot call exception cb directly", "only read from"}),
     AnyOf("StructAccess", {"access beyond struct"}),
     AnyOf("ContextUnavailable",
         {"invalid bpf_context access", "invalid ctx access",
          "invalid access to context"}),
     AnyOf("TypeContract", {"unsupported reg type"}),
     AllOf("TypeContract", {"type=", "expected="}),
     AnyOf("TypeContract",
         {"expected pointer", "expected=fp", "expected=pkt", "expected=map_ptr",
          "expected=map_value"}),
     AnyOf("InstructionSupport",
         {"jit does not support", "unsupported", "unknown opcode"}),
     AnyOf("EnvironmentCapability", {"calling kernel function"}),
     AnyOf("DynptrSafety", {"dynptr"}),
     AnyOf("KfuncReference",
         {"kfunc", "trusted", "ref_obj_id", "acquire", "has no valid kptr"}),
     AnyOf("IteratorLifecycle", {"iter", "iterator"}),
     AnyOf("LockState", {"irq", "rcu", "lock"}),
     AnyOf("MapValueBounds", {"invalid access to map value"}),
     AnyOf("ScalarRange",
         {"unbounded", "min value is negative", "min value is outside",
          "out of bounds", "should have been in", "invalid zero-sized",
          "makes pkt pointer", "outside of allowed memory range",
          "outside of the allowed memory range", "invalid variable-offset",
          "invalid access to memory"}),
     AnyOf("PointerProvenance",
         {"invalid mem access 'scalar'", "invalid mem access 'inv'",
          "same insn cannot be used with different pointers",
          "pointer arithmetic", "bitwise operator",
          "dereference of modified ctx ptr"}),
     AnyOf("LoopBound",
         {"loop is not bounded", "infinite loop detected", "back-edge"}),
     AnyOf("VerifierLimit",
         {"too many states", "bpf program is too large", "combined stack size",
          "complexity", "combined stack", "processed 1000001 insn"}),
     AnyOf("EnvironmentCapability",
         {"unknown func", "helper call is not allowed",
          "program of this type cannot use helper", "cannot use helper",
          "cannot pass map_type", "kernel subsystem misconfigured verifier",
          "missing btf", "cannot call", "permission denied"}) >>

\* Every phrase some pattern looks for.
Phrases ==
  UNION {REJECTION_PATTERNS[i].any \cup REJECTION_PATTERNS[i].all :
           i \in DOMAIN REJECTION_PATTERNS}

matches(pattern, message) ==
  /\ pattern.any = {} \/ pattern.any \cap message # {}
  /\ pattern.all \subseteq message

\* VerifierRejectionKind::parse; "Unsupported" where no pattern matches.
parse_rejection(message) ==
  LET hits == {i \in DOMAIN REJECTION_PATTERNS :
                 matches(REJECTION_PATTERNS[i], message)}
  IN  IF hits = {} THEN "Unsupported"
      ELSE REJECTION_PATTERNS[CHOOSE i \in hits : \A j \in hits : i <= j].kind

\* A call to a dynptr helper turns messages that do not name dynptrs into
\* dynptr messages.
context_implies_dynptr_safety(message, call_target) ==
  /\ call_target = "dynptr"
  /\ message \cap {"unacquired reference", "reference type",
                   "expected an initialized", "expected pointer to stack",
                   "does not allow writes to packet data"} # {}

-----------------------------------------------------------------------------
(* Classifications.                                                         *)

error_ids ==
  [PacketBounds |-> "E001", NullablePointer |-> "E002",
   StackInitialized |-> "E003", ReferenceLifecycle |-> "E004",
   MapValueBounds |-> "E005", ScalarRange |-> "E005",
   PointerProvenance |-> "E006", Alignment |-> "E007", TypeContract |-> "E008",
   EnvironmentCapability |-> "E009", HelperArgument |-> "E010",
   StructAccess |-> "E011", ContextUnavailable |-> "E011",
   DynptrSafety |-> "E012", KfuncReference |-> "E013",
   IteratorLifecycle |-> "E014", LockState |-> "E015",
   InstructionSupport |-> "E016", LoopBound |-> "E018",
   VerifierLimit |-> "E018"]

obligation_of(kind) ==
  CASE kind \in {"StructAccess", "ContextUnavailable"} -> "ContextAccess"
    [] kind = "MapValueBounds" -> "ScalarRange"
    [] OTHER -> kind

\* VerifierRejectionKind::classification. What the environment lacks is only
\* triaged; everything else but a resource limit is the source's fault.
classification(kind) ==
  LET environment == {"ContextUnavailable", "InstructionSupport",
                      "EnvironmentCapability"}
  IN  [error_id |-> error_ids[kind],
       obligation |-> obligation_of(kind),
       failure_class |-> CASE kind \in environment -> "environment_or_configuration"
                           [] kind = "VerifierLimit" -> "verifier_limit"
                           [] OTHER -> "source_bug",
       diagnostic_kind |-> "supported",
       help_safety |-> IF kind \in environment THEN "triage_only" ELSE "repair_hint",
       confidence |-> "medium"]

custom_triage(error_id, failure_class, diagnostic_kind) ==
  [error_id |-> error_id, obligation |-> "Unknown",
   failure_class |-> failure_class, diagnostic_kind |-> diagnostic_kind,
   help_safety |-> "triage_only", confidence |-> "low"]

no_verifier_rejection_classification ==
  custom_triage("E000", "input_error", "unsupported_input")

unsupported_message_classification ==
  custom_triage("E099", "unsupported_verifier_message",
                "unsupported_verifier_message")

classify_with_context(message, call_target) ==
  IF context_implies_dynptr_safety(message, call_target)
  THEN classification("DynptrSafety")
  ELSE LET kind == parse_rejection(message)
       IN  IF kind = "Unsupported" THEN unsupported_message_classification
           ELSE classification(kind)

=============================================================================
