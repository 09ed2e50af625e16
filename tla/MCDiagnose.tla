------------------------------ MODULE MCDiagnose ------------------------------
(***************************************************************************)
(* Inputs for the diagnostic CLI: messages of the kernel verifier, one or  *)
(* more for every pattern and signal, as the phrases they contain; the     *)
(* instructions they can be about; and listings of source comments.        *)
(***************************************************************************)
EXTENDS Diagnose

Message(register, phrases) == [phrases |-> phrases, register |-> register]

MCMessages ==
  {Message(5, {"invalid mem access 'scalar'"}),
   Message(1, {"invalid mem access 'inv'"}),
   Message(2, {"invalid access to packet", "outside of the packet"}),
   Message(5, {"invalid access to packet"}),
   Message(1, {"_or_null", "map_value_or_null"}),
   Message(NoRegister, {"possibly null", "possibly null pointer", "trusted",
     "trusted arg"}),
   Message(NoRegister, {"helper arg", "possibly null",
     "possibly null pointer"}),
   Message(0, {"!read_ok"}),
   Message(2, {"!read_ok"}),
   Message(5, {"!read_ok"}),
   Message(6, {"!read_ok"}),
   Message(2, {"invalid read from stack", "read from stack", "stack"}),
   Message(NoRegister, {"arg#", "invalid read from stack",
     "memory, len pair", "memory, len pair leads to invalid memory access",
     "read from stack", "stack"}),
   Message(2, {"invalid write to stack", "stack"}),
   Message(NoRegister, {"unreleased reference", "unreleased reference id="}),
   Message(NoRegister, {"misaligned", "misaligned stack access", "stack"}),
   Message(NoRegister, {"misaligned", "misaligned access"}),
   Message(NoRegister, {"arg#", "caller passes invalid args",
     "caller passes invalid args into func", "expects pointer to ctx",
     "invalid args"}),
   Message(NoRegister, {"arg#", "caller passes invalid args",
     "caller passes invalid args into func", "invalid args",
     "reference type"}),
   Message(NoRegister, {"only read from",
     "only read from bpf_array is supported"}),
   Message(NoRegister, {"helper access to the packet is not allowed"}),
   Message(NoRegister, {"cannot call", "cannot call exception cb directly"}),
   Message(NoRegister, {"access beyond struct"}),
   Message(NoRegister, {"invalid bpf_context access"}),
   Message(1, {"expected=", "expected=map_ptr", "type=", "type=scalar"}),
   Message(2, {"expected=", "expected=fp", "type=", "type=scalar",
     "type=scalar expected=fp"}),
   Message(1, {"expected=", "type="}),
   Message(NoRegister, {"calling kernel function", "jit does not support",
     "kernel function"}),
   Message(NoRegister, {"calling kernel function", "kernel function"}),
   Message(NoRegister, {"dynptr", "expected an initialized",
     "expected an initialized dynptr"}),
   Message(NoRegister, {"cannot overwrite referenced dynptr", "dynptr"}),
   Message(NoRegister, {"dynptr", "potential write to dynptr"}),
   Message(NoRegister, {"does not allow writes to packet data"}),
   Message(NoRegister, {"acquire", "unacquired reference"}),
   Message(1, {"must be referenced or trusted", "trusted"}),
   Message(NoRegister, {"arg#", "must point to scalar",
     "pointer type struct"}),
   Message(2, {" but r", "args#", "expected pointer",
     "expected pointer to struct", "kernel function"}),
   Message(1, {"must be a rcu pointer", "rcu"}),
   Message(NoRegister, {"expected an initialized", "iter"}),
   Message(NoRegister, {"acquire", "cannot restore irq state out of order",
     "irq"}),
   Message(NoRegister, {"bpf_exit instruction", "bpf_local_irq_save-ed",
     "irq"}),
   Message(NoRegister, {"function calls are not allowed", "holding a lock",
     "lock"}),
   Message(NoRegister, {"non-sleepable", "sleepable helper"}),
   Message(2, {"invalid access to map value", "min value is outside",
     "outside of the allowed memory range"}),
   Message(NoRegister, {"invalid access to map value", "size > value_size"}),
   Message(2, {"unbounded", "unbounded memory access"}),
   Message(1, {"invalid access to memory", "mem_size=",
     "outside of the allowed memory range"}),
   Message(0, {"at program exit", "program exit", "register r",
     "register r0", "should have been in"}),
   Message(2, {"read from stack", "stack", "unbounded",
     "unbounded variable-offset"}),
   Message(5, {"pointer arithmetic", "pointer arithmetic with <<="}),
   Message(1, {"pkt_end", "pointer arithmetic"}),
   Message(5, {"bitwise operator"}),
   Message(1, {"dereference of modified ctx ptr"}),
   Message(NoRegister, {"same insn cannot be used with different pointers"}),
   Message(NoRegister, {"infinite loop detected"}),
   Message(NoRegister, {"bpf program is too large",
     "processed 1000001 insn"}),
   Message(NoRegister, {"unknown func"}),
   Message(NoRegister, {"missing btf", "missing btf func_info"}),
   Message(NoRegister, {}),
   Message(1, {"invalid access to map value", "min value is outside",
     "outside of the allowed memory range", "size > value_size"})}

\* A message is about an instruction at pc 4, or about one the log does not show.
Site(insn, target, pc) == [insn |-> insn, target |-> target, pc |-> pc]

MCSites ==
  {Site("memory", "none", 4), Site("memory", "throw", 4), Site("exit", "other", 4),
   Site("alu", "none", 4), Site("none", "none", None), Site("none", "dynptr", None),
   Site("none", "irq", 4)}
  \cup {Site("call", target, 4) : target \in {"dynptr", "throw", "iterator", "irq", "other"}}

\* A load from the packet.
MCLoad == {Site("memory", "none", 4)}

-----------------------------------------------------------------------------
(* Source comments.  The last element of a text tells it from other texts.  *)

Comment(pc, path, line, text) == [pc |-> pc, path |-> path, line |-> line, text |-> text]

BoundsCheck == {"if (", "data_end", "packet_bounds_check", "scalar_guard", "bounds"}
ScalarGuard == {"if (", "scalar_guard", "guard"}
NullCheck == {"if (", "null_check", "null"}
Lookup == {"bpf_", "nullable_return", "lookup"}
Reserve == {"bpf_", "nullable_return", "reference_acquire", "stack_initialization",
            "reserve"}
Submit == {"bpf_", "reference_release", "submit"}
Volatile == {"volatile", "slot"}
Derivation == {"packet_pointer_derivation", "derive"}
Access == {"access"}

\* A packet program, one that reads a map, one with a reference, the packet
\* program with a header file in which another line has the same number, one
\* whose comments all belong to later instructions, and one in which the compiler
\* has attributed instructions to line 0, whose comments have no text.
MCListings ==
  {<< >>,
   <<Comment(1, "p.c", 10, BoundsCheck), Comment(2, "p.c", 12, Derivation),
     Comment(4, "p.c", 14, Access)>>,
   <<Comment(1, "p.c", 10, Lookup), Comment(2, "p.c", 11, NullCheck),
     Comment(2, "p.c", 12, ScalarGuard), Comment(3, "p.c", 13, Volatile),
     Comment(4, "p.c", 14, Access)>>,
   <<Comment(1, "p.c", 10, Reserve), Comment(2, "p.c", 12, Submit),
     Comment(4, "p.c", 14, Access)>>,
   <<Comment(1, "p.c", 10, BoundsCheck), Comment(2, "h.h", 10, Derivation),
     Comment(4, "p.c", 14, Access)>>,
   <<Comment(5, "p.c", 10, BoundsCheck), Comment(None, "p.c", 14, Access)>>,
   <<Comment(1, "p.c", 10, BoundsCheck), Comment(2, "p.c", 0, {}),
     Comment(4, "p.c", 0, {})>>}

MCStateFacts ==
  {<<None, None>>, <<None, 2>>, <<1, None>>, <<1, 2>>, <<2, 1>>, <<1, 4>>}

=============================================================================
