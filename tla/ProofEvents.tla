----------------------------- MODULE ProofEvents ------------------------------
(***************************************************************************)
(* Proof events of the diagnostic CLI (crates/bpfix/src/source.rs and      *)
(* diagnostic/proof_events.rs): the places in the rejected program that    *)
(* explain a rejection.                                                    *)
(*                                                                         *)
(* A source comment of the log is a record with the pc of the instruction  *)
(* that follows it (None when none follows within four lines), its path,   *)
(* its line and its text.  A text is the set of the looks_like_...         *)
(* predicates and of the substrings of interest that hold of it, with one  *)
(* more element where texts have to be told apart; only the empty text is  *)
(* {}.                                                                     *)
(*                                                                         *)
(* What the queries over the parsed states find is part of the input:      *)
(* state_proved and state_lost are the pcs at which they see the           *)
(* obligation proved and lost for the register of the message, None when   *)
(* they see neither.                                                       *)
(***************************************************************************)
EXTENDS Naturals, Sequences, SequencesExt

None == 0
NoRegister == 99
NoSource == [path |-> "", line |-> None, text |-> {}]
NoComment == [pc |-> None, path |-> "", line |-> None, text |-> {}]

\* Vec::push of the element an Option holds: a sequence of length 0 or 1.
Opt(condition, element) == IF condition THEN <<element>> ELSE << >>

-----------------------------------------------------------------------------
(* Queries over the source comments (source.rs, source_query.rs).           *)

\* Iterator::max_by_key: the last of the comments with the largest value of a
\* field.
MaxByKey(sources, indices, field) ==
  LET key(i) == sources[i][field]
      last == CHOOSE i \in indices :
                \A j \in indices : key(j) < key(i) \/ (key(j) = key(i) /\ j <= i)
  IN  sources[last]

Location(comment) == [path |-> comment.path, line |-> comment.line, text |-> comment.text]

CommentsAtOrBefore(sources, pc) ==
  {i \in DOMAIN sources : sources[i].pc # None /\ sources[i].pc <= pc}

source_for_pc(sources, pc) ==
  LET found == CommentsAtOrBefore(sources, pc)
  IN  IF found = {} THEN NoSource ELSE Location(MaxByKey(sources, found, "pc"))

\* Where the program was rejected.
terminal_source(sources, pc) ==
  IF pc # None THEN source_for_pc(sources, pc)
  ELSE IF sources = << >> THEN NoSource
  ELSE Location(Last(sources))

\* As source_for_pc, but only in the file of the rejected access, and nothing
\* if that is the place of the rejection itself.
source_for_pc_in_rejected_file(sources, pc, rejected) ==
  LET found == {i \in CommentsAtOrBefore(sources, pc) : sources[i].path = rejected.path}
  IN  IF rejected = NoSource \/ found = {} THEN NoSource
      ELSE LET place == Location(MaxByKey(sources, found, "pc"))
           IN  IF place = rejected THEN NoSource ELSE place

\* The last comment above the rejected line of the same file among the matching
\* ones; NoComment when there is none.
latest_source_before(sources, rejected, matching) ==
  LET found == {i \in matching : /\ sources[i].path = rejected.path
                                 /\ sources[i].line < rejected.line}
  IN  IF rejected = NoSource \/ found = {} THEN NoComment
      ELSE MaxByKey(sources, found, "line")

-----------------------------------------------------------------------------
(* Events.  All events of one analysis carry the same obligation and register. *)

Event(role, evidence, pc, source) ==
  [role |-> role, evidence |-> evidence, pc |-> pc, source |-> source]

\* The comments whose text satisfies a predicate.
Matching(c, predicate) == {i \in DOMAIN c.sources : predicate \in c.sources[i].text}

\* An event at the last matching comment above the rejection, if there is one.
FromComment(c, role, matching) ==
  LET comment == latest_source_before(c.sources, c.rejected, matching)
  IN  Opt(comment # NoComment,
          Event(role, "SourceComment", comment.pc, Location(comment)))

FromState(c, role, pc) ==
  Opt(pc # None, Event(role, "VerifierState", pc, source_for_pc(c.sources, pc)))

\* What the state queries find: each starts with register?, so nothing is
\* found for a message that names no register.
proved(c) == IF c.register = NoRegister THEN None ELSE c.state_proved
lost(c) == IF c.register = NoRegister THEN None ELSE c.state_lost

pointer_provenance_events(c) ==
  FromComment(c, "ProofLost", Matching(c, "if (") \ Matching(c, "data_end"))
  \o FromComment(c, "ProofEstablished", Matching(c, "data_end"))
  \o FromState(c, "ProofLost", lost(c))

\* A loss counts after the proof; without a proof the insufficient range is
\* reported in the rejected file only.
packet_bounds_events(c) ==
  FromComment(c, "ProofEstablished", Matching(c, "packet_bounds_check"))
  \o IF proved(c) # None
     THEN FromState(c, "ProofEstablished", proved(c))
          \o Opt(lost(c) > proved(c),
                 Event("ProofLost", "VerifierState", lost(c),
                       source_for_pc(c.sources, lost(c))))
     ELSE Opt(lost(c) # None,
              Event("ProofLost", "VerifierState", lost(c),
                    source_for_pc_in_rejected_file(c.sources, lost(c), c.rejected)))

\* A comment that already explains the loss ends the search.
LossFromCommentOrState(c, matching) ==
  LET comment == FromComment(c, "ProofLost", matching)
  IN  IF comment # << >> THEN comment ELSE FromState(c, "ProofLost", lost(c))

scalar_range_events(c) ==
  FromComment(c, "ProofEstablished", Matching(c, "scalar_guard"))
  \o LossFromCommentOrState(c, Matching(c, "volatile"))

nullable_pointer_events(c) ==
  FromComment(c, "ProofEstablished", Matching(c, "null_check"))
  \o LossFromCommentOrState(c, Matching(c, "nullable_return"))

stack_initialized_events(c) ==
  FromComment(c, "ProofEstablished", Matching(c, "stack_initialization"))

reference_lifecycle_events(c) ==
  FromComment(c, "ProofEstablished", Matching(c, "reference_acquire"))
  \o FromComment(c, "ProofEstablished", Matching(c, "reference_release"))
  \o Opt(c.rejected # NoSource, Event("ProofLost", "SourceComment", None, c.rejected))

environment_capability_events(c) ==
  IF c.rejected # NoSource /\ "bpf_" \in c.rejected.text
  THEN <<Event("ProofLost", "SourceComment", None, c.rejected)>>
  ELSE FromComment(c, "ProofLost", Matching(c, "bpf_"))

\* analyze_verifier_log_with_context: the events of the obligation, then the
\* rejection itself.
proof_events(c) ==
  CASE c.obligation = "PointerProvenance" -> pointer_provenance_events(c)
    [] c.obligation = "PacketBounds" -> packet_bounds_events(c)
    [] c.obligation = "ScalarRange" -> scalar_range_events(c)
    [] c.obligation = "NullablePointer" -> nullable_pointer_events(c)
    [] c.obligation = "StackInitialized" -> stack_initialized_events(c)
    [] c.obligation = "ReferenceLifecycle" -> reference_lifecycle_events(c)
    [] c.obligation = "EnvironmentCapability" -> environment_capability_events(c)
    [] OTHER -> << >>

Rejection(c) == Event("Rejected", "TerminalVerifier", c.pc, c.rejected)

=============================================================================
