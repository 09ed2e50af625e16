------------------------------- MODULE Diagnose -------------------------------
(***************************************************************************)
(* One run of the diagnostic CLI (crates/bpfix/src/main.rs): classify the  *)
(* message, analyze the log for events and signals, merge the two into a   *)
(* report, render the source block, exit.                                  *)
(*                                                                         *)
(* The input is a log that has been cut into its parts: the terminal       *)
(* message, the rejected instruction, the source comments and what the     *)
(* state queries see.  Which of the questions that the signal predicates   *)
(* ask of the verifier states are answered with yes is chosen by Analyze.  *)
(***************************************************************************)
EXTENDS SignalPipeline, FiniteSetsExt, TLC

CONSTANTS
  Messages,     \* terminal messages: [phrases, register]
  Sites,        \* rejected instructions: [insn, target, pc]
  Listings,     \* sequences of source comments
  StateFacts,   \* <<state_proved, state_lost>>: pcs, None for neither
  MaxShown      \* bound: how many questions are answered with yes at once

ASSUME SitesAssumption ==
  \A site \in Sites : site.insn # "none" => site.pc # None
ASSUME ListingsAssumption ==
  Listings \subseteq Seq([pc : Nat, path : STRING, line : Nat, text : SUBSET STRING])

\* What messages about lost pointers say.
PointerPhrases ==
  {"invalid mem access 'scalar'", "invalid mem access 'inv'", "pointer arithmetic",
   "bitwise operator"}

\* A message gives one reason: where the kernel misses BTF it says nothing of a
\* pointer.
ASSUME MessagesAssumption ==
  \A message \in Messages : "missing btf func_info" \in message.phrases =>
                              message.phrases \cap PointerPhrases = {}
ASSUME MaxShownAssumption == MaxShown \in Nat

VARIABLES
  input,        \* the parts of the log
  phase,        \* how far the run has got
  events,       \* analysis.events
  shown,        \* the signals whose questions about the states are answered with yes
  signals,      \* analysis.signals, sorted
  parse_failed, \* whether the verifier states could not be parsed
  report,       \* the Diagnostic
  exit          \* the flag --fail-on-unsupported and the exit code

vars == <<input, phase, events, shown, signals, parse_failed, report, exit>>

\* The report before it is made.
NoReport ==
  [signal |-> NoSignal, error_id |-> "", failure_class |-> "", confidence |-> "",
   help_safety |-> "", diagnostic_kind |-> "", related |-> << >>,
   span_confidence |-> "none", block |-> << >>]

-----------------------------------------------------------------------------
(* Input.                                                                   *)

\* find_terminal_error returned None.
NoRejection ==
  [terminal |-> FALSE, message |-> [phrases |-> {}, register |-> NoRegister],
   site |-> [insn |-> "none", target |-> "none", pc |-> None],
   sources |-> << >>, nearest |-> NoSource, ptr_is_not_a_struct |-> FALSE,
   facts |-> <<None, None>>]

\* The nearest comment above the message, unless a line that ends the search
\* backward (a summary line, another error) lies between.
NearestSources(sources) ==
  {NoSource} \cup (IF sources = << >> THEN {} ELSE {Location(Last(sources))})

\* The obligations whose events come from the verifier states too.
StateObligations == {"PointerProvenance", "PacketBounds", "ScalarRange", "NullablePointer"}

class(i) ==
  IF ~i.terminal THEN no_verifier_rejection_classification
  ELSE classify_with_context(i.message.phrases, i.site.target)

\* Fields that nothing reads are fixed: the nearest comment where the rejection
\* has a source of its own, the line about PTR away from context messages, and
\* the state facts of an obligation that has no state events.
Init ==
  /\ \/ input = NoRejection
     \/ \E message \in Messages, site \in Sites, sources \in Listings :
        \E nearest \in NearestSources(sources), not_a_struct \in BOOLEAN,
           facts \in StateFacts :
          /\ input = [terminal |-> TRUE, message |-> message, site |-> site,
                      sources |-> sources, nearest |-> nearest,
                      ptr_is_not_a_struct |-> not_a_struct, facts |-> facts]
          /\ nearest = NoSource =>
               sources = << >> \/ terminal_source(sources, site.pc) = NoSource
          /\ not_a_struct => "invalid bpf_context access" \in message.phrases
          /\ facts # <<None, None>> => class(input).obligation \in StateObligations
  /\ phase = "start"
  /\ events = << >> /\ shown = {} /\ signals = << >>
  /\ parse_failed = FALSE
  /\ report = NoReport
  /\ exit = [fail_on_unsupported |-> FALSE, code |-> 0]

-----------------------------------------------------------------------------
(* Analysis.                                                                *)

\* What the events are computed from.
EventContext ==
  [obligation |-> class(input).obligation,
   register |-> input.message.register,
   pc |-> input.site.pc,
   sources |-> input.sources,
   rejected |-> terminal_source(input.sources, input.site.pc),
   state_proved |-> input.facts[1],
   state_lost |-> input.facts[2]]

\* ProofSignalContext, once the events are known.
SignalContext(all_events, yes) ==
  LET c == EventContext
  IN  [message |-> input.message.phrases, insn |-> input.site.insn,
       target |-> input.site.target, ptr_is_not_a_struct |-> input.ptr_is_not_a_struct,
       events |-> all_events, shown |-> yes,
       obligation |-> c.obligation, register |-> c.register, pc |-> c.pc,
       sources |-> c.sources, rejected |-> c.rejected]

Names(entries) == {entries[i][1] : i \in DOMAIN entries}

\* The signals that a predicate chooses between, in the order of its choice.
Alternatives ==
  {"Alu32PointerCopyDropsProvenance", "SharedInstructionPathProofLoss",
   "ConstantScalarMemoryLoad", "SharedInstructionUninitializedRegister",
   "StalePointerAfterInvalidatingHelper", "DynptrDataPointerInvalidatedBeforeUse"}

\* The signals whose questions about the states are reached: those that decide
\* whether a predicate holds.
Candidates(all_events) ==
  LET none == SignalContext(all_events, {})
      all == Names(Registry(none)) \cup Names(Fallbacks(none)) \cup Alternatives
      Holding(c) == LET entries == Registry(c) \o Fallbacks(c)
                    IN  {entries[i][1] : i \in {j \in DOMAIN entries : entries[j][2]}}
      asked == Holding(SignalContext(all_events, all)) \ Holding(none)
  IN  asked \cup {signal \in Alternatives :
                    signal \in Holding(SignalContext(all_events, {signal}))}

\* verifier_states_with_branch_deltas_from_log fails: the report is made from
\* the classification alone.
ParseFails ==
  /\ phase = "start" /\ input.terminal
  /\ parse_failed' = TRUE
  /\ phase' = "analyzed"
  /\ UNCHANGED <<input, events, shown, signals, report, exit>>

analyze_verifier_log_with_context ==
  /\ phase = "start" /\ input.terminal
  /\ events' = Append(proof_events(EventContext), Rejection(EventContext))
  /\ \E n \in 0..MaxShown : shown' \in kSubset(n, Candidates(events'))
  /\ signals' = sorted_signals(SignalContext(events', shown'))
  /\ phase' = "analyzed"
  /\ UNCHANGED <<input, parse_failed, report, exit>>

\* BPFIX-E000: nothing to analyze.
SkipAnalysis ==
  /\ phase = "start" /\ ~input.terminal
  /\ phase' = "analyzed"
  /\ UNCHANGED <<input, events, shown, signals, parse_failed, report, exit>>

-----------------------------------------------------------------------------
(* The report.                                                              *)

\* The first signal that may override the class of the message.
runtime_proof_signal ==
  FirstHolding([k \in DOMAIN signals |->
    <<signals[k], can_override_base_failure_class(signals[k], class(input).failure_class)>>])

evidence_strength_rank(evidence) == IF evidence = "SourceComment" THEN 1 ELSE 0

\* Mutant: the line alone decides, so the order of the pushes does.
related_span_key_ByLine(e) == 2 * e.source.line

related_span_key(e) == 2 * e.source.line + evidence_strength_rank(e.evidence)

\* The places of the events other than the rejection: by line, the stronger
\* evidence first, neighbours at one place merged.
related_spans_from_proof_events ==
  LET located == {i \in DOMAIN events : events[i].role # "Rejected"
                                         /\ events[i].source # NoSource}
      Span(e) == [path |-> e.source.path, line |-> e.source.line,
                  text |-> e.source.text, evidence |-> e.evidence]
      SamePlace(left, right) == left.path = right.path /\ left.line = right.line
      sorted == sort_by_key([i \in located |-> events[i]], related_span_key)
  IN  dedup_by([i \in DOMAIN sorted |-> Span(sorted[i])], SamePlace)

\* Where the report points: the source of the rejection, or else the nearest
\* comment above the message, or else the line of the log.
source_span ==
  LET rejections == {i \in DOMAIN events : events[i].role = "Rejected"}
  IN  IF rejections # {} /\ events[Min(rejections)].source # NoSource
      THEN events[Min(rejections)].source ELSE input.nearest

span_confidence(related) ==
  CASE /\ input.site.pc # None
       /\ \E i \in DOMAIN events : /\ events[i].pc # None
                                   /\ events[i].evidence # "SourceComment" -> "exact_pc"
    [] OTHER -> IF related # << >> \/ source_span # NoSource
                THEN "nearest_source_comment" ELSE "terminal_line_only"

\* Mutant: the rejected line has no precedence.
block_key_ByLine(line) == 2 * line.line

block_key(line) == 2 * line.line + IF line.primary THEN 0 ELSE 1

\* The lines of the source block: the rejected one, unless its text is empty,
\* first among the spans of a line, neighbours with one line and text merged.
render_source_block(related) ==
  LET Line(span, primary) == [line |-> span.line, text |-> span.text, primary |-> primary]
      spans == [i \in DOMAIN related |-> Line(related[i], FALSE)]
               \o Opt(source_span.text # {}, Line(source_span, TRUE))
      Same(left, right) == left.line = right.line /\ left.text = right.text
  IN  dedup_by(sort_by_key(spans, block_key), Same)

(* The columns a signal overrides, base being the classification.           *)

merged_error_id(base, signal) ==
  IF signal # NoSignal /\ error_id_override(signal) # NoSignal
  THEN error_id_override(signal) ELSE base.error_id

\* Mutant: the class stays the classifier's.
merged_failure_class_OfBase(base, signal) == base.failure_class

merged_failure_class(base, signal) ==
  IF signal = NoSignal THEN base.failure_class ELSE failure_class_of(signal)

merged_help_safety(base, signal) ==
  IF signal = NoSignal THEN base.help_safety ELSE help_safety_of(signal)

\* Mutant: a signal never turns an unknown message into a supported one.
merged_kind_OfBase(base, signal) == base.diagnostic_kind

merged_kind(base, signal) ==
  IF /\ base.diagnostic_kind = "unsupported_verifier_message"
     /\ signal # NoSignal /\ can_replace_unsupported_terminal(signal)
  THEN "supported" ELSE base.diagnostic_kind

\* build_diagnostic after the analysis, and render_text.
build_report ==
  /\ phase = "analyzed"
  /\ LET base == class(input)
         signal == runtime_proof_signal
         related == related_spans_from_proof_events
     IN  report' =
           [signal |-> signal,
            error_id |-> merged_error_id(base, signal),
            failure_class |-> merged_failure_class(base, signal),
            confidence |-> IF signal = NoSignal THEN base.confidence ELSE "medium",
            help_safety |-> merged_help_safety(base, signal),
            diagnostic_kind |-> merged_kind(base, signal),
            related |-> related,
            span_confidence |-> span_confidence(related),
            block |-> render_source_block(related)]
  /\ phase' = "reported"
  /\ UNCHANGED <<input, events, shown, signals, parse_failed, exit>>

\* The end of main; the flag is read only here.
finish(fail_on_unsupported) ==
  /\ phase = "reported"
  /\ exit' = [fail_on_unsupported |-> fail_on_unsupported,
              code |-> IF fail_on_unsupported /\ report.diagnostic_kind # "supported"
                       THEN 2 ELSE 0]
  /\ phase' = "done"
  /\ UNCHANGED <<input, events, shown, signals, parse_failed, report>>

Next ==
  \/ ParseFails
  \/ analyze_verifier_log_with_context
  \/ SkipAnalysis
  \/ build_report
  \/ \E fail_on_unsupported \in BOOLEAN : finish(fail_on_unsupported)

Spec == Init /\ [][Next]_vars

-----------------------------------------------------------------------------
(* Properties.                                                              *)

Reported == phase \in {"reported", "done"}

\* The state of a run has the expected shape, and nothing is analyzed for an
\* input without a rejection.
TypeOK ==
  /\ phase \in {"start", "analyzed", "reported", "done"}
  /\ parse_failed \in BOOLEAN
  /\ exit.code \in {0, 2} /\ exit.fail_on_unsupported \in BOOLEAN
  /\ Cardinality(shown) <= MaxShown
  /\ \A i \in DOMAIN events : events[i].role = "Rejected" <=> i = Len(events)
  /\ events = << >> => shown = {} /\ signals = << >>
  /\ ~input.terminal => events = << >>

\* The places, in the order of the pushes, of the signals that apply and may
\* override the class of the message.  A fallback applies only if nothing before
\* it holds.
Admissible(c) ==
  LET entries == Registry(c) \o Fallbacks(c)
  IN  {i \in DOMAIN entries :
         /\ entries[i][2]
         /\ i > Len(Registry(c)) => \A j \in 1..(i - 1) : ~entries[j][2]
         /\ can_override_base_failure_class(entries[i][1], class(input).failure_class)}

\* The signal of the report is the best of the admissible ones: no other has a
\* smaller rank, and among equals it is the first in the order of the pushes,
\* which is what the comment in proof_signals relies on a stable sort for.
ReportsBest ==
  Reported /\ ~parse_failed /\ input.terminal =>
    LET c == SignalContext(events, shown)
        entries == Registry(c) \o Fallbacks(c)
        admissible == Admissible(c)
        Rank(i) == selection_rank(entries[i][1])
    IN  IF admissible = {} THEN report.signal = NoSignal
        ELSE \E i \in admissible :
               /\ report.signal = entries[i][1]
               /\ \A j \in admissible : \/ Rank(i) < Rank(j)
                                        \/ Rank(i) = Rank(j) /\ i <= j

\* A signal that may not override never keeps a fallback from being tried that
\* could have: push_fallback only asks whether the list is empty, so this rests
\* on what the predicates ask of the message and the instruction.
FallbacksReached ==
  Reported /\ ~parse_failed /\ input.terminal =>
    LET c == SignalContext(events, shown)
    IN  Admissible(c) = {} => \A i \in DOMAIN Fallbacks(c) : ~Fallbacks(c)[i][2]

\* No better signal than the one in the report is passed over, neither by the
\* sort nor by the rule for the fallbacks.
ChosenIsBest == ReportsBest /\ FallbacksReached

\* The identifiers of undiagnosed inputs and the kind the exit code is decided
\* by agree, although the identifier and the kind are overridden by different
\* columns of the signal table: no report is called supported under E000 or
\* E099, and with --fail-on-unsupported exactly those exit with 2.
IdMatchesKind ==
  Reported =>
    /\ report.diagnostic_kind # "supported" <=> report.error_id \in {"E000", "E099"}
    /\ phase = "done" =>
         (exit.code = 2 <=> /\ exit.fail_on_unsupported
                            /\ report.error_id \in {"E000", "E099"})

\* docs/error-catalog.yaml: the failure classes each identifier is documented with.
Catalog ==
  LET source == {"source_bug"}
      lowering == source \cup {"lowering_artifact"}
      environment == source \cup {"environment_or_configuration"}
      Only(ids, classes) == [id \in ids |-> classes]
  IN  Only({"E002", "E004", "E008", "E012", "E013", "E014", "E015", "E019", "E020",
            "E023"}, source)
      @@ Only({"E003", "E006", "E007", "E010"}, lowering)
      @@ Only({"E011", "E016", "E021"}, environment)
      @@ "E000" :> {"input_error"}
      @@ "E001" :> source \cup {"verifier_false_positive"}
      @@ "E005" :> lowering \cup {"verifier_false_positive"}
      @@ "E009" :> {"environment_or_configuration"}
      @@ "E018" :> source \cup {"verifier_limit"}
      @@ "E099" :> {"unsupported_verifier_message"}

\* Every report is a pair of an identifier and a failure class that the catalog
\* documents, whichever of the two comes from the classifier and whichever from
\* the signal.
InCatalog ==
  Reported => /\ report.error_id \in DOMAIN Catalog
              /\ report.failure_class \in Catalog[report.error_id]

\* InCatalog but for the one signal that reports a lowering artifact under the
\* identifier for missing packet bounds.
InCatalogButPacketRange ==
  report.signal # "PacketRangeProofLostBeforeAccess" => InCatalog

\* No event is lost between the analysis and the report: every place an event
\* names is among the related spans, and its first span there carries the
\* strongest evidence any event has for the place.
SpansShowStrongest ==
  Reported =>
    \A i \in DOMAIN events :
      events[i].role # "Rejected" /\ events[i].source # NoSource =>
        LET here == {k \in DOMAIN report.related :
                       /\ report.related[k].path = events[i].source.path
                       /\ report.related[k].line = events[i].source.line}
        IN  /\ here # {}
            /\ evidence_strength_rank(report.related[Min(here)].evidence)
                 <= evidence_strength_rank(events[i].evidence)

\* The source block marks the rejected line exactly once if the text of its
\* source is known and not empty, as that of a comment for line 0 is, and else
\* no line at all; it shows every related line, and reads from top to bottom.
BlockShowsRejection ==
  Reported =>
    /\ Cardinality({k \in DOMAIN report.block : report.block[k].primary})
         = IF source_span.text = {} THEN 0 ELSE 1
    /\ \A k \in DOMAIN report.related : \E l \in DOMAIN report.block :
         /\ report.block[l].line = report.related[k].line
         /\ report.block[l].text = report.related[k].text
    /\ \A k, l \in DOMAIN report.block :
         k < l => report.block[k].line <= report.block[l].line

=============================================================================
