# TLA+ models of bpfix

bpfix explains why the kernel's BPF verifier rejected a program. The repository
holds a Rust workspace (`crates/bpfanalysis`: program representation and log
parser; `crates/bpfix`: the diagnostic CLI) and Python tooling around it
(a benchmark of model-written repairs, audits, empirical replay).

There are no threads and no messages between processes that share memory. What is
hard lies in two other places:

* state that has to stay consistent while it is edited, by long sequences of
  legal calls: block numbers, cached facts, metadata that travels with
  instructions, two indices of one table, offsets at their field limits, reports
  merged from two tables that do not know each other;
* external commands and a model endpoint that may fail, answer nonsense or be cut
  off by a timeout in the middle of any step, with clean-up in `finally` clauses
  and retries that carry evidence from one attempt to the next.

`PROJECT.json` lists these places as hazards, at their lines, with the properties
that watch them.

## Inventory

| Component | State it keeps | Operations | Interacts with | What makes it correct |
|---|---|---|---|---|
| Lift (`analysis/bbprogram_lift.rs`) | none; builds a `ProgramCFG` | `lift*`, `lift_with_pass_context`, map reference canonicalisation, `shift_target_module_call_offsets_for_map_prefix` | reads the pass context (verifier states, profiles, program type) | every target lands on an instruction boundary; states and profiles sit on the instruction they describe |
| `ProgramCFG` (`analysis/bbprogram.rs`, `bbprogram_api.rs`) | blocks with inline metadata, entry, program type, dirty flag, cached facts | nine mutating calls, readers of derived facts | passes call it; lower reads it | references survive renumbering, nothing cached outlives the code it is about, restructuring keeps the meaning |
| Derived facts (`bbprogram_use_def.rs`, `bbprogram.rs` 1255-1634) | use-def graph, liveness, register facts | rebuilt on the first read after a mutation | the kinsn registry gives the registers of kinsn calls | fixpoints of the data-flow equations of the current code |
| Lower (`bbprogram_lower.rs`, `bbprogram_btf.rs`) | none | `lower`, BTF record remapping | reads `ProgramCFG` | same meaning as the CFG; records stay ordered |
| Kinsn registry (`pass.rs` 295-429) | `by_name`, `by_call` | `new`, `set_kinsn_call_for_target_name`, lookups | use-def, register facts, emission of kinsn calls | the two indices are inverse |
| Pass helpers (`pass.rs` 456-632) | none | `run_pass_once`, batch replacement and deletion in reverse order | mutation API | an edit never moves a site that is still to be edited |
| Verifier log (`verifier_log.rs`, `verifier_log/`) | parsed states, in log order | text to records; the state above an instruction, by window, frame and path | lift, diagnostics | the state read for an instruction is the one the verifier was in |
| Log input (`input.rs`, `source.rs`), libbpf log (`libbpf_log.rs`) | none | cut the log, find the terminal error, its pc, call and source line; section and relocated struct of the failing program | verifier log, diagnostics | what is read is about the last rejection, not about another program, path or load |
| Diagnostics (`crates/bpfix/src`) | classification, proof events, signals, the merged report | classify the message, collect events, evaluate 64 signals and 5 fallbacks, merge, render, exit status | log parser, object metadata | fixed priority among explanations; the parts of the report agree with each other; all evidence is shown |
| Oracle (`bpfix-bench/tools/bpf_case.py`) | report so far, pins in bpffs | compile, load, map set-up, tests, clean-up, each an external command with a timeout | clang, bpftool, the kernel | the report says where it stopped, a pass means that everything ran, no pin stays |
| Benchmark runner (`bpfix-bench/tools/run_suite.py`) | attempts, retry context, rows, summary. A run writes to a fresh directory; there is no resume | attempts, retries, cost and checkpoint aggregation | model endpoint, oracle, auditor | bounded retries with the right evidence; the summary satisfies the auditor |
| Audits (`audit_results.py` and others) | none | check result files, case files, manifests | files of the runner | accept what a correct run writes |
| Empirical replay (`validate_empirical.py`, `replay_case.py`) | the case's directory: object, log, pin; it outlives a replay | check the stored log, build, load, parse the fresh log, compare | make, clang, bpftool, the kernel | valid means that the source as it is now is rejected as recorded |
| Scripts (`wait-for-crate.sh`, skill scripts, evaluation) | none | bounded polling, wrappers | crates.io, build commands | bounded waiting |

## Modules

| Module | Models | State |
|---|---|---|
| `BpfProgram` | both forms of a program; `lift`, `lower`, `rebuild_cfg_edges` as functions | none |
| `CfgFlow` | reference definition: what a program does, independent of its blocks | none |
| `ProgramCFG` | a lifted program under its mutation API, one action per call | `blocks`, `entry`, `prog_type`, `derived_facts_dirty`, `facts`; history: `source`, `calls`, `last` |
| `DataFlow` | the rebuild of derived facts sweep by sweep, then the program's execution next to them | `prog`, `phase`, `uses`, `defs`, `in_states`, `use_def`, `live_in`, `live_out`, `facts`; the machine: `frames` |
| `PassBatch` | passes that collect sites and edit them in reverse, between other calls of the mutation API | those of `ProgramCFG`; `queue`, `running`, `insns_before`; history: `gone` |
| `KinsnRegistry` | the registry and the shift of `target.json` offsets | `by_name`, `by_call`, `target`, `map_count` |
| `OracleReport` | the oracle's report, return code and the stage the runner derives from them; `IsOutcome`, the abstract promise of an oracle run | none |
| `BenchCase` | one oracle run (`run_case`) statement by statement; each command succeeds, fails or times out | `shape`, `pc`, `report`, `functional`, `stdout`, `returncode`, `pins`, and what was left behind |
| `OracleVerdict` | abstract: an oracle run judges once, releases what it pinned, and is gone; releasing may spoil a pass and nothing else | `phase`, `verdict` |
| `RepairPolicy` | abstract: cases in order, at most `budget` calls each, none after a pass, a report of the passed cases or none | `selected`, `budget`, `calls`, `passed`, `ended`, `reported` |
| `AttemptCost` | token usage of a reply and the sums over attempts | none |
| `ResultsAudit` | `audit_one_summary` of `audit_results.py` | none |
| `RunSuite` | a benchmark run: cases, attempts, retries, summary; uses the three above, and an oracle that yields any `IsOutcome` | `args`, `pc`, `attempt`, `retry_context`, `attempts`, `summary`, `written`, `exit` |
| `Classifier` | the pattern table of `classifier.rs` and what each kind of rejection says | none |
| `ProofEvents` | queries over source comments, events per obligation | none |
| `ProofSignals` | what each signal predicate asks of message, obligation, register, instruction, sources and events | none |
| `SignalPipeline` | registry order, fallbacks, the signal table, the stable sort | none |
| `Diagnose` | one run of the CLI after the log has been cut: parse, analyse, build the report, exit | `input`, `phase`, `events`, `shown`, `signals`, `parse_failed`, `report`, `exit` |
| `LogLines` | lines as what the parsers tell apart; cutting the log, terminal error, source comments, libbpf scopes, the corpus parser; each parser with its own list of error messages | none |
| `LogSession` | a process loading objects, libbpf and the kernel printing about it (external); the parsers of `LogLines` are applied to every log they can have printed | `format`, `listing`, `log`, `load`, `open`, `run`, `runs`, `rejections` |
| `StateRows` | parsed states as rows; windows, frames and path snapshots | none |
| `VerifierWalk` | the kernel's walk over a program and the rows it prints (external), against which `StateRows` is checked | `prog`, `frames`, `pc`, `edge`, `pending`, `rows`, `line`, `steps`, `over` |
| `Replay` | a case replayed while its source is edited | the kernel and the recipe (`behaviour`, `echo`), the directory (`source`, `object`, `log`, `pinned`, `clock`), the replay (`pc`, `before`, `build`, `load`, `case_report`, `replays`), `cut`, `late` |
| `MC...` | the small instances for TLC | |
| `ProgramCFGProofs` (with `PassBatch`), `KinsnRegistryProofs`, `DataFlowProofs`, `VerifierWalkProofs`, `DiagnoseProofs`, `ReplayProofs`, `BenchCaseProofs`, `RunSuiteProofs` | theorems about the module of that name, each with its inductive invariant | |

`RunSuite` and `BenchCase` meet in `OracleReport`: `BenchCase` is checked to end in
an `IsOutcome` (invariant `KeepsContract`), and `RunSuite` lets its oracle return
every `IsOutcome` and nothing else, so what holds of `RunSuite` holds with the real
oracle in place. `PassBatch` extends `ProgramCFG`: its edits are the API's own
`try_replace_range`, its result is invalidated by the API's own operator.

### Refinement

`BenchCase` implements `OracleVerdict` and `RunSuite` implements `RepairPolicy`
(`INSTANCE ... WITH`, properties `ImplementsVerdict` and `ImplementsPolicy`). An
oracle run maps to *judging* until its report, return code and stage are settled,
then to *releasing* while the pins are removed; commands inside a phase are
stuttering. A benchmark run maps to the attempts recorded per case, the passed
cases among them, and the summary written in the end. The abstract specifications
state that the end comes as `<>(phase = "done")` and `<>ended`, without fairness of
their own actions: what makes it come are the timeouts of the detailed ones. That the
initial states map to initial states and every step to a step or to stuttering is
proved (`VerdictGivenOnce`, `PolicyImplemented`); that the end comes is checked by TLC.

### Conventions

Blocks, slots and sites are numbered from 1 (from 0 in the code) and `None` is 0.
An instruction is its class (`op`) and its identity (`insn`: the position it had in
the program first lifted, `None` for one a pass built). A call of the mutation API
that returns an error leaves the program unchanged, because `try_mutate` works on a
clone, so it is a stuttering step and an action's guard is the condition for `Ok`.

A definition whose name carries a capitalised suffix (`Mutate_KeepsFlag`) is a
deliberately wrong variant of the definition that follows it: no specification uses
it; it shows that the property next to it would notice such a bug.

## Runs

| Run | Question | Bounds, and why they are enough |
|---|---|---|
| `cfg_edits` | do metadata, cached facts, references, meaning and layout survive every operation of the mutation API and every batch of a pass, in every order? can the result be lowered and lifted again? | five programs (a diamond over a two-slot load; a callback reference with a loop; a subprogram call with a packed kinsn call and an unreachable block; a jump to the next instruction; a body of three instructions with a two-slot load), two edits deep, at most 5 blocks, batches of one and two sites that delete, shrink, keep or grow, and fail; every state is lowered and lifted; 165 197 states. Two edits show what one leaves for the next (stale predecessor lists, flags, numbers, moved sites); the restructuring properties relate one state to its predecessor, so deeper sequences add states and no new kind of step |
| `kinsn` | do the indices agree after any registrations? do shifted offsets stay apart and inside 16 bits? | three targets on three calls are the least in which two targets swap calls through a third; offsets from both ends of the 16-bit range |
| `data_flow` | is anything missing from the derived facts, is anything in them that no path justifies, do the loops end? | every assignment of a few instruction sequences to the blocks of a diamond, three loops, a subprogram call and a program with an unreachable block, up to four blocks, some of them empty, with packed and unpacked kinsn calls; 3-bit and 2-bit words in the place of 64 and 32 bits, so that sums wrap, saturate and overflow within reach |
| `log_session` | is what is read out of a log about the last rejection? | two loads of two programs that share names and instruction numbers, two verifications of up to three instructions with jumps and resumed branches, with and without the listing of live registers before the walk; messages of one, two and three lines, one the parser cannot join, and messages that only one of the two parsers knows in whole or in part; checked after every line, so on truncated logs too; 603 970 states |
| `verifier_walk` | is the state read above an instruction the one last printed on its path? | every program of three instructions with at most one branch, behind one that makes R6 readable, and a callee of one, walked for seven instructions, after each of which the precision marking may be logged or not, and with every choice of the registers a branch refines: two calls of one function, branches over calls, loops, a register refined without a row and shown later, a register left out of a row in the form of a full state and shown again; 2 732 472 states |
| `replay` | can something old pass for the recorded rejection, and can the output hide the log's? | every source recorded, rejected otherwise, rejected without an instruction or accepted, with and without output that looks like an error; one edit and three replays: an object, a log and a pin of the version before the edit can be met by any replay after it, and be left by a replay that itself met something old |
| `bench_case` | is the report consistent with where the run stopped; are pins removed; does it implement `OracleVerdict`? | cases with 0 or 2 map updates, so that the second can fail, and up to 3 tests, so that a failed one is followed by one that prepares maps and one that does not; with and without expected rejection; every command may succeed, fail or time out |
| `run_suite` | does the auditor accept every run; do retries carry the right evidence; do checkpoints and costs add up; does it implement `RepairPolicy`? | budgets of 0 to 2 cases and 1 to 3 attempts, with replies that report all, some or none of their usage |
| `diagnose` | is the merged report consistent, the best explanation chosen, the evidence shown? | 60 messages that reach every classification and every signal gate, 12 instruction sites, 7 source listings, one with comments that have no text, 6 combinations of state facts, up to two competing signals. Every one of the 69 signals is the reported one in some behaviour; two suffice because the report shows one and the rest only matter through the order of a pair |

The deadlock check is off where the modelled program or session ends (`DataFlow`,
`Diagnose`, `LogSession`, `Replay`, `VerifierWalk` and the runs on the same modules);
in all other specifications a state without a successor is an error. A property with
several conjuncts states one thing about one hazard from both sides (nothing missing,
nothing invented; the normal case and its one exception). `TypeOK` is checked for
`ProgramCFG` and proved for it, `KinsnRegistry`, `Replay`, `BenchCase` and `RunSuite`;
elsewhere it documents the values the variables take.

### Disagreements between the code and its documents

Three runs show one each (`findings`):

* `cfg_terminator_pc`: `merge_linear_chain` moves the last block's terminator into
  the first block and leaves the first block's `terminator_btf_pc` next to it.
* `defs_of_fetch`: `insn_use_def_pair` lists no definitions for atomic instructions
  that fetch, although they write a register.
* `primary_span`: the span shown is that of the comment with the largest pc up to the
  rejected one. The verifier does not repeat the comment of a line it is still on
  when it resumes another path, so the comment may be of another line.
  `TerminalIsLastRejection` shows that a straight walk in a marked log is safe.

Four more are exceptions written into a property that holds otherwise:

* `RetriesToldLatestFailure`: when the oracle raises, its output is not JSON,
  `oracle_retry_context` continues with an empty dict and never reaches the branch
  that quotes standard output and standard error, so the retry prompt holds no
  failure output (`run_suite.py` 492; `docs/evaluation/bpfix-bench-llm-repair-eval.md`
  391 promises the oracle's failure output).
* `InCatalogButPacketRange`: a packet access whose range was proved and lost again is
  reported as `lowering_artifact` under `BPFIX-E001`, a pair the error catalog does
  not list (`diagnostic/signal.rs` 174). The property says that it is the only one.
* `FactsHold`: the facts of the first block say that r1 is the context, also when the
  program jumps back to it (`bbprogram.rs` 1428).
* `RejectionIsReported`: the validator asks for a stored log that only its own replay
  writes and that is not under version control, so the first validation of a
  checkout fails for every case (`validate_empirical.py` 383).

### Fairness

Safety properties need none. `BenchCase` assumes weak fairness of `Step`: every
command runs under `subprocess.run(..., timeout=...)`, so each statement that is
reached is left. `RunSuite` assumes weak fairness of `Next`: the model call has a
timeout and the oracle ends by `ImplementsVerdict` of `BenchCase`. `DataFlow` assumes
weak fairness of the loops of a rebuild, which wait for nothing. `orphan_finishes`, the
late effect of a command that outlives its killed `sudo`, is not fair, nor are edits
and replays, logs that are being written, or passes: nothing makes them go on.

## Proofs

All theorems hold for every value of the constants under the named assumptions, which
TLC evaluates on the instances:

| Assumption | Module | Says |
|---|---|---|
| `ProgramsAssumption` | `ProgramCFG` | programs are sequences of instruction slots that lift accepts, an instruction is identified by the slot it starts in, and replacements are well formed |
| `BoundsAssumption` | `ProgramCFG`, `Replay` | the bounds on calls, blocks, edits, replays are natural numbers |
| `BatchAssumption` | `PassBatch` | so is the bound on the sites of a batch |
| `TargetsAssumption` | `KinsnRegistry` | names, ids, offsets and map counts are numbers, negative ids and offsets included |
| `ProgramsAssumption` | `VerifierWalk` | jumps stay inside the program and nothing falls off its end, which the kernel checks before it walks a program |
| `DataFlowAssumption`, `ProgramsAssumption` | `DataFlow` | registers are a part of r0 to r10 with r0, r1 and r10 in it; a program has a block, its edges stay inside it, and its instructions are of the kinds the module knows |
| `ListingsAssumption` | `Diagnose` | a source comment has a pc, a path, a line number and a text |
| `MessagesAssumption` | `Diagnose` | a message gives one reason: one about missing BTF does not speak of a pointer too. Only `BestIsChosen` uses it |
| `ShapesAssumption` | `BenchCase` | a case has some number of map updates, checks and tests |
| `BudgetsAssumption`, `RawUsagesAssumption` | `RunSuite`, `AttemptCost` | any number of cases, at least one attempt, token counts are integers or missing |

The bounds are arbitrary, so the theorems cover runs of any length. The other
assumptions (`SitesAssumption`, `MaxShownAssumption`, `LinesAssumption`) are for TLC
alone.

### The program representation

`ProgramCFGProofs` proves `TypeCorrect`, `NeverDangling`, `PredecessorsAlwaysRight`,
`VerifierStatesAlwaysMatch` and `TargetsAlwaysKept` from one inductive invariant

    Inv == TypeOK /\ Shape /\ PredecessorsInvertSuccessors /\ VerifierStatesMatchCode
             /\ TargetsKept /\ OriginalsOnce

`Shape` says that `blocks` is a sequence of blocks in which every reference, of a
terminator, of a callback load or of a predecessor list, is one of its numbers; it is
what renumbering has to keep, and `NoDanglingReference` follows from it. The stored
predecessor lists are right because an operation either rebuilds them (`MutateEdges`) or
leaves all terminators alone (`SameEdges`), which is an argument about steps from states
in which they were right. `TargetsKept` needs `Shape` too: it is about the block a
reference leads to, so an operation that renumbers has to move numbers and blocks alike
(`RenumberKept`, `RemapKept`), and one that edits has to leave the lead of a block that
others refer to where it was (`EditKept`). The initial state rests on the lemmas about
`BpfProgram` at the head of the module: every target is the start of a block, the blocks
partition the instruction boundaries in order, and lifting gives a sequence of blocks of
that shape. One lemma per operation shows that its result is a `GoodMutation` (blocks of
the right shape with the targets kept, a live entry, edges rebuilt or untouched), and
the common tail of all operations, `Mutate`, is dealt with once. `FactsAlwaysFresh` has
an induction of its own, since it depends on the flag, the facts and the code only.

`RecordsStayOrdered` is an action property: a step from a program whose records are in
order leads to one, unless the step permutes blocks. No original instruction is in the
program twice (`OriginalsOnce`), and every lemma about an operation also says that its
result is `Taken`, that is, has the original instructions it keeps in the order of the
blocks it was made from and none that was not there. The theorem says
nothing of a step after a permutation; `RecordsAlwaysOrdered` says that without
permutations every reachable program has its records in order.

The second half of the module is about `PassBatch`. `PendingMatches` says that a
candidate still to process finds the instructions it was collected for. It is inductive
together with `QueueOk`, whose heart is `LastFirst`: of two candidates in one block the
later site comes first and their ranges do not meet, so an edit changes nothing in front
of the sites that remain. `ReverseOrderIs` derives that order from the way sites are
sorted. `BatchKeepsProgram` and `BatchesKeepOrder` carry the theorems of `ProgramCFG`
over to specifications in which batches, also ones that stop half way, alternate with
other calls. `OnlyMatchedAreRemoved` needs `GoneOk` next to the queue: what is gone is
not in the program any more, so that an edit that removes the instructions of its window
(`EditOriginals`) removes the matched ones and no neighbour.

`KinsnRegistryProofs` proves `TypeCorrect`, `IndicesAlwaysAgree`,
`RegistrationUndisturbing`, `SlotsAlwaysBehindMaps` and `OffsetsStayApart`. The
agreement of the two indices is inductive with the type invariant; the order of removal
and insertion in `set_kinsn_call_for_target_name` is where the proof uses that the
target's old call is removed first.

### Derived facts

`DataFlowProofs` proves `UseDefIsExact` and `LivenessIsExact`, both about fixpoint loops
and about runs of a machine next to them, for programs of any shape and size. The
reference definitions (`ClearReach`: what is reached without a write on the way) are
themselves loops of a fixed number of rounds; `Saturates` shows that as many rounds as
there are locations are enough, by counting, and `ClearReachIs` that the result is the
least closed set.

`UseDefInv` has two halves. *Witnessed*: a definition in the state of a block reaches the
block on a path without another write; this holds after every sweep, since a sweep
follows edges. *Covered*: where the machine is, the last write of each register is in
the state that the fixpoint has there; this needs that a further sweep changes nothing,
which is how the loop ends. `UseDefIsExact` assumes `NoFetch`: a fetching atomic writes a
register that is missing from `defs` (finding `defs_of_fetch`), and then a read can see
a value that no definition has. `LivenessIsExact` needs no such assumption: a missing
write keeps a register live for longer, and the path on which a live register is read
is one without a write in `defs`. `LiveInv` says that a live register has a path to a
read, possibly through blocks without a site, that the table is closed under the edges
once the loop has ended, and that no register the machine has seen declared dead and has
not written since is live where it now is.

### Logs and replay

`VerifierWalkProofs` proves `ReadsCurrent` and `MissesOnlyRefinements` for every program
and a walk of any length. The properties are about the state in front of an instruction;
inductive is that the log has a full row `f` such that all rows from `f` on are of the
frame being walked, each readable register is shown by one of them, the last one with
the value it was last seen with, and registers but the argument that are unreadable are
shown by none (`PathSince`). Behind the last row that shows a register no row has the
form of a full state, unless the register is marked as dropped (`ShowsLast`): rows after
precision marking break a path into parts without leaving it. Calls, returns and resumed
branches break `PathSince`, but a full state is due behind each of them before the next
instruction is walked. What the code reads is then computed from `PathSince` alone:
`LatestIs`, `SnapshotIsOrHides` and `SnapshotHides` say what window, frame and resets make
of such rows. A row that is printed, in either form and of any registers, keeps it
(`PrintKeeps`, `PrintAfterKeeps`), and each instruction is such a row.

`ReplayProofs` proves `TypeCorrect`, `ValidReportsHold` and `RejectionsAreReported` for
any number of edits and replays. `RejectionsAreReported` asks for the quality ranks: the
rejection of an instruction outranks every message the output can hold, a bare one ties.
The invariant follows the files from their writers to
the report: an object newer than the source is of the source (`ObjectCurrent`); the log
is untouched between the look at its time and the load, and afterwards untouched or of
the source (`LogCurrent`); the report is the judgement of the files as they are
(`ReportCurrent`). The last two hold until a command that was cut off finishes late.

### Diagnosis

`DiagnoseProofs` proves five theorems for every set of messages, instructions, source
listings and answers about the verifier states. The invariant three of them share is
small: the signals are the sorted ones of the input's context, the report is merged from
the class of the message and the chosen signal, and the exit code is decided by the
kind.

`IdsMatchKinds` is a fact about the tables. A signal may turn an unknown message (E099)
into a supported report, and six of the signals that may do so bring no identifier
(`Unsettled`). None of them is ever found for such a message: its obligation is
`Unknown`, and the phrases these predicates ask for are all in `REJECTION_PATTERNS`, of
which it matches none (`UnknownHasNoUnsettled`). Adding a signal to
`can_replace_unsupported_terminal` without an identifier, or taking a phrase out of the
patterns, breaks this proof.

`ReportsTheBest` proves `ReportsBest`, the half of `ChosenIsBest` that is about ranks:
`SortedIs` says that the sort permutes the pushed signals by rank and then by place,
`PushedAt` that these are the predicates that hold, or else the first fallback, and the
first signal in that order that may override the class is the best of them. The other
half, `FallbacksReached`, is about `push_fallback`, which only asks whether the list is
empty: three signals may not override what the source is blamed for (`EnvironmentOnly`),
and if one of them held next to a fallback, neither would be reported. The fallbacks ask
for `PointerProvenance`, hence for a message without a phrase of an earlier pattern
(`PointerMessage`), and for an instruction that is no call, which rules out two of the
three. Nothing in the code rules out the third, `BtfFuncInfoMissing`, whose pattern comes
last; that is what `MessagesAssumption` is for, and with it `BestIsChosen` proves
`ChosenIsBest` as a whole.

`SpansAreStrongest` and `BlockShowsTheRejection` are about what the report shows of the
source. `SourceInv` says that the events are those of the analysis, that their sources
are comments of the log, and that the spans and the block are made from them. The rest is
about two functions of the standard library: a stable sort is a bijection ordered by rank
and then by place (`Sorting`), and removing neighbours keeps, for every element it drops,
an equal one before it (`Deduping`, whose induction runs along the list). Evidence is
part of the rank of a span and line numbers of that of a block line, so the first span of
a place is the strongest, and the marked line, if the rejected comment has a text, is not
removed in favour of another.

### Benchmark

`BenchCaseProofs` proves `TypeCorrect`, `ContractKept`, `StageIsTheStop`,
`PinsAreRemoved` and `VerdictGivenOnce` for cases of any shape. While the oracle judges,
its report says nothing of the steps ahead (`Ahead`), nothing bad of the steps behind
(`Behind`), and the tests made so far determine where it stopped (`TestsMade`); a
printed report has its first failure at the stop (`Settled`); pins are accounted for
next to that (`PinsKnown`).

`RunSuiteProofs` proves `TypeCorrect`, `RetriesAreTold`, `PolicyImplemented`,
`AuditAccepts` and `SummaryAlwaysAddsUp` for every budget. `Inv == Typed /\ Phase /\
Recorded` says of the attempt under way that the context it will be told is that of the
latest answered attempt of its own case, and of finished cases that they stopped at the
first pass or used all their attempts. `AuditAccepts` needs `Auditable` on top: each row
and attempt, when it is recorded, already has the fields the auditor will compare.
`SummaryAlwaysAddsUp` follows from the same two. A trajectory below its budget has
passed within `k` attempts exactly if it is no longer than `k` (`PassWithin`), so the
calls of two neighbouring checkpoints differ by one for each case not yet passed
(`FlattenGrows`, by induction along the rows); the sum over all attempts is the sum of
the rows' sums (`SumFlatten`), a missing number makes every total that includes it
unknown (`TotalOfRows`), and a longer prefix costs no less (`PrefixSums`).
`ContractKept` and these theorems together speak of runner and oracle as one system,
since `RunSuite` assumes of its oracle exactly what `ContractKept` proves.

### Only model-checked

* Liveness under fairness is out of the prover's reach: `RebuildEnds`, and that the end
  comes in `ImplementsVerdict` and `ImplementsPolicy`.
* `RestructuringKeepsFlow` and `LoweringKeepsFlow` compare the graphs of effective
  instructions of two programs, each computed by following empty blocks and edges for as
  many rounds as there are sites. A proof would be a simulation for every operation,
  through chains of blocks without effect. What a reference leads to is proved
  (`TargetsAlwaysKept`).
* `LayoutKept` rests on the addresses `assign_block_pcs` adds up and on jump offsets that
  fit into 16 bits: in a program large enough an insertion pushes one out of range, so
  the property needs a bound on the size of programs that no assumption states.
* `FactsHold` is arithmetic modulo `2^W` and comparisons of intervals for a width that is
  a parameter, which is not linear.
* `LogSession` (`TerminalIsLastRejection`, `ScopeIsOfRejected`, `CorpusParserAgrees`):
  what a parser that filters, joins and folds makes of a log of any length.
* `InCatalogButPacketRange` depends on which phrases occur together in a message, for
  every signal that has a class and no identifier; the code does not say which do.

## What the models leave out, and what to know about them

Program representation:

* `lower` ignores `prog.entry` and emits blocks in their order; only
  `permute_blocks` can move the entry, so `LoweringKeepsFlow` is about programs with
  the entry first.
* `lower` compares positions, so a circle of empty fallthrough blocks passes its
  adjacency check (`NoIdleLoop` excludes it), and merging a branch or call whose
  target is its own successor drops the instruction (`NoDegenerateBranch`).
  Blocks that end the program without a terminator are excluded from `LayoutKept`
  (`NoEnd`).
* `delete_unreachable_blocks` returns an error when a callback block is reachable
  through a function-pointer load only; the `CrossesSubprog` check never fires for
  ranges inside one block; a failed rebuild of facts leaves the flag up.
* A shift of offsets that fails leaves the targets before the failing one shifted
  (`map_count = Failed`); the caller returns the error.
* Map references, the choice among several verifier states of one pc and BTF record
  bytes are not modelled.
* The programs of `data_flow` hold no fetching atomics (`defs_of_fetch` has them).
  Legacy packet loads are not modelled; of an `LD_IMM64` only
  plain constants are (the code takes the descriptor of a pseudo load for a constant).
  A packet offset saturates at 32 bits in the code; the machine is restricted to
  offsets the verifier admits. `last_data_load` is kept across a fallthrough into the
  next block, although its comment says "same block"; the fact `Scalar` is declared
  and never produced.
* `PassBatch` takes sites as `scan_block_starts` yields them, in layout order and
  without overlap. `delete_body_sites_reverse` sorts and keeps duplicates,
  `apply_candidates_reverse` does neither; a pass that handed them a site twice would
  edit the neighbour. The passes are not in the repository.

Logs:

* A line is its kind and the numbers on it; the regular expressions that recognise
  kinds are left out. The verifier and libbpf are external and modelled from the
  captures the corpus and the benchmark keep.
* Newer kernels list the live registers of all instructions before the walk
  (`bpfix-bench/cases/*/verifier.log`), in rows that `parse_instruction_line` accepts. If
  no call was walked before the error, `nearest_call_target` returns the last call of the
  listing, which need not be on any path; if no instruction was walked, the pc is that of
  the last row. Both are of the program that was rejected. `TerminalIsLastRejection`
  states this as it is.
* `TERMINAL_ERROR_MARKERS` and `_looks_like_terminal_error` are two lists of phrases. A
  line of a message is a class, by which of the lists it is on: "math between pkt pointer
  and ... is not allowed" and the second line of a reference leak are on the corpus' only,
  "unknown func" and the later lines of two messages on the diagnostic's only. Of a
  rejection with no line on its list the diagnostic says nothing, and explains an
  earlier rejection of the same capture if there is one. A row of states or
  instructions is taken to hold no phrase of either list; Python does not exclude them.
* In a log without markers the region starts at the first line of any verification,
  so comments of programs verified before take part in `source_for_pc`.
* `terminal_error_line_in_log` searches the log for the joined message; one of
  several lines is not found, and section and struct stay unknown
  (`ScopeIsOfRejected` asks for a section only for messages of one line).
* The kernel prints behind an instruction its operands only. A branch also refines
  registers linked with its operands, which no row shows (registers of the callers too,
  which the full row on return shows); what is read of such a register is older than what
  the verifier knows until the register is printed again. `Branch` refines any subset of
  the readable registers of its frame, and `StatesReadAreCurrent` compares with the value
  last printed (`seen`), the most that can be read out of a log.
* When the marking of precise registers is logged, the operands follow on a line of their
  own ("17: R1=... R2=..."), which `parse_pc_state_line` takes for a full state. It starts
  the snapshot of the path anew, so registers printed before and not on that line are
  missing from `verifier_path_snapshot` until they are printed again (`dropped`);
  `latest_reg_state_before_instruction` still finds them. The lines of the marking itself
  are not counted, since rows are compared by the order of their lines only.
* The window of `states_in_instruction_window` is by pc. A jump back is not printed
  as a state, so rows above its target fall out of the window and older values are
  read until the registers are printed again; `Followed` leaves these registers out.
  Calls do not print what they make unreadable, so the argument register can stay in a
  snapshot. A frame number that is used again can show `latest_reg_state` a register
  of the earlier activation which is unreadable in this one.
* An instruction that reads a register it may not read is not walked: the kernel rejects
  the program there and the log ends.
* `latest_reg_state_before`, which knows no window, stack bytes and reference ids are
  left out.

Replay:

* `make` is modelled by its rules and modification times. A command cut off by its
  timeout keeps running below its killed shell; when it finishes later (`late`) its
  object or log can be taken for the current one, which `ValidMeansRejectedNow`
  excludes.
* The error of the log replaces that of the output only if its `_quality_rank` is higher.
  A rejection without an instruction in the log ("bare", the status
  `replay_reject_no_rejected_insn` of the corpus) ties with an echoed recipe that looks
  like an error, and the echo is reported. No case records such a rejection, so none is
  valid because of it.
* Checks of metadata, hashes and manifests are left out.

Benchmark:

* Left out: wall-clock times, prompt texts, smoke modes, the auditor's checks of
  metadata and JSON types, the log predicates of `bpf_case.py` (each is a choice).
* An empty list of attempts stands for a row without attempts (a prompt-only run);
  its stage is the one `stage_for_result` fills in.
* `uncaught_exception` covers errors of `build_prompt` and replies that are not
  UTF-8, which end the run.
* The auditor's `ALLOWED_FAILURE_STAGES` lacks `oracle_parse` and `oracle`, the stages
  of an oracle that raised or could not clean up. `AuditAcceptsRuns` says that this is
  the only reason for which it refuses what the runner writes.

Diagnostics:

* What a predicate asks of the verifier states and of the instruction text beyond
  its class is the input `shown`: any set of at most `MaxShown` signals. The choice
  is independent of the other inputs, so the model has more behaviours than the code.
* Texts are sets of the predicates that hold of them, with one distinguishing
  element. Help texts, next actions, the wording of required proofs, object metadata
  and `--doctor` are left out.
* A comment without a text (`;  @ candidate.bpf.c:0`) is a source like any other for the
  events, but `render_source_block` does not push the rejected line then: the block marks
  no line, which `BlockShowsRejection` states.
* Two files that share a line number can interleave in the sort of related spans, and
  a location is then listed twice; `SpansShowStrongest` asks about the first.
* `IdMatchesKind` does not follow from the signal table alone: six signals may replace an
  unknown message and have no identifier of their own
  (`MapValueGuardExceedsValueSize`, `ContextAccessSourceArgumentMismatch`,
  `MapLookupKeyArgumentUnreadable`, `PacketGuardUndercoversAccess`,
  `PacketMaxOffsetPrecisionBoundary`, `MapValueRelationPrecisionBoundary`). Only their
  gates on message and obligation keep them away from unknown messages.

Not modelled: the text of single log lines, the helper table and instruction bit
fields (data), ELF and BTF decoding (third-party crates, pure I/O), the audits of case
files and manifests (content of files), `wait-for-crate.sh` and the skill scripts (a
loop of twelve polls and wrappers around one command, which keep nothing), statistics
over evaluation results.

## Plan

Modelled so far, in this order: the program representation and its mutation API; the
registry; the benchmark with its oracle; the diagnostic pipeline; derived facts; pass
batches; log input and libbpf scopes; states above an instruction; the replay; the two
abstract specifications. What is left:

1. Proofs: `RestructuringKeepsFlow`, operation by operation; the parsers of `LogLines`
   on the logs `LogSession` prints.
2. `Diagnose` takes its terminal error and spans as inputs; composing it with
   `LogSession` would replace them by parsed ones.
3. Map references and state selection of `lift`; `remap_btf_records`.
