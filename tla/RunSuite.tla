------------------------------ MODULE RunSuite ------------------------------
(***************************************************************************)
(* The benchmark runner, run_suite.py: for each case it writes a prompt,   *)
(* asks a model for a repair, extracts the source, runs the case's oracle  *)
(* on it, and tries again with what went wrong until the oracle passes or  *)
(* the attempts are used up.  Rows are collected and written as one        *)
(* summary at the end; an uncaught exception ends the run without one.     *)
(*                                                                         *)
(* The model endpoint and the oracle are the environment: a call may fail  *)
(* in transport, return a malformed reply with or without usage, or return *)
(* text with or without a source; the oracle gives one of the Verdicts its *)
(* contract (OracleReport) allows.  --smoke and --fixed-smoke, which make  *)
(* no summary, are left out.                                               *)
(***************************************************************************)
EXTENDS OracleReport, ResultsAudit

CONSTANTS
    Budgets     \* runs: cases selected, attempts per case, usage the provider sends

ASSUME BudgetsAssumption ==
    Budgets \subseteq [cases: Nat, repair_attempts: Nat \ {0}, usages: SUBSET RawUsages]

VARIABLES
    args,           \* the run's arguments: budget and kind
    pc,
    attempt,        \* number of the attempt under way
    retry_context,  \* <<context>> or <<>>
    api_usage,      \* usage the reply under way came with
    attempts,       \* of the case under way
    summary,        \* rows of the finished cases
    written,        \* <<summary.json>> once written
    exit            \* exit status, Unreported while running

vars == <<args, pc, attempt, retry_context, api_usage, attempts, summary, written, exit>>

Kinds == {"model", "candidate", "prompt_only"}

case == Len(summary) + 1

(* A prompt is the case's base prompt and the context appended to it, and   *)
(* stands for its digest.                                                   *)
append_retry_context(c, context) == [case |-> c, context |-> context]

base_prompt(c) == append_retry_context(c, <<>>)

(* What a retry is told: which attempt it is about, and the output quoted.  *)
Context(stage, evidence) ==
    [case |-> case, attempt |-> attempt, stage |-> stage, evidence |-> evidence]

Init ==
    /\ args \in [budget: Budgets, kind: Kinds]
    /\ args.kind = "candidate" => args.budget.cases = 1
    /\ pc = "case"
    /\ attempt = 0
    /\ retry_context = <<>>
    /\ api_usage = NoApiUsage
    /\ attempts = <<>>
    /\ summary = <<>>
    /\ written = <<>>
    /\ exit = Unreported

(* repair_policy.max_attempts of the run's metadata.                        *)
MaxAttempts == IF args.kind = "model" THEN args.budget.repair_attempts ELSE Unreported

(* A row: prompt_info, spread last, puts the base prompt in place of the    *)
(* last attempt's.  The stage of a row that only had its prompt written is  *)
(* the one the auditor fills in (stage_for_result).                         *)
Row_LastPrompt(status, stage, tried) ==
    [case |-> case, status |-> status, failure_stage |-> stage, attempts |-> tried,
     prompt |-> IF tried = <<>> THEN base_prompt(case) ELSE Last(tried).prompt,
     cost |-> aggregate_attempt_cost(tried)]

Row(status, stage, tried) ==
    [case |-> case, status |-> status, failure_stage |-> stage, attempts |-> tried,
     prompt |-> base_prompt(case), cost |-> aggregate_attempt_cost(tried)]

-----------------------------------------------------------------------------
(* The head of the case loop, up to the first attempt.  The variant forgets *)
(* that retry_context belongs to one case.                                  *)
BeginAttempts_SameContext ==
    /\ pc' = "attempt"
    /\ attempt' = 1
    /\ attempts' = <<>>
    /\ UNCHANGED <<retry_context, summary>>

BeginAttempts ==
    /\ pc' = "attempt"
    /\ attempt' = 1
    /\ attempts' = <<>>
    /\ retry_context' = <<>>
    /\ UNCHANGED summary

start_case ==
    /\ pc = "case" /\ Len(summary) < args.budget.cases
    /\ \/ args.kind = "model" /\ BeginAttempts
       \/ /\ args.kind = "candidate"
          /\ pc' = "oracle"
          /\ UNCHANGED <<attempt, retry_context, attempts, summary>>
       \/ /\ args.kind = "prompt_only"
          /\ summary' = Append(summary, Row("prompt_written", "prompt_only", <<>>))
          /\ UNCHANGED <<pc, attempt, retry_context, attempts>>
    /\ UNCHANGED <<args, api_usage, written, exit>>

AttemptResult(status, stage, usage) ==
    [attempt |-> attempt, status |-> status, failure_stage |-> stage,
     prompt |-> append_retry_context(case, retry_context),
     api_usage |-> usage, token_usage |-> normalize_token_usage(usage)]

(* The loop goes on unless the attempt passed or was the last.              *)
LoopEnds(status) == status = "pass" \/ attempt = args.budget.repair_attempts

(* One attempt_result goes on record.                                       *)
RecordAttempt(status, stage, usage, context) ==
    /\ attempts' = Append(attempts, AttemptResult(status, stage, usage))
    /\ api_usage' = NoApiUsage
    /\ IF LoopEnds(status)
       THEN pc' = "finish" /\ UNCHANGED <<attempt, retry_context>>
       ELSE pc' = "attempt" /\ attempt' = attempt + 1 /\ retry_context' = context

(* Transport errors, and replies without usable content: the same prompt is *)
(* tried again, and the attempt is used up (it is not in the variant).      *)
ModelFailure_Free(usage) ==
    /\ api_usage' = usage
    /\ UNCHANGED <<attempts, pc, attempt, retry_context>>

ModelFailure(usage) == RecordAttempt("model_error", "model_call", usage, retry_context)

call_openai_compatible ==
    /\ pc = "attempt"
    /\ \/ ModelFailure(NoApiUsage)
       \/ \E usage \in args.budget.usages : ModelFailure(usage)
       \/ \E usage \in args.budget.usages :
              /\ api_usage' = usage
              /\ pc' = "extract"
              /\ UNCHANGED <<attempt, retry_context, attempts>>
    /\ UNCHANGED <<args, summary, written, exit>>

extract_source ==
    /\ pc = "extract"
    /\ \/ /\ pc' = "oracle"
          /\ UNCHANGED <<attempt, retry_context, attempts, api_usage>>
       \/ RecordAttempt("model_error", "extract_source", api_usage,
                        <<Context("extract_source", {"response"})>>)
    /\ UNCHANGED <<args, summary, written, exit>>

Status(verdict) == IF verdict.returncode = 0 THEN "pass" ELSE "fail"

run_oracle ==
    /\ pc = "oracle"
    /\ \E verdict \in Verdicts :
           \/ /\ args.kind = "model"
              /\ RecordAttempt(Status(verdict), verdict.failure_stage, api_usage,
                     <<Context(verdict.failure_stage, verdict.evidence)>>)
              /\ UNCHANGED summary
           \/ /\ args.kind = "candidate"
              /\ summary' = Append(summary, Row(Status(verdict), verdict.failure_stage, <<>>))
              /\ pc' = "case"
              /\ UNCHANGED <<attempt, retry_context, attempts, api_usage>>
    /\ UNCHANGED <<args, written, exit>>

finish_case ==
    /\ pc = "finish"
    /\ summary' = Append(summary, Row(Last(attempts).status, Last(attempts).failure_stage, attempts))
    /\ pc' = "case"
    /\ UNCHANGED <<args, attempt, retry_context, api_usage, attempts, written, exit>>

Passed == Cardinality({r \in DOMAIN summary : summary[r].status = "pass"})

ResultSummary ==
    [total |-> Len(summary), passed |-> Passed,
     cost |-> aggregate_attempt_cost(AllAttempts(summary)),
     policy_checkpoints |-> repair_policy_checkpoints(summary, MaxAttempts),
     max_attempts |-> MaxAttempts,
     results |-> summary]

(* The exit status of a run that got to its end.                            *)
ExitStatus == IF args.kind = "prompt_only" \/ Passed = Len(summary) THEN 0 ELSE 1

write_summary ==
    /\ pc = "case" /\ Len(summary) = args.budget.cases
    /\ written' = <<ResultSummary>>
    /\ exit' = ExitStatus
    /\ pc' = "done"
    /\ UNCHANGED <<args, attempt, retry_context, api_usage, attempts, summary>>

(* An exception nobody catches: no prompt can be built (files, the token    *)
(* counter of matched-raw-tail), or a reply is not UTF-8.                   *)
uncaught_exception ==
    /\ \/ pc = "case" /\ Len(summary) < args.budget.cases
       \/ pc = "attempt"
    /\ exit' = 1
    /\ pc' = "done"
    /\ UNCHANGED <<args, attempt, retry_context, api_usage, attempts, summary, written>>

Exited == pc = "done" /\ UNCHANGED vars

Next ==
    \/ start_case \/ call_openai_compatible \/ extract_source \/ run_oracle
    \/ finish_case \/ write_summary \/ uncaught_exception \/ Exited

(* The model call has a timeout and the oracle ends (BenchCase), so every   *)
(* statement that is reached is left.                                       *)
Spec == Init /\ [][Next]_vars /\ WF_vars(Next)

-----------------------------------------------------------------------------
(* The values main's variables take; no case uses more than its budget.     *)
TypeOK ==
    /\ args \in [budget: Budgets, kind: Kinds]
    /\ pc \in {"case", "attempt", "extract", "oracle", "finish", "done"}
    /\ attempt \in 0..args.budget.repair_attempts
    /\ Len(retry_context) <= 1 /\ Len(written) <= 1
    /\ api_usage \in RawUsages \union {NoApiUsage}
    /\ Len(attempts) <= args.budget.repair_attempts
    /\ Len(summary) <= args.budget.cases
    /\ exit \in {Unreported, 0, 1}

Prompts == [c \in 1..args.budget.cases |-> base_prompt(c)]

Errors(allow_prompt_only, require_cost_metrics) ==
    audit_one_summary(written[1], Prompts, allow_prompt_only, require_cost_metrics)

(* The auditor accepts what the runner writes, however the calls and the    *)
(* oracle went, but for one reason: a row whose oracle raised or could not  *)
(* clean up has a stage (oracle_parse, oracle) the auditor does not know.   *)
(* Local candidates cannot pass with cost metrics required, and prompt-only *)
(* runs only when allowed.                                                  *)
AuditAcceptsRuns ==
    written # <<>> =>
        LET unknown == {r \in DOMAIN summary : summary[r].failure_stage \in {"oracle_parse", "oracle"}}
            stage_errors == IF unknown = {} THEN {} ELSE {"invalid failure_stage"}
        IN  CASE args.kind = "model" -> Errors(FALSE, TRUE) = stage_errors
              [] args.kind = "candidate" ->
                     /\ Errors(FALSE, FALSE) = stage_errors
                     /\ Errors(FALSE, TRUE) # stage_errors
              [] args.kind = "prompt_only" ->
                     /\ Errors(TRUE, FALSE) = {}
                     /\ Errors(FALSE, FALSE) # {} <=> summary # <<>>

(* The attempt whose answer a retry has to be told about: the latest one    *)
(* that got an answer at all.                                               *)
LastAnswered(tried, k) == {j \in 1..(k - 1) :
    /\ tried[j].failure_stage # "model_call"
    /\ \A i \in (j + 1)..(k - 1) : tried[i].failure_stage = "model_call"}

(* The output quoted is that of the step the failure stage names.           *)
QuotesStage(context) ==
    /\ context.stage = "compile" => context.evidence = {"compile"}
    /\ context.stage = "verifier_load" => context.evidence = {"load"}
    /\ context.stage = "functional_oracle" => context.evidence = {"checks"}

ToldAbout(c, tried, k) ==
    LET prompt == tried[k].prompt
    IN  /\ prompt.case = c
        /\ {prompt.context[i].attempt : i \in DOMAIN prompt.context} = LastAnswered(tried, k)
        /\ \A i \in DOMAIN prompt.context :
               /\ prompt.context[i].case = c
               /\ prompt.context[i].stage = tried[prompt.context[i].attempt].failure_stage
               /\ QuotesStage(prompt.context[i])

(* Every prompt of every attempt carries the failure of the latest answered *)
(* attempt of its own case, and nothing else: a transport or malformed      *)
(* failure repeats the previous prompt, a new case starts without context.  *)
(* The context quotes the output of the step that failed.  (It quotes       *)
(* nothing of an oracle that raised: oracle_retry_context goes on with an   *)
(* empty report and never gets to the branch for its output.)               *)
RetriesToldLatestFailure ==
    /\ \A k \in DOMAIN attempts : attempts[k].prompt.case = case =>
           ToldAbout(case, attempts, k)
    /\ \A r \in DOMAIN summary : \A k \in DOMAIN summary[r].attempts :
           ToldAbout(r, summary[r].attempts, k)

CheckpointsNest ==
    written # <<>> /\ args.kind = "model" =>
        LET cp == written[1].policy_checkpoints
        IN  /\ Len(cp) = args.budget.repair_attempts
            /\ cp[1].cost.model_calls = Len(summary)
            /\ \A k \in 1..(Len(cp) - 1) :
                   /\ cp[k].passed <= cp[k + 1].passed
                   /\ cp[k + 1].cost.model_calls - cp[k].cost.model_calls
                          = Len(summary) - cp[k].passed
                   /\ \A f \in TOKEN_USAGE_FIELDS :
                          cp[k + 1].cost.totals[f] # Unreported =>
                              cp[k].cost.totals[f] \in 0..cp[k + 1].cost.totals[f]
            /\ cp[Len(cp)].passed = written[1].passed
            /\ cp[Len(cp)].cost = written[1].cost

TotalsAddUp ==
    written # <<>> =>
        \A f \in TOKEN_USAGE_FIELDS :
            LET total == written[1].cost.totals[f]
            IN  /\ total # Unreported <=>
                       \A r \in DOMAIN summary : \A k \in DOMAIN summary[r].attempts :
                           summary[r].attempts[k].token_usage[f] # Unreported
                /\ total # Unreported =>
                       total = sum([r \in DOMAIN summary |-> summary[r].cost.totals[f]])

(* What is written about a run adds up.  The checkpoints are policies nested *)
(* in one trajectory: the first makes one call per case, each later one      *)
(* calls again exactly for the cases not yet passed and loses no pass, and   *)
(* the last is the run itself.  A token total is reported only if every call *)
(* of the run reported that field, and then it is the sum of the rows': a    *)
(* missing value is never taken for zero.                                    *)
SummaryAddsUp == CheckpointsNest /\ TotalsAddUp

(* The calls made for a case, finished or under way.                        *)
AttemptsOf(c) ==
    IF c \in DOMAIN summary THEN summary[c].attempts
    ELSE IF \E k \in DOMAIN attempts : attempts[k].prompt.case = c THEN attempts
    ELSE <<>>

Policy == INSTANCE RepairPolicy WITH
    selected <- args.budget.cases,
    budget <- IF args.kind = "model" THEN args.budget.repair_attempts ELSE 0,
    calls <- [c \in 1..args.budget.cases |-> Len(AttemptsOf(c))],
    passed <- {c \in 1..args.budget.cases : HasPass(AttemptsOf(c))},
    ended <- pc = "done",
    reported <- IF written = <<>> THEN <<>>
                ELSE <<{r \in DOMAIN summary :
                          summary[r].status = "pass" /\ args.kind = "model"}>>

(* A run implements the repair policy the evaluation reads off its summary: *)
(* no call beyond the budget or after a pass, cases in order, and a report  *)
(* of exactly the cases a call of theirs passed, whatever mixture of        *)
(* transport errors, malformed replies and oracle failures came.  Local     *)
(* candidates and prompt-only runs make no call.  And it ends: every        *)
(* failure uses up one of finitely many attempts.                           *)
ImplementsPolicy == Policy!Spec

=============================================================================
