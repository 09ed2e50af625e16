---------------------------- MODULE ResultsAudit ----------------------------
(***************************************************************************)
(* audit_results.py: the errors the auditor finds in a summary.json.  Left *)
(* out are the checks of fields that are no part of the run's behaviour    *)
(* (git state, tool chain, model digest, split file) and of JSON types.    *)
(***************************************************************************)
EXTENDS AttemptCost

ALLOWED_FAILURE_STAGES ==
    {"pass", "prompt_only", "model_call", "extract_source", "compile", "map_setup",
     "verifier_load", "functional_oracle", "auxiliary_proof_predicate"}

(* The statuses a stage may go with, as the row checks have it.             *)
Compatible(status, stage) ==
    /\ status = "pass" => stage = "pass"
    /\ status = "fail" => stage \notin {"pass", "prompt_only", "model_call", "extract_source"}
    /\ status = "model_error" => stage \in {"model_call", "extract_source"}

(* The rows of audit_one_summary.  `prompts` is the prompt manifest.        *)
RowErrors(row, prompts, allow_prompt_only) ==
    {e \in {"prompt-only row", "prompt mismatch", "invalid failure_stage",
            "incompatible failure_stage"} :
        \/ e = "prompt-only row" /\ row.status = "prompt_written" /\ ~allow_prompt_only
        \/ e = "prompt mismatch" /\ row.prompt # prompts[row.case]
        \/ e = "invalid failure_stage" /\ row.failure_stage \notin ALLOWED_FAILURE_STAGES
        \/ /\ e = "incompatible failure_stage"
           /\ row.failure_stage \in ALLOWED_FAILURE_STAGES
           /\ ~Compatible(row.status, row.failure_stage)}

(* The part of audit_cost_metrics that looks at one row; limit is the       *)
(* declared repair_policy.max_attempts.                                     *)
AttemptErrors(row, limit) ==
    LET attempts == row.attempts
        last == Last(attempts)
    IN  {e \in {"attempt number", "usage", "after a pass", "exceeds", "stops early",
                "not its last attempt", "row cost"} :
            \/ e = "attempt number" /\ \E k \in DOMAIN attempts : attempts[k].attempt # k
            \/ /\ e = "usage"
               /\ \E k \in DOMAIN attempts :
                      normalize_token_usage(attempts[k].api_usage) # attempts[k].token_usage
            \/ e = "after a pass" /\ HasPass(Front(attempts))
            \/ limit # Unreported /\ e = "exceeds" /\ Len(attempts) > limit
            \/ /\ limit # Unreported /\ e = "stops early"
               /\ Len(attempts) < limit /\ last.status # "pass"
            \/ /\ e = "not its last attempt"
               /\ <<row.status, row.failure_stage>> # <<last.status, last.failure_stage>>
            \/ e = "row cost" /\ row.cost # aggregate_attempt_cost(attempts)}

audit_cost_metrics(summary, require_cost_metrics) ==
    LET results == summary.results
        limit == summary.max_attempts
        checkpoints == summary.policy_checkpoints
        count == IF limit = Unreported THEN Len(checkpoints) ELSE limit
    IN  (UNION {AttemptErrors(results[r], limit) :
                   r \in {i \in DOMAIN results : results[i].attempts # <<>>}})
        \union
        {e \in {"max_attempts required", "attempts required", "summary cost",
                "checkpoint count", "checkpoints"} :
            \/ e = "max_attempts required" /\ require_cost_metrics /\ limit = Unreported
            \/ /\ e = "attempts required" /\ require_cost_metrics
               /\ \E r \in DOMAIN results :
                      results[r].attempts = <<>> /\ results[r].status # "prompt_written"
            \/ e = "summary cost" /\ summary.cost # aggregate_attempt_cost(AllAttempts(results))
            \/ e = "checkpoint count" /\ Len(checkpoints) # count
            \/ e = "checkpoints" /\ checkpoints # repair_policy_checkpoints(results, count)}

audit_one_summary(summary, prompts, allow_prompt_only, require_cost_metrics) ==
    LET results == summary.results
    IN  (UNION {RowErrors(results[r], prompts, allow_prompt_only) : r \in DOMAIN results})
        \union audit_cost_metrics(summary, require_cost_metrics)
        \union
        {e \in {"total", "passed", "duplicate cases"} :
            \/ e = "total" /\ summary.total # Len(results)
            \/ /\ e = "passed"
               /\ summary.passed #
                      Cardinality({r \in DOMAIN results : results[r].status = "pass"})
            \/ /\ e = "duplicate cases"
               /\ Cardinality({results[r].case : r \in DOMAIN results}) # Len(results)}

=============================================================================
