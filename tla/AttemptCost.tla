----------------------------- MODULE AttemptCost ----------------------------
(***************************************************************************)
(* What a benchmark run reports about its attempts: token usage as the     *)
(* provider gave it, cost totals, and the checkpoints that say what a      *)
(* policy of at most k attempts per case would have cost and repaired.     *)
(* Wall-clock times are left out.                                          *)
(*                                                                         *)
(* A result row that has no list of attempts (a local candidate, or a      *)
(* prompt that was only written) has the empty list here: the runner never *)
(* records an empty one.                                                   *)
(***************************************************************************)
EXTENDS Integers, Sequences, FiniteSetsExt, SequencesExt

CONSTANTS
    TOKEN_USAGE_FIELDS,
    RawUsages   \* usage objects a provider may send: field -> values at its paths

(* None, for a number.                                                      *)
Unreported == -1

ASSUME RawUsagesAssumption == RawUsages \subseteq [TOKEN_USAGE_FIELDS -> Seq(Int)]

(* No usage object, or one without a usable number.                         *)
NoApiUsage == [f \in TOKEN_USAGE_FIELDS |-> <<>>]

(* The first path that holds a non-negative integer.                        *)
first_reported_int(values) ==
    LET usable == {i \in DOMAIN values : values[i] >= 0}
    IN  IF usable = {} THEN Unreported ELSE values[Min(usable)]

normalize_token_usage(raw_usage) ==
    [f \in TOKEN_USAGE_FIELDS |-> first_reported_int(raw_usage[f])]

(* sum() of a list of numbers.                                              *)
sum(values) ==
    LET upto[n \in 0..Len(values)] == IF n = 0 THEN 0 ELSE upto[n - 1] + values[n]
    IN  upto[Len(values)]

(* The total of a field is known only if every call reported it; the wrong  *)
(* variant counts a missing value as zero.                                  *)
FieldTotal_Lenient(attempts, reported, field) ==
    sum([k \in DOMAIN attempts |->
            IF k \in reported THEN attempts[k].token_usage[field] ELSE 0])

FieldTotal(attempts, reported, field) ==
    IF Cardinality(reported) = Len(attempts)
    THEN sum([k \in DOMAIN attempts |-> attempts[k].token_usage[field]])
    ELSE Unreported

(* Every recorded attempt is a model call.                                  *)
aggregate_attempt_cost(attempts) ==
    LET Reported(f) == {k \in DOMAIN attempts : attempts[k].token_usage[f] # Unreported}
    IN  [model_calls |-> Len(attempts),
         coverage |-> [f \in TOKEN_USAGE_FIELDS |-> Cardinality(Reported(f))],
         totals |-> [f \in TOKEN_USAGE_FIELDS |-> FieldTotal(attempts, Reported(f), f)]]

AllAttempts(results) ==
    FlattenSeq([r \in DOMAIN results |-> results[r].attempts])

Prefix(attempts, limit) == SubSeq(attempts, 1, Min({limit, Len(attempts)}))

HasPass(attempts) == \E k \in DOMAIN attempts : attempts[k].status = "pass"

PassedWithin(results, limit) ==
    Cardinality({r \in DOMAIN results : HasPass(Prefix(results[r].attempts, limit))})

Checkpoint(results, limit) ==
    [max_attempts |-> limit,
     total |-> Len(results),
     passed |-> PassedWithin(results, limit),
     cost |-> aggregate_attempt_cost(
                  FlattenSeq([r \in DOMAIN results |-> Prefix(results[r].attempts, limit)]))]

(* max_attempts None (Unreported): as many as some row has attempts.        *)
repair_policy_checkpoints(results, max_attempts) ==
    LET observed == Max({0} \union {Len(results[r].attempts) : r \in DOMAIN results})
    IN  [k \in 1..(IF max_attempts = Unreported THEN observed ELSE max_attempts) |->
            Checkpoint(results, k)]

=============================================================================
