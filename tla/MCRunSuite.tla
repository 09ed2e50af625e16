----------------------------- MODULE MCRunSuite -----------------------------
EXTENDS RunSuite

MCFields == {"total_tokens", "reasoning_tokens"}

(* Zero at the second path after an unusable first; and only one field.     *)
Full == [f \in MCFields |-> IF f = "total_tokens" THEN <<2>> ELSE <<-3, 0>>]

Partial == [f \in MCFields |-> IF f = "total_tokens" THEN <<3>> ELSE <<>>]

MCRawUsages == {Full, Partial}

Budget(cases, repair_attempts, usages) ==
    [cases |-> cases, repair_attempts |-> repair_attempts, usages |-> usages]

(* No case; three attempts for one case; two cases, with a retry each from  *)
(* a provider that reports everything, without from one that does not.      *)
MCBudgets ==
    {Budget(0, 2, {Full}), Budget(1, 3, {Full, Partial}), Budget(2, 2, {Full}),
     Budget(2, 1, {Full, Partial})}

=============================================================================
