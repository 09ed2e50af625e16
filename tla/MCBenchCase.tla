---------------------------- MODULE MCBenchCase -----------------------------
EXTENDS BenchCase

(* Cases with and without maps; two updates, so that the second can fail;   *)
(* up to three tests, so that a failed one is followed by one that prepares *)
(* maps and by one that does not.                                           *)
MCTests == UpTo([updates: {0, 2}, post: {FALSE}], 3) \union {<<[updates |-> 0, post |-> TRUE]>>}

MCCaseShapes ==
    [expect_reject: BOOLEAN, map_updates: {0, 2}, log_checks: {0, 2},
     source_checks: {0, 1}, tests: MCTests]

=============================================================================
