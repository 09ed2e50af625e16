---------------------------- MODULE RepairPolicy ----------------------------
(***************************************************************************)
(* The repair policy a run of the benchmark measures, as the evaluation    *)
(* reads it: cases are taken in order, each gets at most budget calls of   *)
(* the model, none after one that passed, and the run ends with a report   *)
(* of the passed cases or, after an error, with none.                      *)
(***************************************************************************)
EXTENDS Naturals

VARIABLES
    selected,   \* how many cases the run selected; they are numbered from 1
    budget,     \* calls a case may use; 0 for a run that asks no model
    calls,      \* calls[c]: calls made for case c
    passed,     \* cases with a call that passed
    ended,
    reported    \* <<passed cases>> in the end, <<>> if the run broke off

vars == <<selected, budget, calls, passed, ended, reported>>

Init ==
    /\ selected \in Nat
    /\ budget \in Nat
    /\ calls = [c \in 1..selected |-> 0]
    /\ passed = {}
    /\ ended = FALSE
    /\ reported = <<>>

Settled(c) == c \in passed \/ calls[c] = budget

Call(c) ==
    /\ ~ended
    /\ ~Settled(c)
    /\ \A d \in 1..(c - 1) : Settled(d)
    /\ calls' = [calls EXCEPT ![c] = @ + 1]
    /\ passed' \in {passed, passed \union {c}}
    /\ UNCHANGED <<selected, budget, ended, reported>>

End ==
    /\ ~ended
    /\ ended' = TRUE
    /\ \/ reported' = <<>>
       \/ (\A c \in 1..selected : Settled(c)) /\ reported' = <<passed>>
    /\ UNCHANGED <<selected, budget, calls, passed>>

Next == (\E c \in 1..selected : Call(c)) \/ End

Spec == Init /\ [][Next]_vars /\ <>ended

=============================================================================
