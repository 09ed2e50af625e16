--------------------------- MODULE OracleVerdict ----------------------------
(***************************************************************************)
(* What the runner may rely on about one run of a case's oracle, without   *)
(* its commands: it judges the candidate once, then releases what it       *)
(* pinned, then is gone.  The verdict is what oracle_failure_stage makes   *)
(* of the return code and the report.  Releasing may only spoil a pass (a  *)
(* clean-up that raises turns return code 0 into 1); a failure found while *)
(* judging is never turned into another one, or into a pass.               *)
(***************************************************************************)
CONSTANTS
    Stages      \* failure stages a run can end with

VARIABLES
    phase,      \* "judging", "releasing" or "done"
    verdict     \* a stage, "pass", or "none" while judging

vars == <<phase, verdict>>

Init == phase = "judging" /\ verdict = "none"

Judge ==
    /\ phase = "judging"
    /\ phase' = "releasing"
    /\ verdict' \in Stages \union {"pass"}

Release ==
    /\ phase = "releasing"
    /\ phase' = "done"
    /\ verdict' \in {verdict} \union (IF verdict = "pass" THEN Stages ELSE {})

Next == Judge \/ Release

(* It ends: every command of the oracle has a timeout.                      *)
Spec == Init /\ [][Next]_vars /\ <>(phase = "done")

=============================================================================
