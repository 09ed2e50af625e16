----------------------------- MODULE PassBatch ------------------------------
(***************************************************************************)
(* One pass over a program, run by run_pass_once: it collects the sites it *)
(* wants to rewrite first and edits afterwards, one try_replace_range per  *)
(* site, through delete_body_sites_reverse or apply_candidates_reverse.    *)
(* Every edit moves the instructions behind it in its block, so what keeps *)
(* the sites not yet processed valid is only the order of the edits.       *)
(*                                                                         *)
(* The passes themselves are not in the repository.  A pass is modelled by *)
(* what scan_block_starts hands it: sites in layout order, whose ranges do *)
(* not overlap.                                                            *)
(***************************************************************************)
EXTENDS ProgramCFG, FiniteSetsExt, SequencesExt

CONSTANTS
    MaxSites        \* bound on the candidates of one batch

VARIABLES
    queue,          \* candidates still to process, the next one first
    running,        \* a pass is at work on its candidates
    insns_before,   \* instruction slots when it started; 0 outside a pass
    gone            \* the instructions its committed candidates were collected for

batch == <<queue, running, insns_before, gone>>

allvars == <<vars, batch>>

ASSUME BatchAssumption == MaxSites \in Nat

(* A candidate, with the instructions the pass matched at its site.         *)
Candidate(b, i, old_len, ops) ==
    [b |-> b, i |-> i, old_len |-> old_len, ops |-> ops,
     matched |-> [k \in 1..old_len |->
                    IF i + k - 1 <= Len(blocks[b].insns)
                    THEN blocks[b].insns[i + k - 1].insn ELSE None]]

program_instruction_slots == assign_block_pcs(blocks)[Len(blocks) + 1] - 1

(* The hits of scan_block_starts for a window of old_len instructions: any  *)
(* of the ranges that fit into a body.                                      *)
scan_block_starts(old_len) ==
    UNION {{<<b, i>> : i \in 1..(Len(blocks[b].insns) - old_len + 1)} : b \in DOMAIN blocks}

Apart(S, old_len) ==
    \A s, t \in S : s # t /\ s[1] = t[1] => s[2] >= t[2] + old_len \/ t[2] >= s[2] + old_len

(* The sites from the last to the first: candidates.iter().rev() over sites *)
(* collected in layout order, or the descending sort of the delete helper.  *)
ReverseOrder_Ascending(S) ==
    [k \in 1..Cardinality(S) |->
        CHOOSE s \in S : Cardinality({t \in S : SiteBefore(t, s)}) = k - 1]

ReverseOrder(S) ==
    [k \in 1..Cardinality(S) |->
        CHOOSE s \in S : Cardinality({t \in S : SiteBefore(s, t)}) = k - 1]

Start(sites, old_len, ops) ==
    /\ queue' = LET order == ReverseOrder(sites) IN
                [k \in DOMAIN order |-> Candidate(order[k][1], order[k][2], old_len, ops)]
    /\ running' = TRUE
    /\ insns_before' = program_instruction_slots
    /\ gone' = {}
    /\ UNCHANGED vars

CanStart(S) ==
    /\ ~running
    /\ calls + Cardinality(S) <= MaxCalls

(* A pass that deletes single sites; nothing stops it from naming a         *)
(* terminator, which the helper refuses when it gets there.                 *)
delete_body_sites_reverse ==
    /\ \E S \in UNION {kSubset(n, UNION {{b} \X Sites(b) : b \in DOMAIN blocks}) :
                          n \in 1..MaxSites} :
          /\ \A s \in S : s[2] <= Len(blocks[s[1]].insns) \/ has_raw_insn(blocks[s[1]].terminator)
          /\ CanStart(S) /\ Start(S, 1, <<>>)

(* A pass that replaces the windows it matched.                             *)
apply_candidates_reverse ==
    /\ \E old_len \in 1..2, ops \in Replacements :
       \E S \in UNION {kSubset(n, scan_block_starts(old_len)) : n \in 1..MaxSites} :
          CanStart(S) /\ Apart(S, old_len) /\ Start(S, old_len, ops)

PassEnds ==
    /\ running' = FALSE
    /\ insns_before' = 0
    /\ gone' = {}

Fail ==
    /\ PassEnds
    /\ queue' = <<>>
    /\ UNCHANGED vars

ApplyNext_OneInsn ==
    /\ running /\ queue # <<>>
    /\ LET c == Head(queue) IN
       IF c.i > Len(blocks[c.b].insns) \/ ~ ReplacementOk(c.ops)
       THEN Fail
       ELSE /\ try_replace_range(c.b, c.i, 1, c.ops)
            /\ queue' = Tail(queue)
            /\ gone' = gone \cup ToSet(c.matched)
            /\ UNCHANGED <<running, insns_before>>

(* One iteration: an error leaves what the earlier iterations committed.    *)
ApplyNext ==
    /\ running /\ queue # <<>>
    /\ LET c == Head(queue) IN
       IF c.i > Len(blocks[c.b].insns) \/ ~ ReplacementOk(c.ops)
       THEN Fail
       ELSE /\ try_replace_range(c.b, c.i, c.old_len, c.ops)
            /\ queue' = Tail(queue)
            /\ gone' = gone \cup ToSet(c.matched)
            /\ UNCHANGED <<running, insns_before>>

(* The end of run_pass_once.                                                *)
run_pass_once ==
    /\ running /\ queue = <<>>
    /\ PassEnds
    /\ IF program_instruction_slots # insns_before
       THEN blocks' = invalidate_verifier_states(blocks)
       ELSE UNCHANGED blocks
    /\ UNCHANGED <<source, entry, prog_type, derived_facts_dirty, facts, calls, last,
                   queue>>

BatchInit ==
    /\ Init
    /\ queue = <<>>
    /\ running = FALSE
    /\ insns_before = 0
    /\ gone = {}

(* Before and after a batch a pass may call any other operation.            *)
OtherCall ==
    /\ ~running
    /\ Next
    /\ UNCHANGED batch

BatchNext ==
    \/ OtherCall
    \/ delete_body_sites_reverse
    \/ apply_candidates_reverse
    \/ ApplyNext
    \/ run_pass_once

BatchSpec == BatchInit /\ [][BatchNext]_allvars

-----------------------------------------------------------------------------
OriginalsIn(bs) == {NodeAt(bs, s).insn : s \in BodySites(bs)} \ {None}

(* A site not yet processed still holds the instructions the pass matched   *)
(* there, whatever the earlier edits inserted or deleted; the sites a pass  *)
(* collected never go stale under its own edits.                            *)
PendingStillMatch ==
    \A k \in DOMAIN queue :
        LET c == queue[k] IN
        \A j \in 1..c.old_len :
            c.i + j - 1 <= Len(blocks[c.b].insns)
              => blocks[c.b].insns[c.i + j - 1].insn = c.matched[j]

(* At every moment of a pass, also after it failed half way, the original   *)
(* instructions gone are the ones its committed candidates matched: no      *)
(* edit hits a neighbour.                                                   *)
OnlyMatchedRemoved ==
    [][running /\ running' =>
          OriginalsIn(blocks) \ OriginalsIn(blocks') = (gone' \ gone) \ {None}]_allvars

=============================================================================
