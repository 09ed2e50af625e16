----------------------------- MODULE ProgramCFG -----------------------------
(***************************************************************************)
(* A lifted program under its mutation API.  A transformation owns the     *)
(* ProgramCFG and calls one operation after another; each operation        *)
(* renumbers blocks, moves instructions with the metadata they carry, and  *)
(* must leave every cached fact either recomputed, marked stale or         *)
(* dropped.  A call that returns an error leaves the program untouched     *)
(* (try_mutate works on a clone), so it is a stuttering step and the       *)
(* guards below are the conditions under which a call returns Ok.          *)
(*                                                                         *)
(* A definition with a capitalised suffix (Mutate_KeepsFlag) is a          *)
(* deliberately wrong variant of the one that follows it, which no         *)
(* specification uses.                                                     *)
(***************************************************************************)
EXTENDS CfgFlow

CONSTANTS
    Programs,      \* bytecode a run may lift, each a sequence of Slot
    ProgTypes,     \* program types; 0 is the default of a fresh ProgramCFG
    Replacements,  \* instruction sequences passes splice in, as sequences of ops
    Ops,           \* the operations of the API a run lets the transformation call
    MaxCalls,      \* bound on the mutating calls made on one program
    MaxBlocks,     \* bound on the number of blocks
    MaxBody        \* bound on the body length of one block

VARIABLES
    source,              \* the bytecode that was lifted (never changes)
    blocks,
    entry,
    prog_type,
    derived_facts_dirty,
    facts,               \* the program the cached use-def, liveness and register facts describe
    calls,               \* mutating calls made so far
    last                 \* the operation called last

vars == <<source, blocks, entry, prog_type, derived_facts_dirty, facts, calls, last>>

(* Operations that change what the program does, operations that only       *)
(* change its block structure, and those that rewrite a region.             *)
EditOps == {"delete_insn", "try_replace_range", "delete_cond_branch", "replace_terminator"}

StructureOps == {"merge_linear_chain", "delete_unreachable_blocks", "split_block"}

AllOps == EditOps \cup StructureOps \cup {"permute_blocks", "replace_diamond_with_insns"}

(* The bytecode a list of blocks stands for: everything but cached facts    *)
(* and metadata.                                                            *)
Code(bs) ==
    [b \in DOMAIN bs |->
        [insns |-> [i \in DOMAIN bs[b].insns |->
                      [op |-> bs[b].insns[i].op, insn |-> bs[b].insns[i].insn,
                       target |-> bs[b].insns[i].target]],
         terminator |-> bs[b].terminator]]

(* Use-def construction fails on a kinsn call that does not directly follow *)
(* its sidecar in the same block.                                           *)
KinsnsPacked(bs) ==
    \A b \in DOMAIN bs : \A i \in DOMAIN bs[b].insns :
        bs[b].insns[i].op = "kcall" => i > 1 /\ bs[b].insns[i - 1].op = "side"

(* A replacement is given as raw slots: an LD_IMM64 must be followed by its *)
(* second slot, which is folded into the same node.                         *)
ReplacementStarts(ops) ==
    {k \in DOMAIN ops : k = 1 \/ ops[k - 1] \notin WideOps}

ASSUME ProgramsAssumption ==
    /\ \A raw \in Programs : /\ raw \in Seq(Slot)
                             /\ \A pc \in instruction_boundaries(raw) :
                                   raw[pc].op # "hi" /\ raw[pc].insn = pc
                             /\ LiftOk(raw)
                             /\ KinsnsPacked(lift(raw, FALSE, {}))
    /\ ProgTypes \subseteq Nat
    /\ \A ops \in Replacements : /\ ops \in Seq(BodyOps \cup {"hi"})
                                  /\ \A k \in ReplacementStarts(ops) : ops[k] # "hi"
    /\ Ops \subseteq AllOps

ASSUME BoundsAssumption == MaxCalls \in Nat /\ MaxBlocks \in Nat /\ MaxBody \in Nat

-----------------------------------------------------------------------------
(* lift_with_pass_context: lift, attach verifier states and branch profiles *)
(* if the context has them, and set the program type; a type other than 0   *)
(* leaves the facts computed by ProgramCFG::new stale.                      *)
BranchPcs(raw) ==
    {pc \in instruction_boundaries(raw) : raw[pc].op = "jcc"}

Init ==
    /\ source \in Programs
    /\ \E states \in BOOLEAN, profiled \in {{}, BranchPcs(source)} :
          blocks = lift(source, states, profiled)
    /\ entry = 1
    /\ prog_type \in ProgTypes
    /\ facts = [code |-> Code(blocks), prog_type |-> 0]
    /\ derived_facts_dirty = (prog_type # 0)
    /\ calls = 0
    /\ last = "lift"

-----------------------------------------------------------------------------
(* One more call, of operation op, on this program.                         *)
Calling(op) ==
    /\ op \in Ops
    /\ calls' = calls + 1
    /\ last' = op

(* What every mutation ends with.                                           *)

invalidate_verifier_states_ButProfiles(bs) ==
    [b \in DOMAIN bs |->
        [bs[b] EXCEPT
            !.states = FALSE,
            !.insns = [i \in DOMAIN bs[b].insns |->
                          [bs[b].insns[i] EXCEPT !.states = FALSE]]]]

invalidate_verifier_states(bs) ==
    [b \in DOMAIN bs |->
        [bs[b] EXCEPT
            !.states = FALSE,
            !.profile = FALSE,
            !.insns = [i \in DOMAIN bs[b].insns |->
                          [bs[b].insns[i] EXCEPT !.states = FALSE]]]]

(* rebuild_use_def_after_mutation on the program made of bs and e.          *)
Mutate_KeepsFlag(bs, e) ==
    /\ blocks' = invalidate_verifier_states(bs)
    /\ entry' = e
    /\ UNCHANGED <<source, prog_type, derived_facts_dirty, facts>>

Mutate(bs, e) ==
    /\ blocks' = invalidate_verifier_states(bs)
    /\ entry' = e
    /\ derived_facts_dirty' = TRUE
    /\ UNCHANGED <<source, prog_type, facts>>

(* The same after an operation that changed an edge.                        *)
MutateEdges(bs, e) ==
    /\ EdgesOk(bs)
    /\ Mutate(rebuild_cfg_edges(bs), e)

-----------------------------------------------------------------------------
(* Renumbering.  f sends an old block number to its new one.                *)

RemapInsns_Forgotten(insns, f) == insns

RemapInsns(insns, f) ==
    [i \in DOMAIN insns |-> [insns[i] EXCEPT !.target = MapTarget(@, f)]]

RemapBlock(blk, f) ==
    [blk EXCEPT !.terminator = remap_terminator(@, f), !.insns = RemapInsns(@, f)]

(* The blocks listed in `order`, in that order, with targets sent through f. *)
Renumber(bs, order, f) == [k \in DOMAIN order |-> RemapBlock(bs[order[k]], f)]

(* Every block number an instruction or terminator of blk refers to.        *)
References(blk) ==
    successors(blk.terminator)
      \cup ({blk.insns[i].target : i \in DOMAIN blk.insns} \ {None})

remap_block_after_remove_CountsAll(b, removed) == b - Cardinality(removed)

remap_block_after_remove(b, removed) == b - Cardinality({r \in removed : r < b})

(* Removal is refused when the entry, or a block that something kept still  *)
(* refers to, is among the removed.                                         *)
RemoveOk(bs, e, removed) ==
    /\ e \notin removed
    /\ \A b \in DOMAIN bs \ removed : References(bs[b]) \cap removed = {}

remove_blocks_in_place(bs, e, removed) ==
    LET f == [b \in DOMAIN bs |-> remap_block_after_remove(b, removed)] IN
    /\ RemoveOk(bs, e, removed)
    /\ MutateEdges(Renumber(bs, SortedSeq(DOMAIN bs \ removed), f), f[e])

-----------------------------------------------------------------------------
(* In-block edits.                                                          *)

Splice(insns, i, old_len, new) ==
    SubSeq(insns, 1, i - 1) \o new \o SubSeq(insns, i + old_len, Len(insns))

WithInsns(bs, b, insns) == [bs EXCEPT ![b].insns = insns]

delete_insn(b, i) ==
    /\ Calling("delete_insn")
    /\ i \in DOMAIN blocks[b].insns
    /\ Mutate(WithInsns(blocks, b, Splice(blocks[b].insns, i, 1, <<>>)), entry)

ReplacementOk(ops) ==
    \A k \in ReplacementStarts(ops) : k + insn_width(ops[k]) - 1 <= Len(ops)

logical_replacement(ops) ==
    LET at == SortedSeq(ReplacementStarts(ops)) IN
    [k \in DOMAIN at |-> InsnNode(ops[at[k]], None)]

(* Slots of the frame's blocks that come before block b.                    *)
frame_relative_logical_slot(b, slot) ==
    LET before[k \in 1..b] ==
          IF k = 1 THEN 0
          ELSE before[k - 1] + (IF blocks[k - 1].frame = blocks[b].frame
                                THEN BlockSlots(blocks[k - 1]) ELSE 0)
    IN  before[b] + slot

(* The subprogram-boundary admission check: the range may not run past the  *)
(* last slot of the frame's blocks.                                         *)
CrossesSubprog(b, i, old_len) ==
    LET frame == {k \in DOMAIN blocks : blocks[k].frame = blocks[b].frame}
        start == frame_relative_logical_slot(b, site_offset_in_block_slots(blocks[b], i))
    IN  \A k \in frame :
          start + old_len > frame_relative_logical_slot(k, 0) + BlockSlots(blocks[k])

try_replace_range(b, i, old_len, ops) ==
    LET insns == blocks[b].insns
        new   == logical_replacement(ops)
    IN  /\ Calling("try_replace_range")
        /\ i - 1 + old_len <= Len(insns)
        /\ old_len > 0 /\ Len(ops) > 0 => ~CrossesSubprog(b, i, old_len)
        /\ ReplacementOk(ops)
        /\ Len(insns) - old_len + Len(new) <= MaxBody
        /\ Mutate(WithInsns(blocks, b, Splice(insns, i, old_len, new)), entry)

-----------------------------------------------------------------------------
(* Terminator edits.                                                        *)

WithTerminator(bs, b, t) ==
    [bs EXCEPT ![b].terminator = t, ![b].btf_pc = None]

delete_cond_branch_KeepsEdges(b) ==
    /\ Calling("delete_cond_branch")
    /\ blocks[b].terminator.op = "jcc"
    /\ Mutate(
          WithTerminator(blocks, b, Fallthrough(blocks[b].terminator.next)), entry)

delete_cond_branch_FallsToTaken(b) ==
    /\ Calling("delete_cond_branch")
    /\ blocks[b].terminator.op = "jcc"
    /\ MutateEdges(
          WithTerminator(blocks, b, Fallthrough(blocks[b].terminator.to)), entry)

delete_cond_branch(b) ==
    /\ Calling("delete_cond_branch")
    /\ blocks[b].terminator.op = "jcc"
    /\ MutateEdges(
          WithTerminator(blocks, b, Fallthrough(blocks[b].terminator.next)), entry)

replace_terminator(b, t) ==
    /\ Calling("replace_terminator")
    /\ MutateEdges(WithTerminator(blocks, b, t), entry)

(* Terminators a pass may build for block b: an exit, a jump, a branch that *)
(* keeps the block's fallthrough, or its branch with the two ways swapped.   *)
NewTerminators(b) ==
    LET t == blocks[b].terminator IN
    {Exit(None)} \cup {Jump(None, c) : c \in DOMAIN blocks}
      \cup {CondBranch(None, c, t.next) : c \in IF t.next = None THEN {} ELSE DOMAIN blocks}
      \cup {CondBranch(None, t.next, c) : c \in IF t.op = "jcc" THEN {t.to} ELSE {}}

-----------------------------------------------------------------------------
(* Block-level edits.                                                       *)

(* As many entries as blocks, and validate_unique_blocks: none twice.       *)
Orders ==
    {order \in [DOMAIN blocks -> DOMAIN blocks] :
        \A j, k \in DOMAIN blocks : order[j] = order[k] => j = k}

permute_blocks(order) ==
    LET f == [b \in DOMAIN blocks |-> CHOOSE k \in DOMAIN order : order[k] = b]
    IN  /\ Calling("permute_blocks")
        /\ MutateEdges(Renumber(blocks, order, f), f[entry])

(* Blocks first..end form a chain: each has the next one as its only        *)
(* successor and is that one's only predecessor, the last does not branch   *)
(* back, and no callback reference points into the chain.                   *)
LinearChain(first, end) ==
    /\ \A b \in first..(end - 1) :
          /\ successors(blocks[b].terminator) = {b + 1}
          /\ blocks[b + 1].predecessors = {b}
    /\ successors(blocks[end].terminator) \cap first..end = {}
    /\ \A b \in DOMAIN blocks : \A i \in DOMAIN blocks[b].insns :
          blocks[b].insns[i].target \notin (first + 1)..end

(* The body sites of blocks first..end, and their order in the layout.      *)
ChainSites(first, end) ==
    UNION {{b} \X DOMAIN blocks[b].insns : b \in first..end}

SiteLeq_LastBlockFirst(s, t) == s[1] > t[1] \/ (s[1] = t[1] /\ s[2] <= t[2])

SiteLeq(s, t) == s[1] < t[1] \/ (s[1] = t[1] /\ s[2] <= t[2])

(* The bodies of blocks first..end one after the other: the k-th            *)
(* instruction is the one at the site that has k sites up to it.            *)
ChainInsns(first, end) ==
    LET sites == ChainSites(first, end)
        Nth(k) == CHOOSE s \in sites : Cardinality({t \in sites : SiteLeq(t, s)}) = k
    IN  [k \in 1..Cardinality(sites) |-> blocks[Nth(k)[1]].insns[Nth(k)[2]]]

(* A chain of one block returns before anything is changed.                 *)
merge_linear_chain(first, end) ==
    /\ Calling("merge_linear_chain")
    /\ first < end
    /\ LinearChain(first, end)
    /\ remove_blocks_in_place(
          [blocks EXCEPT ![first].insns = ChainInsns(first, end),
                         ![first].terminator = blocks[end].terminator],
          entry, (first + 1)..end)

Reachable(bs, e) ==
    LET R[k \in 0..Len(bs)] ==
          IF k = 0 THEN {e}
          ELSE R[k - 1] \cup UNION {successors(bs[b].terminator) : b \in R[k - 1]}
    IN  R[Len(bs)]

(* With nothing to remove the call changes nothing.                         *)
delete_unreachable_blocks ==
    LET dead == DOMAIN blocks \ Reachable(blocks, entry) IN
    /\ Calling("delete_unreachable_blocks")
    /\ dead # {}
    /\ remove_blocks_in_place(blocks, entry, dead)

(* Where a block goes when a new one is put in at `tail`.                   *)
TailShift_OffByOne(b, tail) == IF b > tail THEN b + 1 ELSE b

TailShift(b, tail) == IF b >= tail THEN b + 1 ELSE b

(* Split before site i: the new tail block takes the rest of the body and   *)
(* the terminator; block numbers from the tail on move up by one.           *)
split_block(head, i) ==
    LET tail == head + 1
        f    == [b \in DOMAIN blocks |-> TailShift(b, tail)]
        old  == RemapBlock(blocks[head], f)
        Moved(k) ==
          CASE k < head -> RemapBlock(blocks[k], f)
            [] k = head -> [old EXCEPT !.insns = SubSeq(@, 1, i - 1),
                                       !.terminator = Fallthrough(tail)]
            [] k = tail -> [old EXCEPT !.insns = SubSeq(@, i, Len(@)),
                                       !.btf_pc = None, !.states = FALSE,
                                       !.profile = FALSE, !.lead = None]
            [] OTHER    -> RemapBlock(blocks[k - 1], f)
    IN  /\ Calling("split_block")
        /\ Len(blocks) < MaxBlocks
        /\ MutateEdges([k \in 1..(Len(blocks) + 1) |-> Moved(k)], f[entry])

branch_reaches_join(branch, join) ==
    branch = join \/ successors(blocks[branch].terminator) = {join}

validate_diamond(pred, true_branch, false_branch, join) ==
    LET t == blocks[pred].terminator IN
    /\ t.op = "jcc"
    /\ t.next = false_branch
    /\ IF join # None
       THEN /\ \/ t.to = true_branch /\ branch_reaches_join(true_branch, join)
               \/ true_branch = pred /\ t.to = join
            /\ branch_reaches_join(false_branch, join)
       ELSE /\ t.to = true_branch
            /\ blocks[true_branch].terminator = blocks[false_branch].terminator

(* The predecessor takes the replacement as its body and goes to the join   *)
(* (or ends as the arms did); an arm nobody else enters is removed.         *)
replace_diamond_with_insns(pred, true_branch, false_branch, join, ops) ==
    LET new    == logical_replacement(ops)
        remove == {b \in {true_branch, false_branch} \ {pred} :
                      blocks[b].predecessors \subseteq {pred}}
        term   == IF join # None THEN Jump(None, join)
                  ELSE blocks[true_branch].terminator
    IN  /\ Calling("replace_diamond_with_insns")
        /\ validate_diamond(pred, true_branch, false_branch, join)
        /\ ReplacementOk(ops) /\ Len(ops) > 0
        /\ remove_blocks_in_place(
              [blocks EXCEPT ![pred].insns = new, ![pred].terminator = term],
              entry, remove)

-----------------------------------------------------------------------------
(* ensure_derived_facts_fresh, with which every accessor of derived facts   *)
(* begins: rebuild if stale.  When the rebuild fails the accessor returns   *)
(* the error and the facts stay marked stale.                               *)
ensure_derived_facts_fresh ==
    /\ IF derived_facts_dirty /\ KinsnsPacked(blocks)
       THEN /\ facts' = [code |-> Code(blocks), prog_type |-> prog_type]
            /\ derived_facts_dirty' = FALSE
       ELSE UNCHANGED <<facts, derived_facts_dirty>>
    /\ UNCHANGED <<source, blocks, entry, prog_type, calls, last>>

Sites(b) == 1..(Len(blocks[b].insns) + 1)

(* The arms a caller may name for the diamond below pred.                   *)
Arms(pred) == {pred, blocks[pred].terminator.to, blocks[pred].terminator.next} \ {None}

Mutation ==
    \/ \E b \in DOMAIN blocks : \E i \in Sites(b) : delete_insn(b, i)
    \/ \E b \in DOMAIN blocks : \E i \in Sites(b) :
          \E old_len \in 0..MaxBody, ops \in Replacements : try_replace_range(b, i, old_len, ops)
    \/ \E b \in DOMAIN blocks : delete_cond_branch(b)
    \/ \E b \in DOMAIN blocks : \E t \in NewTerminators(b) : replace_terminator(b, t)
    \/ \E order \in Orders : permute_blocks(order)
    \/ \E first, end \in DOMAIN blocks : merge_linear_chain(first, end)
    \/ delete_unreachable_blocks
    \/ \E b \in DOMAIN blocks : \E i \in Sites(b) : split_block(b, i)
    \/ \E pred \in DOMAIN blocks : \E tb, fb \in Arms(pred), join \in DOMAIN blocks \cup {None} :
          \E ops \in Replacements : replace_diamond_with_insns(pred, tb, fb, join, ops)

Next ==
    \/ calls < MaxCalls /\ Mutation
    \/ ensure_derived_facts_fresh

Spec == Init /\ [][Next]_vars

-----------------------------------------------------------------------------
(* Properties.                                                              *)

(* Types of the state, and a live entry block.                              *)
TypeOK ==
    /\ source \in Programs
    /\ blocks \in Seq(BasicBlock)
    /\ entry \in DOMAIN blocks
    /\ prog_type \in ProgTypes
    /\ derived_facts_dirty \in BOOLEAN
    /\ calls \in 0..MaxCalls
    /\ last \in AllOps \cup {"lift"}

(* The step is a call of one of the operations S.                           *)
Called(S) == calls' = calls + 1 /\ last' \in S

(* While the dirty flag is down, the cached facts describe the bytecode and *)
(* the program type of this moment: no accessor serves a fact computed for  *)
(* an earlier shape of the program.                                         *)
FactsFresh ==
    ~derived_facts_dirty => facts = [code |-> Code(blocks), prog_type |-> prog_type]

(* No branch, fallthrough, call or callback reference leads outside the     *)
(* program, after any sequence of operations.                               *)
NoDanglingReference ==
    \A b \in DOMAIN blocks : References(blocks[b]) \subseteq DOMAIN blocks

HasVerifierState(blk) ==
    \/ blk.states
    \/ blk.profile
    \/ \E i \in DOMAIN blk.insns : blk.insns[i].states

(* Verifier states and branch profiles are only ever attached to the exact  *)
(* bytecode the verifier saw.                                               *)
VerifierStatesMatchCode ==
    (\E b \in DOMAIN blocks : HasVerifierState(blocks[b]))
        => Code(blocks) = Code(lift(source, FALSE, {}))

(* The stored predecessor lists are the inverse of the successor relation,  *)
(* whichever operations renumbered the blocks; merge_linear_chain and       *)
(* replace_diamond_with_insns decide what to delete by reading them.        *)
PredecessorsInvertSuccessors ==
    \A b \in DOMAIN blocks :
        blocks[b].predecessors =
            {p \in DOMAIN blocks : b \in successors(blocks[p].terminator)}

(* Every reference the lifted bytecode contained still leads where it led:  *)
(* through any sequence of splits, merges, removals and permutations, a     *)
(* surviving branch, call or callback load that came from slot p goes to    *)
(* the block that was lifted at p's target, and the entry is the block      *)
(* lifted at the first slot.                                                *)
TargetsKept ==
    /\ blocks[entry].lead = 1
    /\ \A b \in DOMAIN blocks :
          LET t == blocks[b].terminator IN
          /\ t.insn # None /\ t.to # None
                => blocks[t.to].lead = TargetPc(source, t.insn)
          /\ t.insn # None /\ t.next # None
                => blocks[t.next].lead = t.insn + 1
          /\ \A i \in DOMAIN blocks[b].insns :
                LET node == blocks[b].insns[i] IN
                node.target # None
                  => blocks[node.target].lead = TargetPc(source, node.insn)

(* No branch whose two ways are one block and no call that returns into its *)
(* own callee: merging such a block with its successor drops the            *)
(* instruction, which for a branch means nothing and no loadable program    *)
(* has such a call.                                                         *)
NoDegenerateBranch(bs) ==
    \A b \in DOMAIN bs : bs[b].terminator.to # None =>
        bs[b].terminator.to # bs[b].terminator.next

(* Splitting a block, merging a chain, deleting unreachable blocks and      *)
(* permuting the layout do not change what the program does.                *)
RestructuringKeepsFlow ==
    [][ Called(StructureOps \cup {"permute_blocks"}) /\ NoDegenerateBranch(blocks)
          => Flow(blocks', entry') = Flow(blocks, entry) ]_vars

(* No blocks that run round and execute nothing.                            *)
NoIdleLoop(bs) ==
    LET first == FirstSites(bs) IN \A b \in DOMAIN bs : first[b] # Spin

(* Lowering a program to bytecode and lifting that bytecode again gives a   *)
(* program that does the same: every offset emitted, across two-slot loads  *)
(* and renumbered blocks, reaches the instruction it reached in the CFG.    *)
(* (lower starts the program at the first block in layout order, so the     *)
(* entry has to be there: only permute_blocks can move it.  And lower       *)
(* compares slots, not blocks, so it would also lay out empty blocks that   *)
(* fall into each other in a circle; no bytecode lifts to that.)            *)
LoweringKeepsFlow ==
    entry = 1 /\ LowerOk(blocks) /\ NoIdleLoop(blocks) =>
        LET raw == lower(blocks) IN
        /\ LiftOk(raw)
        /\ Flow(Explicit(lift(raw, FALSE, {})), 1) = Flow(blocks, 1)

(* No block runs off the end of the program.                                *)
NoEnd(bs) == \A b \in DOMAIN bs : bs[b].terminator.op # "end"

(* A program that can be lowered stays one: only replacing a terminator and *)
(* permuting blocks can separate a block from the one it falls into.        *)
LayoutKept ==
    [][ LowerOk(blocks) /\ NoEnd(blocks) /\ NoDegenerateBranch(blocks)
          /\ Called(AllOps \ {"replace_terminator", "permute_blocks"})
          => LowerOk(blocks') ]_vars

(* The sites of body instructions, and their order in the layout.           *)
BodySites(bs) == UNION {{b} \X DOMAIN bs[b].insns : b \in DOMAIN bs}

NodeAt(bs, s) == bs[s[1]].insns[s[2]]

SiteBefore(s, t) == s[1] < t[1] \/ (s[1] = t[1] /\ s[2] < t[2])

(* Body instructions with original positions have them in layout order.     *)
RecordsInOrder(bs) ==
    \A s, t \in BodySites(bs) :
        LET p == NodeAt(bs, s).btf_pc
            q == NodeAt(bs, t).btf_pc
        IN  SiteBefore(s, t) /\ p # None /\ q # None => p < q

(* Only permute_blocks can put two instructions that carry original         *)
(* positions out of order, so the line and function records of body         *)
(* instructions stay remappable (remap_btf_records refuses an order that    *)
(* is not increasing).                                                      *)
BodyRecordsStayOrdered ==
    [][ RecordsInOrder(blocks) /\ Called(AllOps \ {"permute_blocks"})
          => RecordsInOrder(blocks') ]_vars

(* What the field's documentation says: terminator_btf_pc, when set, is the *)
(* original position of the terminator the block now has.                   *)
TerminatorPcIsOriginal ==
    \A b \in DOMAIN blocks :
        blocks[b].btf_pc # None => blocks[b].btf_pc = blocks[b].terminator.insn

=============================================================================
