------------------------------ MODULE CfgFlow ------------------------------
(***************************************************************************)
(* What a program does, independently of how it is cut into blocks: the    *)
(* graph of its effective instructions.  Unconditional jumps and           *)
(* fallthroughs have no effect of their own and are followed through, so   *)
(* two block structures of one program have the same flow.  This is the    *)
(* reference the restructuring operations and the lowering are compared    *)
(* with; it translates no code.                                            *)
(***************************************************************************)
EXTENDS BpfProgram

(* The same blocks, as sequences written out.  TLC evaluates an element of   *)
(* a function constructor at every use; here once.                          *)
Explicit(bs) ==
    LET Whole(s) == SubSeq(s, 1, Len(s)) IN
    Whole([b \in DOMAIN bs |-> [bs[b] EXCEPT !.insns = Whole(@)]])

(* Terminators that are instructions with an effect.                        *)
Stops(t) == t.op \in {"jcc", "call", "exit", "end"}

(* Where control goes from a terminator that has no effect.                 *)
Through(t) == IF t.op = "ja" THEN t.to ELSE t.next

Spin == <<0, 0>>

(* The first effective site reached on entering each block: <<block, index>>, *)
(* or Spin if control runs round in empty blocks for ever.                  *)
FirstSites(bs) ==
    LET F[k \in 0..Len(bs)] ==
          [b \in DOMAIN bs |->
              IF bs[b].insns # <<>> \/ Stops(bs[b].terminator) THEN <<b, 1>>
              ELSE IF k = 0 THEN Spin
              ELSE F[k - 1][Through(bs[b].terminator)]]
    IN  F[Len(bs)]

(* Edges <<kind, site>> out of a site.                                      *)
Out(bs, first, s) ==
    IF s = Spin THEN {}
    ELSE LET blk == bs[s[1]]
             t   == blk.terminator
             n   == Len(blk.insns)
         IN  (IF s[2] < n THEN {<<"next", <<s[1], s[2] + 1>>>>}
              ELSE IF s[2] = n
              THEN {<<"next", IF Stops(t) THEN <<s[1], n + 1>> ELSE first[Through(t)]>>}
              ELSE (IF t.to = None THEN {} ELSE {<<"to", first[t.to]>>})
                     \cup (IF t.next = None THEN {} ELSE {<<"next", first[t.next]>>}))
           \cup (IF s[2] <= n /\ blk.insns[s[2]].target # None
                 THEN {<<"ref", first[blk.insns[s[2]].target]>>} ELSE {})

(* What is executed at a site: class and identity of the instruction.       *)
Label(bs, s) ==
    IF s = Spin THEN <<"spin", None>>
    ELSE LET blk == bs[s[1]] IN
         IF s[2] <= Len(blk.insns)
         THEN <<blk.insns[s[2]].op, blk.insns[s[2]].insn>>
         ELSE <<blk.terminator.op, blk.terminator.insn>>

NumSites(bs) ==
    LET n[b \in 0..Len(bs)] == IF b = 0 THEN 0 ELSE n[b - 1] + Len(bs[b].insns) + 1
    IN  n[Len(bs)]

(* The labelled edges among the sites reachable from block e.               *)
Flow(bs, e) ==
    LET first == FirstSites(bs)
        R[k \in 0..NumSites(bs)] ==
          IF k = 0 THEN {first[e]}
          ELSE LET prev == R[k - 1]
                   more == UNION {{o[2] : o \in Out(bs, first, s)} : s \in prev}
               IN  prev \cup more
        sites == R[NumSites(bs)]
    IN  [start |-> Label(bs, first[e]),
         edges |-> UNION {{<<Label(bs, s), o[1], Label(bs, o[2])>> :
                              o \in Out(bs, first, s)} : s \in sites}]

=============================================================================
