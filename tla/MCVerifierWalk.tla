--------------------------- MODULE MCVerifierWalk ---------------------------
EXTENDS VerifierWalk

Op(op, reg, src, to) == [op |-> op, reg |-> reg, src |-> src, to |-> to]

(* A main function of four instructions and a callee of one, with exits:    *)
(* the first makes R6 readable, and the others are chosen in every way, so  *)
(* that branches skip writes and calls and refine registers that later      *)
(* instructions show, calls come one after the other, and a jump leads back *)
(* over rows.                                                               *)
Ops == {Op("set", R1, 0, 0), Op("set", R6, R1, 0), Op("store", 0, R6, 0),
        Op("helper", 0, 0, 0), Op("if", R6, R1, 4), Op("call", 0, 0, 6), Op("goto", 0, 0, 2)}

CalleeOps == {Op("set", R6, R1, 0), Op("if", R1, 0, 7), Op("helper", 0, 0, 0)}

Exit == Op("exit", 0, 0, 0)

Count(p, op) == Cardinality({i \in DOMAIN p : p[i].op = op})

(* Programs with one branch in main are enough: a jump back repeats it.     *)
Mains == {m \in [1..3 -> Ops] : Count(m, "if") <= 1}

(* The callee matters only where it is called.                              *)
MCPrograms ==
    {<<Op("set", R6, R1, 0), m[1], m[2], m[3], Exit, e, Exit>> :
        m \in {m \in Mains : Count(m, "call") > 0}, e \in CalleeOps}
    \cup {<<Op("set", R6, R1, 0), m[1], m[2], m[3], Exit>> :
             m \in {m \in Mains : Count(m, "call") = 0}}

=============================================================================
