---------------------------- MODULE MCLogSession ----------------------------
(* Two programs: the first comes back to its first source line, the second *)
(* has two instructions on one line, and its relocation is of a pc that is *)
(* a call of the first.                                                    *)
EXTENDS LogSession

MCLines == <<<<1, 2, 1>>, <<3, 3>>>>
MCCalls == <<{2}, {1}>>
=============================================================================
