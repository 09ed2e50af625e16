-------------------------- MODULE MCKinsnRegistry --------------------------
EXTENDS KinsnRegistry

(* Three targets for three calls, so that a registration meets a free call, *)
(* its own call and another target's; offsets at both ends of i16.          *)
MCBtfIds == {-1, 5}

MCCallOffs == {0, 1, 2}

MCJsonOffs == {-1, 0, 1, I16Max}

=============================================================================
