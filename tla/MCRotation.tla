----------------------------- MODULE MCRotation -----------------------------
(* Loops and bounds for checking Rotation.                                 *)
EXTENDS Rotation

CONSTANTS w1, w2, l1, l2

Owners == [l \in {l1, l2} |-> IF l = l2 THEN w2 ELSE w1]
=============================================================================
