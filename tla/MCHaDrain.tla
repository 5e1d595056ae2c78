------------------------------ MODULE MCHaDrain ------------------------------
(* An instance of HaDrain for TLC.                                         *)
EXTENDS HaDrain

CONSTANTS r1, r2

TwoReplicas == {r1, r2}
=============================================================================
