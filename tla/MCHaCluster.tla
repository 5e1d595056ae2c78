----------------------------- MODULE MCHaCluster -----------------------------
(* An instance of HaCluster for TLC.                                       *)
EXTENDS HaCluster

CONSTANTS r1, r2

TwoReplicas == {r1, r2}
=============================================================================
