----------------------------- MODULE MCReplica -----------------------------
(* Instances of Replica for TLC: one scale set, no Lustre.                 *)
EXTENDS Replica

CONSTANTS v1, s1, a1

OneVmss == {v1}
OneSku == {s1}
None == {}
OneStarter == {a1}
=============================================================================
