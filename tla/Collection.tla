------------------------------ MODULE Collection ------------------------------
(***************************************************************************)
(* What a collection of Managed Lustre metrics promises its caller: it     *)
(* raises, or it returns once and for all the filesystems there are, how   *)
(* many of them failed, and samples of none but the others, at most one    *)
(* for each target and none without a value.  Exporter takes a collection  *)
(* to be this (QueryLustre, QueryFails).                                   *)
(***************************************************************************)
EXTENDS FiniteSets

CONSTANTS Filesystem,
          Sample         \* records with the fields filesystem, target, value

VARIABLES status,        \* "pending", "raised" or "returned"
          result         \* what was returned

vars == <<status, result>>

Nothing == [filesystems |-> {}, errorCount |-> 0, metrics |-> {}]

Admissible(r) ==
  /\ r.filesystems \subseteq Filesystem
  /\ r.metrics \subseteq Sample
  /\ \E failed \in SUBSET r.filesystems :
       /\ Cardinality(failed) = r.errorCount
       /\ \A s \in r.metrics : s.filesystem \in r.filesystems \ failed
  /\ \A s, t \in r.metrics :
       s.filesystem = t.filesystem /\ s.target = t.target => s = t
  /\ \A s \in r.metrics : DOMAIN s.value # {}

Init ==
  /\ status = "pending"
  /\ result = Nothing

Raise ==
  /\ status = "pending"
  /\ status' = "raised"
  /\ UNCHANGED result

Return ==
  /\ status = "pending"
  /\ status' = "returned"
  /\ Admissible(result')

Spec == Init /\ [][Raise \/ Return]_vars
=============================================================================
