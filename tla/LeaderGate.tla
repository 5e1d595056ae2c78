----------------------------- MODULE LeaderGate -----------------------------
(***************************************************************************)
(* What the leadership gate promises of one replica's /metrics page, with  *)
(* no poller, lock or callback in sight: series are published only while   *)
(* the gate is open, and whoever shuts it clears the page afterwards, so   *)
(* that a shut gate with no clearing left to do means an empty page.       *)
(*                                                                         *)
(* It is the abstract specification of set_leader, _clear_resource_gauges  *)
(* and _can_write_metrics_locked in collector.py; Exporter implements it.  *)
(***************************************************************************)

CONSTANTS Closer,       \* whoever may shut the gate
          Exposition,   \* everything the page may show
          Nothing       \* the page of a follower

VARIABLES open,         \* may this replica publish?
          clearing,     \* those that shut the gate and have not cleared yet
          exposed       \* what the page shows

gateVars == <<open, clearing, exposed>>

Init == /\ open \in BOOLEAN
        /\ clearing = {}
        /\ exposed = Nothing

Open == /\ open' = TRUE
        /\ UNCHANGED <<clearing, exposed>>

Shut(c) == /\ open' = FALSE
           /\ clearing' = clearing \cup {c}
           /\ UNCHANGED exposed

Clear(c) == /\ c \in clearing
            /\ clearing' = clearing \ {c}
            /\ exposed' = Nothing
            /\ UNCHANGED open

Publish == /\ open
           /\ exposed' \in Exposition
           /\ UNCHANGED <<open, clearing>>

Next == \/ Open
        \/ Publish
        \/ \E c \in Closer : Shut(c) \/ Clear(c)

Spec == Init /\ [][Next]_gateVars

\* Shut and cleared: nothing is left on the page.
Quiet == ~open /\ clearing = {} => exposed = Nothing
=============================================================================
