------------------------------- MODULE Replica -------------------------------
(***************************************************************************)
(* One replica with leader election (main.py): the exporter, the           *)
(* leader-election supervisor, and the threads in which the election calls *)
(* on_started_leading.  set_leader(True) runs in a starter thread,         *)
(* set_leader(False) in the supervisor.                                    *)
(*                                                                         *)
(* A definition named D_Something is D with a bug, as in Exporter.         *)
(***************************************************************************)
EXTENDS Integers, FiniteSets

CONSTANTS Vmss, Sku, Filesystem, Tier, Target, Ost, ValueGauge, LustreEnabled,
          MaxErrors, RetryPeriod, Starter, RaisesWhileRenewing, PromptStarters

ASSUME ReplicaConstants ==
  /\ IsFiniteSet(Vmss) /\ IsFiniteSet(Filesystem) /\ IsFiniteSet(Target)
  /\ Ost \subseteq Target
  /\ LustreEnabled \in BOOLEAN
  /\ MaxErrors \in Nat
  /\ RetryPeriod \in Nat \ {0}
  /\ "supervisor" \notin Starter

VARIABLES stopEvent, leaderEvent, beacon, pc, counts, lustre, call, main,
          gauges, active, totals, success, duration, errors,
          supervisor, releaseEvent, backoff, starter, holder

Supervisor == "supervisor"

Exporter == INSTANCE ExporterProperties
              WITH Caller <- Starter \cup {Supervisor},
                   LeaderElectionEnabled <- TRUE

Election == INSTANCE LeaderElection

exporterVars == <<stopEvent, leaderEvent, beacon, pc, counts, lustre, call,
                  main, gauges, active, totals, success, duration, errors>>
electionVars == <<supervisor, releaseEvent, backoff, starter, holder>>
vars == <<exporterVars, electionVars>>

Init == Exporter!Init /\ Election!Init

-----------------------------------------------------------------------------
(* main(): the election starts before the pollers, and is released before  *)
(* they are stopped.                                                       *)

StartLeaderElection ==
  /\ main = "starting"
  /\ Election!StartSupervisor
  /\ UNCHANGED exporterVars

StartExporter ==
  /\ supervisor # "off"
  /\ Exporter!Start
  /\ UNCHANGED electionVars

ReleaseElection ==
  /\ main = "serving"
  /\ ~releaseEvent
  /\ Election!Release
  /\ UNCHANGED exporterVars

StopExporter ==
  /\ releaseEvent
  /\ Exporter!Stop
  /\ UNCHANGED electionVars

\* Everything else the exporter does on its own.
ExporterStep ==
  /\ \/ \E p \in Exporter!Poller : Exporter!PollerLoop(p)
     \/ Exporter!QueryVmss \/ Exporter!UpdateVmss \/ Exporter!SummarizeVmss
     \/ Exporter!QueryLustre \/ Exporter!UpdateLustre
     \/ Exporter!SummarizeLustre
     \/ Exporter!StartupFails \/ Exporter!WakePollers \/ Exporter!Exit
     \/ Exporter!ProcessEnds
  /\ UNCHANGED electionVars

-----------------------------------------------------------------------------
(* on_started_leading = set_leader(True), on_stopped_leading =             *)
(* set_leader(False).                                                      *)

StarterAnnounces(s) ==
  /\ Exporter!AnnounceLeader(s, 1)
  /\ Election!OnStartedBegins(s)

StarterRaises(s) ==
  /\ Exporter!RaiseLeaderEvent(s)
  /\ Election!OnStartedEnds(s)

SupervisorAnnounces ==
  /\ Exporter!AnnounceLeader(Supervisor, 0)
  /\ Election!OnStoppedBegins

SupervisorLowers ==
  /\ Exporter!LowerLeaderEvent(Supervisor)
  /\ UNCHANGED electionVars

SupervisorClears ==
  /\ Exporter!ClearResourceGauges(Supervisor)
  /\ Election!OnStoppedEnds

ElectionStep ==
  /\ Exporter!Running
  /\ \/ Election!CheckRelease \/ Election!RunRaises \/ Election!EndBackoff
     \/ Election!RenewFails \/ Election!OtherAcquires \/ Election!OtherLeaves
     \/ \E s \in Starter : Election!Acquire(s)
  /\ UNCHANGED exporterVars

Terminated == main = "exited" /\ UNCHANGED vars

Next ==
  \/ StartLeaderElection \/ StartExporter \/ ReleaseElection \/ StopExporter
  \/ ExporterStep \/ ElectionStep
  \/ \E s \in Starter : StarterAnnounces(s) \/ StarterRaises(s)
  \/ SupervisorAnnounces \/ SupervisorLowers \/ SupervisorClears
  \/ Terminated

Spec == Init /\ [][Next]_vars

-----------------------------------------------------------------------------
(* Claims.                                                                 *)

\* No thread is in set_leader, or about to be.
Quiescent ==
  /\ supervisor \notin {"lost", "demoting"}
  /\ \A s \in Starter : starter[s] = "none"

\* "Whether this exporter replica currently holds the leader-election lock."
BeaconTruthful ==
  Quiescent /\ Exporter!Running => (beacon = 1 <=> supervisor = "renewing")

\* Of two replicas only the holder of the lock shows series: while another
\* replica holds it, this one has an empty page, unless a callback is still to
\* empty it or stop() has begun.
NoSecondPublisher ==
  holder = "other" /\ Quiescent /\ main \in {"starting", "serving"}
  => Exporter!Exposed = Exporter!Nothing

\* A page that shows anything of Azure is that of a replica which leads or is
\* just being demoted: whatever a poller of an earlier leadership still does,
\* nothing of it outlives the callback that ends the leadership.
ShowsOnlyWhileLeading ==
  main \in {"starting", "serving"} /\ Exporter!Exposed # Exporter!Nothing
  => supervisor \in {"renewing", "lost", "demoting"}

BackoffBounded == Election!BackoffBounded

\* Each variable of the election keeps to its values.
ElectionTypeOK == Election!TypeOK

\* The gate and the lock agree whenever no callback is under way, from before
\* start() until stop() raises the leadership event: no election is lost on the
\* pollers, and release() by itself neither opens nor shuts the gate.
GateFollowsLock ==
  Quiescent /\ main \in {"starting", "serving", "stopping"}
  => (leaderEvent <=> supervisor = "renewing")

\* However late on_started_leading comes, a set_leader(True) in its thread that
\* overlaps the set_leader(False) of the supervisor and the collections of the
\* pollers leaves nothing on a page whose gate is shut and cleared.
FollowerExposesNothing == Exporter!FollowerExposesNothing

\* The same interleavings keep to the leadership gate at every step.
GateSpec == Exporter!GateSpec

-----------------------------------------------------------------------------
(* Progress: every thread runs, a wait ends, a callback runs to its end.    *)
(* Nothing obliges the election to acquire, to fail or to raise.            *)

Fairness ==
  /\ \A p \in Exporter!Poller :
       WF_vars(Exporter!PollerStep(p) /\ UNCHANGED electionVars)
  /\ \A p \in Exporter!Poller :
       WF_vars(Exporter!QueryReturns(p) /\ UNCHANGED electionVars)
  /\ WF_vars(StartLeaderElection)
  /\ WF_vars(StartExporter)
  /\ \A s \in Starter : WF_vars(StarterAnnounces(s) \/ StarterRaises(s))
  /\ WF_vars(SupervisorAnnounces \/ SupervisorLowers \/ SupervisorClears)
  /\ WF_vars(Exporter!Running /\ (Election!CheckRelease \/ Election!EndBackoff)
             /\ UNCHANGED exporterVars)

LiveSpec == Spec /\ Fairness

\* Leadership reaches the pollers: a replica that goes on renewing the lock
\* goes on querying Azure, whatever came before.
LeaderCollects ==
  <>[](supervisor = "renewing" /\ main = "serving")
  => []<>(pc["vmss"] = "querying")

\* The supervisor never gives up: a lost or failed election is followed by
\* another campaign, unless the process is released or over.
KeepsCampaigning ==
  supervisor \in {"lost", "demoting", "backoff", "check"}
  ~> (supervisor = "acquiring" \/ releaseEvent \/ main = "exited")
=============================================================================
