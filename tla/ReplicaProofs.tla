---------------------------- MODULE ReplicaProofs ----------------------------
(***************************************************************************)
(* Theorems about one replica with leader election, for any resources, any *)
(* retry period and any number of starter threads.                         *)
(***************************************************************************)
EXTENDS Replica, TLAPS

\* The replica as the exporter sees it: every step is one of the exporter's or
\* leaves it alone.
LEMMA StepIsExporterStep ==
  [Next]_vars => [Exporter!Next]_(Exporter!vars)
<1> SUFFICES ASSUME [Next]_vars PROVE [Exporter!Next]_(Exporter!vars)
  OBVIOUS
<1>1. UNCHANGED exporterVars => UNCHANGED Exporter!vars
  BY DEF exporterVars, Exporter!vars, Exporter!eventVars,
         Exporter!threadVars, Exporter!seriesVars, Exporter!summaryVars
<1>2. CASE StartLeaderElection \/ ReleaseElection \/ ElectionStep
  BY <1>1, <1>2 DEF StartLeaderElection, ReleaseElection, ElectionStep
<1>3. CASE StartExporter \/ StopExporter
  BY <1>3 DEF StartExporter, StopExporter, Exporter!Next
<1>4. CASE ExporterStep
  BY <1>4 DEF ExporterStep, Exporter!Next
<1>5. ASSUME NEW s \in Starter, StarterAnnounces(s) \/ StarterRaises(s)
      PROVE  Exporter!Next
  <2>1. Exporter!SetLeader(s)
    BY <1>5 DEF StarterAnnounces, StarterRaises, Exporter!SetLeader
  <2> QED
    BY <2>1 DEF Exporter!Next
<1>6. CASE SupervisorAnnounces \/ SupervisorLowers \/ SupervisorClears
  <2>1. Exporter!SetLeader(Supervisor)
    BY <1>6 DEF SupervisorAnnounces, SupervisorLowers, SupervisorClears,
                Exporter!SetLeader
  <2> QED
    BY <2>1 DEF Exporter!Next
<1>7. CASE Terminated \/ UNCHANGED vars
  BY <1>1, <1>7 DEF Terminated, vars
<1> QED
  BY <1>2, <1>3, <1>4, <1>5, <1>6, <1>7 DEF Next

\* What is proved of the exporter with arbitrary set_leader calls holds of a
\* replica.
LEMMA ReplicaIsExporter == Spec => Exporter!Spec
<1>1. Init => Exporter!Init
  BY DEF Init
<1> QED
  BY <1>1, StepIsExporterStep, PTL DEF Spec, Exporter!Spec

-----------------------------------------------------------------------------
(* What a replica inherits.  The theorems about the exporter with          *)
(* arbitrary set_leader calls are those of ExporterProofs, with the        *)
(* threads of a replica in the place of the callers.                       *)

Proved == INSTANCE ExporterProofs
            WITH Caller <- Starter \cup {Supervisor},
                 LeaderElectionEnabled <- TRUE

\* The constants of a replica are constants of an exporter.
LEMMA ConstantsFit == Proved!ExporterConstants
BY ReplicaConstants
DEF Proved!ExporterConstants, IsFiniteSet, Proved!IsFiniteSet

\* The exporter the theorems are about is the exporter of the replica.
LEMMA SameExporter == Exporter!Spec => Proved!Spec
<1>1. Exporter!Init => Proved!Init
  BY DEF Exporter!Init, Proved!Init, Exporter!NoRows, Proved!NoRows,
         Exporter!NoLustreRows, Proved!NoLustreRows, Exporter!NoGauges,
         Proved!NoGauges, Exporter!NoneActive, Proved!NoneActive,
         Exporter!ZeroTotals, Proved!ZeroTotals, Exporter!Poller, Proved!Poller
<1>2. [Exporter!Next]_(Exporter!vars) => [Proved!Next]_(Proved!vars)
  BY DEF Exporter!vars, Proved!vars, Exporter!eventVars, Proved!eventVars,
         Exporter!threadVars, Proved!threadVars, Exporter!seriesVars,
         Proved!seriesVars, Exporter!summaryVars, Proved!summaryVars,
         Exporter!Poller, Proved!Poller, Exporter!Partial, Proved!Partial,
         Exporter!Graph, Proved!Graph, Exporter!NoRows, Proved!NoRows,
         Exporter!VmssResult, Proved!VmssResult, Exporter!Sample,
         Proved!Sample, Exporter!LustreResult, Proved!LustreResult,
         Exporter!NoLustreRows, Proved!NoLustreRows, Exporter!OstSamples,
         Proved!OstSamples, Exporter!NoGauges, Proved!NoGauges,
         Exporter!NoneActive, Proved!NoneActive, Exporter!ZeroTotals,
         Proved!ZeroTotals, Exporter!Saturated, Proved!Saturated,
         Exporter!Running, Proved!Running, Exporter!Goto, Proved!Goto,
         Exporter!CanWriteMetrics, Proved!CanWriteMetrics, Exporter!Refreshed,
         Proved!Refreshed, Exporter!Tracked, Proved!Tracked,
         Exporter!RefreshedValues, Proved!RefreshedValues,
         Exporter!PublishVmss, Proved!PublishVmss, Exporter!PublishLustre,
         Proved!PublishLustre, Exporter!CheckStop, Proved!CheckStop,
         Exporter!CheckLeadership, Proved!CheckLeadership,
         Exporter!BeginQuery, Proved!BeginQuery,
         Exporter!StopWaiting, Proved!StopWaiting, Exporter!EndSleep,
         Proved!EndSleep, Exporter!QueryFails, Proved!QueryFails,
         Exporter!QueryVmss, Proved!QueryVmss, Exporter!UpdateVmss,
         Proved!UpdateVmss, Exporter!SummarizeVmss, Proved!SummarizeVmss,
         Exporter!QueryLustre, Proved!QueryLustre, Exporter!UpdateLustre,
         Proved!UpdateLustre, Exporter!SummarizeLustre, Proved!SummarizeLustre,
         Exporter!AnnounceLeader, Proved!AnnounceLeader,
         Exporter!RaiseLeaderEvent, Proved!RaiseLeaderEvent,
         Exporter!LowerLeaderEvent, Proved!LowerLeaderEvent,
         Exporter!ClearResourceGauges, Proved!ClearResourceGauges,
         Exporter!SetLeader, Proved!SetLeader, Exporter!StartupFails,
         Proved!StartupFails, Exporter!Start, Proved!Start, Exporter!Stop,
         Proved!Stop, Exporter!WakePollers, Proved!WakePollers, Exporter!Exit,
         Proved!Exit, Exporter!ProcessEnds, Proved!ProcessEnds,
         Exporter!Terminated, Proved!Terminated,
         Exporter!PollerLoop, Proved!PollerLoop, Exporter!Next, Proved!Next,
         Exporter!Cardinality, Proved!Cardinality
<1> QED
  BY <1>1, <1>2, PTL DEF Exporter!Spec, Proved!Spec

\* A replica keeps its registry in order through every election: nothing
\* leaks, every count has one info series, the totals fit, and a page whose
\* gate is shut and cleared is empty.
THEOREM ReplicaKeepsRegistry ==
  Spec => [](/\ Exporter!SeriesTracked
             /\ Exporter!UniqueInfo
             /\ Exporter!TotalsMatchSeries
             /\ FollowerExposesNothing)
<1>1. Proved!SeriesTracked => Exporter!SeriesTracked
  BY DEF Proved!SeriesTracked, Exporter!SeriesTracked
<1>2. Proved!UniqueInfo => Exporter!UniqueInfo
  BY DEF Proved!UniqueInfo, Exporter!UniqueInfo
<1>3. Proved!TotalsMatchSeries => Exporter!TotalsMatchSeries
  <2>1. Proved!Clearing = Exporter!Clearing
    BY DEF Proved!Clearing, Exporter!Clearing
  <2>2. Proved!Cardinality(gauges.count) = Exporter!Cardinality(gauges.count)
    BY DEF Proved!Cardinality, Exporter!Cardinality
  <2> QED
    BY <2>1, <2>2 DEF Proved!TotalsMatchSeries, Exporter!TotalsMatchSeries
<1>4. Proved!FollowerExposesNothing => FollowerExposesNothing
  BY DEF Proved!FollowerExposesNothing, FollowerExposesNothing,
         Exporter!FollowerExposesNothing,
         Proved!Clearing, Exporter!Clearing, Proved!Exposed,
         Exporter!Exposed, Proved!Nothing, Exporter!Nothing,
         Proved!NoGauges, Exporter!NoGauges, Proved!ZeroTotals,
         Exporter!ZeroTotals, Proved!Poller, Exporter!Poller
<1> QED
  BY <1>1, <1>2, <1>3, <1>4, ReplicaIsExporter, SameExporter, ConstantsFit,
     Proved!NoSeriesLeaks, Proved!InfoIsUnique, Proved!TotalsMatch,
     Proved!FollowersExposeNothing, PTL

\* GateSpec: a replica keeps to the leadership gate, whichever callbacks of
\* starters and supervisor overlap.
THEOREM ReplicaKeepsGate == Spec => GateSpec
<1> USE DEF Proved!Clearing, Exporter!Clearing, Proved!Exposed,
            Exporter!Exposed, Proved!Nothing, Exporter!Nothing,
            Proved!NoGauges, Exporter!NoGauges, Proved!ZeroTotals,
            Exporter!ZeroTotals, Proved!Poller, Exporter!Poller
<1>1. Proved!Gate!Init => Exporter!Gate!Init
  BY DEF Proved!Gate!Init, Exporter!Gate!Init
<1>2. [Proved!Gate!Next]_(Proved!Gate!gateVars)
      => [Exporter!Gate!Next]_(Exporter!Gate!gateVars)
  BY DEF Proved!Gate!Next, Exporter!Gate!Next, Proved!Gate!gateVars,
         Exporter!Gate!gateVars, Proved!Gate!Open, Exporter!Gate!Open,
         Proved!Gate!Publish, Exporter!Gate!Publish, Proved!Gate!Shut,
         Exporter!Gate!Shut, Proved!Gate!Clear, Exporter!Gate!Clear,
         Proved!Exposition, Exporter!Exposition, Proved!GaugeSets,
         Exporter!GaugeSets, Proved!Sample, Exporter!Sample
<1> QED
  BY <1>1, <1>2, ReplicaIsExporter, SameExporter, ConstantsFit,
     Proved!ImplementsGate, PTL
  DEF GateSpec, Exporter!GateSpec, Proved!GateSpec, Exporter!Gate!Spec,
      Proved!Gate!Spec

\* In a replica, too, a clean Lustre collection replaces everything, and a
\* partial failure removes nothing of a filesystem that failed.
THEOREM ReplicaRefreshesRightly ==
  Spec => /\ Exporter!CleanCollectionReplaces
          /\ Exporter!PartialFailureKeepsSeries
<1> USE DEF Exporter!vars, Exporter!eventVars, Exporter!threadVars,
            Exporter!seriesVars, Exporter!summaryVars, Proved!vars,
            Proved!eventVars, Proved!threadVars, Proved!seriesVars,
            Proved!summaryVars
<1>1. Proved!CleanCollectionReplaces => Exporter!CleanCollectionReplaces
  BY DEF Proved!CleanCollectionReplaces, Exporter!CleanCollectionReplaces,
         Proved!Graph, Exporter!Graph, Proved!Sample, Exporter!Sample
<1>2. Proved!PartialFailureKeepsSeries => Exporter!PartialFailureKeepsSeries
  BY DEF Proved!PartialFailureKeepsSeries, Exporter!PartialFailureKeepsSeries
<1> QED
  BY <1>1, <1>2, ReplicaIsExporter, SameExporter, ConstantsFit,
     Proved!CleanReplaces, Proved!PartialFailureHidesNothing, PTL

-----------------------------------------------------------------------------
(* The election.                                                           *)

\* The replica as the election sees it.
LEMMA StepIsElectionStep ==
  [Next]_vars => [Election!Next]_(Election!electionVars)
<1> SUFFICES ASSUME [Next]_vars PROVE [Election!Next]_(Election!electionVars)
  OBVIOUS
<1>1. UNCHANGED electionVars => UNCHANGED Election!electionVars
  BY DEF electionVars, Election!electionVars
<1>2. CASE StartLeaderElection \/ ReleaseElection
  BY <1>2 DEF StartLeaderElection, ReleaseElection, Election!Next
<1>3. CASE StartExporter \/ StopExporter \/ ExporterStep \/ SupervisorLowers
  BY <1>1, <1>3 DEF StartExporter, StopExporter, ExporterStep,
                    SupervisorLowers
<1>4. CASE ElectionStep
  BY <1>4 DEF ElectionStep, Election!Next
<1>5. ASSUME NEW s \in Starter, StarterAnnounces(s) \/ StarterRaises(s)
      PROVE  Election!Next
  BY <1>5 DEF StarterAnnounces, StarterRaises, Election!Next
<1>6. CASE SupervisorAnnounces \/ SupervisorClears
  BY <1>6 DEF SupervisorAnnounces, SupervisorClears, Election!Next
<1>7. CASE Terminated \/ UNCHANGED vars
  BY <1>1, <1>7 DEF Terminated, vars
<1> QED
  BY <1>2, <1>3, <1>4, <1>5, <1>6, <1>7 DEF Next

\* Type correctness of the election in a replica.
THEOREM ElectionTypeCorrect == Spec => []ElectionTypeOK
<1>1. Init => ElectionTypeOK
  BY ReplicaConstants
  DEF Init, Election!Init, ElectionTypeOK, Election!TypeOK,
      Election!SupervisorState
<1>2. ElectionTypeOK /\ [Next]_vars => ElectionTypeOK'
  <2> SUFFICES ASSUME Election!TypeOK,
                      [Election!Next]_(Election!electionVars)
               PROVE  Election!TypeOK'
    BY StepIsElectionStep DEF ElectionTypeOK
  <2> USE DEF Election!TypeOK, Election!SupervisorState
  <2>1. CASE Election!StartSupervisor \/ Election!CheckRelease
               \/ Election!RunRaises \/ Election!OnStoppedBegins
               \/ Election!Release \/ Election!RenewFails
               \/ Election!OtherAcquires \/ Election!OtherLeaves
    BY <2>1 DEF Election!StartSupervisor, Election!CheckRelease,
                Election!RunRaises, Election!OnStoppedBegins,
                Election!Release, Election!RenewFails,
                Election!OtherAcquires, Election!OtherLeaves
  <2>2. CASE Election!OnStoppedEnds \/ Election!EndBackoff
    BY <2>2, ReplicaConstants
    DEF Election!OnStoppedEnds, Election!EndBackoff, Election!MaxBackoff
  <2>3. ASSUME NEW s \in Starter,
               Election!Acquire(s) \/ Election!OnStartedBegins(s)
                 \/ Election!OnStartedEnds(s)
        PROVE  Election!TypeOK'
    BY <2>3 DEF Election!Acquire, Election!OnStartedBegins,
                Election!OnStartedEnds
  <2>4. CASE UNCHANGED Election!electionVars
    BY <2>4 DEF Election!electionVars
  <2> QED
    BY <2>1, <2>2, <2>3, <2>4 DEF Election!Next
<1> QED
  BY <1>1, <1>2, PTL DEF Spec

\* BackoffBounded holds for every retry period.
THEOREM BackoffStaysBounded == Spec => []BackoffBounded
<1> USE DEF BackoffBounded, Election!BackoffBounded, Election!MaxBackoff
<1>1. Init => BackoffBounded
  BY ReplicaConstants DEF Init, Election!Init
<1>2. ElectionTypeOK /\ BackoffBounded /\ [Next]_vars => BackoffBounded'
  <2> SUFFICES ASSUME Election!TypeOK, BackoffBounded,
                      [Election!Next]_(Election!electionVars)
               PROVE  BackoffBounded'
    BY StepIsElectionStep DEF ElectionTypeOK
  <2>1. CASE Election!OnStoppedEnds
    BY <2>1, ReplicaConstants DEF Election!OnStoppedEnds
  <2>2. CASE Election!EndBackoff
    BY <2>2, ReplicaConstants DEF Election!EndBackoff, Election!TypeOK
  <2>3. CASE UNCHANGED backoff
    BY <2>3
  <2>4. \/ Election!OnStoppedEnds
        \/ Election!EndBackoff
        \/ UNCHANGED backoff
    BY DEF Election!Next, Election!StartSupervisor, Election!CheckRelease,
           Election!RunRaises, Election!OnStoppedBegins, Election!Release,
           Election!RenewFails, Election!OtherAcquires, Election!OtherLeaves,
           Election!Acquire, Election!OnStartedBegins, Election!OnStartedEnds,
           Election!electionVars
  <2> QED
    BY <2>1, <2>2, <2>3, <2>4
<1> QED
  BY <1>1, <1>2, ElectionTypeCorrect, PTL DEF Spec

-----------------------------------------------------------------------------
(* The callbacks.  At most that on_started_leading is prompt is assumed    *)
(* here: run() may raise at any moment.                                    *)

Serving == main \in {"starting", "serving", "stopping"}

\* Where each thread is in set_leader follows from where the election has it;
\* if starters are prompt the supervisor's turn comes when none is left.
SerialInv ==
  /\ call \in [Starter \cup {Supervisor} -> Exporter!CallState]
  /\ \A s \in Starter :
       call[s] = (IF starter[s] = "running" THEN "raise" ELSE "idle")
  /\ supervisor # "demoting" => call[Supervisor] = "idle"
  /\ supervisor = "demoting" => call[Supervisor] \in {"lower", "clear"}
  /\ PromptStarters /\ supervisor \in {"lost", "demoting"}
     => \A s \in Starter : starter[s] = "none"

\* What the exporter and main do by themselves touches neither the beacon nor a
\* callback, nor the event before stop() wakes the pollers.
LEMMA OwnSteps ==
  ASSUME StartExporter \/ StopExporter \/ ExporterStep
  PROVE  /\ UNCHANGED <<beacon, call, electionVars>>
         /\ Serving' => Serving /\ UNCHANGED leaderEvent
         /\ main' \in {"starting", "serving"}
            => main \in {"starting", "serving"}
<1> USE DEF Serving, Exporter!eventVars
<1>1. CASE StartExporter \/ StopExporter
  BY <1>1 DEF StartExporter, StopExporter, Exporter!Start, Exporter!Stop
<1>2. CASE ExporterStep
  <2>1. CASE Exporter!StartupFails \/ Exporter!WakePollers \/ Exporter!Exit
               \/ Exporter!ProcessEnds
    BY <1>2, <2>1 DEF ExporterStep, Exporter!StartupFails,
                      Exporter!WakePollers, Exporter!Exit,
                      Exporter!ProcessEnds
  <2>2. CASE \/ \E p \in Exporter!Poller : Exporter!PollerLoop(p)
             \/ Exporter!QueryVmss \/ Exporter!UpdateVmss
             \/ Exporter!SummarizeVmss \/ Exporter!QueryLustre
             \/ Exporter!UpdateLustre \/ Exporter!SummarizeLustre
    <3>1. UNCHANGED <<leaderEvent, beacon, call, main>>
      BY <2>2
      DEF Exporter!PollerLoop, Exporter!CheckStop, Exporter!CheckLeadership,
          Exporter!BeginQuery, Exporter!StopWaiting, Exporter!EndSleep,
          Exporter!QueryFails, Exporter!QueryVmss, Exporter!UpdateVmss, Exporter!SummarizeVmss,
          Exporter!QueryLustre, Exporter!UpdateLustre,
          Exporter!SummarizeLustre
    <3> QED
      BY <1>2, <3>1 DEF ExporterStep
  <2> QED
    BY <1>2, <2>1, <2>2 DEF ExporterStep
<1> QED
  BY <1>1, <1>2

\* Where the callbacks are, in any replica.
LEMMA SerialInvHolds == Spec => []SerialInv
<1>1. Init => SerialInv
  <2> SUFFICES ASSUME Init PROVE SerialInv
    OBVIOUS
  <2>1. /\ call = [c \in Starter \cup {Supervisor} |-> "idle"]
        /\ starter = [s \in Starter |-> "none"]
        /\ supervisor = "off"
    BY DEF Init, Exporter!Init, Election!Init
  <2>2. call \in [Starter \cup {Supervisor} -> Exporter!CallState]
    BY <2>1 DEF Exporter!CallState
  <2>3. \A s \in Starter : call[s] = "idle" /\ starter[s] = "none"
    BY <2>1
  <2>4. call[Supervisor] = "idle"
    BY <2>1
  <2> QED
    BY <2>1, <2>2, <2>3, <2>4 DEF SerialInv
<1>2. ElectionTypeOK /\ SerialInv /\ [Next]_vars => SerialInv'
  <2> SUFFICES ASSUME ElectionTypeOK, SerialInv, [Next]_vars
               PROVE  SerialInv'
    OBVIOUS
  <2>0. /\ starter \in [Starter -> {"none", "spawned", "running"}]
        /\ call \in [Starter \cup {Supervisor} -> Exporter!CallState]
        /\ Supervisor \notin Starter
    BY ReplicaConstants
    DEF ElectionTypeOK, Election!TypeOK, SerialInv, Supervisor
  <2> USE DEF SerialInv, electionVars, exporterVars, Exporter!CallState
  <2>1. CASE StartExporter \/ StopExporter \/ ExporterStep
    BY <2>1, OwnSteps
  <2>2. CASE StartLeaderElection \/ ReleaseElection
    BY <2>2 DEF StartLeaderElection, ReleaseElection,
                Election!StartSupervisor, Election!Release
  <2>3. CASE ElectionStep
    <3>1. CASE \E s \in Starter : Election!Acquire(s)
      BY <2>0, <2>3, <3>1 DEF ElectionStep, Election!Acquire
    <3>2. CASE Election!RenewFails
      BY <2>3, <3>2 DEF ElectionStep, Election!RenewFails
    <3>3. CASE \/ Election!CheckRelease \/ Election!RunRaises
               \/ Election!EndBackoff \/ Election!OtherAcquires
               \/ Election!OtherLeaves
      BY <2>3, <3>3 DEF ElectionStep, Election!CheckRelease,
                        Election!RunRaises, Election!EndBackoff,
                        Election!OtherAcquires, Election!OtherLeaves
    <3> QED
      BY <2>3, <3>1, <3>2, <3>3 DEF ElectionStep
  <2>4. ASSUME NEW s \in Starter, StarterAnnounces(s) PROVE SerialInv'
    BY <2>0, <2>4 DEF StarterAnnounces, Exporter!AnnounceLeader,
                      Election!OnStartedBegins
  <2>5. ASSUME NEW s \in Starter, StarterRaises(s) PROVE SerialInv'
    BY <2>0, <2>5 DEF StarterRaises, Exporter!RaiseLeaderEvent,
                      Election!OnStartedEnds
  <2>6. CASE SupervisorAnnounces
    BY <2>0, <2>6 DEF SupervisorAnnounces, Exporter!AnnounceLeader,
                      Election!OnStoppedBegins
  <2>7. CASE SupervisorLowers
    BY <2>0, <2>7 DEF SupervisorLowers, Exporter!LowerLeaderEvent
  <2>8. CASE SupervisorClears
    BY <2>0, <2>8 DEF SupervisorClears, Exporter!ClearResourceGauges,
                      Election!OnStoppedEnds
  <2>9. CASE Terminated \/ UNCHANGED vars
    <3>1. UNCHANGED <<call, supervisor, starter>>
      BY <2>9 DEF Terminated, vars
    <3> QED
      BY <3>1
  <2> QED
    BY <2>1, <2>2, <2>3, <2>4, <2>5, <2>6, <2>7, <2>8, <2>9 DEF Next
<1> QED
  BY <1>1, <1>2, ElectionTypeCorrect, PTL DEF Spec

\* However late on_started_leading runs and whenever run() raises, a thread
\* that is called back always finds its next step open, no set_leader of the
\* same thread is ever interrupted by another, and the supervisor ends by
\* nothing but release(): what its fairness and KeepsCampaigning build on.
THEOREM CallbacksNeverStick ==
  Spec => /\ [](/\ supervisor = "lost" => call[Supervisor] = "idle"
                /\ supervisor = "demoting"
                   => call[Supervisor] \in {"lower", "clear"}
                /\ \A s \in Starter :
                     /\ starter[s] = "spawned" => call[s] = "idle"
                     /\ starter[s] = "running" => call[s] = "raise")
          /\ [][supervisor # "exited" /\ supervisor' = "exited"
                => releaseEvent]_vars
<1> DEFINE Open ==
             /\ supervisor = "lost" => call[Supervisor] = "idle"
             /\ supervisor = "demoting"
                => call[Supervisor] \in {"lower", "clear"}
             /\ \A s \in Starter :
                  /\ starter[s] = "spawned" => call[s] = "idle"
                  /\ starter[s] = "running" => call[s] = "raise"
           Released ==
             supervisor # "exited" /\ supervisor' = "exited" => releaseEvent
<1>1. SerialInv => Open
  BY DEF SerialInv
<1>2. [Next]_vars => Released
  <2> SUFFICES ASSUME [Next]_vars, supervisor # "exited",
                      supervisor' = "exited"
               PROVE  releaseEvent
    OBVIOUS
  <2>1. [Election!Next]_(Election!electionVars)
    BY StepIsElectionStep
  <2> QED
    BY <2>1
    DEF Election!Next, Election!StartSupervisor, Election!CheckRelease,
        Election!RunRaises, Election!OnStoppedBegins, Election!OnStoppedEnds,
        Election!EndBackoff, Election!Release, Election!RenewFails,
        Election!OtherAcquires, Election!OtherLeaves, Election!Acquire,
        Election!OnStartedBegins, Election!OnStartedEnds,
        Election!electionVars
<1> QED
  BY <1>1, <1>2, SerialInvHolds, PTL DEF Spec

\* Beacon and event at each stage of a callback, until stop() wakes the
\* pollers.
StageInv ==
  Serving =>
    /\ Exporter!Idle => (leaderEvent <=> beacon = 1)
    /\ \A s \in Starter : call[s] = "raise" => beacon = 1
    /\ call[Supervisor] \in {"lower", "clear"} => beacon = 0
    /\ call[Supervisor] = "clear" => ~leaderEvent

\* As starters overlap nobody but each other, the beacon keeps up.
LEMMA StageInvHolds == ASSUME PromptStarters PROVE Spec => []StageInv
<1>1. Init => StageInv
  <2> SUFFICES ASSUME Init PROVE StageInv
    OBVIOUS
  <2>1. /\ \A c \in Starter \cup {Supervisor} : call[c] = "idle"
        /\ leaderEvent = FALSE /\ beacon = 0
    BY DEF Init, Exporter!Init
  <2> QED
    BY <2>1 DEF StageInv
<1>2. SerialInv /\ SerialInv' /\ StageInv /\ [Next]_vars => StageInv'
  <2> SUFFICES ASSUME SerialInv, SerialInv', StageInv, [Next]_vars, Serving'
               PROVE  StageInv'
    BY DEF StageInv
  <2>0. call \in [Starter \cup {Supervisor} -> Exporter!CallState]
    BY DEF SerialInv
  <2> USE DEF StageInv, Exporter!Idle
  <2>1. ASSUME UNCHANGED <<leaderEvent, beacon, call>>, Serving
        PROVE  StageInv'
    BY <2>1
  <2>2. CASE StartExporter \/ StopExporter \/ ExporterStep
    BY <2>1, <2>2, OwnSteps
  <2>3. CASE \/ StartLeaderElection \/ ReleaseElection \/ ElectionStep
             \/ Terminated \/ UNCHANGED vars
    <3>1. UNCHANGED <<leaderEvent, beacon, call, main>>
      BY <2>3 DEF StartLeaderElection, ReleaseElection, ElectionStep,
                  Terminated, vars, exporterVars
    <3> QED
      BY <2>1, <3>1 DEF Serving
  <2>4. ASSUME NEW s \in Starter, StarterAnnounces(s) PROVE StageInv'
    <3>1. /\ call' = [call EXCEPT ![s] = "raise"] /\ beacon' = 1
          /\ starter[s] = "spawned"
      BY <2>4 DEF StarterAnnounces, Exporter!AnnounceLeader,
                  Election!OnStartedBegins
    <3>2. call'[s] = "raise" /\ call'[Supervisor] = "idle"
      BY <2>0, <3>1, ReplicaConstants DEF SerialInv, Supervisor
    <3> QED
      BY <3>1, <3>2
  <2>5. ASSUME NEW s \in Starter, StarterRaises(s) PROVE StageInv'
    <3>1. /\ call[s] = "raise" /\ call' = [call EXCEPT ![s] = "idle"]
          /\ leaderEvent' = TRUE /\ UNCHANGED <<beacon, main>>
          /\ starter[s] = "running"
      BY <2>5 DEF StarterRaises, Exporter!RaiseLeaderEvent,
                  Election!OnStartedEnds
    <3>2. beacon = 1
      BY <3>1 DEF Serving
    <3>3. call'[Supervisor] = "idle"
      BY <2>0, <3>1, ReplicaConstants DEF SerialInv, Supervisor
    <3> QED
      BY <3>1, <3>2, <3>3
  <2>6. CASE SupervisorAnnounces
    <3>1. /\ call' = [call EXCEPT ![Supervisor] = "lower"] /\ beacon' = 0
          /\ supervisor = "lost"
      BY <2>6 DEF SupervisorAnnounces, Exporter!AnnounceLeader,
                  Election!OnStoppedBegins
    <3>2. call'[Supervisor] = "lower" /\ \A s \in Starter : call'[s] = "idle"
      BY <2>0, <3>1, ReplicaConstants DEF SerialInv, Supervisor
    <3> QED
      BY <3>1, <3>2
  <2>7. CASE SupervisorLowers
    <3>1. /\ call[Supervisor] = "lower"
          /\ call' = [call EXCEPT ![Supervisor] = "clear"]
          /\ leaderEvent' = FALSE /\ UNCHANGED <<beacon, main, electionVars>>
      BY <2>7 DEF SupervisorLowers, Exporter!LowerLeaderEvent
    <3>2. beacon = 0
      BY <3>1 DEF Serving
    <3>3. supervisor = "demoting"
      BY <3>1 DEF SerialInv
    <3>4. call'[Supervisor] = "clear" /\ \A s \in Starter : call'[s] = "idle"
      BY <2>0, <3>1, <3>3, ReplicaConstants DEF SerialInv, Supervisor
    <3> QED
      BY <3>1, <3>2, <3>4
  <2>8. CASE SupervisorClears
    <3>1. /\ call[Supervisor] = "clear"
          /\ call' = [call EXCEPT ![Supervisor] = "idle"]
          /\ UNCHANGED <<leaderEvent, beacon, main>>
          /\ supervisor = "demoting"
      BY <2>8 DEF SupervisorClears, Exporter!ClearResourceGauges,
                  Exporter!eventVars, Election!OnStoppedEnds
    <3>2. beacon = 0 /\ ~leaderEvent
      BY <3>1 DEF Serving
    <3>3. \A c \in Starter \cup {Supervisor} : call'[c] = "idle"
      BY <2>0, <3>1, ReplicaConstants DEF SerialInv, Supervisor
    <3> QED
      BY <3>1, <3>2, <3>3
  <2> QED
    BY <2>2, <2>3, <2>4, <2>5, <2>6, <2>7, <2>8 DEF Next
<1> QED
  BY <1>1, <1>2, SerialInvHolds, PTL DEF Spec

\* In a replica beacon and event agree between callbacks, though these come from
\* several threads (ExporterProofs has this for a single one).
THEOREM ReplicaBeaconAgrees ==
  ASSUME PromptStarters PROVE Spec => []Exporter!BeaconAgrees
<1>1. StageInv => Exporter!BeaconAgrees
  BY DEF StageInv, Serving, Exporter!BeaconAgrees
<1> QED
  BY <1>1, StageInvHolds, PTL

\* So there is an empty page behind a beacon that is down.
THEOREM ReplicaFollowersAreSilent ==
  ASSUME PromptStarters PROVE Spec => []Exporter!SilentFollower
<1>1. Exporter!BeaconAgrees => Proved!BeaconAgrees
  BY DEF Exporter!BeaconAgrees, Proved!BeaconAgrees, Exporter!Idle,
         Proved!Idle
<1>2. Proved!SilentFollower => Exporter!SilentFollower
  BY DEF Exporter!SilentFollower, Proved!SilentFollower, Exporter!Idle,
         Proved!Idle, Proved!Exposed, Exporter!Exposed, Proved!Nothing,
         Exporter!Nothing, Proved!NoGauges, Exporter!NoGauges,
         Proved!ZeroTotals, Exporter!ZeroTotals, Proved!Poller,
         Exporter!Poller
<1> QED
  BY <1>1, <1>2, ReplicaBeaconAgrees, ReplicaIsExporter, SameExporter,
     ConstantsFit, Proved!AgreementSilences, PTL

\* A replica winds down as an exporter does, when it follows and when it stops.
THEOREM ReplicaWindsDown ==
  Spec => Exporter!FollowerWindsDown /\ Exporter!StopWindsDown
<1> USE DEF Exporter!vars, Exporter!eventVars, Exporter!threadVars,
            Exporter!seriesVars, Exporter!summaryVars, Proved!vars,
            Proved!eventVars, Proved!threadVars, Proved!seriesVars,
            Proved!summaryVars, Exporter!Poller, Proved!Poller
<1>1. Proved!FollowerWindsDown => Exporter!FollowerWindsDown
  BY DEF Proved!FollowerWindsDown, Exporter!FollowerWindsDown,
         Proved!UntilWaiting, Exporter!UntilWaiting
<1>2. Proved!StopWindsDown => Exporter!StopWindsDown
  BY DEF Proved!StopWindsDown, Exporter!StopWindsDown,
         Proved!UntilDone, Exporter!UntilDone
<1> QED
  BY <1>1, <1>2, ReplicaIsExporter, SameExporter, ConstantsFit,
     Proved!FollowersWindDown, Proved!StoppingWindsDown, PTL

-----------------------------------------------------------------------------
(* The beacon and the lock.                                                *)

\* What the beacon says at each stage of an election.
BeaconInv ==
  /\ supervisor = "renewing" /\ (\A s \in Starter : starter[s] # "spawned")
     => beacon = 1
  /\ supervisor = "lost" => beacon = 1
  /\ supervisor \notin {"renewing", "lost"} => beacon = 0
  /\ supervisor # "renewing" => \A s \in Starter : starter[s] = "none"

\* BeaconTruthful holds if run() raises only before it leads and
\* on_started_leading is over before the renew loop can give up.
THEOREM BeaconIsTruthful ==
  ASSUME ~RaisesWhileRenewing, PromptStarters
  PROVE  Spec => []BeaconTruthful
<1>1. Init => BeaconInv
  BY DEF Init, Exporter!Init, Election!Init, BeaconInv
<1>2. ElectionTypeOK /\ BeaconInv /\ [Next]_vars => BeaconInv'
  <2> SUFFICES ASSUME ElectionTypeOK, BeaconInv, [Next]_vars PROVE BeaconInv'
    OBVIOUS
  <2>0. starter \in [Starter -> {"none", "spawned", "running"}]
    BY DEF ElectionTypeOK, Election!TypeOK
  <2> USE DEF BeaconInv, electionVars, exporterVars
  <2>1. CASE StartLeaderElection \/ ReleaseElection
    BY <2>1 DEF StartLeaderElection, ReleaseElection,
                Election!StartSupervisor, Election!Release
  <2>2. CASE StartExporter \/ StopExporter \/ ExporterStep
    BY <2>2, OwnSteps
  <2>3. CASE ElectionStep
    <3>1. ASSUME NEW s \in Starter, Election!Acquire(s) PROVE starter'[s] = "spawned"
      BY <2>0, <3>1 DEF Election!Acquire
    <3>2. CASE \E s \in Starter : Election!Acquire(s)
      BY <2>3, <3>1, <3>2 DEF ElectionStep, Election!Acquire
    <3>3. CASE Election!CheckRelease \/ Election!RunRaises
                 \/ Election!EndBackoff
      BY <2>3, <3>3 DEF ElectionStep, Election!CheckRelease,
                        Election!RunRaises, Election!EndBackoff
    <3>4. CASE Election!RenewFails
      BY <2>3, <3>4 DEF ElectionStep, Election!RenewFails
    <3>5. CASE Election!OtherAcquires \/ Election!OtherLeaves
      BY <2>3, <3>5 DEF ElectionStep, Election!OtherAcquires,
                        Election!OtherLeaves
    <3> QED
      BY <2>3, <3>2, <3>3, <3>4, <3>5 DEF ElectionStep
  <2>4. ASSUME NEW s \in Starter, StarterAnnounces(s) PROVE BeaconInv'
    BY <2>0, <2>4 DEF StarterAnnounces, Exporter!AnnounceLeader,
                      Election!OnStartedBegins
  <2>5. ASSUME NEW s \in Starter, StarterRaises(s) PROVE BeaconInv'
    BY <2>0, <2>5 DEF StarterRaises, Exporter!RaiseLeaderEvent,
                      Election!OnStartedEnds
  <2>6. CASE SupervisorAnnounces
    BY <2>6 DEF SupervisorAnnounces, Exporter!AnnounceLeader,
                Election!OnStoppedBegins
  <2>7. CASE SupervisorLowers
    BY <2>7 DEF SupervisorLowers, Exporter!LowerLeaderEvent
  <2>8. CASE SupervisorClears
    BY <2>8 DEF SupervisorClears, Exporter!ClearResourceGauges,
                Exporter!eventVars, Election!OnStoppedEnds
  <2>9. CASE Terminated \/ UNCHANGED vars
    BY <2>9 DEF Terminated, vars
  <2> QED
    BY <2>1, <2>2, <2>3, <2>4, <2>5, <2>6, <2>7, <2>8, <2>9 DEF Next
<1>3. BeaconInv => BeaconTruthful
  BY DEF BeaconInv, BeaconTruthful, Quiescent
<1> QED
  BY <1>1, <1>2, <1>3, ElectionTypeCorrect, PTL DEF Spec

\* GateFollowsLock: so does the leadership event, until stop() raises it.
THEOREM GateIsTheLock ==
  ASSUME ~RaisesWhileRenewing, PromptStarters
  PROVE  Spec => []GateFollowsLock
<1>1. SerialInv /\ Exporter!BeaconAgrees /\ BeaconTruthful => GateFollowsLock
  <2> SUFFICES ASSUME SerialInv, Exporter!BeaconAgrees, BeaconTruthful,
                      Quiescent, main \in {"starting", "serving", "stopping"}
               PROVE  leaderEvent <=> supervisor = "renewing"
    BY DEF GateFollowsLock
  <2>1. Exporter!Idle
    BY DEF SerialInv, Quiescent, Exporter!Idle
  <2>2. Exporter!Running
    BY DEF Exporter!Running
  <2> QED
    BY <2>1, <2>2 DEF Exporter!BeaconAgrees, BeaconTruthful
<1> QED
  BY <1>1, SerialInvHolds, ReplicaBeaconAgrees, BeaconIsTruthful, PTL

-----------------------------------------------------------------------------
(* The lock and the page.                                                  *)

\* Outside a leadership the gate is shut, and leadership needs the lock.
LeadInv ==
  /\ supervisor # "renewing" => \A s \in Starter : starter[s] = "none"
  /\ holder = "other" => supervisor # "renewing"
  /\ main \in {"starting", "serving"}
     /\ supervisor \notin {"renewing", "lost", "demoting"} => ~leaderEvent

\* A replica leaves a leadership only through set_leader(False), if run() raises
\* only before it leads.
LEMMA LeadInvHolds ==
  ASSUME ~RaisesWhileRenewing, PromptStarters
  PROVE  Spec => []LeadInv
<1>1. Init => LeadInv
  BY DEF Init, Exporter!Init, Election!Init, LeadInv
<1>2. /\ ElectionTypeOK /\ SerialInv /\ StageInv /\ LeadInv /\ [Next]_vars
      => LeadInv'
  <2> SUFFICES ASSUME ElectionTypeOK, SerialInv, StageInv, LeadInv,
                      [Next]_vars
               PROVE  LeadInv'
    OBVIOUS
  <2>0. starter \in [Starter -> {"none", "spawned", "running"}]
    BY DEF ElectionTypeOK, Election!TypeOK
  <2> USE DEF LeadInv, electionVars, exporterVars
  <2>1. CASE StartExporter \/ StopExporter \/ ExporterStep
    BY <2>1, OwnSteps DEF Serving
  <2>2. CASE StartLeaderElection \/ ReleaseElection
    BY <2>2 DEF StartLeaderElection, ReleaseElection,
                Election!StartSupervisor, Election!Release
  <2>3. CASE ElectionStep
    <3>1. CASE \E s \in Starter : Election!Acquire(s)
      BY <2>3, <3>1 DEF ElectionStep, Election!Acquire
    <3>2. CASE Election!RenewFails
      BY <2>3, <3>2 DEF ElectionStep, Election!RenewFails
    <3>3. CASE \/ Election!CheckRelease \/ Election!RunRaises
               \/ Election!EndBackoff \/ Election!OtherAcquires
               \/ Election!OtherLeaves
      BY <2>3, <3>3 DEF ElectionStep, Election!CheckRelease,
                        Election!RunRaises, Election!EndBackoff,
                        Election!OtherAcquires, Election!OtherLeaves
    <3> QED
      BY <2>3, <3>1, <3>2, <3>3 DEF ElectionStep
  <2>4. ASSUME NEW s \in Starter, StarterAnnounces(s) \/ StarterRaises(s)
        PROVE  LeadInv'
    <3>1. starter[s] # "none" /\ UNCHANGED <<supervisor, holder, main>>
      BY <2>4 DEF StarterAnnounces, Exporter!AnnounceLeader,
                  Election!OnStartedBegins, StarterRaises,
                  Exporter!RaiseLeaderEvent, Election!OnStartedEnds
    <3> QED
      BY <3>1
  <2>5. CASE SupervisorAnnounces
    BY <2>5 DEF SupervisorAnnounces, Exporter!AnnounceLeader,
                Election!OnStoppedBegins
  <2>6. CASE SupervisorLowers
    BY <2>6 DEF SupervisorLowers, Exporter!LowerLeaderEvent
  <2>7. CASE SupervisorClears
    BY <2>7 DEF SupervisorClears, Exporter!ClearResourceGauges,
                Exporter!eventVars, Election!OnStoppedEnds, StageInv, Serving
  <2>8. CASE Terminated \/ UNCHANGED vars
    BY <2>8 DEF Terminated, vars
  <2> QED
    BY <2>1, <2>2, <2>3, <2>4, <2>5, <2>6, <2>7, <2>8 DEF Next
<1> QED
  BY <1>1, <1>2, ElectionTypeCorrect, SerialInvHolds, StageInvHolds, PTL
  DEF Spec

\* ShowsOnlyWhileLeading: a page that shows anything is that of a replica which
\* leads or is still being demoted, if run() raises only before it leads and
\* on_started_leading is over before the renew loop can give up.
THEOREM LeadersAlonePublish ==
  ASSUME ~RaisesWhileRenewing, PromptStarters
  PROVE  Spec => []ShowsOnlyWhileLeading
<1>1. SerialInv /\ LeadInv /\ FollowerExposesNothing
        => ShowsOnlyWhileLeading
  <2> SUFFICES ASSUME SerialInv, LeadInv, FollowerExposesNothing,
                      main \in {"starting", "serving"},
                      supervisor \notin {"renewing", "lost", "demoting"}
               PROVE  Exporter!Exposed = Exporter!Nothing
    BY DEF ShowsOnlyWhileLeading
  <2>1. ~leaderEvent
    BY DEF LeadInv
  <2>2. \A c \in Starter \cup {Supervisor} : call[c] # "clear"
    BY DEF SerialInv
  <2> QED
    BY <2>1, <2>2 DEF FollowerExposesNothing,
                      Exporter!FollowerExposesNothing, Exporter!Clearing
<1> QED
  BY <1>1, SerialInvHolds, LeadInvHolds, ReplicaKeepsRegistry, PTL

\* NoSecondPublisher: while another replica holds the lock and no callback is
\* under way, this one shows nothing, under the same assumptions.
THEOREM OnePublisher ==
  ASSUME ~RaisesWhileRenewing, PromptStarters
  PROVE  Spec => []NoSecondPublisher
<1>1. LeadInv /\ ShowsOnlyWhileLeading => NoSecondPublisher
  BY DEF LeadInv, ShowsOnlyWhileLeading, NoSecondPublisher, Quiescent
<1> QED
  BY <1>1, LeadInvHolds, LeadersAlonePublish, PTL
=============================================================================
