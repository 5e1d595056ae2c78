------------------------- MODULE ExporterProperties -------------------------
(***************************************************************************)
(* What is claimed of Exporter.  The theorems about it are in              *)
(* ExporterProofs, the instances TLC checks in MCExporter.                 *)
(***************************************************************************)
EXTENDS Exporter

PollerState == {"off", "loop", "gate", "waiting", "calling", "querying",
                "update", "summary", "sleeping", "done"}
CallState == {"idle", "raise", "lower", "clear"}
MainState == {"starting", "serving", "stopping", "joining", "exiting",
              "exited"}

\* Every variable keeps to what the code can store in it; in particular the
\* local result of a poller is a query's answer, and the published label sets
\* name resources a query answered with.
TypeOK ==
  /\ stopEvent \in BOOLEAN
  /\ leaderEvent \in BOOLEAN
  /\ beacon \in {0, 1}
  /\ pc \in [Poller -> PollerState]
  /\ counts \in VmssResult
  /\ lustre \in LustreResult
  /\ call \in [Caller -> CallState]
  /\ main \in MainState
  /\ gauges \in GaugeSets
  /\ active \in ActiveSets
  /\ totals \in [vmss : Nat, filesystems : Nat, osts : Nat]
  /\ success \in [Poller -> BOOLEAN]
  /\ duration \in [Poller -> BOOLEAN]
  /\ errors \in [Poller -> 0..MaxErrors]

-----------------------------------------------------------------------------
(* The registry and the bookkeeping that cleans it.                        *)

\* No label set leaks: what a family of gauges exposes is exactly what the
\* exporter remembers in its _active_*_labelsets and will therefore remove once
\* the resource is gone, through partial failures, demotions and clean-ups.
SeriesTracked ==
  /\ gauges.count = active.count
  /\ gauges.info = active.info
  /\ gauges.fsInfo = active.fsInfo
  /\ gauges.fsCapacity = active.fsCapacity
  /\ gauges.stamp = active.sample
  /\ \A v \in gauges.value : v[1] \in active.sample

\* The join of azure_vmss_instance_count with azure_vmss_info on the VMSS
\* labels has exactly one partner for each series, even after a resize
\* changed the scale set's vm_size or sku_tier.
UniqueInfo ==
  /\ gauges.count = {i[1] : i \in gauges.info}
  /\ \A i, j \in gauges.info : i[1] = j[1] => i = j

Clearing == {c \in Caller : call[c] = "clear"}

\* vmss_total counts the exposed scale sets, with three exceptions: between the
\* two critical sections of a collection; while a demoted replica is still to be
\* cleared; and on the empty page of a leader.  The last is what a demotion and
\* a promotion between the critical sections leave: the page is cleared, and
\* then the total is written.  TotalsSettle says how that ends.
TotalsMatchSeries ==
  \/ totals.vmss = Cardinality(gauges.count)
  \/ pc["vmss"] = "summary"
  \/ Clearing # {}
  \/ gauges.count = {} /\ leaderEvent

\* A collection without failures replaces everything: the page then shows the
\* samples, values and metadata of its result and nothing older.
CleanCollectionReplaces ==
  [][(LustreEnabled /\ pc["lustre"] = "update" /\ pc'["lustre"] = "summary"
      /\ lustre.failed = {})
     => /\ gauges'.fsInfo = Graph(lustre.filesystems)
        /\ gauges'.fsCapacity = DOMAIN lustre.filesystems
        /\ gauges'.stamp = DOMAIN lustre.samples
        /\ \A s \in Sample, g \in ValueGauge :
             <<s, g>> \in gauges'.value
             <=> s \in DOMAIN lustre.samples /\ g \in lustre.samples[s]]_vars

\* A partial failure hides no capacity signal: every series of a filesystem
\* whose Monitor query failed outlives the update with that result.  Its info
\* series may gain a partner there, if the sku_tier label has changed.
PartialFailureKeepsSeries ==
  [][(LustreEnabled /\ pc["lustre"] = "update" /\ pc'["lustre"] = "summary")
     => \A f \in lustre.failed :
          /\ {v \in gauges.value : v[1][1] = f}
               = {v \in gauges'.value : v[1][1] = f}
          /\ {s \in gauges.stamp : s[1] = f} = {s \in gauges'.stamp : s[1] = f}
          /\ {i \in gauges.fsInfo : i[1] = f} \subseteq gauges'.fsInfo
          /\ f \in gauges'.fsCapacity]_vars

-----------------------------------------------------------------------------
(* Leadership and the page.                                                *)

\* What the page shows of Azure, durations left out.
Exposed == [gauges |-> gauges, totals |-> totals, success |-> success]

Exposition == [gauges : GaugeSets,
               totals : [vmss : Nat, filesystems : Nat, osts : Nat],
               success : [Poller -> BOOLEAN]]

Nothing == [gauges |-> NoGauges, totals |-> ZeroTotals,
            success |-> [p \in Poller |-> FALSE]]

Idle == \A c \in Caller : call[c] = "idle"

\* Once the leadership event is down and every set_leader(False) has cleared,
\* no poller still in the middle of a collection brings a series, a total or a
\* success timestamp back.
FollowerExposesNothing == ~leaderEvent /\ Clearing = {} => Exposed = Nothing

\* The gauge operators watch and the event that gates the pollers agree when
\* no callback is under way and stop() has not raised the event.
BeaconAgrees ==
  Idle /\ main \in {"starting", "serving", "stopping"}
  => (leaderEvent <=> beacon = 1)

\* "/metrics from a follower exposes only the leadership beacon" as an operator
\* sees it, from the beacon, until stop() wakes the pollers; the durations are
\* not covered (see FollowerShowsOnlyBeacon).
SilentFollower ==
  beacon = 0 /\ Idle /\ main \in {"starting", "serving", "stopping"}
  => Exposed = Nothing

\* The docstring of set_leader to the letter, durations included.
FollowerShowsOnlyBeacon ==
  beacon = 0 /\ Idle /\ main \in {"starting", "serving"}
  => Exposed = Nothing /\ \A p \in Poller : ~duration[p]

Follower == LeaderElectionEnabled /\ beacon = 0 /\ Idle

\* "When leadership is held by another replica, no Azure calls happen": no
\* collection begins behind a beacon that is down.
FollowerMakesNoCalls ==
  [][\A p \in Poller :
       pc[p] # "querying" /\ pc'[p] = "querying" => ~Follower]_vars

\* The most steps a poller takes until it waits, if it is not called to lead.
UntilWaiting(label) ==
  CASE label = "calling" -> 7  [] label = "querying" -> 6
    [] label = "update" -> 5   [] label = "summary" -> 4
    [] label = "sleeping" -> 3 [] label = "loop" -> 2
    [] label = "gate" -> 1     [] OTHER -> 0

\* The same until it is done, if stop() has begun.
UntilDone(label) ==
  CASE label = "gate" -> 7    [] label = "calling" -> 6
    [] label = "querying" -> 5 [] label = "update" -> 4
    [] label = "summary" -> 3 [] label \in {"sleeping", "waiting"} -> 2
    [] label = "loop" -> 1    [] OTHER -> 0

\* What does hold of a follower's calls: while the leadership event is down
\* every step of a poller takes it towards its wait, so that it begins one
\* collection at most, the one for which it had already found itself leader.
FollowerWindsDown ==
  [][main # "starting" /\ ~leaderEvent /\ ~stopEvent =>
       \A p \in Poller :
         pc'[p] # pc[p] => UntilWaiting(pc'[p]) < UntilWaiting(pc[p])]_vars

\* The same of a process that is told to stop, whatever callbacks still come
\* and although stop() raises the leadership event: every step of a poller takes
\* it towards its end, and it begins one collection at most.
StopWindsDown ==
  [][main # "starting" /\ stopEvent =>
       \A p \in Poller :
         pc'[p] # pc[p] => UntilDone(pc'[p]) < UntilDone(pc[p])]_vars

\* The exporter implements the leadership gate.
Gate == INSTANCE LeaderGate
          WITH Closer <- Caller, open <- leaderEvent, clearing <- Clearing,
               exposed <- Exposed

GateSpec == Gate!Spec

-----------------------------------------------------------------------------
(* Progress.  The scheduler runs every thread; an interval ends; a callback *)
(* that began finishes; a process whose main has returned ends unless the   *)
(* pool is busy.  Nothing makes an Azure call return: a property that needs *)
(* it says so.  Signals and leadership changes are never owed.              *)

PollerStep(p) ==
  \/ CheckStop(p) \/ CheckLeadership(p) \/ BeginQuery(p)
  \/ StopWaiting(p) \/ EndSleep(p)
  \/ p = "vmss" /\ (UpdateVmss \/ SummarizeVmss)
  \/ p = "lustre" /\ (UpdateLustre \/ SummarizeLustre)

QueryReturns(p) ==
  \/ QueryFails(p)
  \/ p = "vmss" /\ QueryVmss
  \/ p = "lustre" /\ QueryLustre

CallbackStep(c) ==
  RaiseLeaderEvent(c) \/ LowerLeaderEvent(c) \/ ClearResourceGauges(c)

Fairness ==
  /\ \A p \in Poller : WF_vars(PollerStep(p))
  /\ \A c \in Caller : WF_vars(CallbackStep(c))
  /\ WF_vars(Start \/ StartupFails)
  /\ WF_vars(WakePollers)
  /\ WF_vars(Exit)
  /\ WF_vars(ProcessEnds /\ ~PoolBusy)

LiveSpec == Spec /\ Fairness

AzureAnswers == \A p \in Poller : WF_vars(QueryReturns(p))

\* A replica that stays leader queries Azure again and again, in every poller.
LeaderKeepsCollecting ==
  AzureAnswers /\ <>[](leaderEvent /\ main = "serving")
  => \A p \in Poller : []<>(pc[p] = "querying")

\* A replica that stays a follower stops calling Azure and its page empties.
FollowerComesToRest ==
  AzureAnswers /\ <>[](~leaderEvent /\ Running)
  => <>[](/\ \A p \in Poller : pc[p] = "waiting"
          /\ Exposed = Nothing)

\* A total that a demotion and a promotion left without its series does not
\* stay: once a lasting leader gets another answer, count and series agree.
TotalsSettle ==
  <>[](leaderEvent /\ main = "serving") /\ []<>(pc["vmss"] = "update")
  => <>[](pc["vmss"] # "summary" => totals.vmss = Cardinality(gauges.count))

\* A signal makes main return, though an Azure call may hang for ever; and it
\* ends the process, unless Monitor queries of a Lustre collection hang.
ShutdownCompletes ==
  /\ (main = "stopping") ~> (main \in {"exiting", "exited"})
  /\ (LustreEnabled => WF_vars(QueryReturns("lustre")))
     => ((main = "stopping") ~> (main = "exited"))
=============================================================================
