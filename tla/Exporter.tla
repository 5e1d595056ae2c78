------------------------------ MODULE Exporter ------------------------------
(***************************************************************************)
(* VmssMetricsExporter (collector.py): two poller threads that query Azure *)
(* and publish Prometheus series, the set_leader callback that starts and  *)
(* stops them, and the main thread that starts and stops the process.      *)
(*                                                                         *)
(* A block under _metric_lock is one action: nothing else that touches the *)
(* series runs meanwhile, except set_leader's events, whose one read in    *)
(* the block comes first.  Everything outside the lock is a step per read  *)
(* or write of shared state.                                               *)
(*                                                                         *)
(* A definition named D_Something is D with a bug.  No specification uses  *)
(* it; put in D's place it shows that a property can tell the difference.  *)
(***************************************************************************)
EXTENDS Integers, FiniteSets

CONSTANTS Vmss,          \* label sets of VM scale sets (label_values)
          Sku,           \* the labels azure_vmss_info adds to them
          Filesystem,    \* label sets of Managed Lustre filesystems
          Tier,          \* the sku_tier label filesystem_info adds
          Target,        \* OSTs and MDTs, with the operation if there is one
          Ost,           \* the targets the OST capacity samples are about
          ValueGauge,    \* the gauges that carry the values of one sample
          Caller,        \* the threads that call set_leader
          LeaderElectionEnabled,
          LustreEnabled,
          MaxErrors      \* bound: the error counters saturate here

ASSUME ExporterConstants ==
  /\ IsFiniteSet(Vmss) /\ IsFiniteSet(Filesystem) /\ IsFiniteSet(Target)
  /\ Ost \subseteq Target
  /\ LeaderElectionEnabled \in BOOLEAN
  /\ LustreEnabled \in BOOLEAN
  /\ MaxErrors \in Nat

VARIABLES stopEvent,     \* _stop_event
          leaderEvent,   \* _is_leader_event
          beacon,        \* azure_vmss_exporter_is_leader
          pc,            \* where each poller thread is
          counts,        \* the VMSS poller's local result
          lustre,        \* the Lustre poller's local result
          call,          \* how far each set_leader call has come
          main,          \* where the main thread is
          gauges,        \* the label sets each family of gauges exposes
          active,        \* the _active_*_labelsets
          totals,        \* vmss_total, filesystem_total and ost_total
          success,       \* whether last_success_timestamp is nonzero
          duration,      \* whether collection_duration has been set
          errors         \* collection_errors

threadVars == <<pc, counts, lustre>>
seriesVars == <<gauges, active>>
summaryVars == <<totals, success, duration>>
eventVars == <<stopEvent, leaderEvent, beacon>>
vars == <<eventVars, threadVars, call, main, seriesVars, summaryVars, errors>>

-----------------------------------------------------------------------------
(* Data: what the queries return and what the registry holds.              *)

Poller == IF LustreEnabled THEN {"vmss", "lustre"} ELSE {"vmss"}

\* Functions from some of S to T.
Partial(S, T) == UNION {[D -> T] : D \in SUBSET S}

Graph(f) == {<<x, f[x]>> : x \in DOMAIN f}

NoRows == [x \in {} |-> x]

\* Resource Graph answers with one row for each scale set it knows.
VmssResult == Partial(Vmss, Sku)

\* One label set of the OST, OST-operation, MDT or MDT-operation gauges.  The
\* four families have disjoint label sets and are handled alike.
Sample == Filesystem \X Target

\* A filesystem whose Monitor query failed is listed and has no samples; a
\* sample exists because at least one of its gauges has a value.
LustreResult ==
  {r \in [filesystems : Partial(Filesystem, Tier),
          failed : SUBSET Filesystem,
          samples : Partial(Sample, (SUBSET ValueGauge) \ {{}})] :
     /\ r.failed \subseteq DOMAIN r.filesystems
     /\ \A s \in DOMAIN r.samples : s[1] \in DOMAIN r.filesystems \ r.failed}

NoLustreRows == [filesystems |-> NoRows, failed |-> {}, samples |-> NoRows]

OstSamples(r) == {s \in DOMAIN r.samples : s[2] \in Ost}

GaugeSets == [count : SUBSET Vmss,
              info : SUBSET (Vmss \X Sku),
              fsInfo : SUBSET (Filesystem \X Tier),
              fsCapacity : SUBSET Filesystem,
              value : SUBSET (Sample \X ValueGauge),
              stamp : SUBSET Sample]

NoGauges == [count |-> {}, info |-> {}, fsInfo |-> {}, fsCapacity |-> {},
             value |-> {}, stamp |-> {}]

ActiveSets == [count : SUBSET Vmss,
               info : SUBSET (Vmss \X Sku),
               fsInfo : SUBSET (Filesystem \X Tier),
               fsCapacity : SUBSET Filesystem,
               sample : SUBSET Sample]

NoneActive == [count |-> {}, info |-> {}, fsInfo |-> {}, fsCapacity |-> {},
               sample |-> {}]

ZeroTotals == [vmss |-> 0, filesystems |-> 0, osts |-> 0]

\* The error counters only grow; they stop at the bound.
Saturated(n) == IF n > MaxErrors THEN MaxErrors ELSE n

-----------------------------------------------------------------------------

Init ==
  /\ stopEvent = FALSE
  /\ leaderEvent = ~LeaderElectionEnabled
  /\ beacon = (IF LeaderElectionEnabled THEN 0 ELSE 1)
  /\ pc = [p \in Poller |-> "off"]
  /\ counts = NoRows
  /\ lustre = NoLustreRows
  /\ call = [c \in Caller |-> "idle"]
  /\ main = "starting"
  /\ gauges = NoGauges
  /\ active = NoneActive
  /\ totals = ZeroTotals
  /\ success = [p \in Poller |-> FALSE]
  /\ duration = [p \in Poller |-> FALSE]
  /\ errors = [p \in Poller |-> 0]

Running == main # "exited"

Goto(p, label) == pc' = [pc EXCEPT ![p] = label]

-----------------------------------------------------------------------------
(* The poller loops: _poll_vmss_forever and _poll_lustre_forever.          *)

\* while not self._stop_event.is_set()
CheckStop(p) ==
  /\ Running
  /\ pc[p] = "loop"
  /\ Goto(p, IF stopEvent THEN "done" ELSE "gate")
  /\ UNCHANGED <<eventVars, counts, lustre, call, main, seriesVars,
                 summaryVars, errors>>

\* Nobody asks who leads before the query.
CheckLeadership_Skipped(p) ==
  /\ Running
  /\ pc[p] = "gate"
  /\ Goto(p, "calling")
  /\ UNCHANGED <<eventVars, counts, lustre, call, main, seriesVars,
                 summaryVars, errors>>

\* if not self._is_leader_event.is_set(): wait, else collect.
CheckLeadership(p) ==
  /\ Running
  /\ pc[p] = "gate"
  /\ Goto(p, IF leaderEvent THEN "calling" ELSE "waiting")
  /\ UNCHANGED <<eventVars, counts, lustre, call, main, seriesVars,
                 summaryVars, errors>>

\* The collection begins, and with it the calls to Azure: pages, retries and
\* Monitor queries, none of which asks again who leads.
BeginQuery(p) ==
  /\ Running
  /\ pc[p] = "calling"
  /\ Goto(p, "querying")
  /\ UNCHANGED <<eventVars, counts, lustre, call, main, seriesVars,
                 summaryVars, errors>>

\* Only stop() ends the wait.
StopWaiting_OnStopOnly(p) ==
  /\ Running
  /\ pc[p] = "waiting"
  /\ stopEvent
  /\ Goto(p, "loop")
  /\ UNCHANGED <<eventVars, counts, lustre, call, main, seriesVars,
                 summaryVars, errors>>

\* The wait is not followed by another round of the loop.
StopWaiting_FallsThrough(p) ==
  /\ Running
  /\ pc[p] = "waiting"
  /\ stopEvent \/ leaderEvent
  /\ Goto(p, "calling")
  /\ UNCHANGED <<eventVars, counts, lustre, call, main, seriesVars,
                 summaryVars, errors>>

\* _wait_for_leadership_or_stop returns.
StopWaiting(p) ==
  /\ Running
  /\ pc[p] = "waiting"
  /\ stopEvent \/ leaderEvent
  /\ Goto(p, "loop")
  /\ UNCHANGED <<eventVars, counts, lustre, call, main, seriesVars,
                 summaryVars, errors>>

\* self._stop_event.wait(interval) returns: the interval is over, or stop.
EndSleep(p) ==
  /\ Running
  /\ pc[p] = "sleeping"
  /\ Goto(p, "loop")
  /\ UNCHANGED <<eventVars, counts, lustre, call, main, seriesVars,
                 summaryVars, errors>>

\* The exception is not caught and ends the thread.
QueryFails_EndsThread(p) ==
  /\ Running
  /\ pc[p] = "querying"
  /\ errors' = [errors EXCEPT ![p] = Saturated(@ + 1)]
  /\ duration' = [duration EXCEPT ![p] = TRUE]
  /\ Goto(p, "crashed")
  /\ UNCHANGED <<eventVars, counts, lustre, call, main, seriesVars, totals,
                 success>>

\* The collect callback raises.  The error path takes no lock and asks nobody
\* whether this replica still leads.
QueryFails(p) ==
  /\ Running
  /\ pc[p] = "querying"
  /\ errors' = [errors EXCEPT ![p] = Saturated(@ + 1)]
  /\ duration' = [duration EXCEPT ![p] = TRUE]
  /\ Goto(p, "sleeping")
  /\ UNCHANGED <<eventVars, counts, lustre, call, main, seriesVars, totals,
                 success>>

\* The lock is taken and leadership is not looked at again.
CanWriteMetrics_Unchecked == TRUE

CanWriteMetrics == ~LeaderElectionEnabled \/ leaderEvent

\* Vanished label sets are never removed.
Refreshed_KeepsStale(exposed, tracked, new, removeStale) == exposed \cup new

\* Label sets are removed after a partial failure, too.
Refreshed_AlwaysRemoves(exposed, tracked, new, removeStale) ==
  (exposed \ (tracked \ new)) \cup new

\* The label sets a family exposes after the stale ones are removed (those
\* tracked and not in the new result) and the new ones are set.
Refreshed(exposed, tracked, new, removeStale) ==
  (exposed \ (IF removeStale THEN tracked \ new ELSE {})) \cup new

\* The label sets a partial failure retained are forgotten.
Tracked_Replaced(tracked, new, removeStale) == new

Tracked(tracked, new, removeStale) ==
  IF removeStale THEN new ELSE tracked \cup new

-----------------------------------------------------------------------------
(* One VMSS collection: _collect_vmss_once.                                *)

QueryVmss ==
  /\ Running
  /\ pc["vmss"] = "querying"
  /\ counts' \in VmssResult
  /\ Goto("vmss", "update")
  /\ UNCHANGED <<eventVars, lustre, call, main, seriesVars, summaryVars,
                 errors>>

PublishVmss ==
  /\ gauges' = [gauges EXCEPT
       !.count = Refreshed(@, active.count, DOMAIN counts, TRUE),
       !.info = Refreshed(@, active.info, Graph(counts), TRUE)]
  /\ active' = [active EXCEPT !.count = DOMAIN counts, !.info = Graph(counts)]

UpdateVmss ==
  /\ Running
  /\ pc["vmss"] = "update"
  /\ \/ /\ CanWriteMetrics
        /\ PublishVmss
        /\ Goto("vmss", "summary")
        /\ UNCHANGED counts
     \/ /\ ~CanWriteMetrics
        /\ Goto("vmss", "sleeping")
        /\ counts' = NoRows
        /\ UNCHANGED seriesVars
  /\ UNCHANGED <<eventVars, lustre, call, main, summaryVars, errors>>

\* The total is written only if there is something to count.
SummarizeVmss_SkipsEmpty ==
  /\ Running
  /\ pc["vmss"] = "summary"
  /\ Goto("vmss", "sleeping")
  /\ counts' = NoRows
  /\ \/ /\ CanWriteMetrics
        /\ success' = [success EXCEPT !["vmss"] = TRUE]
        /\ duration' = [duration EXCEPT !["vmss"] = TRUE]
        /\ totals' = IF counts = NoRows THEN totals
                     ELSE [totals EXCEPT !.vmss = Cardinality(DOMAIN counts)]
     \/ /\ ~CanWriteMetrics
        /\ UNCHANGED summaryVars
  /\ UNCHANGED <<eventVars, lustre, call, main, seriesVars, errors>>

\* A second critical section, with a second look at leadership.
SummarizeVmss ==
  /\ Running
  /\ pc["vmss"] = "summary"
  /\ Goto("vmss", "sleeping")
  /\ counts' = NoRows
  /\ \/ /\ CanWriteMetrics
        /\ success' = [success EXCEPT !["vmss"] = TRUE]
        /\ duration' = [duration EXCEPT !["vmss"] = TRUE]
        /\ totals' = [totals EXCEPT !.vmss = Cardinality(DOMAIN counts)]
     \/ /\ ~CanWriteMetrics
        /\ UNCHANGED summaryVars
  /\ UNCHANGED <<eventVars, lustre, call, main, seriesVars, errors>>

-----------------------------------------------------------------------------
(* One Lustre collection: collect_lustre_once.                             *)

QueryLustre ==
  /\ Running
  /\ LustreEnabled
  /\ pc["lustre"] = "querying"
  /\ lustre' \in LustreResult
  /\ Goto("lustre", "update")
  /\ UNCHANGED <<eventVars, counts, call, main, seriesVars, summaryVars,
                 errors>>

\* A value that is missing now leaves the gauge of the last one alone.
RefreshedValues_OnlySets(values, tracked, r, removeStale) ==
  LET new == DOMAIN r.samples
      stale == IF removeStale THEN tracked \ new ELSE {}
  IN  {v \in values : v[1] \notin stale}
        \cup {v \in new \X ValueGauge : v[2] \in r.samples[v[1]]}

\* The value gauges: stale samples are dropped, and a sample of the new result
\* loses the gauges it has no value for.
RefreshedValues(values, tracked, r, removeStale) ==
  LET new == DOMAIN r.samples
      stale == IF removeStale THEN tracked \ new ELSE {}
  IN  {v \in values : v[1] \notin stale \cup new}
        \cup {v \in new \X ValueGauge : v[2] \in r.samples[v[1]]}

PublishLustre ==
  LET clean == lustre.failed = {}
      tiers == Graph(lustre.filesystems)
      known == DOMAIN lustre.filesystems
      samples == DOMAIN lustre.samples
  IN /\ gauges' = [gauges EXCEPT
          !.fsInfo = Refreshed(@, active.fsInfo, tiers, clean),
          !.fsCapacity = Refreshed(@, active.fsCapacity, known, clean),
          !.value = RefreshedValues(@, active.sample, lustre, clean),
          !.stamp = Refreshed(@, active.sample, samples, clean)]
     /\ active' = [active EXCEPT
          !.fsInfo = Tracked(@, tiers, clean),
          !.fsCapacity = Tracked(@, known, clean),
          !.sample = Tracked(@, samples, clean)]

UpdateLustre ==
  /\ Running
  /\ LustreEnabled
  /\ pc["lustre"] = "update"
  /\ \/ /\ CanWriteMetrics
        /\ PublishLustre
        /\ Goto("lustre", "summary")
        /\ UNCHANGED lustre
     \/ /\ ~CanWriteMetrics
        /\ Goto("lustre", "sleeping")
        /\ lustre' = NoLustreRows
        /\ UNCHANGED seriesVars
  /\ UNCHANGED <<eventVars, counts, call, main, summaryVars, errors>>

SummarizeLustre ==
  /\ Running
  /\ LustreEnabled
  /\ pc["lustre"] = "summary"
  /\ Goto("lustre", "sleeping")
  /\ lustre' = NoLustreRows
  /\ \/ /\ CanWriteMetrics
        /\ totals' = [totals EXCEPT
             !.filesystems = Cardinality(DOMAIN lustre.filesystems),
             !.osts = Cardinality(OstSamples(lustre))]
        /\ errors' = [errors EXCEPT
             !["lustre"] = Saturated(@ + Cardinality(lustre.failed))]
        /\ success' = [success EXCEPT !["lustre"] = TRUE]
        /\ duration' = [duration EXCEPT !["lustre"] = TRUE]
     \/ /\ ~CanWriteMetrics
        /\ UNCHANGED <<summaryVars, errors>>
  /\ UNCHANGED <<eventVars, counts, call, main, seriesVars>>

-----------------------------------------------------------------------------
(* set_leader, called by thread c.                                         *)

\* Demotion leaves the beacon up.
AnnounceLeader_KeepsBeacon(c, value) ==
  /\ Running
  /\ LeaderElectionEnabled
  /\ call[c] = "idle"
  /\ beacon' = IF value = 1 THEN 1 ELSE beacon
  /\ call' = [call EXCEPT ![c] = IF value = 1 THEN "raise" ELSE "lower"]
  /\ UNCHANGED <<stopEvent, leaderEvent, threadVars, main, seriesVars,
                 summaryVars, errors>>

\* The beacon is written first in both directions.
AnnounceLeader(c, value) ==
  /\ Running
  /\ LeaderElectionEnabled
  /\ call[c] = "idle"
  /\ beacon' = value
  /\ call' = [call EXCEPT ![c] = IF value = 1 THEN "raise" ELSE "lower"]
  /\ UNCHANGED <<stopEvent, leaderEvent, threadVars, main, seriesVars,
                 summaryVars, errors>>

RaiseLeaderEvent(c) ==
  /\ Running
  /\ call[c] = "raise"
  /\ leaderEvent' = TRUE
  /\ call' = [call EXCEPT ![c] = "idle"]
  /\ UNCHANGED <<stopEvent, beacon, threadVars, main, seriesVars, summaryVars,
                 errors>>

\* Demotion clears the page but not the event.
LowerLeaderEvent_KeepsEvent(c) ==
  /\ Running
  /\ call[c] = "lower"
  /\ call' = [call EXCEPT ![c] = "clear"]
  /\ UNCHANGED <<eventVars, threadVars, main, seriesVars, summaryVars, errors>>

LowerLeaderEvent(c) ==
  /\ Running
  /\ call[c] = "lower"
  /\ leaderEvent' = FALSE
  /\ call' = [call EXCEPT ![c] = "clear"]
  /\ UNCHANGED <<stopEvent, beacon, threadVars, main, seriesVars, summaryVars,
                 errors>>

\* The gauges with labels are cleared, and nothing else.
ClearResourceGauges_GaugesOnly(c) ==
  /\ Running
  /\ call[c] = "clear"
  /\ gauges' = NoGauges
  /\ call' = [call EXCEPT ![c] = "idle"]
  /\ UNCHANGED <<eventVars, threadVars, main, active, summaryVars, errors>>

ClearResourceGauges(c) ==
  /\ Running
  /\ call[c] = "clear"
  /\ gauges' = NoGauges
  /\ active' = NoneActive
  /\ totals' = ZeroTotals
  /\ success' = [p \in Poller |-> FALSE]
  /\ duration' = [p \in Poller |-> FALSE]
  /\ call' = [call EXCEPT ![c] = "idle"]
  /\ UNCHANGED <<eventVars, threadVars, main, errors>>

SetLeader(c) ==
  \/ \E value \in {0, 1} : AnnounceLeader(c, value)
  \/ RaiseLeaderEvent(c)
  \/ LowerLeaderEvent(c)
  \/ ClearResourceGauges(c)

-----------------------------------------------------------------------------
(* The main thread: main(), start() and stop().  Election callbacks may    *)
(* arrive from the first moment, before the pollers exist.                 *)

\* start_http_server raises, or an interrupt arrives: main returns at once.
StartupFails ==
  /\ main = "starting"
  /\ main' = "exited"
  /\ UNCHANGED <<eventVars, threadVars, call, seriesVars, summaryVars, errors>>

Start ==
  /\ main = "starting"
  /\ main' = "serving"
  /\ pc' = [p \in Poller |-> "loop"]
  /\ UNCHANGED <<eventVars, counts, lustre, call, seriesVars, summaryVars,
                 errors>>

\* A signal ends the wait in main, and stop() sets _stop_event.
Stop ==
  /\ main = "serving"
  /\ main' = "stopping"
  /\ stopEvent' = TRUE
  /\ UNCHANGED <<leaderEvent, beacon, threadVars, call, seriesVars,
                 summaryVars, errors>>

\* stop() raises the leadership event so that waiting pollers wake up.
WakePollers ==
  /\ main = "stopping"
  /\ main' = "joining"
  /\ leaderEvent' = TRUE
  /\ UNCHANGED <<stopEvent, beacon, threadVars, call, seriesVars, summaryVars,
                 errors>>

\* The joins have no timeout.
Exit_AfterPollers ==
  /\ main = "joining"
  /\ \A p \in Poller : pc[p] = "done"
  /\ main' = "exiting"
  /\ UNCHANGED <<eventVars, threadVars, call, seriesVars, summaryVars, errors>>

\* The joins end, because the pollers are done or because ten seconds are
\* over, and main returns.  The daemon threads live on until the process ends.
Exit ==
  /\ main = "joining"
  /\ main' = "exiting"
  /\ UNCHANGED <<eventVars, threadVars, call, seriesVars, summaryVars, errors>>

\* The workers of the Lustre pool are no daemons, and the interpreter waits for
\* them; they work only while the Lustre poller is in its query.
PoolBusy == LustreEnabled /\ pc["lustre"] = "querying"

\* The process ends and the daemon threads with it.  The query may still be in
\* its discovery, which has no workers: PoolBusy does not keep the process.
ProcessEnds ==
  /\ main = "exiting"
  /\ main' = "exited"
  /\ UNCHANGED <<eventVars, threadVars, call, seriesVars, summaryVars, errors>>

Terminated == main = "exited" /\ UNCHANGED vars

-----------------------------------------------------------------------------

PollerLoop(p) == \/ CheckStop(p)
                 \/ CheckLeadership(p)
                 \/ BeginQuery(p)
                 \/ StopWaiting(p)
                 \/ EndSleep(p)
                 \/ QueryFails(p)

Next ==
  \/ \E p \in Poller : PollerLoop(p)
  \/ QueryVmss \/ UpdateVmss \/ SummarizeVmss
  \/ QueryLustre \/ UpdateLustre \/ SummarizeLustre
  \/ \E c \in Caller : SetLeader(c)
  \/ StartupFails \/ Start \/ Stop \/ WakePollers \/ Exit \/ ProcessEnds
  \/ Terminated

Spec == Init /\ [][Next]_vars
=============================================================================
