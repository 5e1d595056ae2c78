--------------------------- MODULE ExporterProofs ---------------------------
(***************************************************************************)
(* Theorems about Exporter, for any resources, any number of threads that  *)
(* call set_leader, with or without leader election and Lustre.            *)
(***************************************************************************)
EXTENDS ExporterProperties, FiniteSetTheorems, TLAPS

-----------------------------------------------------------------------------
(* Lemmas about the data.                                                  *)

\* A partial function's domain and graph stay within its types.
LEMMA PartialRange ==
  ASSUME NEW S, NEW T, NEW f \in Partial(S, T)
  PROVE  /\ DOMAIN f \in SUBSET S
         /\ \A x \in DOMAIN f : f[x] \in T
         /\ Graph(f) \in SUBSET (S \X T)
<1>1. PICK D \in SUBSET S : f \in [D -> T]
  BY DEF Partial
<1>2. DOMAIN f = D
  BY <1>1
<1> QED
  BY <1>1, <1>2 DEF Graph

\* A graph has one pair for each argument.
LEMMA GraphOfFunction ==
  ASSUME NEW f
  PROVE  /\ DOMAIN f = {i[1] : i \in Graph(f)}
         /\ \A i, j \in Graph(f) : i[1] = j[1] => i = j
<1>1. \A x \in DOMAIN f : <<x, f[x]>> \in Graph(f) /\ <<x, f[x]>>[1] = x
  BY DEF Graph
<1>2. \A i \in Graph(f) : i[1] \in DOMAIN f /\ i = <<i[1], f[i[1]]>>
  BY DEF Graph
<1>3. \A x \in DOMAIN f : x \in {i[1] : i \in Graph(f)}
  BY <1>1
<1> QED
  BY <1>2, <1>3

\* The empty result is a result.
LEMMA NoRowsPartial == ASSUME NEW S, NEW T PROVE NoRows \in Partial(S, T)
<1>1. NoRows \in [{} -> T]
  BY DEF NoRows
<1> QED
  BY <1>1 DEF Partial

\* An empty result is a result.
LEMMA NoLustreRowsResult == NoLustreRows \in LustreResult
<1>1. /\ NoRows \in Partial(Filesystem, Tier)
      /\ NoRows \in Partial(Sample, (SUBSET ValueGauge) \ {{}})
  BY NoRowsPartial
<1>2. DOMAIN NoRows = {}
  BY DEF NoRows
<1> QED
  BY <1>1, <1>2 DEF NoLustreRows, LustreResult

\* What a query's answer names are resources, and there are finitely many.
LEMMA VmssResultRange ==
  ASSUME NEW r \in VmssResult
  PROVE  /\ DOMAIN r \in SUBSET Vmss
         /\ Graph(r) \in SUBSET (Vmss \X Sku)
         /\ Cardinality(DOMAIN r) \in Nat
<1>1. DOMAIN r \in SUBSET Vmss /\ Graph(r) \in SUBSET (Vmss \X Sku)
  BY PartialRange DEF VmssResult
<1> QED
  BY <1>1, FS_Subset, FS_CardinalityType, ExporterConstants

\* What a Lustre collection returns.
LEMMA LustreResultRange ==
  ASSUME NEW r \in LustreResult
  PROVE  /\ DOMAIN r.filesystems \in SUBSET Filesystem
         /\ Graph(r.filesystems) \in SUBSET (Filesystem \X Tier)
         /\ DOMAIN r.samples \in SUBSET Sample
         /\ \A s \in DOMAIN r.samples : r.samples[s] \in SUBSET ValueGauge
         /\ r.failed \in SUBSET Filesystem
         /\ Cardinality(DOMAIN r.filesystems) \in Nat
         /\ Cardinality(OstSamples(r)) \in Nat
         /\ Cardinality(r.failed) \in Nat
<1>1. /\ r.filesystems \in Partial(Filesystem, Tier)
      /\ r.samples \in Partial(Sample, (SUBSET ValueGauge) \ {{}})
      /\ r.failed \in SUBSET Filesystem
  BY DEF LustreResult
<1>2. /\ DOMAIN r.filesystems \in SUBSET Filesystem
      /\ Graph(r.filesystems) \in SUBSET (Filesystem \X Tier)
  BY <1>1, PartialRange
<1>3. /\ DOMAIN r.samples \in SUBSET Sample
      /\ \A s \in DOMAIN r.samples :
           r.samples[s] \in (SUBSET ValueGauge) \ {{}}
  BY <1>1, PartialRange
<1>4. IsFiniteSet(Sample)
  BY FS_Product, ExporterConstants DEF Sample
<1>5. OstSamples(r) \in SUBSET Sample
  BY <1>3 DEF OstSamples
<1>6. \A T \in SUBSET Sample : IsFiniteSet(T)
  BY <1>4, FS_Subset
<1>7. \A T \in SUBSET Filesystem : IsFiniteSet(T)
  BY FS_Subset, ExporterConstants
<1>8. /\ Cardinality(DOMAIN r.filesystems) \in Nat
      /\ Cardinality(OstSamples(r)) \in Nat
      /\ Cardinality(r.failed) \in Nat
  BY <1>1, <1>2, <1>5, <1>6, <1>7, FS_CardinalityType
<1> QED
  BY <1>1, <1>2, <1>3, <1>8

\* A saturating counter stays within its bound.
LEMMA SaturatedRange ==
  ASSUME NEW n \in Nat PROVE Saturated(n) \in 0..MaxErrors
BY ExporterConstants DEF Saturated

\* Publishing writes well-typed label sets.
LEMMA PublishVmssType ==
  ASSUME TypeOK, PublishVmss
  PROVE  gauges' \in GaugeSets /\ active' \in ActiveSets
<1>1. DOMAIN counts \in SUBSET Vmss /\ Graph(counts) \in SUBSET (Vmss \X Sku)
  BY VmssResultRange DEF TypeOK
<1> DEFINE D == DOMAIN counts
           G == Graph(counts)
<1>2. /\ gauges' = [gauges EXCEPT !.count = Refreshed(@, active.count, D, TRUE),
                                  !.info = Refreshed(@, active.info, G, TRUE)]
      /\ active' = [active EXCEPT !.count = D, !.info = G]
  BY DEF PublishVmss
<1>3. D \in SUBSET Vmss /\ G \in SUBSET (Vmss \X Sku)
  BY <1>1
<1> HIDE DEF D, G
<1> QED
  BY <1>2, <1>3 DEF TypeOK, GaugeSets, ActiveSets, Refreshed

\* Publishing a Lustre result keeps the registry well-typed.
LEMMA PublishLustreType ==
  ASSUME TypeOK, PublishLustre
  PROVE  gauges' \in GaugeSets /\ active' \in ActiveSets
<1> DEFINE clean == lustre.failed = {}
           tiers == Graph(lustre.filesystems)
           known == DOMAIN lustre.filesystems
           samples == DOMAIN lustre.samples
           values == RefreshedValues(gauges.value, active.sample, lustre, clean)
<1>1. /\ tiers \in SUBSET (Filesystem \X Tier)
      /\ known \in SUBSET Filesystem
      /\ samples \in SUBSET Sample
  BY LustreResultRange DEF TypeOK
<1>2. values \in SUBSET (Sample \X ValueGauge)
  BY <1>1 DEF TypeOK, GaugeSets, RefreshedValues
<1>3. /\ gauges' = [gauges EXCEPT
            !.fsInfo = Refreshed(@, active.fsInfo, tiers, clean),
            !.fsCapacity = Refreshed(@, active.fsCapacity, known, clean),
            !.value = values,
            !.stamp = Refreshed(@, active.sample, samples, clean)]
      /\ active' = [active EXCEPT
            !.fsInfo = Tracked(@, tiers, clean),
            !.fsCapacity = Tracked(@, known, clean),
            !.sample = Tracked(@, samples, clean)]
  BY DEF PublishLustre
<1> HIDE DEF clean, tiers, known, samples, values
<1> QED
  BY <1>1, <1>2, <1>3 DEF TypeOK, GaugeSets, ActiveSets, Refreshed, Tracked

-----------------------------------------------------------------------------
(* Type correctness.                                                       *)

\* The initial values have their types.
LEMMA InitType == Init => TypeOK
<1> SUFFICES ASSUME Init PROVE TypeOK
  OBVIOUS
<1>1. counts \in VmssResult
  BY NoRowsPartial DEF Init, VmssResult
<1>2. lustre \in LustreResult
  BY NoLustreRowsResult DEF Init
<1>3. gauges \in GaugeSets /\ active \in ActiveSets
  BY DEF Init, NoGauges, NoneActive, GaugeSets, ActiveSets
<1>4. /\ stopEvent \in BOOLEAN /\ leaderEvent \in BOOLEAN /\ beacon \in {0, 1}
      /\ pc \in [Poller -> PollerState]
      /\ call \in [Caller -> CallState]
      /\ main \in MainState
  BY ExporterConstants DEF Init, PollerState, CallState, MainState
<1>5. /\ totals \in [vmss : Nat, filesystems : Nat, osts : Nat]
      /\ success \in [Poller -> BOOLEAN]
      /\ duration \in [Poller -> BOOLEAN]
      /\ errors \in [Poller -> 0..MaxErrors]
  BY ExporterConstants DEF Init, ZeroTotals
<1> QED
  BY <1>1, <1>2, <1>3, <1>4, <1>5 DEF TypeOK

\* Every step preserves the types.
LEMMA NextType == TypeOK /\ [Next]_vars => TypeOK'
<1> SUFFICES ASSUME TypeOK, [Next]_vars PROVE TypeOK'
  OBVIOUS
<1> USE DEF vars, eventVars, threadVars, seriesVars, summaryVars, Running, Goto
<1>1. ASSUME NEW p \in Poller, PollerLoop(p) PROVE TypeOK'
  <2>1. CASE CheckStop(p) \/ CheckLeadership(p) \/ BeginQuery(p)
               \/ StopWaiting(p) \/ EndSleep(p)
    <3>1. pc' \in [Poller -> PollerState]
      BY <2>1 DEF TypeOK, CheckStop, CheckLeadership, BeginQuery, StopWaiting,
                          EndSleep, PollerState
    <3> QED
      BY <2>1, <3>1
      DEF TypeOK, CheckStop, CheckLeadership, BeginQuery, StopWaiting, EndSleep
  <2>2. CASE QueryFails(p)
    <3>1. pc' \in [Poller -> PollerState]
      BY <2>2 DEF TypeOK, QueryFails, PollerState
    <3>2. errors[p] + 1 \in Nat
      BY DEF TypeOK
    <3>3. errors' \in [Poller -> 0..MaxErrors]
      BY <2>2, <3>2, SaturatedRange DEF TypeOK, QueryFails
    <3>4. duration' \in [Poller -> BOOLEAN]
      BY <2>2 DEF TypeOK, QueryFails
    <3> QED
      BY <2>2, <3>1, <3>3, <3>4 DEF TypeOK, QueryFails
  <2> QED
    BY <1>1, <2>1, <2>2 DEF PollerLoop
<1>2. CASE QueryVmss
  <2>1. pc' \in [Poller -> PollerState]
    BY <1>2 DEF TypeOK, QueryVmss, PollerState
  <2> QED
    BY <1>2, <2>1 DEF TypeOK, QueryVmss
<1>3. CASE UpdateVmss
  <2>1. pc' \in [Poller -> PollerState]
    BY <1>3 DEF TypeOK, UpdateVmss, PollerState
  <2>2. counts' \in VmssResult
    BY <1>3, NoRowsPartial DEF TypeOK, UpdateVmss, VmssResult
  <2>3. gauges' \in GaugeSets /\ active' \in ActiveSets
    BY <1>3, PublishVmssType DEF TypeOK, UpdateVmss
  <2> QED
    BY <1>3, <2>1, <2>2, <2>3 DEF TypeOK, UpdateVmss
<1>4. CASE SummarizeVmss
  <2>1. pc' \in [Poller -> PollerState]
    BY <1>4 DEF TypeOK, SummarizeVmss, PollerState
  <2>2. counts' \in VmssResult
    BY <1>4, NoRowsPartial DEF TypeOK, SummarizeVmss, VmssResult
  <2>3. Cardinality(DOMAIN counts) \in Nat
    BY VmssResultRange DEF TypeOK
  <2>4. totals' \in [vmss : Nat, filesystems : Nat, osts : Nat]
    BY <1>4, <2>3 DEF TypeOK, SummarizeVmss
  <2>5. success' \in [Poller -> BOOLEAN] /\ duration' \in [Poller -> BOOLEAN]
    BY <1>4 DEF TypeOK, SummarizeVmss
  <2> QED
    BY <1>4, <2>1, <2>2, <2>4, <2>5 DEF TypeOK, SummarizeVmss
<1>5. CASE QueryLustre
  <2>1. pc' \in [Poller -> PollerState]
    BY <1>5 DEF TypeOK, QueryLustre, PollerState
  <2> QED
    BY <1>5, <2>1 DEF TypeOK, QueryLustre
<1>6. CASE UpdateLustre
  <2>1. pc' \in [Poller -> PollerState]
    BY <1>6 DEF TypeOK, UpdateLustre, PollerState
  <2>2. lustre' \in LustreResult
    BY <1>6, NoLustreRowsResult DEF TypeOK, UpdateLustre
  <2>3. gauges' \in GaugeSets /\ active' \in ActiveSets
    BY <1>6, PublishLustreType DEF TypeOK, UpdateLustre
  <2> QED
    BY <1>6, <2>1, <2>2, <2>3 DEF TypeOK, UpdateLustre
<1>7. CASE SummarizeLustre
  <2>1. pc' \in [Poller -> PollerState]
    BY <1>7 DEF TypeOK, SummarizeLustre, PollerState
  <2>2. lustre' \in LustreResult
    BY <1>7, NoLustreRowsResult DEF SummarizeLustre
  <2>3. /\ Cardinality(DOMAIN lustre.filesystems) \in Nat
        /\ Cardinality(OstSamples(lustre)) \in Nat
        /\ Cardinality(lustre.failed) \in Nat
    BY LustreResultRange DEF TypeOK
  <2>4. totals' \in [vmss : Nat, filesystems : Nat, osts : Nat]
    BY <1>7, <2>3 DEF TypeOK, SummarizeLustre
  <2>5. success' \in [Poller -> BOOLEAN] /\ duration' \in [Poller -> BOOLEAN]
    BY <1>7 DEF TypeOK, SummarizeLustre
  <2>6. errors["lustre"] + Cardinality(lustre.failed) \in Nat
    BY <1>7, <2>3 DEF TypeOK, SummarizeLustre, Poller
  <2>7. errors' \in [Poller -> 0..MaxErrors]
    BY <1>7, <2>6, SaturatedRange DEF TypeOK, SummarizeLustre
  <2> QED
    BY <1>7, <2>1, <2>2, <2>4, <2>5, <2>7 DEF TypeOK, SummarizeLustre
<1>8. ASSUME NEW c \in Caller, SetLeader(c) PROVE TypeOK'
  <2>1. ASSUME NEW value \in {0, 1}, AnnounceLeader(c, value) PROVE TypeOK'
    <3>1. call' \in [Caller -> CallState]
      BY <2>1 DEF TypeOK, AnnounceLeader, CallState
    <3> QED
      BY <2>1, <3>1 DEF TypeOK, AnnounceLeader
  <2>2. CASE RaiseLeaderEvent(c) \/ LowerLeaderEvent(c)
    <3>1. call' \in [Caller -> CallState]
      BY <2>2 DEF TypeOK, RaiseLeaderEvent, LowerLeaderEvent, CallState
    <3> QED
      BY <2>2, <3>1 DEF TypeOK, RaiseLeaderEvent, LowerLeaderEvent
  <2>3. CASE ClearResourceGauges(c)
    <3>1. call' \in [Caller -> CallState]
      BY <2>3 DEF TypeOK, ClearResourceGauges, CallState
    <3>2. gauges' \in GaugeSets /\ active' \in ActiveSets
      BY <2>3
      DEF ClearResourceGauges, GaugeSets, ActiveSets, NoGauges, NoneActive
    <3> QED
      BY <2>3, <3>1, <3>2 DEF TypeOK, ClearResourceGauges, ZeroTotals
  <2> QED
    BY <1>8, <2>1, <2>2, <2>3 DEF SetLeader
<1>9. CASE StartupFails \/ Stop \/ WakePollers \/ Exit \/ ProcessEnds
  BY <1>9 DEF TypeOK, StartupFails, Stop, WakePollers, Exit, ProcessEnds,
              MainState
<1>10. CASE Start
  <2>1. pc' \in [Poller -> PollerState]
    BY <1>10 DEF Start, PollerState
  <2> QED
    BY <1>10, <2>1 DEF TypeOK, Start, MainState
<1>11. CASE UNCHANGED vars
  BY <1>11 DEF TypeOK
<1> QED
  BY <1>1, <1>2, <1>3, <1>4, <1>5, <1>6, <1>7, <1>8, <1>9, <1>10, <1>11
  DEF Next, Terminated

\* The exporter is type-correct.
THEOREM TypeCorrect == Spec => []TypeOK
BY InitType, NextType, PTL DEF Spec

-----------------------------------------------------------------------------
(* The series and their bookkeeping.                                       *)

\* The series change in three ways only, each in one critical section.
LEMMA SeriesWriters ==
  ASSUME [Next]_vars
  PROVE  \/ UNCHANGED seriesVars
         \/ UpdateVmss /\ CanWriteMetrics /\ PublishVmss
         \/ UpdateLustre /\ CanWriteMetrics /\ PublishLustre
         \/ \E c \in Caller : ClearResourceGauges(c)
<1> USE DEF vars, seriesVars
<1>1. ASSUME NEW p \in Poller, PollerLoop(p) PROVE UNCHANGED seriesVars
  BY <1>1 DEF PollerLoop, CheckStop, CheckLeadership, BeginQuery, StopWaiting,
              EndSleep, QueryFails
<1>2. CASE QueryVmss \/ SummarizeVmss \/ QueryLustre \/ SummarizeLustre
  BY <1>2 DEF QueryVmss, SummarizeVmss, QueryLustre, SummarizeLustre
<1>3. CASE UpdateVmss
  BY <1>3 DEF UpdateVmss
<1>4. CASE UpdateLustre
  BY <1>4 DEF UpdateLustre
<1>5. ASSUME NEW c \in Caller, SetLeader(c)
      PROVE  UNCHANGED seriesVars \/ ClearResourceGauges(c)
  BY <1>5 DEF SetLeader, AnnounceLeader, RaiseLeaderEvent, LowerLeaderEvent
<1>6. CASE StartupFails \/ Start \/ Stop \/ WakePollers \/ Exit \/ ProcessEnds
  BY <1>6 DEF StartupFails, Start, Stop, WakePollers, Exit, ProcessEnds
<1>7. CASE UNCHANGED vars
  BY <1>7
<1> QED
  BY <1>1, <1>2, <1>3, <1>4, <1>5, <1>6, <1>7 DEF Next, Terminated

\* When the bookkeeping is exact, removing what is stale and setting what is
\* new leaves the new label sets and no other.
LEMMA CleanRefresh ==
  ASSUME NEW tracked, NEW new
  PROVE  Refreshed(tracked, tracked, new, TRUE) = new
BY DEF Refreshed

\* An update that removes nothing tracks what it exposes.
LEMMA RefreshTracks ==
  ASSUME NEW tracked, NEW new, NEW removeStale \in BOOLEAN
  PROVE  Refreshed(tracked, tracked, new, removeStale)
           = Tracked(tracked, new, removeStale)
<1>1. CASE removeStale
  BY <1>1 DEF Refreshed, Tracked
<1>2. CASE ~removeStale
  BY <1>2 DEF Refreshed, Tracked
<1> QED
  BY <1>1, <1>2

\* What a VMSS update writes when the bookkeeping is exact.
LEMMA PublishVmssEffect ==
  ASSUME TypeOK, SeriesTracked, PublishVmss
  PROVE  /\ gauges'.count = DOMAIN counts /\ active'.count = DOMAIN counts
         /\ gauges'.info = Graph(counts) /\ active'.info = Graph(counts)
         /\ \A k \in {"fsInfo", "fsCapacity", "value", "stamp"} :
              gauges'[k] = gauges[k]
         /\ \A k \in {"fsInfo", "fsCapacity", "sample"} : active'[k] = active[k]
<1> DEFINE D == DOMAIN counts
           G == Graph(counts)
<1>1. /\ gauges' = [gauges EXCEPT !.count = Refreshed(@, active.count, D, TRUE),
                                  !.info = Refreshed(@, active.info, G, TRUE)]
      /\ active' = [active EXCEPT !.count = D, !.info = G]
  BY DEF PublishVmss
<1>2. /\ Refreshed(gauges.count, active.count, D, TRUE) = D
      /\ Refreshed(gauges.info, active.info, G, TRUE) = G
  BY CleanRefresh DEF SeriesTracked
<1>3. /\ gauges' = [gauges EXCEPT !.count = D, !.info = G]
  BY <1>1, <1>2
<1> HIDE DEF D, G
<1>4. /\ gauges'.count = D /\ active'.count = D
      /\ gauges'.info = G /\ active'.info = G
      /\ \A k \in {"fsInfo", "fsCapacity", "value", "stamp"} :
           gauges'[k] = gauges[k]
      /\ \A k \in {"fsInfo", "fsCapacity", "sample"} : active'[k] = active[k]
  BY <1>1, <1>3 DEF TypeOK, GaugeSets, ActiveSets
<1> QED
  BY <1>4 DEF D, G

\* What a Lustre update writes when the bookkeeping is exact.
LEMMA PublishLustreEffect ==
  ASSUME TypeOK, SeriesTracked, PublishLustre,
         NEW clean, clean = (lustre.failed = {})
  PROVE  /\ gauges'.fsInfo
              = Tracked(active.fsInfo, Graph(lustre.filesystems), clean)
         /\ gauges'.fsCapacity
              = Tracked(active.fsCapacity, DOMAIN lustre.filesystems, clean)
         /\ gauges'.stamp = Tracked(active.sample, DOMAIN lustre.samples, clean)
         /\ gauges'.value
              = RefreshedValues(gauges.value, active.sample, lustre, clean)
         /\ active'.fsInfo = gauges'.fsInfo
         /\ active'.fsCapacity = gauges'.fsCapacity
         /\ active'.sample = gauges'.stamp
         /\ \A k \in {"count", "info"} :
              gauges'[k] = gauges[k] /\ active'[k] = active[k]
<1> DEFINE tiers == Graph(lustre.filesystems)
           known == DOMAIN lustre.filesystems
           samples == DOMAIN lustre.samples
           values == RefreshedValues(gauges.value, active.sample, lustre, clean)
           newTiers == Tracked(active.fsInfo, tiers, clean)
           newKnown == Tracked(active.fsCapacity, known, clean)
           newSamples == Tracked(active.sample, samples, clean)
<1>1. clean \in BOOLEAN
  OBVIOUS
<1>2. /\ Refreshed(gauges.fsInfo, active.fsInfo, tiers, clean) = newTiers
      /\ Refreshed(gauges.fsCapacity, active.fsCapacity, known, clean) = newKnown
      /\ Refreshed(gauges.stamp, active.sample, samples, clean) = newSamples
  <2>1. /\ gauges.fsInfo = active.fsInfo
        /\ gauges.fsCapacity = active.fsCapacity
        /\ gauges.stamp = active.sample
    BY DEF SeriesTracked
  <2>2. Refreshed(active.fsInfo, active.fsInfo, tiers, clean) = newTiers
    BY <1>1, RefreshTracks
  <2>3. Refreshed(active.fsCapacity, active.fsCapacity, known, clean) = newKnown
    BY <1>1, RefreshTracks
  <2>4. Refreshed(active.sample, active.sample, samples, clean) = newSamples
    BY <1>1, RefreshTracks
  <2> QED
    BY <2>1, <2>2, <2>3, <2>4
<1>3. /\ gauges' = [gauges EXCEPT
            !.fsInfo = Refreshed(@, active.fsInfo, tiers, clean),
            !.fsCapacity = Refreshed(@, active.fsCapacity, known, clean),
            !.value = values,
            !.stamp = Refreshed(@, active.sample, samples, clean)]
      /\ active' = [active EXCEPT
            !.fsInfo = newTiers, !.fsCapacity = newKnown, !.sample = newSamples]
  BY DEF PublishLustre
<1>4. gauges' = [gauges EXCEPT !.fsInfo = newTiers, !.fsCapacity = newKnown,
                               !.value = values, !.stamp = newSamples]
  BY <1>2, <1>3
<1> HIDE DEF tiers, known, samples, values, newTiers, newKnown, newSamples
<1>5. /\ gauges'.fsInfo = newTiers /\ active'.fsInfo = newTiers
      /\ gauges'.fsCapacity = newKnown /\ active'.fsCapacity = newKnown
      /\ gauges'.stamp = newSamples /\ active'.sample = newSamples
      /\ gauges'.value = values
      /\ \A k \in {"count", "info"} :
           gauges'[k] = gauges[k] /\ active'[k] = active[k]
  BY <1>3, <1>4 DEF TypeOK, GaugeSets, ActiveSets
<1> QED
  BY <1>5 DEF newTiers, newKnown, newSamples, values, tiers, known, samples

\* Every step keeps exposed series tracked.
LEMMA NextTracked == TypeOK /\ SeriesTracked /\ [Next]_vars => SeriesTracked'
<1> SUFFICES ASSUME TypeOK, SeriesTracked, [Next]_vars PROVE SeriesTracked'
  OBVIOUS
<1>1. CASE UNCHANGED seriesVars
  BY <1>1 DEF seriesVars, SeriesTracked
<1>2. CASE PublishVmss
  BY <1>2, PublishVmssEffect DEF SeriesTracked
<1>3. CASE PublishLustre
  <2> DEFINE clean == lustre.failed = {}
             new == DOMAIN lustre.samples
  <2>1. /\ gauges'.fsInfo = active'.fsInfo
        /\ gauges'.fsCapacity = active'.fsCapacity
        /\ gauges'.stamp = active'.sample
        /\ gauges'.count = active'.count
        /\ gauges'.info = active'.info
    BY <1>3, PublishLustreEffect DEF SeriesTracked
  <2>2. /\ active'.sample = Tracked(active.sample, new, clean)
        /\ gauges'.value
             = RefreshedValues(gauges.value, active.sample, lustre, clean)
    BY <1>3, PublishLustreEffect
  <2>3. \A v \in gauges'.value :
          \/ v \in gauges.value /\ (clean => v[1] \notin active.sample \ new)
          \/ v[1] \in new
    BY <2>2 DEF RefreshedValues
  <2>4. \A v \in gauges'.value : v[1] \in active'.sample
    BY <2>2, <2>3 DEF Tracked, SeriesTracked
  <2> QED
    BY <2>1, <2>4 DEF SeriesTracked
<1>4. ASSUME NEW c \in Caller, ClearResourceGauges(c) PROVE SeriesTracked'
  BY <1>4 DEF ClearResourceGauges, SeriesTracked, NoGauges, NoneActive
<1> QED
  BY <1>1, <1>2, <1>3, <1>4, SeriesWriters

\* SeriesTracked holds: no exposed label set is ever forgotten.
THEOREM NoSeriesLeaks == Spec => []SeriesTracked
<1>1. Init => SeriesTracked
  BY DEF Init, SeriesTracked, NoGauges, NoneActive
<1> QED
  BY <1>1, NextTracked, TypeCorrect, PTL DEF Spec

\* UniqueInfo holds: whatever the order of resizes, demotions and updates, the
\* metadata join has one partner per series.
THEOREM InfoIsUnique == Spec => []UniqueInfo
<1>1. Init => UniqueInfo
  BY DEF Init, UniqueInfo, NoGauges
<1>2. TypeOK /\ SeriesTracked /\ UniqueInfo /\ [Next]_vars => UniqueInfo'
  <2> SUFFICES ASSUME TypeOK, SeriesTracked, UniqueInfo, [Next]_vars
               PROVE  UniqueInfo'
    OBVIOUS
  <2>1. CASE UNCHANGED seriesVars
    BY <2>1 DEF seriesVars, UniqueInfo
  <2>2. CASE PublishVmss
    <3>1. gauges'.count = DOMAIN counts /\ gauges'.info = Graph(counts)
      BY <2>2, PublishVmssEffect
    <3>2. /\ DOMAIN counts = {i[1] : i \in Graph(counts)}
          /\ \A i, j \in Graph(counts) : i[1] = j[1] => i = j
      BY GraphOfFunction
    <3>3. gauges'.count = {i[1] : i \in gauges'.info}
      BY <3>1, <3>2, Zenon
    <3>4. ASSUME NEW i \in gauges'.info, NEW j \in gauges'.info, i[1] = j[1]
          PROVE  i = j
      <4>1. i \in Graph(counts) /\ j \in Graph(counts)
        BY <3>1
      <4> QED
        BY <3>2, <3>4, <4>1
    <3> QED
      BY <3>3, <3>4 DEF UniqueInfo
  <2>3. CASE PublishLustre
    <3>1. gauges'["count"] = gauges["count"] /\ gauges'["info"] = gauges["info"]
      BY <2>3, PublishLustreEffect
    <3> QED
      BY <3>1 DEF UniqueInfo
  <2>4. ASSUME NEW c \in Caller, ClearResourceGauges(c) PROVE UniqueInfo'
    BY <2>4 DEF ClearResourceGauges, UniqueInfo, NoGauges
  <2> QED
    BY <2>1, <2>2, <2>3, <2>4, SeriesWriters
<1> QED
  BY <1>1, <1>2, TypeCorrect, NoSeriesLeaks, PTL DEF Spec

-----------------------------------------------------------------------------
(* What one Lustre collection may do to the page.                          *)

\* A Lustre poller passes from its first critical section to its second only
\* by publishing.
LEMMA LustrePublishes ==
  ASSUME TypeOK, [Next]_vars, LustreEnabled, pc["lustre"] = "update",
         pc'["lustre"] = "summary"
  PROVE  PublishLustre
<1> USE DEF Goto
<1>0. "lustre" \in Poller /\ pc \in [Poller -> PollerState]
  BY DEF Poller, TypeOK
<1>1. ASSUME NEW p \in Poller, PollerLoop(p) PROVE FALSE
  BY <1>0, <1>1 DEF PollerLoop, CheckStop, CheckLeadership, BeginQuery, StopWaiting,
                    EndSleep, QueryFails
<1>2. CASE QueryVmss \/ UpdateVmss \/ SummarizeVmss \/ QueryLustre
             \/ SummarizeLustre
  BY <1>0, <1>2 DEF QueryVmss, UpdateVmss, SummarizeVmss, QueryLustre,
                    SummarizeLustre
<1>3. CASE UpdateLustre
  BY <1>0, <1>3 DEF UpdateLustre
<1>4. ASSUME NEW c \in Caller, SetLeader(c) PROVE FALSE
  BY <1>0, <1>4 DEF SetLeader, AnnounceLeader, RaiseLeaderEvent,
                    LowerLeaderEvent, ClearResourceGauges, threadVars
<1>5. CASE StartupFails \/ Start \/ Stop \/ WakePollers \/ Exit \/ ProcessEnds
  BY <1>0, <1>5 DEF StartupFails, Start, Stop, WakePollers, Exit, ProcessEnds,
              threadVars
<1>6. CASE UNCHANGED vars
  BY <1>6 DEF vars, threadVars
<1> QED
  BY <1>1, <1>2, <1>3, <1>4, <1>5, <1>6 DEF Next, Terminated

\* CleanCollectionReplaces holds.
THEOREM CleanReplaces == Spec => CleanCollectionReplaces
<1> DEFINE Clean == LustreEnabled /\ pc["lustre"] = "update"
                    /\ pc'["lustre"] = "summary" /\ lustre.failed = {}
           Replaced == /\ gauges'.fsInfo = Graph(lustre.filesystems)
                       /\ gauges'.fsCapacity = DOMAIN lustre.filesystems
                       /\ gauges'.stamp = DOMAIN lustre.samples
                       /\ \A s \in Sample, g \in ValueGauge :
                            <<s, g>> \in gauges'.value
                            <=> s \in DOMAIN lustre.samples
                                /\ g \in lustre.samples[s]
<1>1. TypeOK /\ SeriesTracked /\ [Next]_vars => (Clean => Replaced)
  <2> SUFFICES ASSUME TypeOK, SeriesTracked, [Next]_vars, Clean PROVE Replaced
    OBVIOUS
  <2>1. PublishLustre
    BY LustrePublishes
  <2> DEFINE new == DOMAIN lustre.samples
  <2>2. /\ gauges'.fsInfo
             = Tracked(active.fsInfo, Graph(lustre.filesystems), TRUE)
        /\ gauges'.fsCapacity
             = Tracked(active.fsCapacity, DOMAIN lustre.filesystems, TRUE)
        /\ gauges'.stamp = Tracked(active.sample, new, TRUE)
        /\ gauges'.value
             = RefreshedValues(gauges.value, active.sample, lustre, TRUE)
    BY <2>1, PublishLustreEffect
  <2>3. /\ gauges'.fsInfo = Graph(lustre.filesystems)
        /\ gauges'.fsCapacity = DOMAIN lustre.filesystems
        /\ gauges'.stamp = new
    BY <2>2 DEF Tracked
  <2>4. gauges'.value
          = {v \in gauges.value : v[1] \notin (active.sample \ new) \cup new}
              \cup {v \in new \X ValueGauge : v[2] \in lustre.samples[v[1]]}
    BY <2>2 DEF RefreshedValues
  <2>5. \A v \in gauges.value : v[1] \in active.sample
    BY DEF SeriesTracked
  <2>6. gauges'.value
          = {v \in new \X ValueGauge : v[2] \in lustre.samples[v[1]]}
    BY <2>4, <2>5
  <2> QED
    BY <2>3, <2>6
<1> QED
  BY <1>1, TypeCorrect, NoSeriesLeaks, PTL DEF Spec, CleanCollectionReplaces

\* PartialFailureKeepsSeries holds.
THEOREM PartialFailureHidesNothing == Spec => PartialFailureKeepsSeries
<1> DEFINE Published == LustreEnabled /\ pc["lustre"] = "update"
                        /\ pc'["lustre"] = "summary"
           Kept == \A f \in lustre.failed :
             /\ {v \in gauges.value : v[1][1] = f}
                  = {v \in gauges'.value : v[1][1] = f}
             /\ {s \in gauges.stamp : s[1] = f}
                  = {s \in gauges'.stamp : s[1] = f}
             /\ {i \in gauges.fsInfo : i[1] = f} \subseteq gauges'.fsInfo
             /\ f \in gauges'.fsCapacity
<1>1. TypeOK /\ SeriesTracked /\ [Next]_vars => (Published => Kept)
  <2> SUFFICES ASSUME TypeOK, SeriesTracked, [Next]_vars, Published,
                      NEW f \in lustre.failed
               PROVE  /\ {v \in gauges.value : v[1][1] = f}
                           = {v \in gauges'.value : v[1][1] = f}
                      /\ {s \in gauges.stamp : s[1] = f}
                           = {s \in gauges'.stamp : s[1] = f}
                      /\ {i \in gauges.fsInfo : i[1] = f}
                           \subseteq gauges'.fsInfo
                      /\ f \in gauges'.fsCapacity
    OBVIOUS
  <2>1. PublishLustre
    BY LustrePublishes
  <2>2. lustre.failed # {}
    OBVIOUS
  <2> DEFINE new == DOMAIN lustre.samples
  <2>3. /\ gauges'.fsCapacity
             = Tracked(active.fsCapacity, DOMAIN lustre.filesystems, FALSE)
        /\ gauges'.fsInfo
             = Tracked(active.fsInfo, Graph(lustre.filesystems), FALSE)
        /\ gauges'.stamp = Tracked(active.sample, new, FALSE)
        /\ gauges'.value
             = RefreshedValues(gauges.value, active.sample, lustre, FALSE)
    BY <2>1, <2>2, PublishLustreEffect
  <2>4. /\ f \in DOMAIN lustre.filesystems
        /\ \A s \in new : s[1] # f
    BY DEF TypeOK, LustreResult
  <2>5. gauges'.stamp = gauges.stamp \cup new
    BY <2>3 DEF Tracked, SeriesTracked
  <2>6. gauges'.value
          = {v \in gauges.value : v[1] \notin new}
              \cup {v \in new \X ValueGauge : v[2] \in lustre.samples[v[1]]}
    BY <2>3 DEF RefreshedValues
  <2>7. {v \in gauges.value : v[1][1] = f}
          = {v \in gauges'.value : v[1][1] = f}
    BY <2>4, <2>6
  <2>8. {s \in gauges.stamp : s[1] = f} = {s \in gauges'.stamp : s[1] = f}
    BY <2>4, <2>5
  <2>9. f \in gauges'.fsCapacity
    BY <2>3, <2>4 DEF Tracked
  <2>10. {i \in gauges.fsInfo : i[1] = f} \subseteq gauges'.fsInfo
    BY <2>3 DEF Tracked, SeriesTracked
  <2> QED
    BY <2>7, <2>8, <2>9, <2>10
<1> QED
  BY <1>1, TypeCorrect, NoSeriesLeaks, PTL DEF Spec, PartialFailureKeepsSeries

-----------------------------------------------------------------------------
(* Leadership.                                                             *)

\* Without leader election set_leader does nothing and the gate stays open.
NoElection == ~LeaderElectionEnabled => leaderEvent /\ Idle

\* Without leader election nobody calls set_leader.
LEMMA NoElectionHolds == Spec => []NoElection
<1>1. Init => NoElection
  BY DEF Init, NoElection, Idle
<1>2. NoElection /\ [Next]_vars => NoElection'
  <2> SUFFICES ASSUME NoElection, ~LeaderElectionEnabled, [Next]_vars
               PROVE  leaderEvent' /\ Idle'
    BY DEF NoElection
  <2> USE DEF NoElection, Idle, vars, eventVars
  <2>1. ASSUME NEW p \in Poller, PollerLoop(p)
        PROVE  UNCHANGED <<leaderEvent, call>>
    BY <2>1 DEF PollerLoop, CheckStop, CheckLeadership, BeginQuery, StopWaiting,
                EndSleep, QueryFails
  <2>2. CASE QueryVmss \/ UpdateVmss \/ SummarizeVmss \/ QueryLustre
               \/ UpdateLustre \/ SummarizeLustre
    BY <2>2 DEF QueryVmss, UpdateVmss, SummarizeVmss, QueryLustre,
                UpdateLustre, SummarizeLustre
  <2>3. ASSUME NEW c \in Caller, SetLeader(c) PROVE FALSE
    BY <2>3 DEF SetLeader, AnnounceLeader, RaiseLeaderEvent, LowerLeaderEvent,
                ClearResourceGauges
  <2>4. CASE StartupFails \/ Start \/ Stop \/ WakePollers \/ Exit \/ ProcessEnds
    BY <2>4 DEF StartupFails, Start, Stop, WakePollers, Exit, ProcessEnds
  <2> QED
    BY <2>1, <2>2, <2>3, <2>4 DEF Next, Terminated
<1> QED
  BY <1>1, <1>2, PTL DEF Spec

\* A page that changes is well-typed.
LEMMA ExposedType == ASSUME TypeOK PROVE Exposed \in Exposition
BY DEF TypeOK, Exposed, Exposition

\* Every step of the exporter is a step of the gate or leaves it alone.
LEMMA StepRefinesGate ==
  ASSUME TypeOK, TypeOK', NoElection, [Next]_vars
  PROVE  [Gate!Next]_(Gate!gateVars)
<1> USE DEF Gate!gateVars
<1>0. CanWriteMetrics => leaderEvent = TRUE
  BY DEF CanWriteMetrics, NoElection, TypeOK
<1>1. Exposed' \in Exposition
  <2>1. /\ gauges' \in GaugeSets
        /\ totals' \in [vmss : Nat, filesystems : Nat, osts : Nat]
        /\ success' \in [Poller -> BOOLEAN]
    BY DEF TypeOK
  <2> QED
    BY <2>1 DEF Exposed, Exposition
<1>2. UNCHANGED call => UNCHANGED Clearing
  BY DEF Clearing
<1>3. UNCHANGED <<gauges, totals, success>> => UNCHANGED Exposed
  BY DEF Exposed
<1>4. UNCHANGED <<leaderEvent, call, gauges, totals, success>>
      => UNCHANGED Gate!gateVars
  BY <1>2, <1>3
<1>5. CanWriteMetrics /\ UNCHANGED <<leaderEvent, call>> => Gate!Publish
  BY <1>0, <1>1, <1>2 DEF Gate!Publish
<1> USE DEF vars, eventVars, threadVars, seriesVars, summaryVars
<1>6. ASSUME NEW p \in Poller, PollerLoop(p) PROVE UNCHANGED Gate!gateVars
  <2>1. UNCHANGED <<leaderEvent, call, gauges, totals, success>>
    BY <1>6 DEF PollerLoop, CheckStop, CheckLeadership, BeginQuery, StopWaiting,
                EndSleep, QueryFails
  <2> QED
    BY <1>4, <2>1
<1>7. CASE QueryVmss \/ QueryLustre
  BY <1>4, <1>7 DEF QueryVmss, QueryLustre
<1>8. CASE UpdateVmss \/ UpdateLustre
  <2>1. UNCHANGED <<leaderEvent, call, totals, success>>
    BY <1>8 DEF UpdateVmss, UpdateLustre
  <2>2. CanWriteMetrics \/ UNCHANGED gauges
    BY <1>8 DEF UpdateVmss, UpdateLustre
  <2> QED
    BY <1>4, <1>5, <2>1, <2>2 DEF Gate!Next
<1>9. CASE SummarizeVmss \/ SummarizeLustre
  <2>1. UNCHANGED <<leaderEvent, call, gauges>>
    BY <1>9 DEF SummarizeVmss, SummarizeLustre
  <2>2. CanWriteMetrics \/ UNCHANGED <<totals, success>>
    BY <1>9 DEF SummarizeVmss, SummarizeLustre
  <2> QED
    BY <1>4, <1>5, <2>1, <2>2 DEF Gate!Next
<1>10. ASSUME NEW c \in Caller, SetLeader(c) PROVE [Gate!Next]_(Gate!gateVars)
  <2>0. call \in [Caller -> CallState]
    BY DEF TypeOK
  <2>1. ASSUME NEW value \in {0, 1}, AnnounceLeader(c, value)
        PROVE  UNCHANGED Gate!gateVars
    <3>1. Clearing' = Clearing
      BY <2>0, <2>1 DEF AnnounceLeader, Clearing
    <3> QED
      BY <1>3, <2>1, <3>1 DEF AnnounceLeader
  <2>2. CASE RaiseLeaderEvent(c)
    <3>1. Clearing' = Clearing
      BY <2>0, <2>2 DEF RaiseLeaderEvent, Clearing
    <3>2. Gate!Open
      BY <1>3, <2>2, <3>1 DEF RaiseLeaderEvent, Gate!Open
    <3> QED
      BY <3>2 DEF Gate!Next
  <2>3. CASE LowerLeaderEvent(c)
    <3>1. Clearing' = Clearing \cup {c}
      BY <2>0, <2>3 DEF LowerLeaderEvent, Clearing
    <3>2. Gate!Shut(c)
      BY <1>3, <2>3, <3>1 DEF LowerLeaderEvent, Gate!Shut
    <3> QED
      BY <3>2 DEF Gate!Next
  <2>4. CASE ClearResourceGauges(c)
    <3>1. c \in Clearing /\ Clearing' = Clearing \ {c}
      BY <2>0, <2>4 DEF ClearResourceGauges, Clearing
    <3>2. Exposed' = Nothing
      BY <2>4 DEF ClearResourceGauges, Exposed, Nothing
    <3>3. Gate!Clear(c)
      BY <2>4, <3>1, <3>2 DEF ClearResourceGauges, Gate!Clear
    <3> QED
      BY <3>3 DEF Gate!Next
  <2> QED
    BY <1>10, <2>1, <2>2, <2>3, <2>4 DEF SetLeader
<1>11. CASE StartupFails \/ Start \/ Stop \/ Exit \/ ProcessEnds
  BY <1>4, <1>11 DEF StartupFails, Start, Stop, Exit, ProcessEnds
<1>12. CASE WakePollers
  <2>1. Gate!Open
    BY <1>2, <1>3, <1>12 DEF WakePollers, Gate!Open
  <2> QED
    BY <2>1 DEF Gate!Next
<1>13. CASE UNCHANGED vars
  BY <1>4, <1>13
<1> QED
  BY <1>6, <1>7, <1>8, <1>9, <1>10, <1>11, <1>12, <1>13 DEF Next, Terminated

\* The exporter implements LeaderGate: it publishes only through the open gate
\* and clears the page after shutting it.
THEOREM ImplementsGate == Spec => GateSpec
<1>1. Init => Gate!Init
  BY ExporterConstants
  DEF Init, Gate!Init, Clearing, Exposed, Nothing
<1>2. TypeOK /\ TypeOK' /\ NoElection /\ [Next]_vars
      => [Gate!Next]_(Gate!gateVars)
  BY StepRefinesGate
<1> QED
  BY <1>1, <1>2, TypeCorrect, NoElectionHolds, PTL DEF Spec, GateSpec, Gate!Spec

\* FollowerExposesNothing holds, because the gate keeps its promise.
THEOREM FollowersExposeNothing == Spec => []FollowerExposesNothing
<1>1. Gate!Init => Gate!Quiet
  BY DEF Gate!Init, Gate!Quiet
<1>2. Gate!Quiet /\ [Gate!Next]_(Gate!gateVars) => Gate!Quiet'
  BY DEF Gate!Quiet, Gate!Next, Gate!gateVars, Gate!Open, Gate!Shut,
         Gate!Clear, Gate!Publish
<1>3. Gate!Quiet <=> FollowerExposesNothing
  BY DEF Gate!Quiet, FollowerExposesNothing
<1> QED
  BY <1>1, <1>2, <1>3, ImplementsGate, PTL DEF GateSpec, Gate!Spec

\* The beacon and the event follow each other through one set_leader call, as
\* long as calls do not overlap and stop() leaves the event alone.
SerialCalls == \A c, d \in Caller : c = d

Serving == main \in {"starting", "serving", "stopping"}

BeaconInv ==
  Serving =>
    /\ Idle => (leaderEvent <=> beacon = 1)
    /\ \A c \in Caller :
         /\ call[c] = "raise" => beacon = 1
         /\ call[c] = "lower" => beacon = 0
         /\ call[c] = "clear" => beacon = 0 /\ ~leaderEvent

\* Beacon and event at each stage of a call.
LEMMA BeaconInvHolds == ASSUME SerialCalls PROVE Spec => []BeaconInv
<1>1. Init => BeaconInv
  <2> SUFFICES ASSUME Init PROVE BeaconInv
    OBVIOUS
  <2>1. \A c \in Caller : call[c] = "idle"
    BY DEF Init
  <2>2. leaderEvent <=> beacon = 1
    <3>0. /\ leaderEvent = ~LeaderElectionEnabled
          /\ beacon = IF LeaderElectionEnabled THEN 0 ELSE 1
      BY DEF Init
    <3>1. CASE LeaderElectionEnabled
      <4>1. beacon # 1
        BY <3>0, <3>1
      <4>2. ~leaderEvent
        BY <3>0, <3>1, Zenon
      <4> QED
        BY <4>1, <4>2
    <3>2. CASE ~LeaderElectionEnabled
      <4>1. beacon = 1
        BY <3>0, <3>2
      <4>2. leaderEvent
        BY <3>0, <3>2, Zenon
      <4> QED
        BY <4>1, <4>2
    <3> QED
      BY <3>1, <3>2
  <2> QED
    BY <2>1, <2>2 DEF BeaconInv
<1>2. TypeOK /\ BeaconInv /\ [Next]_vars => BeaconInv'
  <2> SUFFICES ASSUME TypeOK, BeaconInv, [Next]_vars
               PROVE  BeaconInv'
    OBVIOUS
  <2> USE DEF BeaconInv, Idle, Serving
  <2>1. UNCHANGED <<leaderEvent, beacon, call>> /\ (Serving' => Serving)
        => BeaconInv'
    OBVIOUS
  <2> USE DEF vars, eventVars, threadVars
  <2>2. ASSUME NEW p \in Poller, PollerLoop(p)
        PROVE  UNCHANGED <<leaderEvent, beacon, call, main>>
    BY <2>2 DEF PollerLoop, CheckStop, CheckLeadership, BeginQuery, StopWaiting,
                EndSleep, QueryFails
  <2>3. CASE QueryVmss \/ UpdateVmss \/ SummarizeVmss \/ QueryLustre
               \/ UpdateLustre \/ SummarizeLustre
    BY <2>1, <2>3 DEF QueryVmss, UpdateVmss, SummarizeVmss, QueryLustre,
                      UpdateLustre, SummarizeLustre
  <2>4. ASSUME NEW c \in Caller, SetLeader(c) PROVE BeaconInv'
    <3>0. call \in [Caller -> CallState] /\ \A d \in Caller : d = c
      BY DEF TypeOK, SerialCalls
    <3>1. ASSUME NEW value \in {0, 1}, AnnounceLeader(c, value) PROVE BeaconInv'
      BY <3>0, <3>1 DEF AnnounceLeader
    <3>2. CASE RaiseLeaderEvent(c)
      BY <3>0, <3>2 DEF RaiseLeaderEvent
    <3>3. CASE LowerLeaderEvent(c)
      BY <3>0, <3>3 DEF LowerLeaderEvent
    <3>4. CASE ClearResourceGauges(c)
      BY <3>0, <3>4 DEF ClearResourceGauges
    <3> QED
      BY <2>4, <3>1, <3>2, <3>3, <3>4 DEF SetLeader
  <2>5. CASE StartupFails \/ Start \/ Stop \/ WakePollers \/ Exit \/ ProcessEnds
    BY <2>1, <2>5 DEF StartupFails, Start, Stop, WakePollers, Exit, ProcessEnds
  <2>6. CASE UNCHANGED vars
    BY <2>1, <2>6
  <2> QED
    BY <2>1, <2>2, <2>3, <2>4, <2>5, <2>6 DEF Next, Terminated
<1> QED
  BY <1>1, <1>2, TypeCorrect, PTL DEF Spec

\* BeaconAgrees holds when callbacks do not overlap.
THEOREM BeaconsAgree == ASSUME SerialCalls PROVE Spec => []BeaconAgrees
<1>1. BeaconInv => BeaconAgrees
  BY DEF BeaconInv, BeaconAgrees, Serving
<1> QED
  BY <1>1, BeaconInvHolds, PTL

\* Wherever beacon and event agree, there is an empty page behind a beacon of 0.
LEMMA AgreementSilences == Spec /\ []BeaconAgrees => []SilentFollower
<1>1. BeaconAgrees /\ FollowerExposesNothing => SilentFollower
  <2> SUFFICES ASSUME BeaconAgrees, FollowerExposesNothing, beacon = 0, Idle,
                      main \in {"starting", "serving", "stopping"}
               PROVE  Exposed = Nothing
    BY DEF SilentFollower
  <2>1. ~leaderEvent
    BY DEF BeaconAgrees
  <2>2. Clearing = {}
    BY DEF Clearing, Idle
  <2> QED
    BY <2>1, <2>2 DEF FollowerExposesNothing
<1> QED
  BY <1>1, FollowersExposeNothing, PTL

\* SilentFollower holds when callbacks do not overlap.
THEOREM FollowersAreSilent ==
  ASSUME SerialCalls PROVE Spec => []SilentFollower
BY BeaconsAgree, AgreementSilences, PTL

-----------------------------------------------------------------------------
(* Totals.                                                                 *)

\* The pollers do not run before start().
NotStarted == main = "starting" => \A p \in Poller : pc[p] = "off"

\* Before start no poller has left its place.
LEMMA NotStartedHolds == Spec => []NotStarted
<1>1. Init => NotStarted
  BY DEF Init, NotStarted
<1>2. TypeOK /\ NotStarted /\ [Next]_vars => NotStarted'
  <2> SUFFICES ASSUME TypeOK, main' = "starting", [Next]_vars, NotStarted
               PROVE  \A p \in Poller : pc'[p] = "off"
    BY DEF NotStarted
  <2> USE DEF vars, threadVars, NotStarted
  <2>0. "vmss" \in Poller /\ (LustreEnabled => "lustre" \in Poller)
    BY DEF Poller
  <2>1. ASSUME NEW p \in Poller, PollerLoop(p) PROVE FALSE
    BY <2>1 DEF PollerLoop, CheckStop, CheckLeadership, BeginQuery, StopWaiting,
                EndSleep, QueryFails
  <2>2. CASE QueryVmss \/ UpdateVmss \/ SummarizeVmss \/ QueryLustre
               \/ UpdateLustre \/ SummarizeLustre
    BY <2>0, <2>2 DEF QueryVmss, UpdateVmss, SummarizeVmss, QueryLustre,
                      UpdateLustre, SummarizeLustre
  <2>3. ASSUME NEW c \in Caller, SetLeader(c) PROVE UNCHANGED <<main, pc>>
    BY <2>3 DEF SetLeader, AnnounceLeader, RaiseLeaderEvent, LowerLeaderEvent,
                ClearResourceGauges
  <2>4. CASE StartupFails \/ Start \/ Stop \/ WakePollers \/ Exit \/ ProcessEnds
    BY <2>4 DEF StartupFails, Start, Stop, WakePollers, Exit, ProcessEnds
  <2>5. CASE UNCHANGED vars
    BY <2>5
  <2> QED
    BY <2>1, <2>2, <2>3, <2>4, <2>5 DEF Next, Terminated
<1> QED
  BY <1>1, <1>2, TypeCorrect, PTL DEF Spec

\* Between its critical sections the VMSS poller still holds the result the
\* page shows, if the page shows any.
TotalsInv ==
  gauges.count # {} /\ Clearing = {}
  => IF pc["vmss"] = "summary" THEN gauges.count = DOMAIN counts
     ELSE totals.vmss = Cardinality(gauges.count)

\* Every step keeps totals and series together.
LEMMA NextTotals ==
  TypeOK /\ SeriesTracked /\ NotStarted /\ FollowerExposesNothing /\ TotalsInv
    /\ [Next]_vars
  => TotalsInv'
<1> SUFFICES ASSUME TypeOK, SeriesTracked, NotStarted, FollowerExposesNothing,
                    TotalsInv, [Next]_vars
             PROVE  TotalsInv'
  OBVIOUS
<1>0. "vmss" \in Poller /\ pc \in [Poller -> PollerState]
      /\ call \in [Caller -> CallState]
  BY DEF Poller, TypeOK
<1> USE DEF vars, eventVars, threadVars, seriesVars, summaryVars, Goto
<1>1. UNCHANGED <<gauges, totals, counts, Clearing>>
      /\ (pc'["vmss"] = "summary" <=> pc["vmss"] = "summary")
      => TotalsInv'
  BY DEF TotalsInv
<1>2. UNCHANGED call => UNCHANGED Clearing
  BY DEF Clearing
<1>3. ASSUME NEW p \in Poller, PollerLoop(p) PROVE TotalsInv'
  <2>1. pc'["vmss"] = "summary" <=> pc["vmss"] = "summary"
    BY <1>0, <1>3 DEF PollerLoop, CheckStop, CheckLeadership, BeginQuery, StopWaiting,
                      EndSleep, QueryFails
  <2>2. UNCHANGED <<gauges, totals, counts, call>>
    BY <1>3 DEF PollerLoop, CheckStop, CheckLeadership, BeginQuery, StopWaiting,
                EndSleep, QueryFails
  <2> QED
    BY <1>1, <1>2, <2>1, <2>2
<1>4. CASE QueryVmss
  <2>1. pc["vmss"] # "summary" /\ pc'["vmss"] # "summary"
    BY <1>0, <1>4 DEF QueryVmss
  <2>2. UNCHANGED <<gauges, totals, call>>
    BY <1>4 DEF QueryVmss
  <2> QED
    BY <1>2, <2>1, <2>2 DEF TotalsInv
<1>5. CASE UpdateVmss
  <2>1. CASE ~CanWriteMetrics
    <3>1. pc["vmss"] # "summary" /\ pc'["vmss"] # "summary"
      BY <1>0, <1>5, <2>1 DEF UpdateVmss
    <3>2. UNCHANGED <<gauges, totals, call>>
      BY <1>5, <2>1 DEF UpdateVmss
    <3> QED
      BY <1>2, <3>1, <3>2 DEF TotalsInv
  <2>2. CASE CanWriteMetrics
    <3>1. PublishVmss /\ counts' = counts /\ pc'["vmss"] = "summary"
      BY <1>0, <1>5, <2>2 DEF UpdateVmss
    <3>2. gauges'.count = DOMAIN counts
      BY <3>1, PublishVmssEffect
    <3> QED
      BY <3>1, <3>2 DEF TotalsInv
  <2> QED
    BY <2>1, <2>2
<1>6. CASE SummarizeVmss
  <2>1. pc["vmss"] = "summary" /\ pc'["vmss"] # "summary"
    BY <1>0, <1>6 DEF SummarizeVmss
  <2>2. UNCHANGED <<gauges, call>>
    BY <1>6 DEF SummarizeVmss
  <2>3. CASE CanWriteMetrics
    <3>1. totals'.vmss = Cardinality(DOMAIN counts)
      BY <1>6, <2>3 DEF SummarizeVmss, TypeOK
    <3> QED
      BY <1>2, <2>1, <2>2, <3>1 DEF TotalsInv
  <2>4. CASE ~CanWriteMetrics
    <3>1. ~leaderEvent
      BY <2>4 DEF CanWriteMetrics
    <3>2. Clearing = {} => gauges.count = {}
      BY <3>1 DEF FollowerExposesNothing, Exposed, Nothing, NoGauges
    <3> QED
      BY <1>2, <2>2, <3>2 DEF TotalsInv
  <2> QED
    BY <2>3, <2>4
<1>7. CASE QueryLustre \/ UpdateLustre \/ SummarizeLustre
  <2>1. pc'["vmss"] = pc["vmss"] /\ UNCHANGED <<counts, call>>
    BY <1>0, <1>7 DEF QueryLustre, UpdateLustre, SummarizeLustre
  <2>2. totals'.vmss = totals.vmss
    BY <1>7 DEF QueryLustre, UpdateLustre, SummarizeLustre, TypeOK
  <2>3. gauges'.count = gauges.count
    <3>1. UNCHANGED gauges \/ PublishLustre
      BY <1>7 DEF QueryLustre, UpdateLustre, SummarizeLustre
    <3>2. PublishLustre => gauges'["count"] = gauges["count"]
      BY PublishLustreEffect
    <3> QED
      BY <3>1, <3>2
  <2> QED
    BY <1>2, <2>1, <2>2, <2>3 DEF TotalsInv
<1>8. ASSUME NEW c \in Caller, SetLeader(c) PROVE TotalsInv'
  <2>1. ASSUME NEW value \in {0, 1}, AnnounceLeader(c, value) PROVE TotalsInv'
    <3>1. Clearing' = Clearing
      BY <1>0, <2>1 DEF AnnounceLeader, Clearing
    <3> QED
      BY <1>1, <2>1, <3>1 DEF AnnounceLeader
  <2>2. CASE RaiseLeaderEvent(c)
    <3>1. Clearing' = Clearing
      BY <1>0, <2>2 DEF RaiseLeaderEvent, Clearing
    <3> QED
      BY <1>1, <2>2, <3>1 DEF RaiseLeaderEvent
  <2>3. CASE LowerLeaderEvent(c)
    <3>1. c \in Clearing'
      BY <1>0, <2>3 DEF LowerLeaderEvent, Clearing
    <3> QED
      BY <3>1 DEF TotalsInv
  <2>4. CASE ClearResourceGauges(c)
    BY <2>4 DEF ClearResourceGauges, TotalsInv, NoGauges
  <2> QED
    BY <1>8, <2>1, <2>2, <2>3, <2>4 DEF SetLeader
<1>9. CASE Start
  <2>1. pc["vmss"] # "summary" /\ pc'["vmss"] # "summary"
    BY <1>0, <1>9 DEF Start, NotStarted
  <2> QED
    BY <1>2, <1>9, <2>1 DEF Start, TotalsInv
<1>10. CASE StartupFails \/ Stop \/ WakePollers \/ Exit \/ ProcessEnds
  BY <1>1, <1>2, <1>10 DEF StartupFails, Stop, WakePollers, Exit, ProcessEnds
<1>11. CASE UNCHANGED vars
  BY <1>1, <1>2, <1>11
<1> QED
  BY <1>3, <1>4, <1>5, <1>6, <1>7, <1>8, <1>9, <1>10, <1>11
  DEF Next, Terminated

\* TotalsMatchSeries holds: behind a lowered leadership event and behind a page
\* that shows scale sets the total is their number.
THEOREM TotalsMatch == Spec => []TotalsMatchSeries
<1>1. Init => TotalsInv
  BY DEF Init, TotalsInv, NoGauges
<1>2. TotalsInv /\ FollowerExposesNothing => TotalsMatchSeries
  <2> SUFFICES ASSUME TotalsInv, FollowerExposesNothing, Clearing = {},
                      pc["vmss"] # "summary",
                      gauges.count # {} \/ ~leaderEvent
               PROVE  totals.vmss = Cardinality(gauges.count)
    BY DEF TotalsMatchSeries
  <2>1. CASE gauges.count # {}
    BY <2>1 DEF TotalsInv
  <2>2. CASE gauges.count = {} /\ ~leaderEvent
    <3>1. totals = ZeroTotals
      BY <2>2 DEF FollowerExposesNothing, Exposed, Nothing
    <3> QED
      BY <2>2, <3>1, FS_EmptySet DEF ZeroTotals
  <2> QED
    BY <2>1, <2>2
<1> QED
  BY <1>1, <1>2, NextTotals, TypeCorrect, NoSeriesLeaks, NotStartedHolds,
     FollowersExposeNothing, PTL DEF Spec

-----------------------------------------------------------------------------
(* Winding down: the halves of FollowerComesToRest and ShutdownCompletes   *)
(* that are no matter of fairness.                                         *)

\* What the steps of a poller do to its place in the loop.
PollerMoves(from, to) ==
  \/ from = "loop" /\ to = IF stopEvent THEN "done" ELSE "gate"
  \/ from = "gate" /\ to = IF leaderEvent THEN "calling" ELSE "waiting"
  \/ from = "calling" /\ to = "querying"
  \/ from = "waiting" /\ to = "loop" /\ (stopEvent \/ leaderEvent)
  \/ from = "sleeping" /\ to = "loop"
  \/ from = "querying" /\ to \in {"update", "sleeping"}
  \/ from = "update" /\ to \in {"summary", "sleeping"}
  \/ from = "summary" /\ to = "sleeping"

\* Only a poller itself changes its place once start() has returned.
LEMMA PollersMove ==
  ASSUME TypeOK, [Next]_vars, main # "starting", NEW p \in Poller
  PROVE  pc'[p] = pc[p] \/ PollerMoves(pc[p], pc'[p])
<1>0. pc \in [Poller -> PollerState]
  BY DEF TypeOK
<1> USE <1>0 DEF Goto, PollerMoves
<1>1. ASSUME NEW q \in Poller, PollerLoop(q)
      PROVE  pc'[p] = pc[p] \/ PollerMoves(pc[p], pc'[p])
  BY <1>1 DEF PollerLoop, CheckStop, CheckLeadership, BeginQuery, StopWaiting,
              EndSleep, QueryFails
<1>2. CASE QueryVmss \/ UpdateVmss \/ SummarizeVmss \/ QueryLustre
             \/ UpdateLustre \/ SummarizeLustre
  BY <1>2 DEF QueryVmss, UpdateVmss, SummarizeVmss, QueryLustre, UpdateLustre,
              SummarizeLustre
<1>3. ASSUME NEW c \in Caller, SetLeader(c) PROVE pc' = pc
  BY <1>3 DEF SetLeader, AnnounceLeader, RaiseLeaderEvent, LowerLeaderEvent,
              ClearResourceGauges, threadVars
<1>4. CASE StartupFails \/ Start \/ Stop \/ WakePollers \/ Exit \/ ProcessEnds
  BY <1>4 DEF StartupFails, Start, Stop, WakePollers, Exit, ProcessEnds,
              threadVars
<1>5. CASE UNCHANGED vars
  BY <1>5 DEF vars, threadVars
<1> QED
  BY <1>1, <1>2, <1>3, <1>4, <1>5 DEF Next, Terminated

\* A follower winds down: while the leadership event is down every step of a
\* poller takes it towards its wait, so that what an earlier leadership left it
\* with is over after seven steps and at most one answer of Azure.
THEOREM FollowersWindDown == Spec => FollowerWindsDown
<1> DEFINE WindsDown ==
      main # "starting" /\ ~leaderEvent /\ ~stopEvent =>
        \A p \in Poller :
          pc'[p] # pc[p] => UntilWaiting(pc'[p]) < UntilWaiting(pc[p])
<1>1. TypeOK /\ [Next]_vars => WindsDown
  <2> SUFFICES ASSUME TypeOK, [Next]_vars, main # "starting", ~leaderEvent,
                      ~stopEvent, NEW p \in Poller, pc'[p] # pc[p]
               PROVE  UntilWaiting(pc'[p]) < UntilWaiting(pc[p])
    OBVIOUS
  <2>1. PollerMoves(pc[p], pc'[p])
    BY PollersMove
  <2> QED
    BY <2>1 DEF PollerMoves, UntilWaiting
<1> QED
  BY <1>1, TypeCorrect, PTL DEF Spec, FollowerWindsDown

\* So does a process that is told to stop, whoever leads and although stop()
\* raises the leadership event: a poller that takes it for leadership queries
\* Azure once more and no further time.
THEOREM StoppingWindsDown == Spec => StopWindsDown
<1> DEFINE WindsDown ==
      main # "starting" /\ stopEvent =>
        \A p \in Poller :
          pc'[p] # pc[p] => UntilDone(pc'[p]) < UntilDone(pc[p])
<1>1. TypeOK /\ [Next]_vars => WindsDown
  <2> SUFFICES ASSUME TypeOK, [Next]_vars, main # "starting", stopEvent,
                      NEW p \in Poller, pc'[p] # pc[p]
               PROVE  UntilDone(pc'[p]) < UntilDone(pc[p])
    OBVIOUS
  <2>1. PollerMoves(pc[p], pc'[p])
    BY PollersMove
  <2> QED
    BY <2>1 DEF PollerMoves, UntilDone
<1> QED
  BY <1>1, TypeCorrect, PTL DEF Spec, StopWindsDown
=============================================================================
