----------------------- MODULE LustreCollectionProofs -----------------------
(***************************************************************************)
(* Theorems about one Managed Lustre collection, for any filesystems,      *)
(* metrics and targets and any number of pages, retries and workers.       *)
(***************************************************************************)
EXTENDS LustreCollection, FiniteSetTheorems, WellFoundedInduction, TLAPS

-----------------------------------------------------------------------------
(* Normalization.                                                          *)

\* The least of the distances to the end of the window is the newest moment.
LEMMA NewestExists ==
  ASSUME NEW S \in SUBSET Time, S # {}
  PROVE  \E t \in S : \A u \in S : u <= t
<1> DEFINE Distances == {Lookback - t : t \in S}
<1>1. Distances \subseteq Nat /\ Distances # {}
  <2>1. \A t \in S : Lookback - t \in Nat
    BY NormalizationConstants DEF Time
  <2> QED
    BY <2>1
<1>2. PICK d \in Distances : \A e \in Distances : ~(<<e, d>> \in OpToRel(<, Nat))
  BY <1>1, WFMin, NatLessThanWellFounded
<1>3. \A e \in Distances : ~(e < d)
  BY <1>1, <1>2 DEF OpToRel
<1>4. PICK t \in S : d = Lookback - t
  BY <1>2
<1>5. \A u \in S : u <= t
  <2> SUFFICES ASSUME NEW u \in S PROVE u <= t
    OBVIOUS
  <2>1. ~(Lookback - u < Lookback - t)
    BY <1>3, <1>4
  <2> QED
    BY <2>1, NormalizationConstants DEF Time
<1> QED
  BY <1>5

\* The latest of some moments is one of them.
LEMMA LatestType ==
  ASSUME NEW S \in SUBSET Time, S # {}
  PROVE  Latest(S) \in S
BY NewestExists DEF Latest

\* The values of a target are moments, one for each metric it reports.
LEMMA ValuesType ==
  ASSUME NEW r \in Response, NEW target \in Target
  PROVE  /\ Values(r, target) \in [Reported(r, target) -> Time]
         /\ Values(r, target) \in Value
         /\ DOMAIN Values(r, target) = Reported(r, target)
<1>1. ASSUME NEW metric \in Reported(r, target)
      PROVE  Latest(r[<<metric, target>>]) \in Time
  <2>1. /\ r[<<metric, target>>] \in SUBSET Time
        /\ r[<<metric, target>>] # {}
    BY <1>1 DEF Reported, Response
  <2> QED
    BY <2>1, LatestType
<1>2. Values(r, target) \in [Reported(r, target) -> Time]
  BY <1>1 DEF Values
<1>3. Reported(r, target) \in SUBSET Metric
  BY DEF Reported
<1> QED
  BY <1>2, <1>3 DEF Value, Values

\* The stamp of a target with a value is a moment.
LEMMA StampType ==
  ASSUME NEW r \in Response, NEW target \in Named(r)
  PROVE  Stamp(r, target) \in Time
<1>1. target \in Target /\ Reported(r, target) # {}
  BY DEF Named
<1>2. Stamps(r, target) \in SUBSET Time /\ Stamps(r, target) # {}
  BY <1>1, ValuesType DEF Stamps
<1> QED
  BY <1>2, NewestExists DEF Stamp

\* What a worker's answer amounts to: typed samples of its own
\* filesystem, one at most for a target, none without a value.
LEMMA NormalizedSamples ==
  ASSUME NEW f \in Filesystem, NEW samples \in Outcomes[f]
  PROVE  /\ samples \subseteq Sample
         /\ \A s \in samples : s.filesystem = f /\ DOMAIN s.value # {}
         /\ \A s, t \in samples : s.target = t.target => s = t
<1>1. PICK r \in Response : samples = Normalized(f, r)
  BY DEF Outcomes
<1> DEFINE S(target) == [filesystem |-> f, target |-> target,
                         value |-> Values(r, target),
                         stamp |-> Stamp(r, target)]
<1>2. \A s \in samples : s.target \in Named(r) /\ s = S(s.target)
  BY <1>1 DEF Normalized
<1>3. ASSUME NEW target \in Named(r)
      PROVE  /\ S(target) \in Sample
             /\ DOMAIN Values(r, target) # {}
  <2>1. target \in Target /\ Reported(r, target) # {}
    BY DEF Named
  <2>2. /\ Values(r, target) \in Value
        /\ DOMAIN Values(r, target) = Reported(r, target)
    BY <2>1, ValuesType
  <2>3. S(target) \in Sample
    BY <2>1, <2>2, StampType DEF Sample
  <2> QED
    BY <2>1, <2>2, <2>3
<1> QED
  BY <1>2, <1>3

-----------------------------------------------------------------------------
(* The query.                                                              *)

\* How much of the answer is there: what lies before the page asked for, and
\* all of it once the query is past its last page.
QueryInv ==
  /\ QueryTypeOK
  /\ Len(allRows) <= pages
  /\ query = "running" => allRows = [i \in 1..(page - 1) |-> i]
  /\ query \in {"normalizing", "returned"} => allRows = [i \in 1..pages |-> i]

\* An initial part of the answer with the next page is an initial part.
LEMMA AppendNext ==
  ASSUME NEW n \in Nat \ {0}
  PROVE  Append([i \in 1..(n - 1) |-> i], n) = [i \in 1..n |-> i]
<1> DEFINE s == [i \in 1..(n - 1) |-> i]
<1>1. s \in Seq(Nat) /\ Len(s) = n - 1
  <2>1. s \in [1..(n - 1) -> Nat] /\ n - 1 \in Nat
    OBVIOUS
  <2> QED
    BY <2>1
<1>2. /\ Append(s, n) \in Seq(Nat)
      /\ Len(Append(s, n)) = n
      /\ \A i \in 1..n : Append(s, n)[i] = i
  BY <1>1
<1> QED
  BY <1>2

\* A query begins with nothing read.
LEMMA QueryInitEstablishes == QueryInit => QueryInv
BY QueryConstants DEF QueryInit, QueryInv, QueryTypeOK

\* Every step of a query keeps what was read in order.
LEMMA QueryStepPreserves ==
  ASSUME QueryInv, QueryNext
  PROVE  QueryInv' /\ UNCHANGED pages
<1>1. CASE PageArrives
  <2>1. /\ page \in Nat \ {0} /\ pages \in Nat /\ page <= pages
        /\ pages \in 1..MaxPages
    BY QueryConstants DEF QueryInv, QueryTypeOK
  <2>2. /\ allRows' = [i \in 1..page |-> i]
        /\ allRows' \in Seq(1..pages)
        /\ Len(allRows') <= pages
    <3>1. allRows' = [i \in 1..page |-> i]
      BY <1>1, <2>1, AppendNext DEF PageArrives, QueryInv
    <3>2. Append(allRows, page) \in Seq(1..pages)
      BY <2>1 DEF QueryInv, QueryTypeOK
    <3>3. Len([i \in 1..page |-> i]) = page
      BY <2>1
    <3> QED
      BY <1>1, <2>1, <3>1, <3>2, <3>3 DEF PageArrives
  <2>3. CASE page < pages /\ page' = page + 1 /\ UNCHANGED query
    BY <1>1, <2>1, <2>2, <2>3, QueryConstants
    DEF PageArrives, QueryInv, QueryTypeOK
  <2>4. CASE page = pages /\ query' = "normalizing" /\ UNCHANGED page
    BY <1>1, <2>1, <2>2, <2>4, QueryConstants
    DEF PageArrives, QueryInv, QueryTypeOK
  <2> QED
    BY <1>1, <2>3, <2>4 DEF PageArrives
<1>2. CASE Retry
  BY <1>2, QueryConstants DEF Retry, QueryInv, QueryTypeOK
<1>3. CASE QueryRaises
  BY <1>3 DEF QueryRaises, QueryInv, QueryTypeOK
<1>4. CASE RowsNormalized
  BY <1>4 DEF RowsNormalized, QueryInv, QueryTypeOK
<1> QED
  BY <1>1, <1>2, <1>3, <1>4 DEF QueryNext

\* A step that leaves the query alone does so, too.
LEMMA QueryStutters ==
  ASSUME QueryInv, UNCHANGED queryVars
  PROVE  QueryInv'
BY DEF QueryInv, QueryTypeOK, queryVars

-----------------------------------------------------------------------------
(* The collection.                                                         *)

JobState == {"absent", "queued", "running", "answered", "failed"}

\* How far the collection has come.  Before the pool exists nothing is there;
\* with it the query is over, and only futures that are done have been gathered.
PhaseInv ==
  /\ QueryInv
  /\ pageOf \in [Filesystem -> 0..pages]
  /\ job \in [Filesystem -> JobState]
  /\ phase \in {"discovering", "collecting", "returned"}
  /\ gathered \subseteq Discovered
  /\ \A f \in gathered : job[f] \in {"answered", "failed"}
  /\ phase = "discovering" =>
       /\ \A f \in Filesystem : job[f] = "absent"
       /\ gathered = {}
  /\ phase # "discovering" => query = "returned"
  /\ phase = "returned" => gathered = Discovered
  /\ \A f \in Filesystem : job[f] # "absent" => f \in Discovered
  /\ phase # "discovering" => \A f \in Discovered : job[f] # "absent"

\* A filesystem is discovered if its page is.
LEMMA DiscoveredUnchanged ==
  ASSUME UNCHANGED <<queryVars, pageOf>>
  PROVE  Discovered' = Discovered
BY DEF Discovered, queryVars

\* Once the query has returned, the filesystems that were discovered are those
\* that exist.
LEMMA DiscoveredAll ==
  ASSUME PhaseInv, query = "returned"
  PROVE  Discovered = {f \in Filesystem : pageOf[f] # 0}
<1>1. /\ allRows = [i \in 1..pages |-> i] /\ pages \in Nat \ {0}
      /\ pageOf \in [Filesystem -> 0..pages]
  BY QueryConstants DEF PhaseInv, QueryInv, QueryTypeOK
<1>2. Len(allRows) = pages
  BY <1>1
<1>3. ASSUME NEW f \in Filesystem
      PROVE  pageOf[f] # 0 <=> \E i \in 1..Len(allRows) : allRows[i] = pageOf[f]
  BY <1>1, <1>2
<1> QED
  BY <1>3 DEF Discovered

\* Futures exist only for what was discovered, and are gathered when done.
LEMMA PhaseInvHolds == Spec => []PhaseInv
<1>1. Init => PhaseInv
  BY QueryInitEstablishes DEF Init, PhaseInv, JobState
<1>2. PhaseInv /\ [Next]_vars => PhaseInv'
  <2> SUFFICES ASSUME PhaseInv, [Next]_vars PROVE PhaseInv'
    OBVIOUS
  <2> USE DEF JobState
  <2>0. ASSUME UNCHANGED <<queryVars, pageOf>>
        PROVE  /\ QueryInv' /\ Discovered' = Discovered /\ UNCHANGED query
               /\ pageOf' \in [Filesystem -> 0..pages']
    BY <2>0, QueryStutters, DiscoveredUnchanged DEF PhaseInv, queryVars
  <2>1. CASE Discover
    <3>1. QueryInv' /\ UNCHANGED pages
      BY <2>1, QueryStepPreserves DEF Discover, PhaseInv
    <3>2. phase = "discovering"
      BY <2>1 DEF Discover, PhaseInv, QueryNext, PageArrives, Retry,
                  QueryRaises, RowsNormalized
    <3>3. UNCHANGED <<pageOf, phase, job, gathered>>
      BY <2>1 DEF Discover, poolVars, resultVars
    <3> QED
      BY <3>1, <3>2, <3>3 DEF PhaseInv
  <2>2. CASE NoFilesystems
    BY <2>0, <2>2 DEF NoFilesystems, PhaseInv, poolVars, resultVars
  <2>3. CASE Submit
    <3>1. /\ phase' = "collecting" /\ query = "returned"
          /\ UNCHANGED <<queryVars, pageOf, gathered>>
          /\ gathered = {}
          /\ job' = [f \in Filesystem |->
                       IF f \in Discovered THEN "queued" ELSE "absent"]
      BY <2>3 DEF Submit, PhaseInv, resultVars
    <3>2. Discovered \subseteq Filesystem
      BY DEF Discovered
    <3> QED
      BY <2>0, <3>1, <3>2 DEF PhaseInv
  <2>4. ASSUME NEW f \in Filesystem, StartJob(f) \/ Worker(f)
        PROVE  PhaseInv'
    <3>1. /\ job[f] \in {"queued", "running"}
          /\ \E state \in {"running", "answered", "failed"} :
               job' = [job EXCEPT ![f] = state]
          /\ UNCHANGED <<queryVars, pageOf, phase, gathered>>
      BY <2>4 DEF StartJob, Worker, MonitorAnswers, MonitorRetry,
                  MonitorFails, resultVars, PhaseInv
    <3> QED
      BY <2>0, <3>1 DEF PhaseInv
  <2>5. ASSUME NEW f \in Filesystem, Gather(f)
        PROVE  PhaseInv'
    BY <2>0, <2>5 DEF Gather, GatherFailure, GatherSamples, PhaseInv, poolVars
  <2>6. CASE Return
    BY <2>0, <2>6 DEF Return, PhaseInv, poolVars, resultVars
  <2>7. CASE Ended \/ UNCHANGED vars
    BY <2>0, <2>7 DEF Ended, vars, PhaseInv, poolVars, resultVars
  <2> QED
    BY <2>1, <2>2, <2>3, <2>4, <2>5, <2>6, <2>7 DEF Next
<1> QED
  BY <1>1, <1>2, PTL DEF Spec

\* A query that returns has every page once and in order, for any number of
\* pages and any budget of retries: the loop of _run_paged_query loses and
\* repeats nothing, wherever a request was tried again.
THEOREM PagesComplete == Spec => []EveryPageOnce
<1>1. PhaseInv => EveryPageOnce
  BY DEF PhaseInv, QueryInv, EveryPageOnce
<1> QED
  BY <1>1, PhaseInvHolds, PTL

\* A collection that returns has the outcome of every filesystem Resource Graph
\* knows: no page, no future and no failure makes collect overlook one.
THEOREM NothingOverlooked == Spec => []NoFilesystemOverlooked
<1>1. PhaseInv => NoFilesystemOverlooked
  BY DiscoveredAll DEF PhaseInv, NoFilesystemOverlooked
<1> QED
  BY <1>1, PhaseInvHolds, PTL

-----------------------------------------------------------------------------
(* The results.                                                            *)

\* What a worker may have returned.
GoodAnswer(f, samples) ==
  /\ samples \subseteq Sample
  /\ \A s \in samples : s.filesystem = f /\ DOMAIN s.value # {}
  /\ \A s, t \in samples : s.target = t.target => s = t

\* Each worker's own result, and what the calling thread has made of them.
AnswerInv ==
  /\ tries \in [Filesystem -> 0..MaxRetries]
  /\ answer \in [Filesystem -> SUBSET Sample]
  /\ \A f \in Filesystem : GoodAnswer(f, answer[f])
  /\ \A f \in Filesystem : job[f] # "answered" => answer[f] = {}

SumInv ==
  /\ metrics = UNION {answer[f] : f \in gathered}
  /\ errorCount = Cardinality(gathered \cap Failed)

\* A worker that answered returned good samples, any other one nothing.
LEMMA AnswerInvHolds == Spec => []AnswerInv
<1>1. Init => AnswerInv
  BY QueryConstants DEF Init, AnswerInv, GoodAnswer
<1>2. PhaseInv /\ AnswerInv /\ [Next]_vars => AnswerInv'
  <2> SUFFICES ASSUME PhaseInv, AnswerInv, [Next]_vars PROVE AnswerInv'
    OBVIOUS
  <2>0. ASSUME UNCHANGED <<job, tries, answer>> PROVE AnswerInv'
    BY <2>0 DEF AnswerInv
  <2>1. CASE Discover \/ NoFilesystems \/ Return \/ Ended \/ UNCHANGED vars
    BY <2>0, <2>1 DEF Discover, NoFilesystems, Return, Ended, vars, poolVars
  <2>2. CASE Submit
    <3>1. \A f \in Filesystem : answer[f] = {}
      BY <2>2 DEF Submit, PhaseInv, AnswerInv
    <3> QED
      BY <2>2, <3>1 DEF Submit, AnswerInv
  <2>3. ASSUME NEW f \in Filesystem, StartJob(f) \/ MonitorFails(f)
        PROVE  AnswerInv'
    <3>1. /\ \E state \in {"running", "failed"} :
               job' = [job EXCEPT ![f] = state]
          /\ job[f] # "answered"
          /\ UNCHANGED <<tries, answer>>
      BY <2>3 DEF StartJob, MonitorFails
    <3> QED
      BY <3>1 DEF AnswerInv, PhaseInv
  <2>4. ASSUME NEW f \in Filesystem, MonitorAnswers(f)
        PROVE  AnswerInv'
    <3>1. PICK samples \in Outcomes[f] :
            answer' = [answer EXCEPT ![f] = samples]
      BY <2>4 DEF MonitorAnswers
    <3>2. GoodAnswer(f, samples)
      BY NormalizedSamples DEF GoodAnswer
    <3>3. /\ job' = [job EXCEPT ![f] = "answered"]
          /\ UNCHANGED tries
      BY <2>4 DEF MonitorAnswers
    <3>4. answer' \in [Filesystem -> SUBSET Sample]
      BY <3>1, <3>2 DEF AnswerInv, GoodAnswer
    <3>5. \A g \in Filesystem : GoodAnswer(g, answer'[g])
      BY <3>1, <3>2 DEF AnswerInv
    <3>6. \A g \in Filesystem : job'[g] # "answered" => answer'[g] = {}
      BY <3>1, <3>3 DEF AnswerInv, PhaseInv
    <3> QED
      BY <3>3, <3>4, <3>5, <3>6 DEF AnswerInv, GoodAnswer
  <2>5. ASSUME NEW f \in Filesystem, MonitorRetry(f)
        PROVE  AnswerInv'
    <3>1. tries' \in [Filesystem -> 0..MaxRetries]
      BY <2>5, QueryConstants DEF MonitorRetry, AnswerInv
    <3> QED
      BY <2>5, <3>1 DEF MonitorRetry, AnswerInv
  <2>6. ASSUME NEW f \in Filesystem, Gather(f)
        PROVE  AnswerInv'
    BY <2>0, <2>6 DEF Gather, GatherFailure, GatherSamples, poolVars
  <2> QED
    BY <2>1, <2>2, <2>3, <2>4, <2>5, <2>6 DEF Next, Worker
<1> QED
  BY <1>1, <1>2, PhaseInvHolds, PTL DEF Spec

\* Gathering one more adds its samples.
LEMMA UnionOfOneMore ==
  ASSUME NEW G, NEW F, NEW x
  PROVE  UNION {F[g] : g \in G \cup {x}} = (UNION {F[g] : g \in G}) \cup F[x]
OBVIOUS

\* What the loop holds is the sum of what it gathered.
LEMMA SumInvHolds == Spec => []SumInv
<1>1. Init => SumInv
  BY FS_EmptySet DEF Init, SumInv
<1>2. PhaseInv /\ AnswerInv /\ SumInv /\ [Next]_vars => SumInv'
  <2> SUFFICES ASSUME PhaseInv, AnswerInv, SumInv, [Next]_vars PROVE SumInv'
    OBVIOUS
  <2>a. gathered \subseteq Filesystem /\ job \in [Filesystem -> JobState]
    BY DEF PhaseInv, Discovered
  <2>b. IsFiniteSet(gathered \cap Failed)
    BY <2>a, CollectionConstants, FS_Subset
  \* A step of a worker leaves alone what has been gathered.
  <2>0. ASSUME UNCHANGED resultVars,
               \A g \in gathered : UNCHANGED <<job[g], answer[g]>>
        PROVE  SumInv'
    <3>1. (gathered \cap Failed)' = gathered \cap Failed
      BY <2>0, <2>a DEF Failed, resultVars
    <3>2. {answer'[f] : f \in gathered'} = {answer[f] : f \in gathered}
      BY <2>0 DEF resultVars
    <3>3. metrics' = UNION {answer'[f] : f \in gathered'}
      BY <2>0, <3>2 DEF SumInv, resultVars
    <3>4. errorCount' = Cardinality((gathered \cap Failed)')
      BY <2>0, <3>1 DEF SumInv, resultVars
    <3> QED
      BY <3>3, <3>4 DEF SumInv
  <2>1. CASE Discover \/ NoFilesystems \/ Return \/ Ended \/ UNCHANGED vars
    BY <2>0, <2>1 DEF Discover, NoFilesystems, Return, Ended, vars, poolVars
  <2>2. CASE Submit
    BY <2>0, <2>2 DEF Submit, PhaseInv
  <2>3. ASSUME NEW f \in Filesystem, StartJob(f) \/ Worker(f)
        PROVE  SumInv'
    <3>1. f \notin gathered
      BY <2>3 DEF StartJob, Worker, MonitorAnswers, MonitorRetry,
                  MonitorFails, PhaseInv
    <3>2. \A g \in gathered : UNCHANGED <<job[g], answer[g]>>
      BY <2>3, <2>a, <3>1 DEF StartJob, Worker, MonitorAnswers, MonitorRetry,
                              MonitorFails, AnswerInv
    <3> QED
      BY <2>0, <2>3, <3>2 DEF StartJob, Worker, MonitorAnswers, MonitorRetry,
                              MonitorFails
  <2>4. ASSUME NEW f \in Filesystem, GatherFailure(f)
        PROVE  SumInv'
    <3>1. answer[f] = {} /\ f \in Failed /\ f \notin gathered
      BY <2>4 DEF GatherFailure, AnswerInv, Failed
    <3>2. /\ gathered' = gathered \cup {f} /\ UNCHANGED <<job, answer, metrics>>
          /\ errorCount' = errorCount + 1
      BY <2>4 DEF GatherFailure, poolVars
    <3>3. (gathered \cap Failed)' = (gathered \cap Failed) \cup {f}
      BY <3>1, <3>2 DEF Failed
    <3>4. metrics' = UNION {answer'[g] : g \in gathered'}
      BY <3>1, <3>2, UnionOfOneMore DEF SumInv
    <3>5. Cardinality((gathered \cap Failed) \cup {f})
            = Cardinality(gathered \cap Failed) + 1
      BY <2>b, <3>1, FS_AddElement
    <3> QED
      BY <3>2, <3>3, <3>4, <3>5 DEF SumInv
  <2>5. ASSUME NEW f \in Filesystem, GatherSamples(f)
        PROVE  SumInv'
    <3>1. /\ gathered' = gathered \cup {f} /\ UNCHANGED <<job, answer, errorCount>>
          /\ metrics' = metrics \cup answer[f]
          /\ job[f] = "answered"
      BY <2>5 DEF GatherSamples, poolVars
    <3>2. (gathered \cap Failed)' = gathered \cap Failed
      BY <3>1 DEF Failed
    <3>3. metrics' = UNION {answer'[g] : g \in gathered'}
      BY <3>1, UnionOfOneMore DEF SumInv
    <3> QED
      BY <3>1, <3>2, <3>3 DEF SumInv
  <2> QED
    BY <2>1, <2>2, <2>3, <2>4, <2>5 DEF Next, Gather
<1> QED
  BY <1>1, <1>2, PhaseInvHolds, AnswerInvHolds, PTL DEF Spec

\* The failure of one filesystem touches no other one, for any number of them
\* and in whatever order as_completed yields the futures.
THEOREM ResultsAreAccounted == Spec => []ResultsAccounted
<1>1. PhaseInv /\ AnswerInv /\ SumInv => ResultsAccounted
  BY DEF PhaseInv, AnswerInv, SumInv, ResultsAccounted, GoodAnswer, Failed
<1> QED
  BY <1>1, PhaseInvHolds, AnswerInvHolds, SumInvHolds, PTL

\* Samples come from answers alone, and each of those was normalized.
LEMMA MetricsAreGood ==
  ASSUME PhaseInv, AnswerInv, SumInv
  PROVE  /\ metrics \subseteq Sample
         /\ \A s \in metrics : /\ s \in answer[s.filesystem]
                              /\ s.filesystem \in gathered
                              /\ DOMAIN s.value # {}
<1>1. gathered \subseteq Filesystem
  BY DEF PhaseInv, Discovered
<1>2. ASSUME NEW s \in metrics
      PROVE  /\ s \in Sample /\ s \in answer[s.filesystem]
             /\ s.filesystem \in gathered /\ DOMAIN s.value # {}
  <2>1. PICK f \in gathered : s \in answer[f]
    BY DEF SumInv
  <2> QED
    BY <1>1, <2>1 DEF AnswerInv, GoodAnswer
<1> QED
  BY <1>2

\* Type correctness of a collection, for any filesystems and any bounds.
THEOREM CollectionTypeCorrect == Spec => []TypeOK
<1>1. PhaseInv /\ AnswerInv /\ SumInv => TypeOK
  <2> SUFFICES ASSUME PhaseInv, AnswerInv, SumInv PROVE TypeOK
    OBVIOUS
  <2>1. gathered \subseteq Filesystem
    BY DEF PhaseInv, Discovered
  <2>2. errorCount \in Nat
    <3>1. gathered \cap Failed \in SUBSET Filesystem
      BY <2>1
    <3> QED
      BY <3>1, CollectionConstants, FS_Subset, FS_CardinalityType DEF SumInv
  <2>3. QueryTypeOK
    BY DEF PhaseInv, QueryInv
  <2> QED
    BY <2>1, <2>2, <2>3, MetricsAreGood DEF TypeOK, PhaseInv, AnswerInv, JobState
<1> QED
  BY <1>1, PhaseInvHolds, AnswerInvHolds, SumInvHolds, PTL

-----------------------------------------------------------------------------
(* The promise.                                                            *)

Inv == PhaseInv /\ AnswerInv /\ SumInv

Returned == [filesystems |-> Discovered, errorCount |-> errorCount,
             metrics |-> metrics]

\* What the pool has gathered when it is done may be returned.
Deliverable == gathered = Discovered => Promise!Admissible(Returned)

\* When all futures are gathered the result is what Collection admits.
LEMMA ResultIsAdmissible == Inv => Deliverable
<1> SUFFICES ASSUME Inv, gathered = Discovered
             PROVE  Promise!Admissible(Returned)
  BY DEF Deliverable
<1>1. Discovered \subseteq Filesystem
  BY DEF Discovered
<1>2. metrics \subseteq Sample
  BY MetricsAreGood DEF Inv
<1>3. \E failed \in SUBSET Discovered :
        /\ Promise!Cardinality(failed) = errorCount
        /\ \A s \in metrics : s.filesystem \in Discovered \ failed
  <2>1. \A s \in metrics : s.filesystem \in Discovered /\ s.filesystem \notin Failed
    BY MetricsAreGood DEF Inv, AnswerInv, Failed
  <2>2. Promise!Cardinality(gathered \cap Failed) = errorCount
    BY DEF Inv, SumInv, Promise!Cardinality, Cardinality
  <2> WITNESS gathered \cap Failed \in SUBSET Discovered
  <2> QED
    BY <2>1, <2>2
<1>4. ASSUME NEW s \in metrics, NEW t \in metrics,
             s.filesystem = t.filesystem, s.target = t.target
      PROVE  s = t
  <2>1. /\ s.filesystem \in Filesystem
        /\ s \in answer[s.filesystem] /\ t \in answer[s.filesystem]
    BY <1>1, <1>4, MetricsAreGood DEF Inv
  <2> QED
    BY <1>4, <2>1 DEF Inv, AnswerInv, GoodAnswer
<1>5. \A s \in metrics : DOMAIN s.value # {}
  BY MetricsAreGood DEF Inv
<1> QED
  BY <1>1, <1>2, <1>3, <1>4, <1>5 DEF Promise!Admissible, Returned

\* A collection implements its promise: the result appears in one step, is
\* complete and accounted for, and never changes, whatever the workers did and
\* in whatever order.  Exporter takes a collection to be this.
THEOREM CollectionKeepsPromise == Spec => CollectionSpec
<1> DEFINE Status == IF query = "raised" THEN "raised"
                     ELSE IF phase = "returned" THEN "returned" ELSE "pending"
<1> DEFINE Result == IF phase = "returned" THEN Returned
                     ELSE [filesystems |-> {}, errorCount |-> 0, metrics |-> {}]
<1>1. Init => Promise!Init
  BY DEF Init, QueryInit, Promise!Init, Promise!Nothing
<1>2. Inv /\ Inv' /\ Deliverable' /\ [Next]_vars
        => [Promise!Raise \/ Promise!Return]_(Promise!vars)
  <2> SUFFICES ASSUME Inv, Inv', Deliverable', [Next]_vars
               PROVE  [Promise!Raise \/ Promise!Return]_(Promise!vars)
    OBVIOUS
  <2>0. ASSUME UNCHANGED Status, UNCHANGED Result
        PROVE  UNCHANGED Promise!vars
    BY <2>0 DEF Promise!vars, Returned
  <2>1. CASE Discover
    <3>1. phase = "discovering" /\ phase' = "discovering"
      BY <2>1 DEF Discover, Inv, PhaseInv, QueryNext, PageArrives, Retry,
                  QueryRaises, RowsNormalized
    <3>2. CASE query' = "raised" /\ query # "raised"
      BY <3>1, <3>2 DEF Promise!Raise
    <3>3. CASE query' # "raised" /\ query # "raised"
      BY <2>0, <3>1, <3>3
    <3>4. query # "raised"
      BY <2>1 DEF Discover, QueryNext, PageArrives, Retry, QueryRaises,
                  RowsNormalized
    <3> QED
      BY <3>2, <3>3, <3>4
  <2>2. CASE NoFilesystems \/ Return
    <3>1. /\ phase # "returned" /\ phase' = "returned"
          /\ query = "returned" /\ query' = "returned"
      BY <2>2 DEF NoFilesystems, Return, queryVars, Inv, PhaseInv
    <3>2. gathered' = Discovered'
      BY <3>1 DEF Inv, PhaseInv
    <3>3. Promise!Admissible(Returned')
      BY <3>2 DEF Deliverable
    <3> QED
      BY <3>1, <3>3 DEF Promise!Return, Returned
  <2>3. ASSUME NEW f \in Filesystem, StartJob(f) \/ Worker(f) \/ Gather(f)
        PROVE  UNCHANGED Promise!vars
    <3>1. UNCHANGED <<query, phase>>
      BY <2>3 DEF StartJob, Worker, MonitorAnswers, MonitorRetry,
                  MonitorFails, Gather, GatherFailure, GatherSamples,
                  queryVars
    <3>2. phase # "returned"
      <4>1. CASE phase = "returned"
        <5>1. job[f] \in {"queued", "running", "answered", "failed"}
              /\ (job[f] \in {"answered", "failed"} => f \notin gathered)
          BY <2>3, <4>1 DEF StartJob, Worker, MonitorAnswers, MonitorRetry,
                      MonitorFails, Gather, GatherFailure, GatherSamples
        <5> QED
          BY <4>1, <5>1 DEF Inv, PhaseInv
      <4> QED
        BY <4>1
    <3> QED
      BY <2>0, <3>1, <3>2
  <2>4. CASE Submit
    <3>1. UNCHANGED query /\ phase # "returned" /\ phase' # "returned"
      BY <2>4 DEF Submit, queryVars
    <3> QED
      BY <2>0, <3>1
  <2>5. CASE Ended \/ UNCHANGED vars
    <3>1. UNCHANGED <<query, phase, Discovered, errorCount, metrics>>
      BY <2>5 DEF Ended, vars, queryVars, resultVars, Discovered
    <3> QED
      BY <2>0, <3>1 DEF Returned
  <2> QED
    BY <2>1, <2>2, <2>3, <2>4, <2>5 DEF Next
<1>3. Spec => []Inv
  BY PhaseInvHolds, AnswerInvHolds, SumInvHolds, PTL DEF Inv
<1> QED
  BY <1>1, <1>2, <1>3, ResultIsAdmissible, PTL
  DEF Spec, CollectionSpec, Promise!Spec
-----------------------------------------------------------------------------
(* The end.  That a collection ends is beyond the prover; that it cannot go *)
(* on for ever and never stands still is not.                              *)

\* A query takes every page once, and no more attempts than it may.
LEMMA QueryStepAdvances ==
  ASSUME QueryInv, QueryNext
  PROVE  QueryAdvances
<1> USE DEF QueryAdvances, QueryRank
<1>1. CASE PageArrives
  <2>1. Len(Append(allRows, page)) = Len(allRows) + 1 /\ Len(allRows) \in Nat
    BY DEF QueryInv, QueryTypeOK
  <2> QED
    BY <1>1, <2>1 DEF PageArrives
<1>2. CASE Retry
  BY <1>2 DEF Retry, QueryInv, QueryTypeOK
<1>3. CASE QueryRaises
  BY <1>3 DEF QueryRaises
<1>4. CASE RowsNormalized
  BY <1>4 DEF RowsNormalized
<1> QED
  BY <1>1, <1>2, <1>3, <1>4 DEF QueryNext

\* A step of one future, and of no other one.
JobStep(f) ==
  /\ JobAdvances(f)
  /\ UNCHANGED <<queryVars, phase>>
  /\ \A g \in Filesystem \ {f} :
       /\ job'[g] = job[g] /\ tries'[g] = tries[g]
       /\ g \in gathered <=> g \in gathered'

\* A worker takes its own future on, the calling thread gathers one.
LEMMA JobStepAdvances ==
  ASSUME PhaseInv, AnswerInv, NEW f \in Filesystem,
         StartJob(f) \/ Worker(f) \/ Gather(f)
  PROVE  JobStep(f)
<1>0. /\ job \in [Filesystem -> JobState]
      /\ tries \in [Filesystem -> 0..MaxRetries]
  BY DEF PhaseInv, AnswerInv
<1> USE <1>0 DEF JobStep, JobAdvances, JobRank, resultVars, poolVars
<1>1. CASE StartJob(f)
  BY <1>1 DEF StartJob
<1>2. CASE MonitorAnswers(f)
  BY <1>2 DEF MonitorAnswers
<1>3. CASE MonitorRetry(f)
  <2>1. tries'[f] = tries[f] + 1 /\ tries[f] \in Nat
    BY <1>3, QueryConstants DEF MonitorRetry
  <2> QED
    BY <1>3, <2>1 DEF MonitorRetry
<1>4. CASE MonitorFails(f)
  BY <1>4 DEF MonitorFails
<1>5. CASE Gather(f)
  BY <1>5 DEF Gather, GatherFailure, GatherSamples
<1> QED
  BY <1>1, <1>2, <1>3, <1>4, <1>5 DEF Worker

\* Every step of a collection moves it towards its end, and pages, attempts and
\* tries have their bounds: for any filesystems, pages, retries and workers it
\* takes finitely many steps.
THEOREM CollectionAdvances ==
  Spec => /\ EveryStepAdvances
          /\ [](/\ Len(allRows) <= pages
                /\ attempt <= MaxRetries
                /\ \A f \in Filesystem : tries[f] <= MaxRetries)
<1> DEFINE Forward ==
      /\ QueryAdvances \/ UNCHANGED <<allRows, attempt, query>>
      /\ PhaseAdvances \/ UNCHANGED phase
      /\ \A f \in Filesystem :
           \/ JobAdvances(f)
           \/ /\ job'[f] = job[f] /\ tries'[f] = tries[f]
              /\ f \in gathered <=> f \in gathered'
      /\ QueryAdvances \/ PhaseAdvances \/ \E f \in Filesystem : JobAdvances(f)
<1>1. PhaseInv /\ AnswerInv /\ [Next]_vars => [Forward]_vars
  <2> SUFFICES ASSUME PhaseInv, AnswerInv, Next, ~UNCHANGED vars
               PROVE  Forward
    OBVIOUS
  <2>1. CASE Discover
    <3>1. QueryAdvances
      BY <2>1, QueryStepAdvances DEF Discover, PhaseInv
    <3> QED
      BY <2>1, <3>1 DEF Discover, poolVars, resultVars
  <2>2. CASE NoFilesystems \/ Return
    <3>1. PhaseAdvances
      BY <2>2 DEF NoFilesystems, Return, PhaseAdvances, PhaseRank
    <3> QED
      BY <2>2, <3>1 DEF NoFilesystems, Return, queryVars, poolVars, resultVars
  <2>3. CASE Submit
    <3>1. PhaseAdvances
      BY <2>3 DEF Submit, PhaseAdvances, PhaseRank
    <3>2. ASSUME NEW f \in Filesystem
          PROVE  \/ JobAdvances(f)
                 \/ /\ job'[f] = job[f] /\ tries'[f] = tries[f]
                    /\ f \in gathered <=> f \in gathered'
      BY <2>3 DEF Submit, PhaseInv, JobAdvances, JobRank, resultVars
    <3> QED
      BY <2>3, <3>1, <3>2 DEF Submit, queryVars
  <2>4. ASSUME NEW f \in Filesystem, StartJob(f) \/ Worker(f) \/ Gather(f)
        PROVE  Forward
    <3>1. JobStep(f)
      BY <2>4, JobStepAdvances
    <3> QED
      BY <3>1 DEF JobStep, queryVars
  <2>5. CASE Ended
    BY <2>5 DEF Ended
  <2> QED
    BY <2>1, <2>2, <2>3, <2>4, <2>5 DEF Next
<1>2. PhaseInv /\ AnswerInv
        => /\ Len(allRows) <= pages
           /\ attempt <= MaxRetries
           /\ \A f \in Filesystem : tries[f] <= MaxRetries
  <2> SUFFICES ASSUME PhaseInv, AnswerInv
               PROVE  /\ Len(allRows) <= pages
                      /\ attempt <= MaxRetries
                      /\ \A f \in Filesystem : tries[f] <= MaxRetries
    OBVIOUS
  <2>1. Len(allRows) <= pages /\ attempt \in 0..MaxRetries
    BY DEF PhaseInv, QueryInv, QueryTypeOK
  <2>2. tries \in [Filesystem -> 0..MaxRetries]
    BY DEF AnswerInv
  <2> QED
    BY <2>1, <2>2, QueryConstants
<1> QED
  BY <1>1, <1>2, PhaseInvHolds, AnswerInvHolds, PTL
  DEF Spec, EveryStepAdvances

\* Somebody has something to do: the guard of a call to Azure that is under
\* way, of a worker, or of the calling thread.
SomethingToDo ==
  \/ query \in {"running", "normalizing"}
  \/ phase = "discovering" /\ query = "returned"
  \/ \E f \in Filesystem :
       \/ job[f] = "queued" /\ Cardinality(Busy) < MaxWorkers
       \/ job[f] = "running"
       \/ /\ phase = "collecting" /\ f \notin gathered
          /\ job[f] \in {"answered", "failed"}
  \/ phase = "collecting" /\ gathered = Discovered

\* The pool never waits for itself: as long as collect has neither raised nor
\* returned there is something to do, however few the workers are.  (TLC's
\* check for deadlocks, for every instance.)
THEOREM NeverStuck ==
  Spec => [](query = "raised" \/ phase = "returned" \/ SomethingToDo)
<1>1. PhaseInv => query = "raised" \/ phase = "returned" \/ SomethingToDo
  <2> SUFFICES ASSUME PhaseInv, query # "raised", phase # "returned",
                      ~SomethingToDo
               PROVE  FALSE
    OBVIOUS
  <2>1. query = "returned" /\ phase = "collecting" /\ gathered # Discovered
    BY DEF PhaseInv, QueryInv, QueryTypeOK, SomethingToDo
  <2>2. PICK f \in Discovered : f \notin gathered
    BY <2>1 DEF PhaseInv
  <2>3. job[f] = "queued" /\ f \in Filesystem
    BY <2>1, <2>2 DEF PhaseInv, JobState, Discovered, SomethingToDo
  <2>4. Busy = {}
    BY DEF Busy, SomethingToDo
  <2>5. Cardinality(Busy) < MaxWorkers
    BY <2>4, FS_EmptySet, CollectionConstants
  <2> QED
    BY <2>3, <2>5 DEF SomethingToDo
<1> QED
  BY <1>1, PhaseInvHolds, PTL
=============================================================================
