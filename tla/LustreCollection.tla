--------------------------- MODULE LustreCollection ---------------------------
(***************************************************************************)
(* AzureManagedLustreCollector.collect (azure_managed_lustre.py): one      *)
(* query discovers the filesystems, the threads of a pool ask Azure        *)
(* Monitor about one of them each, with retries, and the calling thread    *)
(* gathers their results in the order in which they complete.              *)
(*                                                                         *)
(* A worker shares nothing with the others; its answer and the             *)
(* normalization of it are one step.  The final sort is left out, since    *)
(* the samples are a set here.  Delays between attempts are left out.      *)
(*                                                                         *)
(* A definition named D_Something is D with a bug, as in Exporter.         *)
(***************************************************************************)
EXTENDS PagedQuery, Normalization, FiniteSets

CONSTANTS Filesystem,
          MaxWorkers     \* lustre_metrics_max_workers

ASSUME CollectionConstants ==
  /\ IsFiniteSet(Filesystem)
  /\ MaxWorkers \in Nat \ {0}

VARIABLES pageOf,        \* the page that lists a filesystem, 0 for none
          phase,         \* how far collect has come
          job,           \* the future of each filesystem
          tries,         \* failed attempts of its Monitor query
          answer,        \* the samples its worker returned
          gathered,      \* those as_completed has yielded
          metrics,       \* the samples gathered so far
          errorCount     \* error_count

poolVars == <<job, tries, answer>>
resultVars == <<gathered, metrics, errorCount>>
vars == <<queryVars, pageOf, phase, poolVars, resultVars>>

Init ==
  /\ QueryInit
  /\ pageOf \in [Filesystem -> 0..pages]
  /\ phase = "discovering"
  /\ job = [f \in Filesystem |-> "absent"]
  /\ tries = [f \in Filesystem |-> 0]
  /\ answer = [f \in Filesystem |-> {}]
  /\ gathered = {}
  /\ metrics = {}
  /\ errorCount = 0

Discover ==
  /\ QueryNext
  /\ UNCHANGED <<pageOf, phase, poolVars, resultVars>>

\* The filesystems of the rows.
Discovered == {f \in Filesystem : \E i \in 1..Len(allRows) :
                                    allRows[i] = pageOf[f]}

\* Without filesystems there is nothing to ask Azure Monitor.
NoFilesystems ==
  /\ phase = "discovering"
  /\ query = "returned"
  /\ Discovered = {}
  /\ phase' = "returned"
  /\ UNCHANGED <<queryVars, pageOf, poolVars, resultVars>>

\* One future for each filesystem.
Submit ==
  /\ phase = "discovering"
  /\ query = "returned"
  /\ Discovered # {}
  /\ phase' = "collecting"
  /\ job' = [f \in Filesystem |->
               IF f \in Discovered THEN "queued" ELSE "absent"]
  /\ UNCHANGED <<queryVars, pageOf, tries, answer, resultVars>>

-----------------------------------------------------------------------------
(* The workers of the pool.                                                *)

Busy == {f \in Filesystem : job[f] = "running"}

\* A worker is free and takes up the next future.
StartJob(f) ==
  /\ job[f] = "queued"
  /\ Cardinality(Busy) < MaxWorkers
  /\ job' = [job EXCEPT ![f] = "running"]
  /\ UNCHANGED <<queryVars, pageOf, phase, tries, answer, resultVars>>

\* What the answers of Azure Monitor about a filesystem can amount to.
Outcomes == [f \in Filesystem |-> {Normalized(f, r) : r \in Response}]

\* Azure Monitor answers, and the answer is normalized.
MonitorAnswers(f) ==
  /\ job[f] = "running"
  /\ job' = [job EXCEPT ![f] = "answered"]
  /\ \E samples \in Outcomes[f] : answer' = [answer EXCEPT ![f] = samples]
  /\ UNCHANGED <<queryVars, pageOf, phase, tries, resultVars>>

\* The attempts are counted from 0 again when the budget is spent.
MonitorRetry_StartsOver(f) ==
  /\ job[f] = "running"
  /\ tries' = [tries EXCEPT ![f] = IF @ < MaxRetries THEN @ + 1 ELSE 0]
  /\ UNCHANGED <<queryVars, pageOf, phase, job, answer, resultVars>>

\* A failure worth a retry, within the budget.
MonitorRetry(f) ==
  /\ job[f] = "running"
  /\ tries[f] < MaxRetries
  /\ tries' = [tries EXCEPT ![f] = @ + 1]
  /\ UNCHANGED <<queryVars, pageOf, phase, job, answer, resultVars>>

\* A failure beyond the budget or not worth a retry, or an answer that
\* normalization cannot read.
MonitorFails(f) ==
  /\ job[f] = "running"
  /\ job' = [job EXCEPT ![f] = "failed"]
  /\ UNCHANGED <<queryVars, pageOf, phase, tries, answer, resultVars>>

-----------------------------------------------------------------------------
(* The calling thread.                                                     *)

\* A failure drops what was gathered before it.
GatherFailure_StartsOver(f) ==
  /\ phase = "collecting"
  /\ job[f] = "failed" /\ f \notin gathered
  /\ gathered' = gathered \cup {f}
  /\ metrics' = {}
  /\ errorCount' = errorCount + 1
  /\ UNCHANGED <<queryVars, pageOf, phase, poolVars>>

\* A failure is counted for each filesystem whose Monitor query was retried.
GatherFailure_CountsTries(f) ==
  /\ phase = "collecting"
  /\ job[f] = "failed" /\ f \notin gathered
  /\ gathered' = gathered \cup {f}
  /\ errorCount' = errorCount + tries[f] + 1
  /\ UNCHANGED <<queryVars, pageOf, phase, poolVars, metrics>>

\* future.result() raises: the failure of one filesystem is counted.
GatherFailure(f) ==
  /\ phase = "collecting"
  /\ job[f] = "failed" /\ f \notin gathered
  /\ gathered' = gathered \cup {f}
  /\ errorCount' = errorCount + 1
  /\ UNCHANGED <<queryVars, pageOf, phase, poolVars, metrics>>

\* The samples of one filesystem join the others.
GatherSamples(f) ==
  /\ phase = "collecting"
  /\ job[f] = "answered" /\ f \notin gathered
  /\ gathered' = gathered \cup {f}
  /\ metrics' = metrics \cup answer[f]
  /\ UNCHANGED <<queryVars, pageOf, phase, poolVars, errorCount>>

\* The pool is done with every future.
Return ==
  /\ phase = "collecting"
  /\ gathered = Discovered
  /\ phase' = "returned"
  /\ UNCHANGED <<queryVars, pageOf, poolVars, resultVars>>

Worker(f) == MonitorAnswers(f) \/ MonitorRetry(f) \/ MonitorFails(f)

Gather(f) == GatherFailure(f) \/ GatherSamples(f)

Ended == (phase = "returned" \/ query = "raised") /\ UNCHANGED vars

Next ==
  \/ Discover
  \/ NoFilesystems \/ Submit
  \/ \E f \in Filesystem : StartJob(f) \/ Worker(f) \/ Gather(f)
  \/ Return
  \/ Ended

Spec == Init /\ [][Next]_vars

\* A call to Azure returns, by an answer or a failure, and the threads run.
LiveSpec ==
  /\ Spec
  /\ WF_vars(Discover)
  /\ WF_vars(NoFilesystems \/ Submit)
  /\ WF_vars(\E f \in Filesystem : StartJob(f))
  /\ \A f \in Filesystem : WF_vars(Worker(f))
  /\ \A f \in Filesystem : WF_vars(Gather(f))
  /\ WF_vars(Return)

-----------------------------------------------------------------------------
(* Claims.                                                                 *)

Sample == [filesystem : Filesystem, target : Target, value : Value,
           stamp : Time]

TypeOK ==
  /\ QueryTypeOK
  /\ pageOf \in [Filesystem -> 0..pages]
  /\ phase \in {"discovering", "collecting", "returned"}
  /\ job \in [Filesystem -> {"absent", "queued", "running", "answered",
                             "failed"}]
  /\ tries \in [Filesystem -> 0..MaxRetries]
  /\ answer \in [Filesystem -> SUBSET Sample]
  /\ gathered \subseteq Filesystem
  /\ metrics \subseteq Sample
  /\ errorCount \in Nat

\* "all discovered AMLFS resources": a collection that returns has asked about
\* every filesystem Resource Graph knows, on whichever page and wherever the
\* retries fell, and has waited for the outcome.
NoFilesystemOverlooked ==
  phase = "returned" => gathered = {f \in Filesystem : pageOf[f] # 0}

Failed == {f \in Filesystem : job[f] = "failed"}

\* The failure of one filesystem touches no other one, in whatever order the
\* futures complete: the samples are those of the filesystems gathered so far,
\* each as its worker returned them, and error_count counts those that failed.
\* collect_lustre_once decides by error_count == 0 what it may remove.
ResultsAccounted ==
  /\ metrics = UNION {answer[f] : f \in gathered}
  /\ errorCount = Cardinality(gathered \cap Failed)
  /\ \A f \in Filesystem : \A s \in answer[f] : s.filesystem = f
  /\ \A f \in Failed : answer[f] = {}

\* "{{ filesystem_name }} OST {{ ostnum }} has no fresh Azure Monitor
\* OSTBytesAvailable sample": the timestamp the alert looks at is that of the
\* metric it speaks of.
StampIsOfAvailable ==
  \A s \in metrics : Available \in DOMAIN s.value
                     /\ s.value[Available] = s.stamp

\* A collection implements the promise that Exporter builds on.
Promise == INSTANCE Collection
             WITH status <- IF query = "raised" THEN "raised"
                            ELSE IF phase = "returned" THEN "returned"
                            ELSE "pending",
                  result <- IF phase = "returned"
                            THEN [filesystems |-> Discovered,
                                  errorCount |-> errorCount,
                                  metrics |-> metrics]
                            ELSE [filesystems |-> {}, errorCount |-> 0,
                                  metrics |-> {}]

CollectionSpec == Promise!Spec

-----------------------------------------------------------------------------
(* How far a collection has come.                                          *)

QueryRank == [running |-> 0, normalizing |-> 1, returned |-> 2, raised |-> 2]
PhaseRank == [discovering |-> 0, collecting |-> 1, returned |-> 2]
JobRank == [absent |-> 0, queued |-> 1, running |-> 2, answered |-> 3,
            failed |-> 3]

\* Another page, or another attempt at the same, or the rows are taken further.
QueryAdvances ==
  \/ Len(allRows') > Len(allRows)
  \/ Len(allRows') = Len(allRows) /\ attempt' > attempt
  \/ /\ Len(allRows') = Len(allRows) /\ attempt' = attempt
     /\ QueryRank[query'] > QueryRank[query]

PhaseAdvances == PhaseRank[phase'] > PhaseRank[phase]

\* The future moves on, or is tried once more, or is gathered.
JobAdvances(f) ==
  \/ JobRank[job'[f]] > JobRank[job[f]]
  \/ job'[f] = job[f] /\ tries'[f] > tries[f]
  \/ job'[f] = job[f] /\ tries'[f] = tries[f]
       /\ f \notin gathered /\ f \in gathered'

\* No collection goes on for ever: pages, attempts and futures only ever move
\* forward, each up to a bound of its own, and every step moves one of them.
\* A retry loop that could begin anew, alone or because of another filesystem,
\* would hold up all the samples of the collection.
EveryStepAdvances ==
  [][/\ QueryAdvances \/ UNCHANGED <<allRows, attempt, query>>
     /\ PhaseAdvances \/ UNCHANGED phase
     /\ \A f \in Filesystem :
          \/ JobAdvances(f)
          \/ /\ job'[f] = job[f] /\ tries'[f] = tries[f]
             /\ f \in gathered <=> f \in gathered'
     /\ QueryAdvances \/ PhaseAdvances
          \/ \E f \in Filesystem : JobAdvances(f)]_vars

\* A collection ends if each single call to Azure does, whatever fails and
\* however often it is retried.  That the answer has finitely many pages is an
\* assumption about Resource Graph: the loop over skip tokens has no bound.
CollectionEnds == <>(phase = "returned" \/ query = "raised")
=============================================================================
