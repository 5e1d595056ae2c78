# A TLA+ model of the Azure VMSS metrics exporter

The exporter polls Azure Resource Graph and Azure Monitor and publishes what it
learns as Prometheus series. Several replicas may run; a Kubernetes lock elects
one of them to do the polling, and the others keep an empty `/metrics` page.
What is hard about the program is not any single step but their order: pollers
that are in the middle of a collection when leadership changes, callbacks that
arrive in other threads, a shutdown that wakes everybody up, and a registry
that must forget what Azure no longer reports and keep what Azure merely failed
to report.

Paths below are relative to the repository; `collector.py` and the other
modules named without a directory are in `src/vmss_metrics_exporter/`.

## The system

| Component | State it keeps | Operations | Talks to |
|---|---|---|---|
| `VmssMetricsExporter` (collector.py) | `_stop_event`, `_is_leader_event`, the beacon gauge `is_leader`, some forty gauge families, eight sets `_active_*_labelsets`, totals, success timestamps, durations, error counters | two poller threads; `set_leader`; `start`, `stop` | calls the two collectors, is called by the election and by main, is scraped by Prometheus |
| `LeaderElectionRunner` (leader_election.py) | its `_stop_event`, the back-off | `run_forever`, `release` | runs kubernetes' `LeaderElection`, whose callbacks are `set_leader(True)` and `set_leader(False)` |
| `main` (main.py) | none | start-up, wait for a signal, shutdown, `--once` | owns both of the above |
| Resource Graph collector (azure_resource_graph.py) | none between calls | paged query, retry with back-off, row normalization | Azure |
| Managed Lustre collector (azure_managed_lustre.py) | none between calls | discovery, one Monitor query per filesystem in a thread pool, retry, normalization | Azure |
| `ResilientAzureCredential` (credentials.py) | the credential that last worked | `get_token` | Azure, from several threads |
| Configuration (config.py), data models (models.py) | none | parsing, label tuples, percentages | |
| deploy/ | none | alert rules, dashboards, manifests | read by Prometheus and Kubernetes |

Interactions: main starts the election thread *before* the HTTP server and the
pollers, so callbacks may arrive before there is anything to lead. kubernetes
calls `on_stopped_leading` in the supervisor's thread and `on_started_leading`
in a thread of its own, so two `set_leader` calls may overlap. A poller reads
the leadership event without a lock, calls Azure for as long as that takes, and
looks at the event again under `_metric_lock` before each of its two writes;
`set_leader(False)` lowers the event without the lock and then clears the page
under it. At shutdown main releases the election and then stops the exporter,
and `stop` *raises* the leadership event so that waiting pollers wake up.

### What makes each part correct

* **Exporter, leadership.** No series of Azure on a page whose gate is shut and
  cleared; beacon, event and lock agree; a follower stops calling Azure.
* **Exporter, registry.** Whatever is exposed is remembered and will be
  removed; a clean collection replaces everything; a partial failure hides
  nothing; every count has exactly one info series; totals fit the series.
* **Exporter, progress.** A leader collects again and again, a follower comes
  to rest, a signal ends the process.
* **Election.** The beacon says who holds the lock; one publisher at a time;
  the supervisor never gives up; the back-off stays within its bounds.
* **Cluster.** Two replicas publish at once, or the lock is taken from one that
  leads, only in ways that can be named; after a crash somebody takes over.
* **Collectors.** Every row of every page, no filesystem's samples lost or
  mixed up by another's failure, bounded retries.
* **Normalization.** Latest non-null value per series, and a timestamp that
  says how old it is.
* **Credentials.** A call fails only if every credential of the chain failed.

`PROJECT.json` lists the hazards one by one, at their lines, with the
properties that watch over them.

## The modules

| Module | What it is |
|---|---|
| `LeaderGate` | abstract specification: what the leadership gate promises of a page |
| `Exporter` | `VmssMetricsExporter`: pollers, `set_leader`, start, stop |
| `ExporterProperties` | what is claimed of `Exporter`; fairness |
| `ExporterProofs` | theorems about `Exporter` |
| `LeaderElection` | `LeaderElectionRunner`, with kubernetes' `LeaderElection` as its environment |
| `Replica` | main: one replica made of `Exporter` and `LeaderElection` |
| `ReplicaProofs` | theorems about `Replica` |
| `CredentialChain` | `ResilientAzureCredential`: how the chain is built, `get_token` from several threads |
| `CredentialChainProofs` | theorems about `CredentialChain` |
| `PagedQuery` | one query of Resource Graph: pages, skip tokens, retries |
| `Normalization` | an answer of Azure Monitor as samples: pure operators |
| `Collection` | abstract specification: what a Lustre collection promises its caller |
| `LustreCollection` | `AzureManagedLustreCollector.collect`: `PagedQuery`, the thread pool and `Normalization` together |
| `LustreCollectionProofs` | theorems about `LustreCollection` |
| `CollectionServes` | theorem: what `Collection` promises is what `Exporter` expects |
| `HaCluster` | several replicas' elections for one lock, with time, crashes, shutdowns and failing calls |
| `HaClusterProofs` | theorems about `HaCluster` |
| `HaDrain` | `HaCluster` when nothing fails and replicas are drained: how long nobody leads |
| `MCExporter`, `MCReplica`, `MCCredentialChain`, `MCLustreCollection`, `MCHaCluster`, `MCHaDrain` | constants for TLC |

How they fit together: `Replica` composes `Exporter` and `LeaderElection`.
`Exporter` takes a Lustre collection to be what `Collection` says, which
`LustreCollection` is shown to implement; `CollectionServes` shows that what it
promises is one of `Exporter`'s `LustreResult`. `Replica` takes the lock to name
no other holder while this replica renews it; `HaCluster` derives under which
durations and disturbances that is so (`TakenOnlyWhenFree`).

### Exporter

`pc[p]` is the place of poller `p` in its loop: `loop` (the stop check), `gate`
(the leadership check), `waiting`, `calling` (past the check, about to call
Azure), `querying` (in the calls to Azure), `update` and `summary` (about to
enter the first and second critical section), `sleeping`, `done`. `call[c]` is how far a `set_leader` call of thread `c` has come: the
beacon is written (`raise` or `lower`), the event is lowered (`clear`), the
call is over (`idle`). `main` is the place of the main thread: `starting`,
`serving`, `stopping` (`_stop_event` is set), `joining`, `exiting` (main has
returned), `exited` (the process is gone).

A collection asks who leads before it starts and before each of its two writes,
and nowhere else: `querying` stands for all its pages, retries and Monitor
queries, and a replica that is demoted meanwhile goes on with them as a
follower. The pollers are daemon threads, but the workers of the pool in which
the Lustre collection runs its Monitor queries (azure_managed_lustre.py:165)
are not: the interpreter waits for them after main has returned, so a query
that hangs there keeps the process (`PoolBusy`).

The registry is a record `gauges` of sets of label sets, one field per family
that the code treats in its own way: instance counts (and capacity, always
written together), VMSS info, filesystem info, filesystem capacity, sample
values and sample timestamps. The four kinds of Lustre samples (OST, OST
operation, MDT, MDT operation) differ only in their labels and gauges and are
handled by the same lines four times over; here they are one family of
samples, each with a subset of `ValueGauge` that has a value. `active` holds
the `_active_*_labelsets`.

What a collection returns is a nondeterministic choice among everything a query
can answer: any set of scale sets with any metadata; any set of filesystems,
any of them failed, any samples of the others with any nonempty subset of
values. That a query answers with *one* row for each resource is an assumption
about Azure (a page boundary that moves between two requests could break it).
A query that raises is `QueryFails`.

Atomicity: a block under `_metric_lock` is one step. Its only read of state
that others write outside the lock is the look at the leadership event, which
comes first, so the step can be placed there. Everything outside the lock takes
one step per read or write of shared state: the two checks of the loop, the
three parts of a demotion, the two parts of a promotion, the two writes of
`stop`. The error path of a collection is one step: its two writes (error
counter and duration) are not read together by anyone. A scrape sees the state
between steps, so a page torn by a scrape in the middle of an update is out of
the model.

Values and times are left out: a gauge is present or absent, a success
timestamp or a duration is zero or not, an interval ends at any moment. Error
counters stop at `MaxErrors`.

### LeaderElection and Replica

`supervisor` is the place of `run_forever`: `check`, `acquiring` and `renewing`
(inside `run()`), `lost` (about to call `on_stopped_leading`), `demoting` (in
it), `backoff`, `exited`. kubernetes' `LeaderElection` is external: it acquires
a lock that is free or expired, starts `on_started_leading` in a new thread,
gives up after failed renewals, and may raise, as the `except` clause and the
docstring of `run_forever` expect. Another replica gets the lock only when this
one is not renewing it: an assumption that `HaCluster` derives if the lease
outlasts the grace, and weakens to `TakenOnlyWhenFree` if it does not.

`Replica` is the conjunction of the two: each action is a step of one, of the
other, or of both (a callback begins or ends). Two constants say what is
assumed of the external library. `RaisesWhileRenewing`: `run()` may raise after
it has become the leader. `PromptStarters`: `on_started_leading`, two
assignments in a thread of its own, is over before the renew loop can give up
(ten seconds later by default).

### CredentialChain

`environment` is what the constructor finds: the requested mode, which groups
of variables are complete, which credentials can be constructed. `chain` is
what `_build_credential_chain` makes of it; environments in which the
constructor raises have no behaviour. `pc[t]` is how far `get_token` has come
in thread `t`: `cached` (trying the credential it read from `_active`),
`forget` (about to clear `_active`), `chain` (trying `chain[next[t]]`), `store`
(has a token, about to set `_active`), `token`, `error`. Each read or write of
`_active` under the lock is one step, and so is each call of a credential.

The credentials are external: `works` says which would give a token now, and
`Change` breaks or mends one at any moment. `steady[t]` is not in the code. It
records which credentials have worked ever since thread `t` entered
`get_token`, which is what "every credential failed" has to be measured
against when credentials change during a call.

The program makes one credential for each of its two clients. Within the Lustre
client a pool of workers shares it; two threads of the model are two such
workers, or a worker of this collection and one of the next.

### PagedQuery, Normalization and LustreCollection

A page stands for its rows, and `allRows` for the list `all_rows`; `page` is
the page the skip token asks for, `attempt` the failed attempts at it. How many
pages there are (`pages`) and which of them lists a filesystem (`pageOf`) is
known to Azure alone. The two collectors each have a `_run_paged_query` and an
`_execute_with_retry` of their own that do the same. A failure that is not
worth a retry, a budget that is spent, an answer that is no list and a row that
cannot be normalized all end the collection in the same way (`QueryRaises`).

`phase` is the place of the thread in `collect`: `discovering`, `collecting`
(in the `as_completed` loop), `returned`. `job[f]` is the future of filesystem
`f`: `absent`, `queued`, `running`, `answered`, `failed`; `answer[f]` is what
it returned. A worker shares nothing with the others, so that its answer and
the normalization of it are one step. `gathered`, `metrics` and `errorCount`
are the local variables of the loop. Samples are a set: the code sorts them at
the end, and nothing depends on the order.

`Normalization` has a value stand for the moment it was measured at. A response
is, for each metric and target, the set of moments at which the average is not
null; `Values`, `Stamps` and `Stamp` are the dictionaries that
`normalize_lustre_metrics_response` fills. The parsing of names, dimensions and
timestamps is left out.

### HaCluster and HaDrain

For each replica, `role` is how far its election has come and `step` where its
thread is: `get` and `put` (calls under way), `committed` (the lock is written
and the answer on its way), `sleep`, `callback` (in `on_stopped_leading`),
`backoff` (between elections), `off`. `wait` is the time until the call or sleep
is over, `deadline` that of the renew loop, `leaseLeft` what is left of the
lease it has observed, and `seen` whether the record is still the one it read;
that is what the resource version decides when it writes. `holder` is the
record in the ConfigMap, `backoff` the delay of `run_forever`, and `leads`
whether the exporter may publish.

`LeaderElection.run` of the kubernetes client is external and modelled from its
documented algorithm and from how leader_election.py configures it. It judges a
lease by how long it has itself seen no change of the record, so no two clocks
are compared; they only have to run at the same speed. A call takes up to
`CallTime`. It may fail, or lose its answer after it was effective; the attempt
then fails (`CallFails`) or `run` raises (`RunRaises`). The callbacks are those
of `Replica` seen from outside: promotion at once, demotion within
`CallbackTime`.

If `run` raises in a leader, nobody demotes the exporter: `stray` says that its
page is up without a leadership, and it stays so until the replica leads again
and is demoted. A shutdown has the code's two steps: `Release` ends a back-off
but no election, so that a leader goes on renewing, and `WakePollers` is
`stop()` raising the leadership event, of a follower as well, whose pollers may
then publish until `ProcessEnds`. That action is also a crash. It leaves the
record behind, and the process is started again under the same identity, or
not at all.

`Grace` adds up how long a leader that cannot renew may go on publishing. The
checks of `LeaderElectionConfig` (`Accepted`) order the three durations
pairwise and do not make the lease outlast it. The code sets no timeout on its
calls to the API server, so `CallTime` is a parameter and no fact. In whole
seconds the defaults of 15, 10 and 2 leave one second for two calls and the
callback: the lease outlasts the grace only if calls take no time, and calls of
one second make it too short by two, or by one if the callback is instant. The
accepted 15, 14 and 13 are too short by far. `Excess` is by how much the lease
is too short, and a leader that has failed to renew for so long that its lease
may be over is `Overdue`. Identities must be distinct, as host and pod names
are; two replicas given the same `LEADER_ELECTION_IDENTITY` would both hold the
lock.

`HaDrain` runs the same replicas without failures: processes end because they
are drained, and the disruption budget leaves one of them. `vacant` counts for
how long nobody leads.

## Runs

No run takes more than two minutes or so on two cores.

| Run | Instance | What it shows |
|---|---|---|
| `exporter` | both pollers, one scale set with two SKUs, no filesystems, one caller | `TypeOK`, `SeriesTracked`, `UniqueInfo`, `TotalsMatchSeries`, `TotalsSettle`, `LeaderKeepsCollecting`, `FollowerComesToRest`, `FollowerWindsDown`, `StopWindsDown`, `ShutdownCompletes` |
| `exporter_lustre` | both pollers, two filesystems, one sample of each with two values, one caller | `SeriesTracked`, `CleanCollectionReplaces`, `PartialFailureKeepsSeries`, `SilentFollower` |
| `replica_prompt` | one poller, one starter, no raise while renewing, prompt starters | `BeaconTruthful`, `GateFollowsLock`, `NoSecondPublisher`, `ShowsOnlyWhileLeading` |
| `replica_any` | the same without either assumption | `BackoffBounded`, `FollowerExposesNothing`, `LeaderCollects`, `KeepsCampaigning`, and that the exporter implements `LeaderGate` with two callers at once |
| `credentials` | two threads, every environment, three changes | `TypeOK`, `ErrorOnlyIfNoneWorked`, `OverrideHonoured`, `EarlierPreferred`, `CacheSettles` |
| `lustre_collection` | three filesystems on up to two pages, one retry, two workers, two metrics, two moments | `TypeOK`, `EveryPageOnce`, `NoFilesystemOverlooked`, `ResultsAccounted`, `EveryStepAdvances`, `CollectionEnds`, and that `LustreCollection` implements `Collection` |
| `ha_cluster` | two replicas, lease 5, deadline 2, retry, call and callback 1: too short by two | `TypeOK`, `OnePublisher`, `TakenOnlyWhenFree`, `SomebodyPublishes` |
| `follower_duration`, `stop_race`, `replica_raise`, `stale_sample`, `empty_period` | smallest instances | counterexamples, see *Findings* |

Bounds. One scale set appears, changes its SKU and vanishes, alone on the page
or not at all; that a second one changes nothing is what the theorems say, which
bound neither scale sets nor callers. Two filesystems let one fail while the
other is refreshed, and two gauges let one value of a sample be missing while
the other is there. The starter thread in `replica_any` may be as late as it
likes, so that its `set_leader(True)` overlaps every step of the supervisor's
`set_leader(False)`. The back-off is counted in seconds from a retry period of
40, so that doubling reaches the cap of 60 at once. `MaxErrors` only keeps the
error counters finite; no action depends on them. A chain has at most two
credentials, and three changes let both break and one of them recover within
one call of either thread. Three filesystems on two workers let a future wait
for a worker while one runs and another has failed; two pages and one retry let
a request fail before, between and after pages that arrived. That an answer of
Resource Graph has finitely many pages (`MaxPages`) is an assumption about
Azure: the loop of the code follows skip tokens for as long as there are any. A
response has a series that names no target, and metrics that stop at different
moments. In `ha_cluster` failures, raises, shutdowns and crashes are not
bounded, and every exception that `OnePublisher` and `TakenOnlyWhenFree` allow
occurs: each of the properties without its exceptions is violated on the same
instance, and without `Overdue` it holds when the lease is 7, the grace. The
unit is a step of time, and longer durations add no new order of events. The
symmetry of `exporter_lustre` permutes filesystems and gauges, which no
definition or property tells apart; the run checks no liveness.

Fairness. Weak fairness of each poller outside Azure calls, of each callback
once it has begun, and of main's own steps: the thread scheduler runs every
thread, and none of these steps waits for anything but a lock that is always
released (every critical section is free of I/O), an interval that ends, or an
event. That an Azure call returns is not assumed, except by the properties that
need it, in their own hypothesis: `LeaderKeepsCollecting` and
`FollowerComesToRest` (`AzureAnswers`), `TotalsSettle` (that scale sets are
listed again and again), and the second half of `ShutdownCompletes`: that main
returns needs nothing of Azure, and that the process then ends needs the Lustre
collection to return, if there is one. Nothing is assumed of signals, of the
election's outcome, or of when leadership comes and goes. `Replica`'s fairness
adds that Azure calls return and that the supervisor leaves its checks and
waits. `CacheSettles` takes every thread to run and to call again, as pollers do
each interval, and assumes in its own hypothesis that some credential works from
some moment on. `CollectionEnds` takes each single call to Azure to return, by
an answer or a failure, and concludes that a collection does: this is what
`AzureAnswers` assumes of `Exporter`'s pollers. `SomebodyPublishes` takes time
to pass, the threads to run and a process that was told to stop to be dead some
time, as the pod's grace period sees to. Its hypotheses say that from some
moment on nothing fails, ends or is told to stop, and that some replica is up;
that nobody who ended comes back is allowed. A conflict of two writers is part
of the calm, though it fails an attempt.

`UniqueInfo` holds between any two steps. Series and total are written in two
critical sections, which leaves `TotalsMatchSeries` three exceptions: between the
two; while a demoted page is still to be cleared;
and on a leader's empty page. The last is a state that stays: after a demotion
and a promotion between the two sections the page was cleared, and then the
total of the earlier leadership is written without its series. `TotalsSettle`
says that it stays no longer than until the leader's next answer is published.

`FollowerWindsDown` and `StopWindsDown` say how far a poller goes on without a
leadership. Its check and its first call are two steps, and the rest of a
collection asks nobody. So a follower may still begin one collection in each
poller, and finish it with all its calls; after that it waits.

## Findings

* **stop_race.** `stop` sets the leadership event to wake the waiting pollers.
  A poller of a follower that has passed its stop check and not yet its
  leadership check takes the event for leadership and queries Azure
  (tests/test_collector.py:538: "no Azure calls happen"). The result passes
  the check under the lock, too. A demotion between check and call is another
  way to the same violation, and a collection that has begun goes on as well.
  `FollowerWindsDown` and `StopWindsDown` say what does hold.
* **follower_duration.** The error path sets the collection duration without
  the lock and without a look at leadership, after a demotion as well as
  before it, while the docstring of `set_leader` promises only the beacon.
  `SilentFollower` shows that nothing else comes back.
* **replica_raise.** If `run()` raises while the replica leads, nobody demotes
  the exporter: the beacon stays up and the pollers go on publishing, for as
  long as another replica that has taken the lock goes on renewing it.
  `BeaconTruthful` holds in `replica_prompt`, where this cannot happen, and
  `OnePublisher` names the state (`Unled`).
* **stale_sample.** A sample has one timestamp, the newest of all its metrics.
  The alert that speaks of `OSTBytesAvailable`
  (deploy/lustre-alert-rules.yaml:23) looks at it, though that metric may have
  stopped or never come.
* **empty_period.** deploy/kubernetes.yaml:70-72 asks for a replica that is
  always scheduled "so the lock never transitions through an empty period longer
  than the lease". If an empty period is one in which nobody leads, it can be
  longer even if a replica is kept and nothing fails: the drained leader
  leaves a fresh record behind, the standby counts the lease from when it sees
  that record, and it looks again only after a sleep. With calls that take no
  time and retry period 1 nobody leads for a lease and a step.

## Proofs

All theorems hold for every value of the constants that the named assumptions
(`ExporterConstants`, `ReplicaConstants`, `ChainConstants`, `QueryConstants`,
`NormalizationConstants`, `CollectionConstants`, `ClusterConstants`) allow:
finite sets of resources and targets, any callers, any retry period of at least
one second, any pages, attempts and workers, any replicas and any durations that
`LeaderElectionConfig` accepts.

* `TypeCorrect`. `TypeOK` is inductive by itself. The lemmas `PartialRange`,
  `VmssResultRange` and `LustreResultRange` say what a query's answer consists
  of, `PublishVmssEffect` and `PublishLustreEffect` what publishing it does.
* `NoSeriesLeaks`. `SeriesTracked` is inductive with `TypeOK`: the lemma
  `SeriesWriters` names the three actions that touch the series.
* `InfoIsUnique`. The VMSS series are always the graph of one function, the
  result last published (`GraphOfFunction`).
* `TotalsMatch`. The inductive invariant adds what holds between the sections:
  at `summary`, either the series are those of the poller's local result or the
  page has been cleared since. The third exception comes out of the latter.
* `CleanReplaces` and `PartialFailureHidesNothing` are action properties. They
  follow from `TypeOK` and `SeriesTracked`: removing what is tracked removes
  everything stale only because everything exposed is tracked.
* `ImplementsGate`, `FollowersExposeNothing`. Every step of `Exporter` is a
  step of `LeaderGate` or a stutter (`StepRefinesGate`), and the gate's
  `Quiet` carries over.
* `BeaconsAgree` and `FollowersAreSilent` assume `SerialCalls` (one caller). The invariant `BeaconInv` says what beacon and
  event are at each stage of a call. With overlapping calls the statements are
  false, as the code takes no lock around them.
* `FollowersWindDown` and `StoppingWindsDown`. Only a poller itself changes its
  place, and only along the edges of its loop (`PollersMove`). With the
  leadership event down, or `_stop_event` set, that graph has no cycle, and a
  rank of the places falls with every step: what is left of
  `FollowerComesToRest` and `ShutdownCompletes` when fairness is taken away.
* `ReplicaKeepsRegistry`, `ReplicaRefreshesRightly`, `ReplicaKeepsGate` and
  `ReplicaWindsDown` say of a replica what is proved of every exporter, through
  the instance `Proved` of `ExporterProofs`. The lemma `ReplicaIsExporter`, that
  a replica is one of `Exporter`'s behaviours, follows from how `Replica`
  composes the two.
* `CallbacksNeverStick`, of any replica: how far a callback has come in
  `set_leader` follows from where the election has it (`SerialInv`), so its next
  step is always open, and only `release` ends the supervisor.
* `ReplicaBeaconAgrees` and `ReplicaFollowersAreSilent` assume `PromptStarters`
  and nothing of `run`, which may raise at any moment. A replica has more than
  one caller of `set_leader`, so `SerialCalls` does not apply; `SerialInv` shows
  instead that they take turns, and `StageInv` what beacon and event are in
  each turn. From the agreement of the two the rest follows as it does for the
  exporter (`AgreementSilences`).
* `BackoffStaysBounded`, `ElectionTypeCorrect`: for every retry period.
* `BeaconIsTruthful`, `GateIsTheLock`, `LeadersAlonePublish` and `OnePublisher` assume
  `PromptStarters` and no raise while renewing. `BeaconInv` (in
  `ReplicaProofs`) ties the beacon to the stage of the election. `LeadInv` says
  that the leadership event is down outside a leadership and that leadership
  needs the lock; with the gate's promise, inherited, a page that shows anything
  is that of a leader or of one that is being demoted. `NoSecondPublisher`
  follows in the same way.
* `ChainTypeCorrect`, `ErrorsAreJustified`, `EarlierIsPreferred`: for any number
  of threads and changes. The invariant `WalkInv` says that every credential a
  walk has left behind failed at some moment of the same call, and at an error
  the whole chain is behind; what other threads do to `_active` never enters.
* `CallsAreShort`. `get_token` is wait-free: a call has at most four steps and
  one for each credential (`StepsLeft`), its own steps use them up, and no other
  thread's step adds one, although any of them may clear or replace the cached
  credential at any moment.
* `OverrideIsHonoured`: the environment never changes and was not refused, and
  what is cached is a member of the chain `BuildChain` makes of it.
* `PagesComplete` and `NothingOverlooked`. The invariant `QueryInv` says that
  `allRows` is always an initial part of the answer and ends where `page`
  begins; `PhaseInv` ties the futures to the phase of `collect`.
* `ResultsAreAccounted` and `CollectionTypeCorrect`.
  `AnswerInv` says what a worker has returned, from the lemma
  `NormalizedSamples` about the operators of `Normalization` (`NewestExists`,
  `StampNewest`), and `SumInv` that the loop holds the sum of what it gathered,
  so the order of completion cannot matter.
* `CollectionKeepsPromise`. Every step that ends a collection maps to `Raise`
  or `Return` of `Collection`, all others to stutters; that the result is
  admissible then follows from the three invariants.
* `CollectionAdvances` and `NeverStuck`: what `CollectionEnds` says, without
  fairness. Every step moves a page, an attempt or a future forward and nothing
  back (`EveryStepAdvances`), each up to a bound, so the steps of a collection
  are finitely many; and until it has raised or returned somebody has one to
  take, though there be one worker for any number of filesystems.
* `CollectionServesExporter`. A result that `Collection` admits, reduced to its
  label sets, is one of those that `QueryLustre` chooses from; that there is
  one sample at most for a target makes the reduction well-defined. The errors
  counted are the filesystems that failed, so `error_count == 0` is what
  `Exporter` calls a clean result.
* `OnePublisherHolds` and `LockTakenWhenFree`. That a leader publishes only
  while it holds the lock is not inductive: it holds the lock only as long as
  nobody else finds the lease to be over. `LeaseInv` says that the lease any
  other replica has observed, with the excess added, is longer than the time in
  which this one will have cleared its page, should it never renew again
  (`Remaining`); or that this time is shorter than the excess. Time eats up both
  alike (`TickShortens`), a renewal spoils everybody's observation, and a new
  observation begins a whole lease, which with the excess is longer than any
  claim (`GraceSuffices`). So nobody may write the record while there is a claim
  that is not overdue (`NoUsurper`). `LocalInv` ties page, election and shutdown
  of one replica together: a page is that of a leader, of one whose `run`
  raised, or of one that is stopping.
* `OnePublisherOfLongLease` assumes that the lease outlasts the grace: nobody is
  then overdue, and what remains are a `run` that raised and a `stop`.
* `LostClaimsRunOut`: with each step of the clock a leader that has lost the lock
  is nearer to clearing its page, so that it is overdue for no longer than the
  excess.
* `TimeIsNeverBlocked`. The clock waits for replicas that are due; each of them
  can take a step, so that no claim above holds because time has stopped.

Only model-checked: everything about liveness (`CollectionEnds`,
`SomebodyPublishes`, `LeaderKeepsCollecting`, `FollowerComesToRest`,
`TotalsSettle`, `ShutdownCompletes`, `LeaderCollects`, `KeepsCampaigning`,
`CacheSettles`), because the prover has no ENABLED and no induction over
behaviours with fairness. Of some of them the safety half is proved: which steps
may still come (`FollowersWindDown`, `StoppingWindsDown`, `CollectionAdvances`,
`CallsAreShort`) and that one is open (`NeverStuck`, `CallbacksNeverStick`,
`TimeIsNeverBlocked`, in terms of the guards that ENABLED would compute). That
finitely many steps make an end is an induction the prover does not do here and
TLC's runs confirm. `FollowerMakesNoCalls`, `FollowerShowsOnlyBeacon`,
`StampIsOfAvailable`, `NoLongVacancy` and, without its assumptions,
`BeaconTruthful` are false, and the runs show how.

## Not modelled

* Configuration: parsed once, before any thread exists. Its checks of the
  election's durations are made again by `LeaderElectionConfig` (`Accepted`).
* Logging, the `--once` mode and its summaries, `close` of the credentials
  (nobody calls it), the derived percentages (arithmetic on one sample).
* The text of queries, the parsing of names, dimensions and timestamps, and the
  delays between attempts.
* A scrape in the middle of an update. The registry has no snapshots, and the
  repository promises none.
* Clocks that run at different speeds: no duration of the code makes up for
  them, so a margin beyond the grace would have to.
* The dashboards, alert rules and manifests, which the exporter does not read.

## Left to do

A scraper that reads the registry family by family would show which joins of
the dashboards a torn page can break. `replica_any` could run with the cluster's
lock in the place of the environment's; now the two meet in
`TakenOnlyWhenFree`. `HaDrain` measures the vacancy of one instance; a theorem
could bound it by lease, retry periods and calls for every configuration.
