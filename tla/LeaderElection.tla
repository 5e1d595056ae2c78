--------------------------- MODULE LeaderElection ---------------------------
(***************************************************************************)
(* LeaderElectionRunner (leader_election.py): the supervisor thread that   *)
(* runs one kubernetes LeaderElection after another.                       *)
(*                                                                         *)
(* LeaderElection.run() is external.  It blocks until this replica holds   *)
(* the lock, starts on_started_leading in a thread of its own, renews the  *)
(* lock until it cannot, then calls on_stopped_leading and returns; and it *)
(* may raise, as run_forever's except clause and docstring expect.         *)
(*                                                                         *)
(* A definition named D_Something is D with a bug, as in Exporter.         *)
(***************************************************************************)
EXTENDS Integers

CONSTANTS RetryPeriod,   \* retry_period_seconds
          Starter,       \* bound: the threads on_started_leading may run in
          RaisesWhileRenewing,   \* may run() raise once it is the leader?
          PromptStarters         \* does on_started_leading finish before the
                                 \* renew loop can give up?

MaxBackoff == 60

VARIABLES supervisor,    \* where the leader-election thread is
          releaseEvent,  \* the runner's _stop_event
          backoff,       \* seconds run_forever waits next
          starter,       \* the threads of on_started_leading
          holder         \* whom the lock names: "us", "other" or "nobody"

electionVars == <<supervisor, releaseEvent, backoff, starter, holder>>

SupervisorState == {"off", "check", "acquiring", "renewing", "lost",
                    "demoting", "backoff", "exited"}

TypeOK ==
  /\ supervisor \in SupervisorState
  /\ releaseEvent \in BOOLEAN
  /\ backoff \in Nat
  /\ starter \in [Starter -> {"none", "spawned", "running"}]
  /\ holder \in {"us", "other", "nobody"}

Init ==
  /\ supervisor = "off"
  /\ releaseEvent = FALSE
  /\ backoff = RetryPeriod
  /\ starter = [s \in Starter |-> "none"]
  /\ holder \in {"other", "nobody"}

-----------------------------------------------------------------------------
(* The supervisor: run_forever and release.                                *)

StartSupervisor ==
  /\ supervisor = "off"
  /\ supervisor' = "check"
  /\ UNCHANGED <<releaseEvent, backoff, starter, holder>>

\* while not self._stop_event.is_set(): a fresh election runs.
CheckRelease ==
  /\ supervisor = "check"
  /\ supervisor' = IF releaseEvent THEN "exited" ELSE "acquiring"
  /\ UNCHANGED <<releaseEvent, backoff, starter, holder>>

\* An exception leaves the iteration: it is logged, and nothing else is done.
RunRaises ==
  /\ \/ supervisor = "acquiring"
     \/ supervisor = "renewing" /\ RaisesWhileRenewing
  /\ supervisor' = "backoff"
  /\ UNCHANGED <<releaseEvent, backoff, starter, holder>>

\* run() calls on_stopped_leading and, when it is over, returns.
OnStoppedBegins ==
  /\ supervisor = "lost"
  /\ supervisor' = "demoting"
  /\ UNCHANGED <<releaseEvent, backoff, starter, holder>>

\* run_forever returns after its first election.
OnStoppedEnds_GivesUp ==
  /\ supervisor = "demoting"
  /\ supervisor' = "exited"
  /\ UNCHANGED <<releaseEvent, backoff, starter, holder>>

OnStoppedEnds ==
  /\ supervisor = "demoting"
  /\ supervisor' = "backoff"
  /\ backoff' = RetryPeriod
  /\ UNCHANGED <<releaseEvent, starter, holder>>

\* The delay doubles without a cap.
EndBackoff_Uncapped ==
  /\ supervisor = "backoff"
  /\ supervisor' = IF releaseEvent THEN "exited" ELSE "check"
  /\ backoff' = 2 * backoff
  /\ UNCHANGED <<releaseEvent, starter, holder>>

\* self._stop_event.wait(backoff): release ends it early, and the loop with it.
EndBackoff ==
  /\ supervisor = "backoff"
  /\ IF releaseEvent
     THEN /\ supervisor' = "exited"
          /\ UNCHANGED backoff
     ELSE /\ supervisor' = "check"
          /\ backoff' = IF 2 * backoff > MaxBackoff THEN MaxBackoff
                        ELSE 2 * backoff
  /\ UNCHANGED <<releaseEvent, starter, holder>>

Release ==
  /\ releaseEvent' = TRUE
  /\ UNCHANGED <<supervisor, backoff, starter, holder>>

-----------------------------------------------------------------------------
(* The election itself (external).                                         *)

\* The lock is ours, free or expired; on_started_leading gets a new thread.
Acquire(s) ==
  /\ supervisor = "acquiring"
  /\ holder # "other"
  /\ starter[s] = "none"
  /\ supervisor' = "renewing"
  /\ holder' = "us"
  /\ starter' = [starter EXCEPT ![s] = "spawned"]
  /\ UNCHANGED <<releaseEvent, backoff>>

\* No renewal succeeded before the renew deadline.
RenewFails ==
  /\ supervisor = "renewing"
  /\ PromptStarters => \A s \in Starter : starter[s] = "none"
  /\ supervisor' = "lost"
  /\ UNCHANGED <<releaseEvent, backoff, starter, holder>>

OnStartedBegins(s) ==
  /\ starter[s] = "spawned"
  /\ starter' = [starter EXCEPT ![s] = "running"]
  /\ UNCHANGED <<supervisor, releaseEvent, backoff, holder>>

OnStartedEnds(s) ==
  /\ starter[s] = "running"
  /\ starter' = [starter EXCEPT ![s] = "none"]
  /\ UNCHANGED <<supervisor, releaseEvent, backoff, holder>>

\* The renew deadline is shorter than the lease, so that another replica gets
\* the lock only after this one has stopped renewing it.
OtherAcquires ==
  /\ supervisor # "renewing"
  /\ holder' = "other"
  /\ UNCHANGED <<supervisor, releaseEvent, backoff, starter>>

OtherLeaves ==
  /\ holder = "other"
  /\ holder' = "nobody"
  /\ UNCHANGED <<supervisor, releaseEvent, backoff, starter>>

-----------------------------------------------------------------------------

Next ==
  \/ StartSupervisor \/ CheckRelease \/ RunRaises \/ OnStoppedBegins
  \/ OnStoppedEnds \/ EndBackoff \/ Release \/ RenewFails
  \/ OtherAcquires \/ OtherLeaves
  \/ \E s \in Starter : Acquire(s) \/ OnStartedBegins(s) \/ OnStartedEnds(s)

Spec == Init /\ [][Next]_electionVars

\* The waits between campaigns stay between one second and the cap, or the
\* retry period where that is configured above the cap.
BackoffBounded ==
  /\ backoff >= 1
  /\ backoff <= IF RetryPeriod > MaxBackoff THEN RetryPeriod ELSE MaxBackoff
=============================================================================
