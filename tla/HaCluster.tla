------------------------------ MODULE HaCluster ------------------------------
(***************************************************************************)
(* Several replicas of the exporter, each with its own LeaderElection      *)
(* built from a LeaderElectionConfig (leader_election.py), supervised by   *)
(* run_forever, and with the callbacks that main gives it, campaigning for *)
(* one lock.                                                               *)
(*                                                                         *)
(* The lock is a ConfigMap and external, as is LeaderElection.run: it      *)
(* reads the record, lets it be while the lease of another holder has not  *)
(* run out, and replaces it on condition that it has not changed since.    *)
(* What is judged is not the time in the record but for how long the       *)
(* replica itself has seen no change of it.  A call that fails makes an    *)
(* attempt fail, or makes run raise.                                       *)
(*                                                                         *)
(* Time passes in steps for all replicas alike.  A call to the API server  *)
(* takes up to CallTime; a process may end at any moment and leaves its    *)
(* record in the lock; on_started_leading is prompt (PromptStarters).      *)
(*                                                                         *)
(* A definition named D_Something is D with a bug, as in Exporter.         *)
(***************************************************************************)
EXTENDS Integers

CONSTANTS Replica,
          Nobody,
          LeaseDuration,   \* lease_duration_seconds
          RenewDeadline,   \* renew_deadline_seconds
          RetryPeriod,     \* retry_period_seconds
          MaxBackoff,      \* the cap of run_forever's back-off
          CallTime,        \* the longest call to the API server
          CallbackTime     \* the longest on_stopped_leading

\* What LeaderElectionConfig lets through.
Accepted(lease, renew, retry) ==
  /\ lease >= 5
  /\ renew < lease
  /\ retry >= 1
  /\ retry < renew

ASSUME ClusterConstants ==
  /\ Nobody \notin Replica
  /\ {LeaseDuration, RenewDeadline, RetryPeriod, MaxBackoff, CallTime,
      CallbackTime} \subseteq Nat
  /\ Accepted(LeaseDuration, RenewDeadline, RetryPeriod)
  /\ RetryPeriod <= MaxBackoff

VARIABLES holder,          \* whom the record names
          role,            \* how far each replica's election has come
          step,            \* where its thread is
          wait,            \* time left to sleep, or of the call under way
          deadline,        \* time left to renew
          leaseLeft,       \* time left of the lease it has observed
          seen,            \* has the record not changed since it was read?
          backoff,         \* how long run_forever will wait after a failure
          leads,           \* may the exporter publish?
          stray,           \* has run raised while leading, and not led since?
          stopping         \* how far main has come in shutting down

timers == <<wait, deadline, leaseLeft>>
election == <<role, step, timers, seen, backoff>>
exporter == <<leads, stray, stopping>>
vars == <<holder, election, exporter>>

Init ==
  /\ holder = Nobody
  /\ role = [r \in Replica |-> "candidate"]
  /\ step = [r \in Replica |-> "get"]
  /\ wait = [r \in Replica |-> CallTime]
  /\ deadline = [r \in Replica |-> 0]
  /\ leaseLeft = [r \in Replica |-> 0]
  /\ seen = [r \in Replica |-> FALSE]
  /\ backoff = [r \in Replica |-> RetryPeriod]
  /\ leads = [r \in Replica |-> FALSE]
  /\ stray = [r \in Replica |-> FALSE]
  /\ stopping = [r \in Replica |-> "no"]

Goto(r, s, time) ==
  /\ step' = [step EXCEPT ![r] = s]
  /\ wait' = [wait EXCEPT ![r] = time]

\* What a replica has observed counts for nothing any more.
Forget(r) ==
  /\ seen' = [seen EXCEPT ![r] = FALSE]
  /\ leaseLeft' = [leaseLeft EXCEPT ![r] = 0]

-----------------------------------------------------------------------------
(* try_acquire_or_renew.                                                   *)

\* A record that has changed is observed now; one of another holder is left
\* alone until the lease is over.  How old its own record is means nothing.
Read(r) ==
  /\ step[r] = "get"
  /\ seen' = [seen EXCEPT ![r] = TRUE]
  /\ leaseLeft' = IF seen[r] \/ holder \in {Nobody, r} THEN leaseLeft
                  ELSE [leaseLeft EXCEPT ![r] = LeaseDuration]
  /\ IF holder \notin {Nobody, r} /\ leaseLeft'[r] > 0
     THEN Goto(r, "sleep", RetryPeriod)
     ELSE Goto(r, "put", wait[r])
  /\ UNCHANGED <<holder, role, deadline, backoff, exporter>>

\* The record is replaced, and everybody else's view of it is out of date.
Commit(r) ==
  /\ step[r] = "put"
  /\ seen[r]
  /\ holder' = r
  /\ seen' = [s \in Replica |-> s = r]
  /\ leaseLeft' = [s \in Replica |-> 0]
  /\ step' = [step EXCEPT ![r] = "committed"]
  /\ UNCHANGED <<role, wait, deadline, backoff, exporter>>

\* The record has changed since it was read.
Conflict(r) ==
  /\ step[r] = "put"
  /\ ~seen[r]
  /\ Goto(r, "sleep", RetryPeriod)
  /\ UNCHANGED <<holder, role, deadline, leaseLeft, seen, backoff, exporter>>

Calling(r) == step[r] \in {"get", "put", "committed"}

\* The API server refuses, or answers too late: the attempt has failed.
CallFails(r) ==
  /\ Calling(r)
  /\ Goto(r, "sleep", RetryPeriod)
  /\ IF step[r] = "committed" THEN Forget(r) ELSE UNCHANGED <<seen, leaseLeft>>
  /\ UNCHANGED <<holder, role, deadline, backoff, exporter>>

-----------------------------------------------------------------------------
(* run: acquire, renew_loop and the callbacks.                             *)

\* The renew deadline that run is given.
RenewWithin_Lease == LeaseDuration

RenewWithin == RenewDeadline

\* The lock is acquired, and the renew loop begins at once.
Acquire(r) ==
  /\ step[r] = "committed" /\ role[r] = "candidate"
  /\ role' = [role EXCEPT ![r] = "leader"]
  /\ stray' = [stray EXCEPT ![r] = FALSE]
  /\ deadline' = [deadline EXCEPT ![r] = RenewWithin]
  /\ Goto(r, "get", CallTime)
  /\ UNCHANGED <<holder, leaseLeft, seen, backoff, leads, stopping>>

\* on_started_leading: set_leader(True), in a thread of its own.
Promote(r) ==
  /\ role[r] = "leader" \/ stray[r]
  /\ ~leads[r]
  /\ leads' = [leads EXCEPT ![r] = TRUE]
  /\ UNCHANGED <<holder, election, stray, stopping>>

\* The lock is renewed: a sleep, and then a new deadline.
Renew(r) ==
  /\ step[r] = "committed" /\ role[r] = "leader"
  /\ deadline' = [deadline EXCEPT ![r] = RetryPeriod + RenewWithin]
  /\ Goto(r, "sleep", RetryPeriod)
  /\ UNCHANGED <<holder, role, leaseLeft, seen, backoff, exporter>>

\* The sleep is over: another attempt, which for a leader must begin before the
\* deadline.
Wake(r) ==
  /\ step[r] = "sleep" /\ wait[r] = 0
  /\ role[r] = "leader" => deadline[r] > 0
  /\ Goto(r, "get", CallTime)
  /\ UNCHANGED <<holder, role, deadline, leaseLeft, seen, backoff, exporter>>

\* The deadline has passed: run calls on_stopped_leading.
RenewFails(r) ==
  /\ step[r] = "sleep" /\ wait[r] = 0
  /\ role[r] = "leader" /\ deadline[r] = 0
  /\ leads[r]
  /\ role' = [role EXCEPT ![r] = "demoting"]
  /\ Goto(r, "callback", CallbackTime)
  /\ UNCHANGED <<holder, deadline, leaseLeft, seen, backoff, exporter>>

-----------------------------------------------------------------------------
(* run_forever.                                                            *)

\* run is over: the role is gone, and with it all that the election observed.
Ended(r) ==
  /\ role' = [role EXCEPT ![r] = "candidate"]
  /\ deadline' = [deadline EXCEPT ![r] = 0]
  /\ Forget(r)

\* on_stopped_leading does not reach the exporter.
Demote_KeepsPage(r) ==
  /\ step[r] = "callback"
  /\ Ended(r)
  /\ backoff' = [backoff EXCEPT ![r] = RetryPeriod]
  /\ Goto(r, "backoff", RetryPeriod)
  /\ UNCHANGED <<holder, exporter>>

\* run_forever returns after its first election.
Demote_GivesUp(r) ==
  /\ step[r] = "callback"
  /\ leads' = [leads EXCEPT ![r] = FALSE]
  /\ Ended(r)
  /\ Goto(r, "off", 0)
  /\ UNCHANGED <<holder, backoff, stray, stopping>>

\* set_leader(False) has cleared the page, run returns, and the back-off starts
\* over.
Demote(r) ==
  /\ step[r] = "callback"
  /\ leads' = [leads EXCEPT ![r] = FALSE]
  /\ Ended(r)
  /\ backoff' = [backoff EXCEPT ![r] = RetryPeriod]
  /\ Goto(r, "backoff", RetryPeriod)
  /\ UNCHANGED <<holder, stray, stopping>>

\* A call fails in a way that the library does not expect, and run raises.  In
\* the renew loop that ends a leadership, and no callback tells the exporter.
RunRaises(r) ==
  /\ Calling(r)
  /\ stray' = [stray EXCEPT ![r] = @ \/ role[r] = "leader"]
  /\ Ended(r)
  /\ Goto(r, "backoff", backoff[r])
  /\ UNCHANGED <<holder, backoff, leads, stopping>>

\* The back-off is doubled without a cap.
EndBackoff_Uncapped(r) ==
  /\ step[r] = "backoff"
  /\ wait[r] = 0 /\ stopping[r] = "no"
  /\ backoff' = [backoff EXCEPT ![r] = 2 * @]
  /\ Goto(r, "get", CallTime)
  /\ UNCHANGED <<holder, role, deadline, leaseLeft, seen, exporter>>

\* The back-off is over, and a new election has observed nothing; or release
\* was called, and run_forever returns.
EndBackoff(r) ==
  /\ step[r] = "backoff"
  /\ \/ /\ wait[r] = 0 /\ stopping[r] = "no"
        /\ backoff' = [backoff EXCEPT ![r] = IF 2 * @ > MaxBackoff
                                             THEN MaxBackoff ELSE 2 * @]
        /\ Goto(r, "get", CallTime)
     \/ /\ stopping[r] # "no"
        /\ Goto(r, "off", 0)
        /\ UNCHANGED backoff
  /\ UNCHANGED <<holder, role, deadline, leaseLeft, seen, exporter>>

-----------------------------------------------------------------------------
(* The processes, and time.                                                *)

\* A signal has arrived.  release() interrupts no election, only a back-off.
Release(r) ==
  /\ role[r] # "down" /\ stopping[r] = "no"
  /\ stopping' = [stopping EXCEPT ![r] = "released"]
  /\ UNCHANGED <<holder, election, leads, stray>>

\* stop() sets the leadership event to wake the pollers, of a follower as well.
WakePollers(r) ==
  /\ stopping[r] = "released"
  /\ stopping' = [stopping EXCEPT ![r] = "woken"]
  /\ leads' = [leads EXCEPT ![r] = TRUE]
  /\ UNCHANGED <<holder, election, stray>>

\* stop() has returned, or the process is killed before.  The record stays.
ProcessEnds(r) ==
  /\ role[r] # "down"
  /\ role' = [role EXCEPT ![r] = "down"]
  /\ deadline' = [deadline EXCEPT ![r] = 0]
  /\ Forget(r)
  /\ backoff' = [backoff EXCEPT ![r] = RetryPeriod]
  /\ Goto(r, "off", 0)
  /\ leads' = [leads EXCEPT ![r] = FALSE]
  /\ stray' = [stray EXCEPT ![r] = FALSE]
  /\ stopping' = [stopping EXCEPT ![r] = "no"]
  /\ UNCHANGED holder

\* Kubernetes starts the container again, under the same identity.
Restart(r) ==
  /\ role[r] = "down"
  /\ role' = [role EXCEPT ![r] = "candidate"]
  /\ Goto(r, "get", CallTime)
  /\ UNCHANGED <<holder, deadline, leaseLeft, seen, backoff, exporter>>

\* A sleep ends and a call returns in time, and on_started_leading is prompt.
Due(r) == \/ step[r] # "off" /\ wait[r] = 0
          \/ (role[r] = "leader" \/ stray[r]) /\ ~leads[r]

\* Time runs on when it is up.
Less(timer) == [r \in Replica |-> IF timer[r] = 0 THEN 0 ELSE timer[r] - 1]

Tick ==
  /\ \A r \in Replica : ~Due(r)
  /\ wait' = Less(wait)
  /\ deadline' = Less(deadline)
  /\ leaseLeft' = Less(leaseLeft)
  /\ UNCHANGED <<holder, role, step, seen, backoff, exporter>>

\* A step of the replica's leader-election thread, or of a callback.
Progress(r) ==
  \/ Read(r) \/ Commit(r) \/ Conflict(r)
  \/ Acquire(r) \/ Promote(r) \/ Renew(r) \/ Wake(r) \/ RenewFails(r)
  \/ Demote(r) \/ EndBackoff(r)

\* What goes wrong with a replica, or is done to it.
Disturb(r) == CallFails(r) \/ RunRaises(r) \/ Release(r) \/ ProcessEnds(r)

Next ==
  \/ Tick
  \/ \E r \in Replica :
       Progress(r) \/ WakePollers(r) \/ Restart(r) \/ Disturb(r)

Spec == Init /\ [][Next]_vars

\* Time goes on, the threads run, and what has been told to stop is dead when
\* the grace period of the pod is over.  Nobody has to be restarted.
LiveSpec ==
  /\ Spec
  /\ WF_vars(Tick)
  /\ \A r \in Replica :
       WF_vars(Progress(r)) /\ WF_vars(stopping[r] # "no" /\ ProcessEnds(r))

-----------------------------------------------------------------------------
(* How long a claim to the lock lasts.                                     *)

Leading(r) == role[r] \in {"leader", "demoting"}

\* The longest time from a renewal until the page of a leader that never renews
\* again is clear: the answer, the sleep after it, the deadline, a last attempt
\* begun just before it, the sleep after that, and the callback.
Grace == CallTime + RetryPeriod + RenewDeadline + CallTime + RetryPeriod
           + CallbackTime

\* Nothing that is Accepted makes the lease outlast the grace.  By this much it
\* may be too short.
Excess == IF Grace > LeaseDuration THEN Grace - LeaseDuration ELSE 0

LastAttempt == CallTime + RetryPeriod + CallbackTime

\* The time left until the page of a leader is clear, or of one that learns now
\* that it leads, if it never renews again.
Remaining(r) ==
  IF step[r] = "callback" THEN wait[r]
  ELSE IF step[r] = "committed"
  THEN wait[r] + RetryPeriod + RenewDeadline - 1 + LastAttempt
  ELSE IF step[r] = "sleep" /\ deadline[r] <= wait[r]
  THEN wait[r] + CallbackTime
  ELSE IF deadline[r] = 0
  THEN wait[r] + RetryPeriod + CallbackTime
  ELSE deadline[r] - 1 + LastAttempt

\* A leader that has failed to renew for so long that its lease may be over.
Overdue(r) == Leading(r) /\ Remaining(r) < Excess

\* A page that is up without a leadership: run raised and nobody demoted the
\* exporter, or stop() set the event.
Unled(r) == ~Leading(r) /\ (stray[r] \/ stopping[r] = "woken")

-----------------------------------------------------------------------------
(* Claims.                                                                 *)

TypeOK ==
  /\ holder \in Replica \cup {Nobody}
  /\ role \in [Replica -> {"down", "candidate", "leader", "demoting"}]
  /\ step \in [Replica -> {"off", "sleep", "get", "put", "committed",
                           "callback", "backoff"}]
  /\ wait \in [Replica -> Nat]
  /\ deadline \in [Replica -> Nat]
  /\ leaseLeft \in [Replica -> 0..LeaseDuration]
  /\ seen \in [Replica -> BOOLEAN]
  /\ backoff \in [Replica -> RetryPeriod..MaxBackoff]
  /\ leads \in [Replica -> BOOLEAN]
  /\ stray \in [Replica -> BOOLEAN]
  /\ stopping \in [Replica -> {"no", "released", "woken"}]

\* When two replicas publish at once, then run has raised in one of them and
\* left its page up, or stop() has woken the pollers of one that follows, or one
\* has lost the lock and will have cleared its page within the excess of the
\* grace over the lease: failed calls, lost answers, crashes and restarts alone
\* give no other way.
OnePublisher ==
  \A r, s \in Replica :
    leads[r] /\ leads[s] /\ r # s =>
      \E t \in {r, s} : Unled(t) \/ (Overdue(t) /\ t # holder)

\* The lock is never taken from a replica that leads, or whose page is up,
\* except from one that is overdue or whose page is up without a leadership.
\* If the lease outlasts the grace, that is what Replica takes for granted of
\* other replicas (LeaderElection!OtherAcquires).
TakenOnlyWhenFree ==
  [][\A r \in Replica :
       holder' \notin {r, holder} =>
         /\ Leading(r) => Overdue(r)
         /\ leads[r] => Overdue(r) \/ Unled(r)]_vars

\* "so the lock never transitions through an empty period": once nothing goes
\* wrong any more, and as long as one replica is up that is not being stopped,
\* some replica leads and publishes again and again, whoever ended or raised
\* while it held the lock, and even if nobody that ended comes back.  How long
\* the period is, is another question (HaDrain).
SomebodyPublishes ==
  /\ <>[][\A r \in Replica : ~Disturb(r) \/ Conflict(r)]_vars
  /\ <>[](\E r \in Replica : role[r] # "down" /\ stopping[r] = "no")
  => []<>(\E r \in Replica : Leading(r) /\ leads[r] /\ stopping[r] = "no")
=============================================================================
