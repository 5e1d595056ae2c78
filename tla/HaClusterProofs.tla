--------------------------- MODULE HaClusterProofs ---------------------------
(***************************************************************************)
(* Theorems about HaCluster, for any number of replicas and every          *)
(* configuration that is accepted, whether its lease outlasts the grace or *)
(* not.                                                                    *)
(***************************************************************************)
EXTENDS HaCluster, TLAPS

\* Those that lead, or may learn at any moment that they do.
Claims(r) == Leading(r) \/ step[r] = "committed"

\* What holds of each replica by itself, and of a record it is about to replace.
LocalInv ==
  \A r \in Replica :
    /\ step[r] = "callback" <=> role[r] = "demoting"
    /\ role[r] = "down" => step[r] = "off"
    /\ step[r] \in {"off", "backoff"} => role[r] \in {"candidate", "down"}
    /\ leads[r] => Leading(r) \/ stray[r] \/ stopping[r] = "woken"
    /\ step[r] \in {"get", "put", "committed"} => wait[r] <= CallTime
    /\ step[r] = "sleep" => wait[r] <= RetryPeriod
    /\ step[r] = "callback" => wait[r] <= CallbackTime
    /\ deadline[r] <= RetryPeriod + RenewDeadline
    /\ step[r] = "put" /\ seen[r] =>
         holder \in {Nobody, r} \/ leaseLeft[r] = 0

\* The lease that anybody else has observed ends no earlier than the excess
\* before the claim; or the claim is over within the excess, whoever holds the
\* lock.
Held(r) ==
  \/ /\ holder = r
     /\ \A s \in Replica \ {r} :
          seen[s] => leaseLeft[s] + Excess > Remaining(r)
  \/ Remaining(r) < Excess

LeaseInv == \A r \in Replica : Claims(r) => Held(r)

-----------------------------------------------------------------------------

\* What the proofs use of the configuration.
LEMMA Durations ==
  /\ LeaseDuration \in Nat /\ RenewDeadline \in Nat /\ RetryPeriod \in Nat
  /\ CallTime \in Nat /\ CallbackTime \in Nat /\ MaxBackoff \in Nat
  /\ RetryPeriod >= 1 /\ RetryPeriod < RenewDeadline
  /\ RetryPeriod <= MaxBackoff
  /\ RenewWithin = RenewDeadline
  /\ Excess \in Nat /\ Grace <= LeaseDuration + Excess
BY ClusterConstants DEF Accepted, Excess, Grace, RenewWithin

\* Type correctness of the cluster, for any replicas and any durations.
THEOREM ClusterTypeCorrect == Spec => []TypeOK
<1> USE Durations
<1>1. Init => TypeOK
  BY ClusterConstants DEF Init, TypeOK
<1>2. TypeOK /\ [Next]_vars => TypeOK'
  <2> SUFFICES ASSUME TypeOK, [Next]_vars PROVE TypeOK'
    OBVIOUS
  <2>1. CASE Tick
    BY <2>1 DEF Tick, Less, exporter, TypeOK
  <2>2. ASSUME NEW r \in Replica, Read(r) PROVE TypeOK'
    BY <2>2 DEF Read, Goto, exporter, TypeOK
  <2>3. ASSUME NEW r \in Replica, Commit(r) PROVE TypeOK'
    BY <2>3 DEF Commit, exporter, TypeOK
  <2>4. ASSUME NEW r \in Replica, Conflict(r) PROVE TypeOK'
    BY <2>4 DEF Conflict, Goto, exporter, TypeOK
  <2>5. ASSUME NEW r \in Replica, CallFails(r) PROVE TypeOK'
    <3>1. /\ UNCHANGED <<holder, role, deadline, backoff, exporter>>
          /\ Goto(r, "sleep", RetryPeriod)
          /\ UNCHANGED <<seen, leaseLeft>> \/ Forget(r)
      BY <2>5 DEF CallFails
    <3>2. CASE UNCHANGED <<seen, leaseLeft>>
      BY <3>1, <3>2 DEF Goto, exporter, TypeOK
    <3>3. CASE Forget(r)
      BY <3>1, <3>3 DEF Goto, Forget, exporter, TypeOK
    <3> QED
      BY <3>1, <3>2, <3>3
  <2>6. ASSUME NEW r \in Replica, Acquire(r) PROVE TypeOK'
    BY <2>6 DEF Acquire, Goto, TypeOK
  <2>7. ASSUME NEW r \in Replica, Promote(r) PROVE TypeOK'
    BY <2>7 DEF Promote, election, timers, TypeOK
  <2>8. ASSUME NEW r \in Replica, Renew(r) PROVE TypeOK'
    BY <2>8 DEF Renew, Goto, exporter, TypeOK
  <2>9. ASSUME NEW r \in Replica, Wake(r) PROVE TypeOK'
    BY <2>9 DEF Wake, Goto, exporter, TypeOK
  <2>10. ASSUME NEW r \in Replica, RenewFails(r) PROVE TypeOK'
    BY <2>10 DEF RenewFails, Goto, exporter, TypeOK
  <2>11. ASSUME NEW r \in Replica, Demote(r) PROVE TypeOK'
    BY <2>11 DEF Demote, Goto, Ended, Forget, TypeOK
  <2>12. ASSUME NEW r \in Replica, RunRaises(r) PROVE TypeOK'
    BY <2>12 DEF RunRaises, Calling, Goto, Ended, Forget, TypeOK
  <2>13. ASSUME NEW r \in Replica, EndBackoff(r) PROVE TypeOK'
    BY <2>13 DEF EndBackoff, Goto, exporter, TypeOK
  <2>14. ASSUME NEW r \in Replica, Release(r) PROVE TypeOK'
    BY <2>14 DEF Release, election, timers, TypeOK
  <2>15. ASSUME NEW r \in Replica, WakePollers(r) PROVE TypeOK'
    BY <2>15 DEF WakePollers, election, timers, TypeOK
  <2>16. ASSUME NEW r \in Replica, ProcessEnds(r) PROVE TypeOK'
    BY <2>16 DEF ProcessEnds, Goto, Forget, TypeOK
  <2>17. ASSUME NEW r \in Replica, Restart(r) PROVE TypeOK'
    BY <2>17 DEF Restart, Goto, exporter, TypeOK
  <2>18. CASE UNCHANGED vars
    BY <2>18 DEF vars, election, exporter, timers, TypeOK
  <2> QED
    BY <2>1, <2>2, <2>3, <2>4, <2>5, <2>6, <2>7, <2>8, <2>9, <2>10, <2>11,
           <2>12, <2>13, <2>14, <2>15, <2>16, <2>17, <2>18
    DEF Next, Progress, Disturb
<1> QED
  BY <1>1, <1>2, PTL DEF Spec

\* The steps of an election and its timers stay within their bounds.
LEMMA LocalInvHolds == Spec => []LocalInv
<1> USE Durations
<1>1. Init => LocalInv
  <2> SUFFICES ASSUME Init, NEW r \in Replica
               PROVE  /\ step[r] = "get" /\ role[r] = "candidate"
                      /\ ~leads[r]
                      /\ wait[r] <= CallTime
                      /\ deadline[r] <= RetryPeriod + RenewDeadline
    BY Zenon DEF LocalInv
  <2>1. wait[r] = CallTime /\ deadline[r] = 0
    BY DEF Init
  <2> QED
    BY <2>1 DEF Init
<1>2. TypeOK /\ LocalInv /\ [Next]_vars => LocalInv'
  <2> SUFFICES ASSUME TypeOK, LocalInv, [Next]_vars PROVE LocalInv'
    OBVIOUS
  <2>1. CASE Tick
    BY <2>1 DEF Tick, Less, exporter, TypeOK, LocalInv, Leading
  <2>2. ASSUME NEW r \in Replica, Read(r) PROVE LocalInv'
    BY <2>2 DEF Read, Goto, exporter, TypeOK, LocalInv, Leading
  <2>3. ASSUME NEW r \in Replica, Commit(r) PROVE LocalInv'
    BY <2>3 DEF Commit, exporter, TypeOK, LocalInv, Leading
  <2>4. ASSUME NEW r \in Replica, Conflict(r) PROVE LocalInv'
    BY <2>4 DEF Conflict, Goto, exporter, TypeOK, LocalInv, Leading
  <2>5. ASSUME NEW r \in Replica, CallFails(r) PROVE LocalInv'
    BY <2>5 DEF CallFails, Calling, Goto, Forget, exporter, TypeOK, LocalInv,
           Leading
  <2>6. ASSUME NEW r \in Replica, Acquire(r) PROVE LocalInv'
    BY <2>6 DEF Acquire, Goto, TypeOK, LocalInv, Leading
  <2>7. ASSUME NEW r \in Replica, Promote(r) PROVE LocalInv'
    BY <2>7 DEF Promote, election, timers, TypeOK, LocalInv, Leading
  <2>8. ASSUME NEW r \in Replica, Renew(r) PROVE LocalInv'
    BY <2>8 DEF Renew, Goto, exporter, TypeOK, LocalInv, Leading
  <2>9. ASSUME NEW r \in Replica, Wake(r) PROVE LocalInv'
    BY <2>9 DEF Wake, Goto, exporter, TypeOK, LocalInv, Leading
  <2>10. ASSUME NEW r \in Replica, RenewFails(r) PROVE LocalInv'
    BY <2>10 DEF RenewFails, Goto, exporter, TypeOK, LocalInv, Leading
  <2>11. ASSUME NEW r \in Replica, Demote(r) PROVE LocalInv'
    BY <2>11 DEF Demote, Goto, Ended, Forget, TypeOK, LocalInv, Leading
  <2>12. ASSUME NEW r \in Replica, RunRaises(r) PROVE LocalInv'
    BY <2>12 DEF RunRaises, Calling, Goto, Ended, Forget, TypeOK, LocalInv,
           Leading
  <2>13. ASSUME NEW r \in Replica, EndBackoff(r) PROVE LocalInv'
    BY <2>13 DEF EndBackoff, Goto, exporter, TypeOK, LocalInv, Leading
  <2>14. ASSUME NEW r \in Replica, Release(r) PROVE LocalInv'
    BY <2>14 DEF Release, election, timers, TypeOK, LocalInv, Leading
  <2>15. ASSUME NEW r \in Replica, WakePollers(r) PROVE LocalInv'
    BY <2>15 DEF WakePollers, election, timers, TypeOK, LocalInv, Leading
  <2>16. ASSUME NEW r \in Replica, ProcessEnds(r) PROVE LocalInv'
    BY <2>16 DEF ProcessEnds, Goto, Forget, TypeOK, LocalInv, Leading
  <2>17. ASSUME NEW r \in Replica, Restart(r) PROVE LocalInv'
    BY <2>17 DEF Restart, Goto, exporter, TypeOK, LocalInv, Leading
  <2>18. CASE UNCHANGED vars
    BY <2>18 DEF vars, election, exporter, timers, TypeOK, LocalInv, Leading
  <2> QED
    BY <2>1, <2>2, <2>3, <2>4, <2>5, <2>6, <2>7, <2>8, <2>9, <2>10, <2>11,
           <2>12, <2>13, <2>14, <2>15, <2>16, <2>17, <2>18
    DEF Next, Progress, Disturb
<1> QED
  BY <1>1, <1>2, ClusterTypeCorrect, PTL DEF Spec

-----------------------------------------------------------------------------

\* A lease that begins now outlasts every claim but for the excess: this is what
\* the grace is for.
LEMMA GraceSuffices ==
  ASSUME TypeOK, LocalInv, NEW r \in Replica, Claims(r)
  PROVE  Remaining(r) \in Nat /\ Remaining(r) < LeaseDuration + Excess
<1>1. /\ wait[r] \in Nat /\ deadline[r] \in Nat
      /\ deadline[r] <= RetryPeriod + RenewDeadline
      /\ step[r] \in {"callback", "committed", "sleep", "get", "put"}
  BY DEF TypeOK, LocalInv, Claims, Leading
<1>2. /\ step[r] = "callback" => wait[r] <= CallbackTime
      /\ step[r] = "sleep" => wait[r] <= RetryPeriod
      /\ step[r] \in {"get", "put", "committed"} => wait[r] <= CallTime
  BY DEF LocalInv
<1> QED
  BY <1>1, <1>2, Durations DEF Remaining, LastAttempt, Grace

\* Nobody can replace the record of one that claims the lock, unless its claim is
\* over within the excess.
LEMMA NoUsurper ==
  ASSUME TypeOK, LocalInv, LeaseInv, NEW r \in Replica, Claims(r),
         NEW s \in Replica \ {r}, Commit(s)
  PROVE  Remaining(r) < Excess
<1> SUFFICES ASSUME ~(Remaining(r) < Excess) PROVE FALSE
  OBVIOUS
<1>1. step[s] = "put" /\ seen[s]
  BY DEF Commit
<1>2. holder = r /\ leaseLeft[s] + Excess > Remaining(r)
  BY <1>1 DEF LeaseInv, Held
<1>3. leaseLeft[s] = 0
  BY <1>1, <1>2, ClusterConstants DEF LocalInv
<1> QED
  BY <1>2, <1>3, GraceSuffices, Durations

\* A step that prolongs no claim and starts no lease that another has observed.
Harmless(r) ==
  /\ UNCHANGED holder
  /\ Claims(r)' => Claims(r) /\ Remaining(r)' <= Remaining(r)
  /\ \A s \in Replica \ {r} :
       seen'[s] => seen[s] /\ leaseLeft'[s] = leaseLeft[s]

\* Such a step keeps what holds of a claim.
LEMMA HarmlessKeepsHeld ==
  ASSUME TypeOK, TypeOK', LocalInv, LeaseInv,
         NEW r \in Replica, Claims(r)', Harmless(r)
  PROVE  Held(r)'
<1>1. /\ Claims(r) /\ Remaining(r)' <= Remaining(r)
      /\ holder' = holder
  BY DEF Harmless
<1>2. Held(r)
  BY <1>1 DEF LeaseInv
<1>3. Remaining(r) \in Nat
  BY <1>1, GraceSuffices
<1>4. Remaining(r)' \in Int
  <2>1. wait'[r] \in Nat /\ deadline'[r] \in Nat
    BY DEF TypeOK
  <2> QED
    BY <2>1, Durations DEF Remaining, LastAttempt
<1>5. CASE Remaining(r) < Excess
  <2>1. Remaining(r)' < Excess
    BY <1>1, <1>3, <1>4, <1>5, Durations
  <2> QED
    BY <2>1 DEF Held, Excess, Grace
<1>6. CASE ~(Remaining(r) < Excess)
  <2>1. ASSUME NEW s \in Replica \ {r}, seen'[s]
        PROVE  leaseLeft'[s] + Excess > Remaining(r)'
    <3>1. seen[s] /\ leaseLeft'[s] = leaseLeft[s]
      BY <2>1 DEF Harmless
    <3>2. leaseLeft[s] \in Nat
      BY Durations DEF TypeOK
    <3>3. leaseLeft[s] + Excess > Remaining(r)
      BY <1>2, <1>6, <3>1 DEF Held
    <3> QED
      BY <1>1, <1>3, <1>4, <3>1, <3>2, <3>3, Durations
  <2> QED
    BY <1>1, <1>2, <1>6, <2>1 DEF Held, Excess, Grace
<1> QED
  BY <1>5, <1>6

\* Time eats up a claim: it does not stand still while a replica is in a call, in
\* a sleep or in the callback.
LEMMA TickShortens ==
  ASSUME TypeOK, LocalInv, NEW r \in Replica, Claims(r), Tick
  PROVE  Remaining(r)' \in Int /\ Remaining(r)' < Remaining(r)
<1>1. /\ wait[r] \in Nat /\ deadline[r] \in Nat
      /\ step[r] \in {"get", "put", "committed"} => wait[r] <= CallTime
      /\ step[r] = "sleep" => wait[r] <= RetryPeriod
      /\ deadline[r] <= RetryPeriod + RenewDeadline
      /\ step[r] \in {"callback", "committed", "sleep", "get", "put"}
  BY DEF TypeOK, LocalInv, Claims, Leading
<1>2. wait[r] > 0
  BY <1>1 DEF Tick, Due
<1>3. /\ wait'[r] = wait[r] - 1
      /\ deadline'[r] = IF deadline[r] = 0 THEN 0 ELSE deadline[r] - 1
      /\ step' = step
  BY <1>2 DEF Tick, Less
<1>4. CASE step[r] \in {"callback", "committed"}
  BY <1>1, <1>2, <1>3, <1>4, Durations DEF Remaining, LastAttempt
<1>5. CASE step[r] = "sleep" /\ deadline[r] <= wait[r]
  BY <1>1, <1>2, <1>3, <1>5, Durations DEF Remaining
<1>6. CASE step[r] = "sleep" /\ ~(deadline[r] <= wait[r])
  <2>1. deadline[r] > 1 /\ deadline'[r] = deadline[r] - 1
    BY <1>1, <1>2, <1>3, <1>6
  <2>2. ~(deadline'[r] <= wait'[r]) /\ deadline'[r] # 0
    BY <1>1, <1>2, <1>3, <1>6, <2>1
  <2>3. Remaining(r)' = deadline'[r] - 1 + LastAttempt
    BY <1>3, <1>6, <2>2 DEF Remaining, LastAttempt
  <2>4. Remaining(r) = deadline[r] - 1 + LastAttempt
    BY <1>6, <2>1 DEF Remaining
  <2> QED
    BY <1>1, <2>1, <2>3, <2>4, Durations DEF LastAttempt
<1>7. CASE step[r] \in {"get", "put"}
  <2>1. CASE deadline[r] = 0
    BY <1>1, <1>2, <1>3, <1>7, <2>1, Durations DEF Remaining
  <2>2. CASE deadline[r] = 1
    <3>1. Remaining(r)' = wait[r] - 1 + RetryPeriod + CallbackTime
      BY <1>3, <1>7, <2>2 DEF Remaining
    <3>2. Remaining(r) = LastAttempt
      BY <1>7, <2>2, Durations DEF Remaining, LastAttempt
    <3> QED
      BY <1>1, <1>7, <3>1, <3>2, Durations DEF LastAttempt
  <2>3. CASE deadline[r] > 1
    <3>1. Remaining(r)' = deadline[r] - 2 + LastAttempt
      BY <1>1, <1>3, <1>7, <2>3, Durations DEF Remaining, LastAttempt
    <3>2. Remaining(r) = deadline[r] - 1 + LastAttempt
      BY <1>7, <2>3 DEF Remaining
    <3> QED
      BY <1>1, <3>1, <3>2, Durations DEF LastAttempt
  <2> QED
    BY <1>1, <2>1, <2>2, <2>3
<1> QED
  BY <1>1, <1>4, <1>5, <1>6, <1>7

\* The inductive step: time eats up claim and lease alike, a new observation
\* begins a lease that falls short of no claim by more than the excess, and only
\* the holder commits while there is a claim that lasts longer.
LEMMA LeaseInvHolds == Spec => []LeaseInv
<1>1. Init => LeaseInv
  BY DEF Init, LeaseInv, Claims, Leading
<1>2. TypeOK /\ TypeOK' /\ LocalInv /\ LeaseInv /\ [Next]_vars => LeaseInv'
  <2> SUFFICES ASSUME TypeOK, TypeOK', LocalInv, LeaseInv, [Next]_vars,
                      NEW r \in Replica, Claims(r)'
               PROVE  Held(r)'
    BY Zenon DEF LeaseInv
  <2>h. Harmless(r) => Held(r)'
    BY HarmlessKeepsHeld
  <2>l. /\ wait[r] \in Nat /\ deadline[r] \in Nat
        /\ step[r] \in {"get", "put", "committed"} => wait[r] <= CallTime
        /\ step[r] = "sleep" => wait[r] <= RetryPeriod
        /\ deadline[r] <= RetryPeriod + RenewDeadline
        /\ step[r] = "callback" <=> role[r] = "demoting"
    BY DEF TypeOK, LocalInv
  <2>s. ASSUME /\ role'[r] = role[r] /\ step'[r] = step[r]
               /\ wait'[r] = wait[r] /\ deadline'[r] = deadline[r]
               /\ holder' = holder
               /\ \A s \in Replica \ {r} :
                    seen'[s] => seen[s] /\ leaseLeft'[s] = leaseLeft[s]
        PROVE  Harmless(r)
    <3>1. Remaining(r)' = Remaining(r) /\ Claims(r)' = Claims(r)
      BY <2>s DEF Remaining, Claims, Leading
    <3>2. Remaining(r)' <= Remaining(r)
      <4>1. Claims(r)
        BY <3>1
      <4> QED
        BY <3>1, <4>1, GraceSuffices
    <3> QED
      BY <2>s, <3>1, <3>2 DEF Harmless
  <2>t. /\ wait \in [Replica -> Nat] /\ deadline \in [Replica -> Nat]
        /\ leaseLeft \in [Replica -> 0..LeaseDuration]
        /\ step \in [Replica -> {"off", "sleep", "get", "put", "committed",
                                 "callback", "backoff"}]
        /\ role \in [Replica -> {"down", "candidate", "leader", "demoting"}]
        /\ seen \in [Replica -> BOOLEAN]
    BY DEF TypeOK
  <2>e. Held(r)' <=> \/ /\ holder' = r
                        /\ \A s \in Replica \ {r} :
                             seen'[s] => leaseLeft'[s] + Excess > Remaining(r)'
                     \/ Remaining(r)' < Excess
    BY DEF Held, Excess, Grace
  <2>1. CASE Tick
    <3>1. Claims(r) /\ Held(r) /\ holder' = holder
      BY <2>1 DEF Tick, Claims, Leading, LeaseInv
    <3>2. /\ Remaining(r)' \in Int /\ Remaining(r)' < Remaining(r)
          /\ Remaining(r) \in Nat
      BY <2>1, <3>1, TickShortens, GraceSuffices
    <3>3. CASE Remaining(r) < Excess
      BY <2>e, <3>2, <3>3, Durations
    <3>4. CASE ~(Remaining(r) < Excess)
      <4>1. ASSUME NEW s \in Replica \ {r}, seen'[s]
            PROVE  leaseLeft'[s] + Excess > Remaining(r)'
        <5>1. leaseLeft[s] + Excess > Remaining(r) /\ leaseLeft[s] \in Nat
          BY <2>1, <2>t, <3>1, <3>4, <4>1, Durations DEF Tick, Held
        <5>2. leaseLeft'[s] >= leaseLeft[s] - 1 /\ leaseLeft'[s] \in Nat
          BY <2>1, <2>t, <5>1 DEF Tick, Less
        <5> QED
          BY <3>2, <5>1, <5>2, Durations
      <4> QED
        BY <2>e, <3>1, <3>4, <4>1 DEF Held
    <3> QED
      BY <3>3, <3>4
  <2>2. ASSUME NEW t \in Replica, Read(t) PROVE Held(r)'
    <3>1. Claims(r) /\ Held(r)
      <4>1. Claims(r)
        BY <2>2, <2>t DEF Read, Goto, Claims, Leading
      <4> QED
        BY <4>1 DEF LeaseInv
    <3>2. Remaining(r) \in Nat /\ Remaining(r) < LeaseDuration + Excess
      BY <3>1, GraceSuffices
    <3>3. CASE Remaining(r) < Excess
      <4>1. Remaining(r)' <= Remaining(r)
        <5>1. CASE t = r
          <6>1. /\ step[r] = "get" /\ deadline'[r] = deadline[r]
                /\ \/ step'[r] = "put" /\ wait'[r] = wait[r]
                   \/ step'[r] = "sleep" /\ wait'[r] = RetryPeriod
            BY <2>2, <2>t, <5>1 DEF Read, Goto
          <6> QED
            BY <2>l, <6>1, Durations DEF Remaining, LastAttempt
        <5>2. CASE t # r
          <6>1. step'[r] = step[r] /\ wait'[r] = wait[r] /\ deadline' = deadline
            BY <2>2, <2>t, <5>2 DEF Read, Goto
          <6>2. Remaining(r)' = Remaining(r)
            BY <6>1 DEF Remaining
          <6> QED
            BY <3>2, <6>2
        <5> QED
          BY <5>1, <5>2
      <4>2. Remaining(r)' \in Int
        <5>1. wait'[r] \in Nat /\ deadline'[r] \in Nat
          BY DEF TypeOK
        <5> QED
          BY <5>1, Durations DEF Remaining, LastAttempt
      <4> QED
        BY <2>e, <3>2, <3>3, <4>1, <4>2, Durations
    <3>4. CASE ~(Remaining(r) < Excess)
      <4>0. holder = r /\ holder' = r
        BY <2>2, <3>1, <3>4 DEF Read, Held
      <4>1. Remaining(r)' = Remaining(r)
        <5>1. CASE t = r
          <6>1. step[r] = "get" /\ Goto(r, "put", wait[r]) /\ deadline' = deadline
            BY <2>2, <4>0, <5>1 DEF Read
          <6>2. step'[r] = "put" /\ wait'[r] = wait[r] /\ deadline'[r] = deadline[r]
            BY <2>t, <6>1 DEF Goto
          <6> QED
            BY <6>1, <6>2 DEF Remaining
        <5>2. CASE t # r
          <6>1. step'[r] = step[r] /\ wait'[r] = wait[r] /\ deadline' = deadline
            BY <2>2, <2>t, <5>2 DEF Read, Goto
          <6> QED
            BY <6>1 DEF Remaining
        <5> QED
          BY <5>1, <5>2
      <4>2. ASSUME NEW s \in Replica \ {r}, seen'[s]
            PROVE  leaseLeft'[s] + Excess > Remaining(r)'
        <5>1. CASE seen[s]
          <6>1. leaseLeft'[s] = leaseLeft[s]
            BY <2>2, <2>t, <5>1 DEF Read
          <6> QED
            BY <3>1, <3>4, <4>1, <5>1, <6>1 DEF Held
        <5>2. CASE ~seen[s]
          <6>1. s = t
            BY <2>2, <2>t, <4>2, <5>2 DEF Read
          <6>2. leaseLeft'[s] = LeaseDuration
            BY <2>2, <2>t, <4>0, <5>2, <6>1, ClusterConstants DEF Read
          <6> QED
            BY <3>2, <4>1, <6>2, Durations
        <5> QED
          BY <5>1, <5>2
      <4> QED
        BY <2>e, <4>0, <4>2
    <3> QED
      BY <3>3, <3>4
  <2>3. ASSUME NEW t \in Replica, Commit(t) PROVE Held(r)'
    <3>1. CASE t = r
      BY <2>3, <2>e, <3>1 DEF Commit
    <3>2. CASE t # r
      <4>1. /\ Claims(r)
            /\ step'[r] = step[r] /\ wait' = wait /\ deadline' = deadline
        BY <2>3, <2>t, <3>2 DEF Commit, Claims, Leading
      <4>2. Remaining(r)' = Remaining(r)
        BY <4>1 DEF Remaining
      <4> QED
        BY <2>3, <2>e, <3>2, <4>1, <4>2, NoUsurper
    <3> QED
      BY <3>1, <3>2
  <2>4. ASSUME NEW t \in Replica, Conflict(t) PROVE Harmless(r)
    <3>1. /\ holder' = holder
          /\ \A s \in Replica \ {r} :
               seen'[s] => seen[s] /\ leaseLeft'[s] = leaseLeft[s]
      BY <2>4, <2>t DEF Conflict
    <3>2. CASE t = r
      BY <2>4, <2>l, <2>t, <3>1, <3>2, Durations
      DEF Conflict, Goto, Harmless, Claims, Leading, Remaining, LastAttempt
    <3>3. CASE t # r
      BY <2>4, <2>s, <2>t, <3>1, <3>3 DEF Conflict, Goto
    <3> QED
      BY <3>2, <3>3
  <2>5. ASSUME NEW t \in Replica, CallFails(t) PROVE Harmless(r)
    <3>1. /\ holder' = holder
          /\ \A s \in Replica \ {r} :
               seen'[s] => seen[s] /\ leaseLeft'[s] = leaseLeft[s]
      BY <2>5, <2>t DEF CallFails, Forget
    <3>2. CASE t = r
      BY <2>5, <2>l, <2>t, <3>1, <3>2, Durations
      DEF CallFails, Calling, Goto, Harmless, Claims, Leading, Remaining,
           LastAttempt
    <3>3. CASE t # r
      BY <2>5, <2>s, <2>t, <3>1, <3>3 DEF CallFails, Goto
    <3> QED
      BY <3>2, <3>3
  <2>6. ASSUME NEW t \in Replica, Acquire(t) PROVE Harmless(r)
    <3>1. /\ holder' = holder
          /\ \A s \in Replica \ {r} :
               seen'[s] => seen[s] /\ leaseLeft'[s] = leaseLeft[s]
      BY <2>6, <2>t DEF Acquire
    <3>2. CASE t = r
      BY <2>6, <2>l, <2>t, <3>1, <3>2, Durations
      DEF Acquire, Goto, Harmless, Claims, Leading, Remaining, LastAttempt
    <3>3. CASE t # r
      BY <2>6, <2>s, <2>t, <3>1, <3>3 DEF Acquire, Goto
    <3> QED
      BY <3>2, <3>3
  <2>7. ASSUME NEW t \in Replica, Renew(t) PROVE Harmless(r)
    <3>1. /\ holder' = holder
          /\ \A s \in Replica \ {r} :
               seen'[s] => seen[s] /\ leaseLeft'[s] = leaseLeft[s]
      BY <2>7, <2>t DEF Renew
    <3>2. CASE t = r
      BY <2>7, <2>l, <2>t, <3>1, <3>2, Durations
      DEF Renew, Goto, Harmless, Claims, Leading, Remaining, LastAttempt
    <3>3. CASE t # r
      BY <2>7, <2>s, <2>t, <3>1, <3>3 DEF Renew, Goto
    <3> QED
      BY <3>2, <3>3
  <2>8. ASSUME NEW t \in Replica, Wake(t) PROVE Harmless(r)
    <3>1. /\ holder' = holder
          /\ \A s \in Replica \ {r} :
               seen'[s] => seen[s] /\ leaseLeft'[s] = leaseLeft[s]
      BY <2>8, <2>t DEF Wake
    <3>2. CASE t = r
      BY <2>8, <2>l, <2>t, <3>1, <3>2, Durations
      DEF Wake, Goto, Harmless, Claims, Leading, Remaining, LastAttempt
    <3>3. CASE t # r
      BY <2>8, <2>s, <2>t, <3>1, <3>3 DEF Wake, Goto
    <3> QED
      BY <3>2, <3>3
  <2>9. ASSUME NEW t \in Replica, RenewFails(t) PROVE Harmless(r)
    <3>1. /\ holder' = holder
          /\ \A s \in Replica \ {r} :
               seen'[s] => seen[s] /\ leaseLeft'[s] = leaseLeft[s]
      BY <2>9, <2>t DEF RenewFails
    <3>2. CASE t = r
      BY <2>9, <2>l, <2>t, <3>1, <3>2, Durations
      DEF RenewFails, Goto, Harmless, Claims, Leading, Remaining, LastAttempt
    <3>3. CASE t # r
      BY <2>9, <2>s, <2>t, <3>1, <3>3 DEF RenewFails, Goto
    <3> QED
      BY <3>2, <3>3
  <2>10. ASSUME NEW t \in Replica, Demote(t) PROVE Harmless(r)
    <3>1. /\ holder' = holder
          /\ \A s \in Replica \ {r} :
               seen'[s] => seen[s] /\ leaseLeft'[s] = leaseLeft[s]
      BY <2>10, <2>t DEF Demote, Ended, Forget
    <3>2. CASE t = r
      BY <2>10, <2>l, <2>t, <3>1, <3>2, Durations
      DEF Demote, Goto, Ended, Harmless, Claims, Leading, Remaining,
           LastAttempt
    <3>3. CASE t # r
      BY <2>10, <2>s, <2>t, <3>1, <3>3 DEF Demote, Goto, Ended
    <3> QED
      BY <3>2, <3>3
  <2>11. ASSUME NEW t \in Replica, RunRaises(t) PROVE Harmless(r)
    <3>1. /\ holder' = holder
          /\ \A s \in Replica \ {r} :
               seen'[s] => seen[s] /\ leaseLeft'[s] = leaseLeft[s]
      BY <2>11, <2>t DEF RunRaises, Ended, Forget
    <3>2. CASE t = r
      BY <2>11, <2>l, <2>t, <3>1, <3>2, Durations
      DEF RunRaises, Calling, Goto, Ended, Harmless, Claims, Leading,
           Remaining, LastAttempt
    <3>3. CASE t # r
      BY <2>11, <2>s, <2>t, <3>1, <3>3 DEF RunRaises, Goto, Ended
    <3> QED
      BY <3>2, <3>3
  <2>12. ASSUME NEW t \in Replica, EndBackoff(t) PROVE Harmless(r)
    <3>1. /\ holder' = holder
          /\ \A s \in Replica \ {r} :
               seen'[s] => seen[s] /\ leaseLeft'[s] = leaseLeft[s]
      BY <2>12, <2>t DEF EndBackoff
    <3>2. CASE t = r
      <4>1. ~Leading(r) /\ role' = role
        BY <2>12, <3>2 DEF EndBackoff, LocalInv, Leading
      <4>2. step'[r] \in {"get", "off"}
        BY <2>12, <2>t, <3>2 DEF EndBackoff, Goto
      <4> QED
        BY <3>1, <4>1, <4>2 DEF Harmless, Claims, Leading
    <3>3. CASE t # r
      BY <2>12, <2>s, <2>t, <3>1, <3>3 DEF EndBackoff, Goto
    <3> QED
      BY <3>2, <3>3
  <2>13. ASSUME NEW t \in Replica, ProcessEnds(t) PROVE Harmless(r)
    <3>1. /\ holder' = holder
          /\ \A s \in Replica \ {r} :
               seen'[s] => seen[s] /\ leaseLeft'[s] = leaseLeft[s]
      BY <2>13, <2>t DEF ProcessEnds, Forget
    <3>2. CASE t = r
      BY <2>13, <2>l, <2>t, <3>1, <3>2, Durations
      DEF ProcessEnds, Goto, Harmless, Claims, Leading, Remaining, LastAttempt
    <3>3. CASE t # r
      BY <2>13, <2>s, <2>t, <3>1, <3>3 DEF ProcessEnds, Goto
    <3> QED
      BY <3>2, <3>3
  <2>14. ASSUME NEW t \in Replica, Restart(t) PROVE Harmless(r)
    <3>1. /\ holder' = holder
          /\ \A s \in Replica \ {r} :
               seen'[s] => seen[s] /\ leaseLeft'[s] = leaseLeft[s]
      BY <2>14, <2>t DEF Restart
    <3>2. CASE t = r
      BY <2>14, <2>l, <2>t, <3>1, <3>2, Durations
      DEF Restart, Goto, Harmless, Claims, Leading, Remaining, LastAttempt
    <3>3. CASE t # r
      BY <2>14, <2>s, <2>t, <3>1, <3>3 DEF Restart, Goto
    <3> QED
      BY <3>2, <3>3
  <2>15. ASSUME \/ UNCHANGED vars
                \/ \E t \in Replica : Promote(t) \/ Release(t) \/ WakePollers(t)
         PROVE  Harmless(r)
    <3>1. UNCHANGED <<holder, role, step, wait, deadline, leaseLeft, seen>>
      BY <2>15 DEF Promote, Release, WakePollers, vars, election, timers
    <3> QED
      BY <2>s, <3>1
  <2> QED
    BY <2>h, <2>1, <2>2, <2>3, <2>4, <2>5, <2>6, <2>7, <2>8, <2>9, <2>10,
       <2>11, <2>12, <2>13, <2>14, <2>15
    DEF Next, Progress, Disturb
<1> QED
  BY <1>1, <1>2, ClusterTypeCorrect, LocalInvHolds, PTL DEF Spec

-----------------------------------------------------------------------------

\* When two replicas publish at once, one of them has a page without a
\* leadership, or has lost the lock and is overdue; for any number of replicas.
THEOREM OnePublisherHolds == Spec => []OnePublisher
<1>1. LocalInv /\ LeaseInv => OnePublisher
  <2> SUFFICES ASSUME LocalInv, LeaseInv,
                      NEW r \in Replica, NEW s \in Replica,
                      leads[r], leads[s], r # s
               PROVE  \E t \in {r, s} :
                        Unled(t) \/ (Overdue(t) /\ t # holder)
    BY DEF OnePublisher
  <2>1. CASE Leading(r) /\ Leading(s)
    <3>1. PICK t \in {r, s} : t # holder
      OBVIOUS
    <3>2. Held(t)
      BY <2>1 DEF LeaseInv, Claims
    <3> QED
      BY <2>1, <3>1, <3>2 DEF Held, Overdue
  <2>2. CASE ~(Leading(r) /\ Leading(s))
    BY <2>2 DEF LocalInv, Unled
  <2> QED
    BY <2>1, <2>2
<1> QED
  BY <1>1, LocalInvHolds, LeaseInvHolds, PTL

\* If the lease outlasts the grace, two replicas publish at once only if run has
\* raised in one of them or stop() has woken its pollers.
THEOREM OnePublisherOfLongLease ==
  ASSUME Grace <= LeaseDuration
  PROVE  Spec => [](\A r, s \in Replica :
                      leads[r] /\ leads[s] /\ r # s =>
                        \E t \in {r, s} : Unled(t))
<1>1. TypeOK /\ LocalInv /\ OnePublisher =>
        (\A r, s \in Replica : leads[r] /\ leads[s] /\ r # s =>
                                 \E t \in {r, s} : Unled(t))
  <2> SUFFICES ASSUME TypeOK, LocalInv, NEW t \in Replica, Overdue(t)
               PROVE  FALSE
    BY DEF OnePublisher
  <2>1. Remaining(t) \in Nat /\ Remaining(t) < Excess
    BY GraceSuffices DEF Overdue, Claims
  <2>2. Excess = 0
    BY ClusterConstants DEF Excess, Grace
  <2> QED
    BY <2>1, <2>2
<1> QED
  BY <1>1, ClusterTypeCorrect, LocalInvHolds, OnePublisherHolds, PTL

\* The lock does not change hands under a replica that leads or whose page is up,
\* unless it is overdue or its page is up without a leadership.
THEOREM LockTakenWhenFree == Spec => TakenOnlyWhenFree
<1> DEFINE Free == \A r \in Replica :
                     holder' \notin {r, holder} =>
                       /\ Leading(r) => Overdue(r)
                       /\ leads[r] => Overdue(r) \/ Unled(r)
<1>1. TypeOK /\ LocalInv /\ LeaseInv /\ [Next]_vars => [Free]_vars
  <2> SUFFICES ASSUME TypeOK, LocalInv, LeaseInv, Next,
                      NEW r \in Replica, holder' \notin {r, holder}
               PROVE  /\ Leading(r) => Overdue(r)
                      /\ leads[r] => Overdue(r) \/ Unled(r)
    OBVIOUS
  <2>1. PICK t \in Replica : Commit(t)
    BY DEF Next, Progress, Disturb, Tick, Read, Conflict, CallFails, Acquire,
           Promote, Renew, Wake, RenewFails, Demote, RunRaises, EndBackoff,
           Release, WakePollers, ProcessEnds, Restart
  <2>2. t # r
    BY <2>1 DEF Commit
  <2>3. Leading(r) => Overdue(r)
    BY <2>1, <2>2, NoUsurper DEF Claims, Overdue
  <2>4. leads[r] => Leading(r) \/ Unled(r)
    BY DEF LocalInv, Unled
  <2> QED
    BY <2>3, <2>4
<1> QED
  BY <1>1, ClusterTypeCorrect, LocalInvHolds, LeaseInvHolds, PTL
  DEF Spec, TakenOnlyWhenFree

\* Time runs out for a leader that has lost the lock: with each step of the clock
\* the time it has left to clear its page gets shorter, so that it is overdue for
\* no longer than the excess.
THEOREM LostClaimsRunOut ==
  Spec => [][\A r \in Replica :
               Tick /\ Leading(r) /\ r # holder =>
                 Remaining(r)' < Remaining(r)]_vars
<1> DEFINE RunsOut == \A r \in Replica :
                        Tick /\ Leading(r) /\ r # holder =>
                          Remaining(r)' < Remaining(r)
<1>1. TypeOK /\ LocalInv /\ [Next]_vars => [RunsOut]_vars
  BY TickShortens DEF Claims
<1> QED
  BY <1>1, ClusterTypeCorrect, LocalInvHolds, PTL DEF Spec

-----------------------------------------------------------------------------
(* Time.                                                                   *)

\* The guards of the steps of the replica's leader-election thread.
MayProgress(r) ==
  \/ step[r] \in {"get", "put", "callback"}
  \/ step[r] = "committed" /\ role[r] \in {"candidate", "leader"}
  \/ (role[r] = "leader" \/ stray[r]) /\ ~leads[r]
  \/ step[r] = "sleep" /\ wait[r] = 0
  \/ step[r] = "backoff" /\ (wait[r] = 0 \/ stopping[r] # "no")

\* Time never waits in vain: a replica that is due can take a step of its own,
\* so the clock is held up by what remains to be done and never stops for good.
\* Without it the lease would never run out.
THEOREM TimeIsNeverBlocked ==
  Spec => []\A r \in Replica : Due(r) => MayProgress(r)
<1>1. TypeOK /\ LocalInv => \A r \in Replica : Due(r) => MayProgress(r)
  BY DEF TypeOK, LocalInv, Due, MayProgress
<1> QED
  BY <1>1, ClusterTypeCorrect, LocalInvHolds, PTL
=============================================================================
