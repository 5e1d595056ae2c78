------------------------------- MODULE HaDrain -------------------------------
(***************************************************************************)
(* The replicas of HaCluster when nothing goes wrong: no call fails, and   *)
(* processes only end because they are told to, by a drain that the        *)
(* PodDisruptionBudget lets through (deploy/kubernetes.yaml).  How long    *)
(* does nobody collect?                                                    *)
(***************************************************************************)
EXTENDS HaCluster

VARIABLE vacant      \* for how long no replica has led, no further than
                     \* LeaseDuration + 1

drainVars == <<vars, vacant>>

SomebodyLeads == \E r \in Replica : Leading(r) /\ leads[r]

DrainInit == Init /\ vacant = 0

\* minAvailable: one replica stays that is up and is not told to stop.
MayEvict(r) == \E s \in Replica \ {r} : role[s] # "down" /\ stopping[s] = "no"

\* The steps of drains, of which each begins while a replica leads, and of the
\* replicas meanwhile.
DrainStep ==
  \/ Tick
  \/ \E r \in Replica :
       \/ Progress(r) \/ WakePollers(r) \/ Restart(r)
       \/ SomebodyLeads /\ MayEvict(r) /\ Release(r)
       \/ stopping[r] = "woken" /\ ProcessEnds(r)

DrainNext ==
  /\ DrainStep
  /\ vacant' = IF SomebodyLeads' THEN 0
               ELSE IF Tick /\ vacant <= LeaseDuration THEN vacant + 1
               ELSE vacant

DrainSpec == DrainInit /\ [][DrainNext]_drainVars

-----------------------------------------------------------------------------

\* "Keep at least one collector replica scheduled during voluntary disruptions
\* [...] so the lock never transitions through an empty period longer than the
\* lease" (deploy/kubernetes.yaml:70-72), read as: nobody leads for longer.
NoLongVacancy == vacant <= LeaseDuration
=============================================================================
