--------------------------- MODULE CredentialChain ---------------------------
(***************************************************************************)
(* ResilientAzureCredential (credentials.py): the chain of credentials the *)
(* environment asks for, and get_token called from several threads that    *)
(* share the credential that worked last.  The credentials themselves are  *)
(* external: each works or fails, and that changes over time.              *)
(*                                                                         *)
(* A definition named D_Something is D with a bug, as in Exporter.         *)
(***************************************************************************)
EXTENDS Integers, Sequences

CONSTANTS Thread,       \* the threads that call get_token
          MaxChanges    \* bound: how often a credential breaks or recovers

ASSUME ChainConstants == MaxChanges \in Nat

Name == {"service-principal", "workload-identity", "default-azure-credential"}
Mode == {"auto", "service_principal", "workload_identity"}

None == "none"

-----------------------------------------------------------------------------
(* The chain: _build_credential_chain.                                     *)

\* What the process finds when it starts: the requested mode, whether the
\* variables of a service principal and of workload identity are complete, and
\* which of the credentials can be constructed.
Environment == [mode : Mode, sp : BOOLEAN, wi : BOOLEAN, sound : SUBSET Name]

ServicePrincipalWanted(env) ==
  \/ env.mode = "service_principal"
  \/ env.mode = "auto" /\ env.sp

\* A mode that was asked for by name and cannot be had is an error.
Refused(env) ==
  \/ /\ env.mode = "service_principal"
     /\ ~env.sp \/ "service-principal" \notin env.sound
  \/ /\ env.mode = "workload_identity"
     /\ ~env.wi \/ "workload-identity" \notin env.sound

\* A credential that cannot be constructed is left out.
Constructed(name, env) == IF name \in env.sound THEN <<name>> ELSE <<>>

\* The other credentials stay behind the service principal.
BuildChain_KeepsFallback(env) ==
  (IF ServicePrincipalWanted(env) THEN Constructed("service-principal", env)
   ELSE IF env.wi THEN Constructed("workload-identity", env) ELSE <<>>)
    \o Constructed("default-azure-credential", env)

BuildChain(env) ==
  IF ServicePrincipalWanted(env) THEN Constructed("service-principal", env)
  ELSE (IF env.wi THEN Constructed("workload-identity", env) ELSE <<>>)
         \o Constructed("default-azure-credential", env)

-----------------------------------------------------------------------------

VARIABLES environment,  \* the variables the process was started with
          chain,        \* _credentials
          works,        \* which credentials would give a token now
          changes,      \* how often that changed
          active,       \* _active
          pc,           \* where each thread is in get_token
          held,         \* the active credential it read
          next,         \* the member of the chain it tries
          steady        \* those that have worked ever since its call began

callVars == <<pc, held, next, steady>>
vars == <<environment, chain, works, changes, active, callVars>>

Members == {chain[i] : i \in 1..Len(chain)}

\* The constructor returns: the chain is not refused and not empty.
Init ==
  /\ environment \in Environment
  /\ ~Refused(environment)
  /\ chain = BuildChain(environment)
  /\ chain # <<>>
  /\ works \in SUBSET Members
  /\ changes = 0
  /\ active = None
  /\ pc = [t \in Thread |-> "idle"]
  /\ held = [t \in Thread |-> None]
  /\ next = [t \in Thread |-> 1]
  /\ steady = [t \in Thread |-> {}]

Goto(t, label) == pc' = [pc EXCEPT ![t] = label]

\* A credential breaks or recovers.
Change(name) ==
  /\ changes < MaxChanges
  /\ changes' = changes + 1
  /\ works' = IF name \in works THEN works \ {name} ELSE works \cup {name}
  /\ steady' = [t \in Thread |-> steady[t] \cap works']
  /\ UNCHANGED <<environment, chain, active, pc, held, next>>

\* The walk begins where the chain ends.
ReadActive_FromTheEnd(t) ==
  /\ pc[t] = "idle"
  /\ Goto(t, IF active = None THEN "chain" ELSE "cached")
  /\ held' = [held EXCEPT ![t] = active]
  /\ next' = [next EXCEPT ![t] = Len(chain)]
  /\ steady' = [steady EXCEPT ![t] = works]
  /\ UNCHANGED <<environment, chain, works, changes, active>>

\* The call begins and reads _active under the lock.
ReadActive(t) ==
  /\ pc[t] = "idle"
  /\ Goto(t, IF active = None THEN "chain" ELSE "cached")
  /\ held' = [held EXCEPT ![t] = active]
  /\ next' = [next EXCEPT ![t] = 1]
  /\ steady' = [steady EXCEPT ![t] = works]
  /\ UNCHANGED <<environment, chain, works, changes, active>>

\* A failure of the cached credential ends the call.
TryCached_Raises(t) ==
  /\ pc[t] = "cached"
  /\ Goto(t, IF held[t] \in works THEN "token" ELSE "error")
  /\ UNCHANGED <<environment, chain, works, changes, active, held, next,
                 steady>>

\* The cached credential gives a token, or the chain is to be walked again.
TryCached(t) ==
  /\ pc[t] = "cached"
  /\ Goto(t, IF held[t] \in works THEN "token" ELSE "forget")
  /\ UNCHANGED <<environment, chain, works, changes, active, held, next,
                 steady>>

\* self._active = None, whatever another thread has stored since.
Forget(t) ==
  /\ pc[t] = "forget"
  /\ Goto(t, "chain")
  /\ active' = None
  /\ UNCHANGED <<environment, chain, works, changes, held, next, steady>>

\* The walk does not see the end of the chain.
TryNext_PastTheEnd(t) ==
  /\ pc[t] = "chain"
  /\ \/ /\ chain[next[t]] \in works
        /\ Goto(t, "store")
        /\ UNCHANGED next
     \/ /\ chain[next[t]] \notin works
        /\ next' = [next EXCEPT ![t] = @ + 1]
        /\ UNCHANGED pc
  /\ UNCHANGED <<environment, chain, works, changes, active, held, steady>>

\* Any exception moves on to the next credential, after the last one it is
\* an error.
TryNext(t) ==
  /\ pc[t] = "chain"
  /\ \/ /\ chain[next[t]] \in works
        /\ Goto(t, "store")
        /\ UNCHANGED next
     \/ /\ chain[next[t]] \notin works
        /\ next[t] < Len(chain)
        /\ next' = [next EXCEPT ![t] = @ + 1]
        /\ UNCHANGED pc
     \/ /\ chain[next[t]] \notin works
        /\ next[t] = Len(chain)
        /\ Goto(t, "error")
        /\ UNCHANGED next
  /\ UNCHANGED <<environment, chain, works, changes, active, held, steady>>

\* Nothing is cached.
Store_Nothing(t) ==
  /\ pc[t] = "store"
  /\ Goto(t, "token")
  /\ UNCHANGED <<environment, chain, works, changes, active, held, next,
                 steady>>

Store(t) ==
  /\ pc[t] = "store"
  /\ Goto(t, "token")
  /\ active' = chain[next[t]]
  /\ UNCHANGED <<environment, chain, works, changes, held, next, steady>>

\* The caller has its token or its error, and will call again.
Return(t) ==
  /\ pc[t] \in {"token", "error"}
  /\ Goto(t, "idle")
  /\ held' = [held EXCEPT ![t] = None]
  /\ next' = [next EXCEPT ![t] = 1]
  /\ steady' = [steady EXCEPT ![t] = {}]
  /\ UNCHANGED <<environment, chain, works, changes, active>>

GetToken(t) == \/ ReadActive(t)
               \/ TryCached(t)
               \/ Forget(t)
               \/ TryNext(t)
               \/ Store(t)
               \/ Return(t)

Next == \/ \E name \in Members : Change(name)
        \/ \E t \in Thread : GetToken(t)

Spec == Init /\ [][Next]_vars

\* Every thread runs and calls again.
LiveSpec == Spec /\ \A t \in Thread : WF_vars(GetToken(t))

-----------------------------------------------------------------------------
(* Claims.                                                                 *)

TypeOK ==
  /\ environment \in Environment
  /\ chain = BuildChain(environment) /\ chain # <<>>
  /\ works \subseteq Members
  /\ changes \in 0..MaxChanges
  /\ active \in Members \cup {None}
  /\ pc \in [Thread -> {"idle", "cached", "forget", "chain", "store", "token",
                        "error"}]
  /\ held \in [Thread -> Members \cup {None}]
  /\ next \in [Thread -> 1..Len(chain)]
  /\ steady \in [Thread -> SUBSET Members]

\* "catches any exception from a credential and tries the next one, then
\* surfaces a single combined error if every credential fails": a call raises
\* only if no credential of the chain worked all the way through it, whatever
\* the other threads did to the cached one meanwhile.
ErrorOnlyIfNoneWorked ==
  \A t \in Thread : pc[t] = "error" => steady[t] = {}

\* "A complete Service Principal environment intentionally overrides AKS
\* Workload Identity": no other credential ever serves in its place, unless the
\* mode asks for workload identity, which then comes first.
OverrideHonoured ==
  /\ environment.mode # "workload_identity" /\ environment.sp
     => active \in {"service-principal", None}
  /\ environment.mode = "workload_identity" => chain[1] = "workload-identity"

\* "Uses Service Principal auth first", "otherwise tries
\* WorkloadIdentityCredential first": a call that walks the chain caches no
\* credential behind one that worked all the way through the call.
EarlierPreferred ==
  \A t \in Thread : pc[t] = "store" =>
    \A i \in 1..(next[t] - 1) : chain[i] \notin steady[t]

\* Concurrent failures and stale clears do not keep the cache from settling:
\* when credentials have stopped changing and one works, a working one is
\* cached for good.
CacheSettles ==
  (\E name \in Name : <>[](name \in works))
  => <>[](active \in works)
=============================================================================
