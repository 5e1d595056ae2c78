------------------------ MODULE CredentialChainProofs ------------------------
(***************************************************************************)
(* Theorems about CredentialChain, for any number of threads and any       *)
(* number of changes.                                                      *)
(***************************************************************************)
EXTENDS CredentialChain, TLAPS

\* What can be constructed is a sequence of names.
LEMMA ConstructedIsSeq ==
  ASSUME NEW name \in Name, NEW env \in Environment
  PROVE  Constructed(name, env) \in Seq(Name)
BY DEF Constructed

\* So is the chain.
LEMMA ChainIsSeq ==
  ASSUME NEW env \in Environment PROVE BuildChain(env) \in Seq(Name)
<1>1. /\ Constructed("service-principal", env) \in Seq(Name)
      /\ Constructed("workload-identity", env) \in Seq(Name)
      /\ Constructed("default-azure-credential", env) \in Seq(Name)
  BY ConstructedIsSeq DEF Name
<1>2. <<>> \in Seq(Name)
  OBVIOUS
<1> QED
  BY <1>1, <1>2 DEF BuildChain

\* Every reachable chain has a first member.
LEMMA ChainLength ==
  TypeOK => chain \in Seq(Name) /\ Len(chain) \in Nat \ {0}
<1> SUFFICES ASSUME TypeOK
             PROVE  chain \in Seq(Name) /\ Len(chain) \in Nat \ {0}
  OBVIOUS
<1>1. chain \in Seq(Name) /\ chain # <<>>
  BY ChainIsSeq DEF TypeOK
<1> QED
  BY <1>1

PC == {"idle", "cached", "forget", "chain", "store", "token", "error"}

\* TypeOK holds of every chain that the constructor accepts.
THEOREM ChainTypeCorrect == Spec => []TypeOK
<1>1. Init => TypeOK
  <2> SUFFICES ASSUME Init PROVE TypeOK
    OBVIOUS
  <2>1. chain \in Seq(Name) /\ chain # <<>>
    BY ChainIsSeq DEF Init
  <2>2. 1 \in 1..Len(chain)
    BY <2>1
  <2> QED
    BY <2>2, ChainConstants DEF Init, TypeOK
<1>2. TypeOK /\ [Next]_vars => TypeOK'
  <2> SUFFICES ASSUME TypeOK, [Next]_vars PROVE TypeOK'
    OBVIOUS
  <2>0. chain \in Seq(Name) /\ Len(chain) \in Nat \ {0}
    BY ChainLength
  <2>1. ASSUME UNCHANGED chain PROVE Members' = Members
    BY <2>1 DEF Members
  <2>2. ASSUME NEW name \in Members, Change(name) PROVE TypeOK'
    <3>1. UNCHANGED <<environment, chain, active, pc, held, next>>
      BY <2>2 DEF Change
    <3>2. changes' \in 0..MaxChanges
      BY <2>2, ChainConstants DEF Change, TypeOK
    <3>3. works' \subseteq Members
      BY <2>2 DEF Change, TypeOK
    <3>4. steady' \in [Thread -> SUBSET Members]
      BY <2>2 DEF Change, TypeOK
    <3> QED
      BY <2>1, <3>1, <3>2, <3>3, <3>4 DEF TypeOK
  <2>3. ASSUME NEW t \in Thread, GetToken(t) PROVE TypeOK'
    <3>0. /\ pc \in [Thread -> PC]
          /\ next \in [Thread -> 1..Len(chain)]
          /\ 1 \in 1..Len(chain)
      BY <2>0 DEF TypeOK, PC
    <3>1. /\ UNCHANGED <<environment, chain, works, changes>>
          /\ Members' = Members
      BY <2>1, <2>3 DEF GetToken, ReadActive, TryCached, Forget, TryNext,
                        Store, Return
    <3>2. pc' \in [Thread -> PC]
      BY <2>3, <3>0 DEF GetToken, ReadActive, TryCached, Forget, TryNext,
                        Store, Return, Goto, PC
    <3>3. next' \in [Thread -> 1..Len(chain)]
      <4>1. CASE UNCHANGED next
        BY <3>0, <4>1
      <4>2. CASE next' = [next EXCEPT ![t] = 1]
        BY <3>0, <4>2
      <4>3. CASE /\ next[t] < Len(chain)
                 /\ next' = [next EXCEPT ![t] = @ + 1]
        <5>1. next[t] + 1 \in 1..Len(chain)
          BY <2>0, <3>0, <4>3
        <5> QED
          BY <3>0, <4>3, <5>1
      <4> QED
        BY <2>3, <4>1, <4>2, <4>3
        DEF GetToken, ReadActive, TryCached, Forget, TryNext, Store, Return
    <3>4. active' \in Members \cup {None}
      BY <2>3, <3>0 DEF TypeOK, GetToken, ReadActive, TryCached, Forget,
                        TryNext, Store, Return, Members
    <3>5. held' \in [Thread -> Members \cup {None}]
      BY <2>3 DEF TypeOK, GetToken, ReadActive, TryCached, Forget, TryNext,
                  Store, Return
    <3>6. steady' \in [Thread -> SUBSET Members]
      BY <2>3 DEF TypeOK, GetToken, ReadActive, TryCached, Forget, TryNext,
                  Store, Return
    <3> QED
      BY <3>1, <3>2, <3>3, <3>4, <3>5, <3>6 DEF TypeOK, PC
  <2>4. CASE UNCHANGED vars
    BY <2>1, <2>4 DEF TypeOK, vars, callVars
  <2> QED
    BY <2>2, <2>3, <2>4 DEF Next
<1> QED
  BY <1>1, <1>2, PTL DEF Spec

-----------------------------------------------------------------------------

\* How far a call has come in the chain: what lies behind it has failed at
\* some moment of the call.
WalkInv ==
  \A t \in Thread :
    /\ steady[t] \subseteq works
    /\ pc[t] \in {"cached", "forget"} => next[t] = 1
    /\ pc[t] \in {"chain", "store"} =>
         \A i \in 1..(next[t] - 1) : chain[i] \notin steady[t]
    /\ pc[t] = "error" => \A i \in 1..Len(chain) : chain[i] \notin steady[t]

\* What a walk has left behind failed during the call.
LEMMA WalkInvHolds == Spec => []WalkInv
<1>1. Init => WalkInv
  BY DEF Init, WalkInv
<1>2. TypeOK /\ WalkInv /\ [Next]_vars => WalkInv'
  <2> SUFFICES ASSUME TypeOK, WalkInv, [Next]_vars PROVE WalkInv'
    OBVIOUS
  <2>0. /\ Len(chain) \in Nat \ {0}
        /\ pc \in [Thread -> PC]
        /\ next \in [Thread -> 1..Len(chain)]
        /\ steady \in [Thread -> SUBSET Members]
    BY ChainLength DEF TypeOK, PC
  <2>1. ASSUME NEW name \in Members, Change(name) PROVE WalkInv'
    <3>1. /\ UNCHANGED <<chain, pc, next>>
          /\ \A t \in Thread : steady'[t] = steady[t] \cap works'
      BY <2>1 DEF Change
    <3> QED
      BY <3>1 DEF WalkInv
  <2>2. ASSUME NEW t \in Thread, GetToken(t), NEW u \in Thread, u # t
        PROVE  /\ UNCHANGED <<chain, works>>
               /\ pc'[u] = pc[u] /\ next'[u] = next[u] /\ steady'[u] = steady[u]
    BY <2>0, <2>2 DEF GetToken, ReadActive, TryCached, Forget, TryNext, Store,
                      Return, Goto
  <2>3. ASSUME NEW t \in Thread, GetToken(t)
        PROVE  /\ UNCHANGED <<chain, works>>
               /\ steady'[t] \subseteq works
               /\ pc'[t] \in {"cached", "forget"} => next'[t] = 1
               /\ pc'[t] \in {"chain", "store"} =>
                    \A i \in 1..(next'[t] - 1) : chain[i] \notin steady'[t]
               /\ pc'[t] = "error" =>
                    \A i \in 1..Len(chain) : chain[i] \notin steady'[t]
    <3>1. CASE ReadActive(t)
      <4>1. /\ UNCHANGED <<chain, works>>
            /\ next'[t] = 1 /\ steady'[t] = works
            /\ pc'[t] \in {"chain", "cached"}
        BY <2>0, <3>1 DEF ReadActive, Goto
      <4> QED
        BY <4>1
    <3>2. CASE TryCached(t) \/ Forget(t) \/ Store(t)
      <4>1. /\ UNCHANGED <<chain, works, next, steady>>
            /\ pc'[t] \in {"token", "forget", "chain"}
            /\ pc'[t] \in {"forget", "chain"} => pc[t] \in {"cached", "forget"}
        BY <2>0, <3>2 DEF TryCached, Forget, Store, Goto
      <4> QED
        BY <4>1, <2>0 DEF WalkInv
    <3>3. CASE TryNext(t)
      <4>0. /\ UNCHANGED <<chain, works, steady>>
            /\ pc[t] = "chain"
            /\ steady[t] \subseteq works
            /\ \A i \in 1..(next[t] - 1) : chain[i] \notin steady[t]
        BY <3>3 DEF TryNext, WalkInv
      <4>1. CASE pc'[t] = "store" /\ UNCHANGED next
        BY <4>0, <4>1
      <4>2. CASE /\ chain[next[t]] \notin works
                 /\ next'[t] = next[t] + 1
                 /\ pc'[t] = "chain"
        <5>1. \A i \in 1..next[t] : i = next[t] \/ i \in 1..(next[t] - 1)
          BY <2>0
        <5> QED
          BY <2>0, <4>0, <4>2, <5>1
      <4>3. CASE /\ chain[next[t]] \notin works
                 /\ next[t] = Len(chain)
                 /\ pc'[t] = "error"
        <5>1. \A i \in 1..Len(chain) : i = next[t] \/ i \in 1..(next[t] - 1)
          BY <2>0, <4>3
        <5> QED
          BY <4>0, <4>3, <5>1
      <4> QED
        BY <2>0, <3>3, <4>1, <4>2, <4>3 DEF TryNext, Goto
    <3>4. CASE Return(t)
      <4>1. /\ UNCHANGED <<chain, works>>
            /\ pc'[t] = "idle" /\ steady'[t] = {}
        BY <2>0, <3>4 DEF Return, Goto
      <4> QED
        BY <4>1
    <3> QED
      BY <2>3, <3>1, <3>2, <3>3, <3>4 DEF GetToken
  <2>4. ASSUME NEW t \in Thread, GetToken(t) PROVE WalkInv'
    <3> SUFFICES ASSUME NEW u \in Thread
                 PROVE  /\ steady'[u] \subseteq works'
                        /\ pc'[u] \in {"cached", "forget"} => next'[u] = 1
                        /\ pc'[u] \in {"chain", "store"} =>
                             \A i \in 1..(next'[u] - 1) :
                               chain'[i] \notin steady'[u]
                        /\ pc'[u] = "error" =>
                             \A i \in 1..Len(chain') :
                               chain'[i] \notin steady'[u]
      BY DEF WalkInv
    <3>1. CASE u = t
      BY <2>3, <2>4, <3>1
    <3>2. CASE u # t
      BY <2>2, <2>4, <3>2 DEF WalkInv
    <3> QED
      BY <3>1, <3>2
  <2>5. CASE UNCHANGED vars
    BY <2>5 DEF WalkInv, vars, callVars
  <2> QED
    BY <2>1, <2>4, <2>5 DEF Next
<1> QED
  BY <1>1, <1>2, ChainTypeCorrect, PTL DEF Spec

\* ErrorOnlyIfNoneWorked: get_token raises only if every credential failed at
\* some moment of the call, however many threads share the cache.
THEOREM ErrorsAreJustified == Spec => []ErrorOnlyIfNoneWorked
<1>1. TypeOK /\ WalkInv => ErrorOnlyIfNoneWorked
  <2> SUFFICES ASSUME TypeOK, WalkInv, NEW t \in Thread, pc[t] = "error"
               PROVE  steady[t] = {}
    BY DEF ErrorOnlyIfNoneWorked
  <2>1. \A i \in 1..Len(chain) : chain[i] \notin steady[t]
    BY DEF WalkInv
  <2>2. steady[t] \subseteq Members
    BY DEF TypeOK
  <2> QED
    BY <2>1, <2>2 DEF Members
<1> QED
  BY <1>1, ChainTypeCorrect, WalkInvHolds, PTL

\* EarlierPreferred: what is cached stands behind no credential that worked
\* all the way through the call.
THEOREM EarlierIsPreferred == Spec => []EarlierPreferred
<1>1. WalkInv => EarlierPreferred
  BY DEF WalkInv, EarlierPreferred
<1> QED
  BY <1>1, WalkInvHolds, PTL

\* The environment never changes, and was not refused.
LEMMA NeverRefused == Spec => [](~Refused(environment))
<1>1. Init => ~Refused(environment)
  BY DEF Init
<1>2. ~Refused(environment) /\ [Next]_vars => ~Refused(environment)'
  BY DEF Next, vars, Change, GetToken, ReadActive, TryCached, Forget, TryNext,
         Store, Return, Refused
<1> QED
  BY <1>1, <1>2, PTL DEF Spec

\* OverrideHonoured: no fallback ever serves in the place of a service
\* principal that overrides it, and workload identity comes first where it was
\* asked for, in every environment the constructor accepts.
THEOREM OverrideIsHonoured == Spec => []OverrideHonoured
<1>1. TypeOK /\ ~Refused(environment) => OverrideHonoured
  <2> SUFFICES ASSUME TypeOK, ~Refused(environment) PROVE OverrideHonoured
    OBVIOUS
  <2>0. /\ chain = BuildChain(environment) /\ chain # <<>>
        /\ chain \in Seq(Name) /\ environment \in Environment
    BY ChainLength DEF TypeOK
  <2>1. ASSUME environment.mode # "workload_identity", environment.sp
        PROVE  active \in {"service-principal", None}
    <3>1. ServicePrincipalWanted(environment)
      BY <2>0, <2>1 DEF ServicePrincipalWanted, Environment, Mode
    <3>2. chain = <<"service-principal">>
      BY <2>0, <3>1 DEF BuildChain, Constructed
    <3>3. Members = {"service-principal"}
      BY <3>2 DEF Members
    <3> QED
      BY <3>3 DEF TypeOK
  <2>2. ASSUME environment.mode = "workload_identity"
        PROVE  chain[1] = "workload-identity"
    <3>1. /\ environment.wi /\ "workload-identity" \in environment.sound
          /\ ~ServicePrincipalWanted(environment)
      BY <2>2 DEF Refused, ServicePrincipalWanted
    <3>2. chain = <<"workload-identity">>
                    \o Constructed("default-azure-credential", environment)
      BY <2>0, <3>1 DEF BuildChain, Constructed
    <3>3. Constructed("default-azure-credential", environment) \in Seq(Name)
      BY <2>0, ConstructedIsSeq DEF Name
    <3>4. <<"workload-identity">> \in Seq(Name)
      BY DEF Name
    <3> QED
      BY <3>2, <3>3, <3>4
  <2> QED
    BY <2>1, <2>2 DEF OverrideHonoured
<1> QED
  BY <1>1, ChainTypeCorrect, NeverRefused, PTL

-----------------------------------------------------------------------------
(* The length of a call.                                                   *)

\* The most steps a call has left until it returns.
StepsLeft(t) ==
  CASE pc[t] = "idle" -> 0
    [] pc[t] \in {"token", "error"} -> 1
    [] pc[t] = "store" -> 2
    [] pc[t] = "chain" -> 3 + Len(chain) - next[t]
    [] pc[t] = "forget" -> 3 + Len(chain)
    [] pc[t] = "cached" -> 4 + Len(chain)

\* A step of a thread's own call brings it nearer to its end.
LEMMA OwnStepShortens ==
  ASSUME TypeOK, WalkInv, NEW t \in Thread, pc[t] # "idle", GetToken(t)
  PROVE  StepsLeft(t)' < StepsLeft(t)
<1>0. /\ Len(chain) \in Nat \ {0} /\ next[t] \in 1..Len(chain)
      /\ pc \in [Thread -> PC] /\ next \in [Thread -> 1..Len(chain)]
  BY ChainLength DEF TypeOK, PC
<1>1. CASE TryCached(t)
  <2>1. pc[t] = "cached" /\ pc'[t] \in {"token", "forget"} /\ UNCHANGED chain
    BY <1>0, <1>1 DEF TryCached, Goto
  <2> QED
    BY <1>0, <2>1 DEF StepsLeft
<1>2. CASE Forget(t)
  <2>1. /\ pc[t] = "forget" /\ pc'[t] = "chain" /\ next'[t] = 1
        /\ UNCHANGED chain
    BY <1>0, <1>2 DEF Forget, Goto, WalkInv
  <2> QED
    BY <1>0, <2>1 DEF StepsLeft
<1>3. CASE TryNext(t)
  <2>1. /\ pc[t] = "chain" /\ UNCHANGED chain
        /\ \/ pc'[t] \in {"store", "error"}
           \/ pc'[t] = "chain" /\ next'[t] = next[t] + 1
    BY <1>0, <1>3 DEF TryNext, Goto
  <2> QED
    BY <1>0, <2>1 DEF StepsLeft
<1>4. CASE Store(t) \/ Return(t)
  <2>1. \/ pc[t] = "store" /\ pc'[t] = "token"
        \/ pc[t] \in {"token", "error"} /\ pc'[t] = "idle"
    BY <1>0, <1>4 DEF Store, Return, Goto
  <2> QED
    BY <2>1 DEF StepsLeft
<1> QED
  BY <1>1, <1>2, <1>3, <1>4 DEF GetToken, ReadActive

\* get_token never waits for another call and is never set back by one: each
\* step of a call shortens it, a step of another thread leaves it as it is,
\* whatever that does to the cached credential, and no call takes more than
\* four steps and one for each credential.
THEOREM CallsAreShort ==
  Spec => /\ [][\A t \in Thread : pc[t] # "idle" =>
                  \/ StepsLeft(t)' < StepsLeft(t)
                  \/ UNCHANGED <<pc[t], next[t], StepsLeft(t)>>]_vars
          /\ []\A t \in Thread : StepsLeft(t) \in 0..(4 + Len(chain))
<1> DEFINE Shortens ==
      \A t \in Thread : pc[t] # "idle" =>
        \/ StepsLeft(t)' < StepsLeft(t)
        \/ UNCHANGED <<pc[t], next[t], StepsLeft(t)>>
<1>1. TypeOK /\ WalkInv /\ [Next]_vars => [Shortens]_vars
  <2> SUFFICES ASSUME TypeOK, WalkInv, Next, NEW t \in Thread, pc[t] # "idle"
               PROVE  \/ StepsLeft(t)' < StepsLeft(t)
                      \/ UNCHANGED <<pc[t], next[t], StepsLeft(t)>>
    OBVIOUS
  <2>0. pc \in [Thread -> PC] /\ next \in [Thread -> 1..Len(chain)]
    BY DEF TypeOK, PC
  <2>1. ASSUME UNCHANGED <<pc[t], next[t], chain>>
        PROVE  UNCHANGED StepsLeft(t)
    BY <2>1 DEF StepsLeft
  <2>2. ASSUME NEW name \in Members, Change(name)
        PROVE  UNCHANGED <<pc[t], next[t], chain>>
    BY <2>2 DEF Change
  <2>3. ASSUME NEW u \in Thread, u # t, GetToken(u)
        PROVE  UNCHANGED <<pc[t], next[t], chain>>
    BY <2>0, <2>3 DEF GetToken, ReadActive, TryCached, Forget, TryNext, Store,
                      Return, Goto
  <2>4. CASE GetToken(t)
    BY <2>4, OwnStepShortens
  <2> QED
    BY <2>1, <2>2, <2>3, <2>4 DEF Next
<1>2. TypeOK => \A t \in Thread : StepsLeft(t) \in 0..(4 + Len(chain))
  <2> SUFFICES ASSUME TypeOK, NEW t \in Thread
               PROVE  StepsLeft(t) \in 0..(4 + Len(chain))
    OBVIOUS
  <2>1. /\ Len(chain) \in Nat \ {0} /\ next[t] \in 1..Len(chain)
        /\ pc[t] \in PC
    BY ChainLength DEF TypeOK, PC
  <2> QED
    BY <2>1 DEF StepsLeft, PC
<1> QED
  BY <1>1, <1>2, ChainTypeCorrect, WalkInvHolds, PTL DEF Spec
=============================================================================
