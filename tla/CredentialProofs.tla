-------------------------- MODULE CredentialProofs --------------------------
(***************************************************************************)
(* Proofs about Credential, for any number of workers, tenants and         *)
(* subscriptions, and any clock.                                           *)
(***************************************************************************)
EXTENDS Credential, TLAPS

USE DEF mainVars, cacheVars, workerVars

\* What the constants give a step that touches the cache.
LEMMA KeyFacts ==
  ASSUME NEW s \in Subs
  PROVE  /\ KeyOf(s) \in Keys
         /\ KeyOf(s) \in Tenants => KeyOf(s) = Home[s]
         /\ KeyOf(s) \in Subs => KeyOf(s) = s /\ SourceOf(s) = s
         /\ KeyOf(s) # DEFAULT_TENANT
         /\ SourceOf(s) \in Subs
         /\ Home[s] \in Tenants
         /\ Home[SourceOf(s)] = Home[s]
  BY ConstantsAssumption DEF KeyOf, SourceOf, Keys

\* The placeholders are none of the values they stand beside.
LEMMA Distinct ==
  /\ None \notin Workers /\ None # Main /\ None \notin Keys /\ None \notin Subs
  /\ Unset \notin Subs /\ Unset # None
  /\ Main \notin Workers
  /\ NoToken \notin Token
  /\ None \notin [key: Keys, source: Subs \cup {None}]
  BY ConstantsAssumption DEF Keys, Token

----------------------------------------------------------------------------
(* Types.                                                                  *)

LEMMA FileTypes ==
  ASSUME NEW toks \in [Keys -> Token \cup {NoToken}],
         NEW srcs \in [Keys -> Subs \cup {None, Unset}],
         NEW tok \in Token, NEW source \in Subs \cup {None},
         FileUnderItsOwnTenant(toks, srcs, tok, source)
  PROVE  /\ tokens' \in [Keys -> Token \cup {NoToken}]
         /\ sources' \in [Keys -> Subs \cup {None, Unset}]
  BY DEF FileUnderItsOwnTenant, Token, Keys

LEMMA RememberTypes ==
  ASSUME TypeOK, NEW key \in Keys, NEW source \in Subs \cup {None}
  PROVE  Remember(key, source) \in [Keys -> Subs \cup {None, Unset}]
  BY DEF Remember, TypeOK

LEMMA AzTokenTypes ==
  ASSUME TypeOK, NEW source \in Subs \cup {None, Unset}, NEW life \in Lifetimes
  PROVE  [tenant |-> AzTenant(source), expires |-> now + life] \in Token
  BY ConstantsAssumption DEF AzTenant, Token, TypeOK

\* A worker that is inside a request knows against which subscription.
TargetInv == \A w \in Workers : pc[w] # "idle" => target[w] \in Scope

LEMMA TypeInit == Init => TypeOK /\ TargetInv
  BY ConstantsAssumption DEF Init, TypeOK, TargetInv

LEMMA TargetStep == TypeOK /\ TargetInv /\ [Next]_vars => TargetInv'
  <1> SUFFICES ASSUME TypeOK, TargetInv, [Next]_vars PROVE TargetInv'
    OBVIOUS
  <1> USE DEF TypeOK, TargetInv
  <1>1. CASE MainStep
    BY <1>1 DEF MainStep, Construct, Prepare, WarmAnswers, WarmFails, StartPool
  <1>2. ASSUME NEW w \in Workers, NEW s \in Scope, Request(w, s) PROVE TargetInv'
    BY <1>2, ConstantsAssumption DEF Request
  <1>3. ASSUME NEW w \in Workers, Progress(w) PROVE TargetInv'
    BY <1>3 DEF Progress, FastPath, SlowPath, FoundRefreshed, StartAz, AzAnswers,
                AzFails, Answered, SendWith, Finish
  <1>4. CASE Tick \/ (\E tenant \in Tenants : AccountSet(tenant)) \/ UNCHANGED vars
    BY <1>4 DEF Tick, AccountSet, vars
  <1>. QED BY <1>1, <1>2, <1>3, <1>4 DEF Next

LEMMA TypeStep == TypeOK /\ TargetInv /\ [Next]_vars => TypeOK'
  <1> SUFFICES ASSUME TypeOK, TargetInv, [Next]_vars PROVE TypeOK'
    OBVIOUS
  <1>1. CASE Construct
    <2>1. DEFAULT_TENANT \in Keys /\ NamedSub \in Subs \cup {None}
      BY ConstantsAssumption DEF Keys
    <2>2. sources' \in [Keys -> Subs \cup {None, Unset}]
      BY <1>1, <2>1, RememberTypes DEF Construct, WarmMiss
    <2>. QED BY <1>1, <2>1, <2>2 DEF Construct, WarmMiss, TypeOK
  <1>2. ASSUME NEW s \in Prepared, Prepare(s) PROVE TypeOK'
    <2>1. s \in Subs /\ KeyOf(s) \in Keys /\ SourceOf(s) \in Subs
      BY KeyFacts, ConstantsAssumption
    <2>2. Remember(KeyOf(s), SourceOf(s)) \in [Keys -> Subs \cup {None, Unset}]
      BY <2>1, RememberTypes
    <2>3. CASE WarmHit(KeyOf(s), SourceOf(s))
      <3>1. tokens[KeyOf(s)] \in Token /\ tokens \in [Keys -> Token \cup {NoToken}]
        BY <2>1, <2>3 DEF WarmHit, Usable, TypeOK
      <3>2. /\ tokens' \in [Keys -> Token \cup {NoToken}]
            /\ sources' \in [Keys -> Subs \cup {None, Unset}]
        BY <2>1, <2>2, <2>3, <3>1, FileTypes DEF WarmHit
      <3>. QED BY <1>2, <2>3, <3>2 DEF Prepare, WarmHit, TypeOK
    <2>4. CASE WarmMiss(KeyOf(s), SourceOf(s))
      BY <1>2, <2>1, <2>2, <2>4 DEF Prepare, WarmMiss, TypeOK
    <2>. QED BY <1>2, <2>3, <2>4 DEF Prepare
  <1>3. CASE WarmAnswers
    <2>1. PICK life \in Lifetimes : WarmAnswered(life)
      BY <1>3 DEF WarmAnswers
    <2>2. /\ warming.key \in Keys /\ warming.source \in Subs \cup {None}
          /\ sources[warming.key] \in Subs \cup {None, Unset}
      BY <2>1 DEF WarmAnswered, TypeOK
    <2> DEFINE tok == [tenant |-> AzTenant(sources[warming.key]), expires |-> now + life]
    <2>3. tok \in Token
      BY <2>2, AzTokenTypes
    <2>4. [tokens EXCEPT ![warming.key] = tok] \in [Keys -> Token \cup {NoToken}]
      BY <2>2, <2>3 DEF TypeOK
    <2>5. FileUnderItsOwnTenant([tokens EXCEPT ![warming.key] = tok], sources, tok, warming.source)
      BY <2>1 DEF WarmAnswered
    <2>6. sources \in [Keys -> Subs \cup {None, Unset}]
      BY DEF TypeOK
    <2> HIDE DEF tok
    <2>7. /\ tokens' \in [Keys -> Token \cup {NoToken}]
          /\ sources' \in [Keys -> Subs \cup {None, Unset}]
      BY <2>2, <2>3, <2>4, <2>5, <2>6, FileTypes
    <2>. QED BY <1>3, <2>1, <2>7 DEF WarmAnswers, WarmAnswered, TypeOK
  <1>4. CASE WarmFails
    BY <1>4 DEF WarmFails, TypeOK
  <1>5. CASE StartPool
    BY <1>5 DEF StartPool, TypeOK
  <1>6. ASSUME NEW w \in Workers, NEW s \in Scope, Request(w, s) PROVE TypeOK'
    <2>1. s \in Subs /\ KeyOf(s) \in Keys
      BY KeyFacts, ConstantsAssumption
    <2>. QED BY <1>6, <2>1 DEF Request, TypeOK
  <1>7. ASSUME NEW w \in Workers, Progress(w) PROVE TypeOK'
    <2>1. CASE FastPath(w)
      BY <2>1, ConstantsAssumption DEF FastPath, SendWith, TypeOK
    <2>2. CASE SlowPath(w)
      BY <2>2 DEF SlowPath, TypeOK
    <2>3. CASE FoundRefreshed(w)
      <3>1. tokens[KeyOf(target[w])] \in Token
        <4>1. KeyOf(target[w]) \in Keys
          BY <2>3, KeyFacts, ConstantsAssumption DEF FoundRefreshed, TargetInv
        <4>. QED BY <2>3, <4>1 DEF FoundRefreshed, Usable, TypeOK
      <3>. QED BY <2>3, <3>1, ConstantsAssumption DEF FoundRefreshed, SendWith, TypeOK
    <2>4. CASE StartAz(w)
      BY <2>4 DEF StartAz, TypeOK
    <2>5. CASE AzAnswers(w)
      <3> DEFINE key == KeyOf(target[w])
                 token(life) == [tenant |-> AzTenant(sources[key]), expires |-> now + life]
      <3>1. key \in Keys /\ sources[key] \in Subs \cup {None, Unset}
        <4>1. key \in Keys
          BY <2>5, KeyFacts, ConstantsAssumption DEF AzAnswers, TargetInv
        <4>. QED BY <4>1 DEF TypeOK
      <3>2. PICK life \in Lifetimes :
              tokens' = [tokens EXCEPT ![key] = token(life)] /\ SendWith(w, token(life))
        BY <2>5 DEF AzAnswers
      <3>3. token(life) \in Token
        BY <3>1, AzTokenTypes
      <3>4. lock' = None /\ UNCHANGED <<now, azDefault, mainVars, sources, target, calls>>
        BY <2>5 DEF AzAnswers
      <3> HIDE DEF key, token
      <3>. QED BY <3>1, <3>2, <3>3, <3>4, ConstantsAssumption DEF SendWith, TypeOK
    <2>6. CASE AzFails(w)
      BY <2>6 DEF AzFails, Finish, TypeOK
    <2>7. CASE Answered(w)
      BY <2>7 DEF Answered, Finish, TypeOK
    <2>. QED BY <1>7, <2>1, <2>2, <2>3, <2>4, <2>5, <2>6, <2>7 DEF Progress
  <1>8. CASE Tick
    BY <1>8 DEF Tick, TypeOK
  <1>9. ASSUME NEW tenant \in Tenants, AccountSet(tenant) PROVE TypeOK'
    BY <1>9 DEF AccountSet, TypeOK
  <1>10. CASE UNCHANGED vars
    BY <1>10 DEF vars, TypeOK
  <1>. QED BY <1>1, <1>2, <1>3, <1>4, <1>5, <1>6, <1>7, <1>8, <1>9, <1>10
       DEF Next, MainStep

\* Every variable keeps its type: in particular the table holds only tokens,
\* whatever az answers and however the threads interleave.
THEOREM TypeCorrect == Spec => [](TypeOK /\ TargetInv)
  <1>1. TypeOK /\ TargetInv /\ [Next]_vars => (TypeOK /\ TargetInv)'
    BY TypeStep, TargetStep
  <1>. QED BY <1>1, TypeInit, PTL DEF Spec

----------------------------------------------------------------------------
(* The lock.                                                               *)

\* Whoever runs `az` holds the lock, and the main thread is done with it
\* before a worker moves.
LockInv ==
  /\ warming # None <=> lock = Main
  /\ \A w \in Workers : pc[w] = "az" <=> lock = w
  /\ warming # None => phase \in {"constructing", "preparing"}
  /\ phase # "pool" => \A w \in Workers : pc[w] = "idle"

LEMMA LockInit == Init => LockInv
  BY ConstantsAssumption DEF Init, LockInv

LEMMA LockStep == TypeOK /\ LockInv /\ [Next]_vars => LockInv'
  <1> SUFFICES ASSUME TypeOK, LockInv, [Next]_vars PROVE LockInv'
    OBVIOUS
  <1> USE Distinct DEF LockInv
  <1>1. CASE Construct
    <2>1. DEFAULT_TENANT \in Keys /\ NamedSub \in Subs \cup {None}
      BY ConstantsAssumption DEF Keys
    <2>. QED BY <1>1, <2>1 DEF Construct, WarmMiss
  <1>2. ASSUME NEW s \in Prepared, Prepare(s) PROVE LockInv'
    <2>1. KeyOf(s) \in Keys /\ SourceOf(s) \in Subs
      BY KeyFacts, ConstantsAssumption
    <2>. QED BY <1>2, <2>1 DEF Prepare, WarmHit, WarmMiss
  <1>3. CASE WarmAnswers
    <2>1. warming # None /\ warming' = None /\ lock' = None
          /\ phase' = "preparing" /\ UNCHANGED workerVars
      BY <1>3 DEF WarmAnswers, WarmAnswered
    <2>. QED BY <2>1
  <1>4. CASE WarmFails
    BY <1>4 DEF WarmFails
  <1>5. CASE StartPool
    BY <1>5 DEF StartPool
  <1>6. ASSUME NEW w \in Workers, NEW s \in Scope, Request(w, s) PROVE LockInv'
    BY <1>6 DEF Request, TypeOK
  <1>7. ASSUME NEW w \in Workers, Progress(w) PROVE LockInv'
    <2>1. CASE FastPath(w) \/ SlowPath(w) \/ FoundRefreshed(w)
      BY <2>1 DEF FastPath, SlowPath, FoundRefreshed, SendWith, TypeOK
    <2>2. CASE StartAz(w)
      BY <2>2 DEF StartAz, TypeOK
    <2>3. CASE AzAnswers(w)
      <3>1. lock' = None /\ pc' = [pc EXCEPT ![w] = "sending"] /\ pc[w] = "az"
            /\ UNCHANGED mainVars
        BY <2>3 DEF AzAnswers, SendWith
      <3>. QED BY <3>1 DEF TypeOK
    <2>4. CASE AzFails(w)
      BY <2>4 DEF AzFails, Finish, TypeOK
    <2>5. CASE Answered(w)
      BY <2>5 DEF Answered, Finish, TypeOK
    <2>. QED BY <1>7, <2>1, <2>2, <2>3, <2>4, <2>5 DEF Progress
  <1>8. CASE Tick \/ (\E tenant \in Tenants : AccountSet(tenant)) \/ UNCHANGED vars
    BY <1>8 DEF Tick, AccountSet, vars
  <1>. QED BY <1>1, <1>2, <1>3, <1>4, <1>5, <1>6, <1>7, <1>8 DEF Next, MainStep

\* What every later proof starts from.
Base == TypeOK /\ TargetInv /\ LockInv

LEMMA BaseCorrect == Spec => []Base
  <1>1. Base /\ [Next]_vars => Base'
    BY TypeStep, TargetStep, LockStep DEF Base
  <1>2. Init => Base
    BY TypeInit, LockInit DEF Base
  <1>. QED BY <1>1, <1>2, PTL DEF Spec

\* At most one `az` process at a time, in prepare and in the pool alike
\* (azure.py:320-325).
THEOREM OneAz == Spec => []OneAzAtATime
  <1>1. Base => OneAzAtATime
    BY Distinct DEF Base, LockInv, OneAzAtATime, RunningAz
  <1>. QED BY <1>1, BaseCorrect, PTL

----------------------------------------------------------------------------
(* Time.                                                                   *)

\* A request in flight has a token that outlives its deadline.
InFlightInv ==
  \A w \in Workers : pc[w] = "sending" =>
    /\ seen[w] \in Token
    /\ now <= deadline[w]
    /\ deadline[w] < seen[w].expires

LEMMA SendStep ==
  ASSUME TypeOK, InFlightInv, NEW w \in Workers, NEW tok \in Token,
         SendWith(w, tok), now' = now, now + SKEW < tok.expires
  PROVE  InFlightInv'
  BY ConstantsAssumption, TimeAssumption DEF SendWith, TypeOK, InFlightInv, Token

LEMMA InFlightStep ==
  ASSUME TypeOK, TargetInv, LockInv, InFlightInv, [Next]_vars
  PROVE  InFlightInv'
  <1>1. CASE MainStep
    BY <1>1 DEF MainStep, Construct, Prepare, WarmAnswers, WarmFails, StartPool, InFlightInv
  <1>2. ASSUME NEW w \in Workers, NEW s \in Scope, Request(w, s) PROVE InFlightInv'
    BY <1>2 DEF Request, TypeOK, InFlightInv
  <1>3. ASSUME NEW w \in Workers, Progress(w) PROVE InFlightInv'
    <2>1. pc[w] # "idle" => target[w] \in Subs /\ KeyOf(target[w]) \in Keys
      BY KeyFacts, ConstantsAssumption DEF TargetInv
    <2>2. CASE FastPath(w)
      <3>1. seen[w] \in Token /\ now + SKEW < seen[w].expires
        BY <2>2, ConstantsAssumption DEF FastPath, Usable, TypeOK, Token
      <3>. QED BY <2>2, <3>1, SendStep DEF FastPath
    <2>3. CASE SlowPath(w) \/ StartAz(w)
      BY <2>3 DEF SlowPath, StartAz, TypeOK, InFlightInv
    <2>4. CASE FoundRefreshed(w)
      <3> DEFINE tok == tokens[KeyOf(target[w])]
      <3>1. tok \in Token
        BY <2>1, <2>4 DEF FoundRefreshed, Usable, TypeOK
      <3>2. now + SKEW < tok.expires /\ SendWith(w, tok) /\ now' = now
        BY <2>4, <3>1, ConstantsAssumption DEF FoundRefreshed, Usable, TypeOK, Token
      <3>. QED BY <3>1, <3>2, SendStep
    <2>5. CASE AzAnswers(w)
      <3> DEFINE key == KeyOf(target[w])
                 token(life) == [tenant |-> AzTenant(sources[key]), expires |-> now + life]
      <3>1. PICK life \in Lifetimes : SendWith(w, token(life))
        BY <2>5 DEF AzAnswers
      <3>2. now' = now /\ pc[w] = "az"
        BY <2>5 DEF AzAnswers
      <3>3. sources[key] \in Subs \cup {None, Unset}
        BY <2>1, <3>2 DEF TypeOK
      <3>4. token(life) \in Token
        BY <3>3, AzTokenTypes
      <3>5. now + SKEW < token(life).expires
        BY ConstantsAssumption, TimeAssumption DEF TypeOK
      <3> HIDE DEF key, token
      <3>. QED BY <3>1, <3>2, <3>4, <3>5, SendStep
    <2>6. CASE AzFails(w) \/ Answered(w)
      BY <2>6 DEF AzFails, Answered, Finish, TypeOK, InFlightInv
    <2>. QED BY <1>3, <2>2, <2>3, <2>4, <2>5, <2>6 DEF Progress
  <1>4. CASE Tick
    BY <1>4 DEF Tick, TypeOK, InFlightInv
  <1>5. CASE (\E tenant \in Tenants : AccountSet(tenant)) \/ UNCHANGED vars
    BY <1>5 DEF AccountSet, vars, InFlightInv
  <1>. QED BY <1>1, <1>2, <1>3, <1>4, <1>5 DEF Next

LEMMA InFlightCorrect == Spec => []InFlightInv
  <1>1. Init => InFlightInv
    BY DEF Init, InFlightInv
  <1>2. Base /\ InFlightInv /\ [Next]_vars => InFlightInv'
    BY InFlightStep DEF Base
  <1>. QED BY <1>1, <1>2, BaseCorrect, PTL DEF Spec

\* SKEW is enough: a request of at most RequestTimeout seconds never runs on
\* an expired token (azure.py:331-333).
THEOREM InTime == Spec => []NoRequestOutlivesItsToken
  <1>1. Base /\ InFlightInv => NoRequestOutlivesItsToken
    BY DEF Base, TypeOK, InFlightInv, NoRequestOutlivesItsToken, Token
  <1>. QED BY <1>1, BaseCorrect, InFlightCorrect, PTL

----------------------------------------------------------------------------
(* Tenants.                                                                *)

\* The tenant a cache key stands for; DEFAULT_TENANT stands for none.
TenantOf(k) == IF k \in Tenants THEN k ELSE Home[k]

\* What is stored under a key, and what it is minted from, belong to the
\* key's tenant; every subscription prepare has warmed has a named source.
SourcesInv ==
  /\ \A k \in Tenants \cup Subs : sources[k] \in Subs => Home[sources[k]] = TenantOf(k)
  /\ \A s \in warmed : sources[KeyOf(s)] \in Subs
  /\ phase = "pool" => warmed = Prepared
  /\ warming # None =>
       /\ warming.source \in Subs => sources[warming.key] = warming.source
       /\ warming.key # DEFAULT_TENANT => warming.source \in Subs

TenantsInv ==
  /\ \A k \in Tenants \cup Subs : tokens[k] # NoToken => tokens[k].tenant = TenantOf(k)
  /\ \A w \in Workers :
       pc[w] \in {"check", "sending"} /\ seen[w] # NoToken =>
         seen[w].tenant = Home[target[w]]

LEMMA TenantFacts ==
  /\ \A s \in Subs : KeyOf(s) \in Tenants \cup Subs /\ TenantOf(KeyOf(s)) = Home[s]
  /\ \A t \in Tenants : TenantOf(t) = t
  /\ Tenants \cup Subs \subseteq Keys /\ DEFAULT_TENANT \notin Tenants \cup Subs
  /\ \A k \in Keys : k # DEFAULT_TENANT => k \in Tenants \cup Subs
  BY KeyFacts, ConstantsAssumption DEF TenantOf, Keys, KeyOf

\* A source filed, or remembered, for a key belongs to the key's tenant.
LEMMA FileSources ==
  ASSUME NEW toks, NEW srcs \in [Keys -> Subs \cup {None, Unset}],
         NEW tok \in Token, NEW source \in Subs \cup {None},
         FileUnderItsOwnTenant(toks, srcs, tok, source),
         \A k \in Tenants \cup Subs : srcs[k] \in Subs => Home[srcs[k]] = TenantOf(k),
         source \in Subs => Home[source] = tok.tenant
  PROVE  /\ \A k \in Tenants \cup Subs :
              sources'[k] \in Subs => Home[sources'[k]] = TenantOf(k)
         /\ \A k \in Keys : srcs[k] \in Subs => sources'[k] = srcs[k]
  <1>1. tok.tenant \in Tenants /\ tok.tenant \in Keys
    BY DEF Token, Keys
  <1>2. CASE sources' = srcs
    BY <1>2
  <1>3. CASE sources' = [srcs EXCEPT ![tok.tenant] = IF @ = Unset THEN source ELSE @]
    <2>1. sources'[tok.tenant] = IF srcs[tok.tenant] = Unset THEN source ELSE srcs[tok.tenant]
      BY <1>1, <1>3
    <2>2. \A k \in Keys : k # tok.tenant => sources'[k] = srcs[k]
      BY <1>1, <1>3
    <2>. QED BY <1>1, <2>1, <2>2, TenantFacts, Distinct
  <1>. QED BY <1>2, <1>3 DEF FileUnderItsOwnTenant

LEMMA FileTokens ==
  ASSUME NEW toks \in [Keys -> Token \cup {NoToken}], NEW srcs,
         NEW tok \in Token, NEW source,
         FileUnderItsOwnTenant(toks, srcs, tok, source),
         \A k \in Tenants \cup Subs : toks[k] # NoToken => toks[k].tenant = TenantOf(k)
  PROVE  \A k \in Tenants \cup Subs : tokens'[k] # NoToken => tokens'[k].tenant = TenantOf(k)
  <1>1. tok.tenant \in Tenants /\ tok.tenant \in Keys
    BY DEF Token, Keys
  <1>. QED BY <1>1, TenantFacts DEF FileUnderItsOwnTenant

LEMMA RememberSources ==
  ASSUME TypeOK, SourcesInv, NEW s \in Subs
  PROVE  LET srcs == Remember(KeyOf(s), SourceOf(s))
         IN  /\ \A k \in Tenants \cup Subs : srcs[k] \in Subs => Home[srcs[k]] = TenantOf(k)
             /\ srcs[KeyOf(s)] = SourceOf(s)
             /\ \A k \in Keys : sources[k] \in Subs => srcs[k] \in Subs
  BY KeyFacts, TenantFacts, Distinct DEF Remember, TypeOK, SourcesInv

LEMMA SourcesStep ==
  ASSUME TypeOK, LockInv, SourcesInv, TenantsInv, MainStep
  PROVE  SourcesInv'
  <1>1. CASE Construct
    <2>1. sources' = Remember(DEFAULT_TENANT, NamedSub) /\ warming' # None
          /\ warming' = [key |-> DEFAULT_TENANT, source |-> NamedSub]
          /\ UNCHANGED warmed /\ phase' = "constructing"
      BY <1>1, ConstantsAssumption, Distinct DEF Construct, WarmMiss, Keys
    <2>2. /\ \A k \in Keys : k # DEFAULT_TENANT => sources'[k] = sources[k]
          /\ NamedSub \in Subs => sources'[DEFAULT_TENANT] = NamedSub
      BY <2>1, Distinct DEF Remember, TypeOK, Keys
    <2>3. \A s \in warmed : KeyOf(s) \in Keys /\ KeyOf(s) # DEFAULT_TENANT
      BY KeyFacts, ConstantsAssumption DEF TypeOK
    <2>. QED BY <2>1, <2>2, <2>3, TenantFacts DEF SourcesInv
  <1>2. ASSUME NEW s \in Prepared, Prepare(s) PROVE SourcesInv'
    <2> DEFINE srcs == Remember(KeyOf(s), SourceOf(s))
    <2>1. s \in Subs /\ KeyOf(s) \in Keys /\ SourceOf(s) \in Subs
          /\ Home[SourceOf(s)] = Home[s]
      BY KeyFacts, ConstantsAssumption
    <2>2. /\ \A k \in Tenants \cup Subs : srcs[k] \in Subs => Home[srcs[k]] = TenantOf(k)
          /\ srcs[KeyOf(s)] = SourceOf(s)
          /\ \A k \in Keys : sources[k] \in Subs => srcs[k] \in Subs
      BY <2>1, RememberSources
    <2>3. srcs \in [Keys -> Subs \cup {None, Unset}]
      BY <2>1, RememberTypes
    <2>4. \A r \in warmed' : KeyOf(r) \in Keys /\ (r \in warmed \/ r = s)
      BY <1>2, KeyFacts, ConstantsAssumption DEF Prepare, TypeOK
    <2>5. phase' = "preparing" /\ warmed' = warmed \cup {s}
      BY <1>2 DEF Prepare
    <2>6. CASE WarmHit(KeyOf(s), SourceOf(s))
      <3>1. /\ tokens[KeyOf(s)] \in Token
            /\ tokens[KeyOf(s)].tenant = Home[s]
        BY <2>1, <2>6, TenantFacts DEF WarmHit, Usable, TypeOK, TenantsInv
      <3>2. FileUnderItsOwnTenant(tokens, srcs, tokens[KeyOf(s)], SourceOf(s))
            /\ warming' = warming /\ lock = None
        BY <2>6 DEF WarmHit
      <3> HIDE DEF srcs
      <3>3. /\ \A k \in Tenants \cup Subs :
                 sources'[k] \in Subs => Home[sources'[k]] = TenantOf(k)
            /\ \A k \in Keys : srcs[k] \in Subs => sources'[k] = srcs[k]
        BY <2>1, <2>2, <2>3, <3>1, <3>2, FileSources
      <3>4. warming' = None
        BY <3>2, Distinct DEF LockInv
      <3>. QED BY <2>1, <2>2, <2>4, <2>5, <3>3, <3>4 DEF SourcesInv
    <2>7. CASE WarmMiss(KeyOf(s), SourceOf(s))
      <3>1. sources' = srcs /\ warming' = [key |-> KeyOf(s), source |-> SourceOf(s)]
        BY <2>7 DEF WarmMiss
      <3> HIDE DEF srcs
      <3>. QED BY <2>1, <2>2, <2>4, <2>5, <3>1 DEF SourcesInv
    <2>. QED BY <1>2, <2>6, <2>7 DEF Prepare
  <1>3. CASE WarmAnswers
    <2>1. PICK life \in Lifetimes : WarmAnswered(life)
      BY <1>3 DEF WarmAnswers
    <2> DEFINE tok == [tenant |-> AzTenant(sources[warming.key]), expires |-> now + life]
    <2>2. /\ warming # None /\ warming.key \in Keys /\ warming.source \in Subs \cup {None}
          /\ sources \in [Keys -> Subs \cup {None, Unset}]
      BY <2>1 DEF WarmAnswered, TypeOK
    <2>3. tok \in Token
      BY <2>2, AzTokenTypes
    <2>4. warming.source \in Subs => Home[warming.source] = tok.tenant
      BY <2>2 DEF SourcesInv, AzTenant
    <2>5. FileUnderItsOwnTenant([tokens EXCEPT ![warming.key] = tok], sources, tok, warming.source)
          /\ warming' = None /\ phase' = "preparing" /\ warmed' = warmed
      BY <1>3, <2>1 DEF WarmAnswers, WarmAnswered
    <2> HIDE DEF tok
    <2>6. /\ \A k \in Tenants \cup Subs :
               sources'[k] \in Subs => Home[sources'[k]] = TenantOf(k)
          /\ \A k \in Keys : sources[k] \in Subs => sources'[k] = sources[k]
      BY <2>2, <2>3, <2>4, <2>5, FileSources DEF SourcesInv
    <2>7. \A s \in warmed : KeyOf(s) \in Keys
      BY KeyFacts, ConstantsAssumption DEF TypeOK
    <2>. QED BY <2>5, <2>6, <2>7 DEF SourcesInv
  <1>4. CASE WarmFails \/ StartPool
    BY <1>4 DEF WarmFails, StartPool, SourcesInv
  <1>. QED BY <1>1, <1>2, <1>3, <1>4 DEF MainStep

LEMMA SourcesStepAll ==
  ASSUME TypeOK, LockInv, SourcesInv, TenantsInv, [Next]_vars
  PROVE  SourcesInv'
  <1>1. CASE MainStep
    BY <1>1, SourcesStep
  <1>2. ASSUME NEW w \in Workers, Progress(w) \/ \E s \in Scope : Request(w, s)
        PROVE  SourcesInv'
    <2>1. UNCHANGED <<phase, warmed, warming, sources>>
      BY <1>2 DEF Progress, Request, FastPath, SlowPath, FoundRefreshed, StartAz,
                  AzAnswers, AzFails, Answered
    <2>. QED BY <2>1 DEF SourcesInv
  <1>3. CASE Tick \/ (\E tenant \in Tenants : AccountSet(tenant)) \/ UNCHANGED vars
    BY <1>3 DEF Tick, AccountSet, vars, SourcesInv
  <1>. QED BY <1>1, <1>2, <1>3 DEF Next

LEMMA TenantsStep ==
  ASSUME Scope \subseteq Prepared,
         TypeOK, TargetInv, LockInv, SourcesInv, TenantsInv, [Next]_vars
  PROVE  TenantsInv'
  <1>1. CASE Construct
    BY <1>1 DEF Construct, WarmMiss, TenantsInv
  <1>2. ASSUME NEW s \in Prepared, Prepare(s) PROVE TenantsInv'
    <2>1. s \in Subs /\ KeyOf(s) \in Keys
      BY KeyFacts, ConstantsAssumption
    <2>2. UNCHANGED <<pc, target, seen>>
      BY <1>2 DEF Prepare
    <2>3. CASE WarmHit(KeyOf(s), SourceOf(s))
      <3>1. tokens[KeyOf(s)] \in Token /\ tokens \in [Keys -> Token \cup {NoToken}]
        BY <2>1, <2>3 DEF WarmHit, Usable, TypeOK
      <3>2. \A k \in Tenants \cup Subs : tokens'[k] # NoToken => tokens'[k].tenant = TenantOf(k)
        BY <2>3, <3>1, FileTokens DEF WarmHit, TenantsInv
      <3>. QED BY <2>2, <3>2 DEF TenantsInv
    <2>4. CASE WarmMiss(KeyOf(s), SourceOf(s))
      BY <2>2, <2>4 DEF WarmMiss, TenantsInv
    <2>. QED BY <1>2, <2>3, <2>4 DEF Prepare
  <1>3. CASE WarmAnswers
    <2>1. PICK life \in Lifetimes : WarmAnswered(life)
      BY <1>3 DEF WarmAnswers
    <2> DEFINE tok == [tenant |-> AzTenant(sources[warming.key]), expires |-> now + life]
               toks == [tokens EXCEPT ![warming.key] = tok]
    <2>2. /\ warming # None /\ warming.key \in Keys
          /\ sources[warming.key] \in Subs \cup {None, Unset}
          /\ tokens \in [Keys -> Token \cup {NoToken}]
      BY <2>1 DEF WarmAnswered, TypeOK
    <2>3. tok \in Token
      BY <2>2, AzTokenTypes
    <2>4. warming.key \in Tenants \cup Subs => tok.tenant = TenantOf(warming.key)
      BY <2>2, TenantFacts DEF SourcesInv, AzTenant
    <2>5. FileUnderItsOwnTenant(toks, sources, tok, warming.source)
          /\ UNCHANGED <<pc, target, seen>>
      BY <1>3, <2>1 DEF WarmAnswers, WarmAnswered
    <2> HIDE DEF tok
    <2>6. toks \in [Keys -> Token \cup {NoToken}]
      BY <2>2, <2>3
    <2>7. \A k \in Tenants \cup Subs : toks[k] # NoToken => toks[k].tenant = TenantOf(k)
      BY <2>2, <2>4, TenantFacts DEF TenantsInv
    <2> HIDE DEF toks
    <2>8. \A k \in Tenants \cup Subs : tokens'[k] # NoToken => tokens'[k].tenant = TenantOf(k)
      BY <2>3, <2>5, <2>6, <2>7, FileTokens
    <2>. QED BY <2>5, <2>8 DEF TenantsInv
  <1>4. CASE WarmFails \/ StartPool
    BY <1>4 DEF WarmFails, StartPool, TenantsInv
  <1>5. ASSUME NEW w \in Workers, NEW s \in Scope, Request(w, s) PROVE TenantsInv'
    <2>1. s \in Subs /\ KeyOf(s) \in Tenants \cup Subs /\ TenantOf(KeyOf(s)) = Home[s]
      BY TenantFacts, ConstantsAssumption
    <2>2. tokens[KeyOf(s)] # NoToken => tokens[KeyOf(s)].tenant = Home[s]
      BY <2>1 DEF TenantsInv
    <2>. QED BY <1>5, <2>2 DEF Request, TypeOK, TenantsInv
  <1>6. ASSUME NEW w \in Workers, Progress(w) PROVE TenantsInv'
    <2>1. pc[w] # "idle" =>
            /\ target[w] \in Subs /\ KeyOf(target[w]) \in Tenants \cup Subs
            /\ TenantOf(KeyOf(target[w])) = Home[target[w]]
            /\ KeyOf(target[w]) \in Keys
            /\ sources[KeyOf(target[w])] \in Subs
      BY TenantFacts, ConstantsAssumption, Zenon DEF TargetInv, LockInv, SourcesInv
    <2>2. CASE FastPath(w) \/ SlowPath(w)
      BY <2>2 DEF FastPath, SlowPath, SendWith, TypeOK, TenantsInv
    <2>3. CASE FoundRefreshed(w)
      <3>1. tokens[KeyOf(target[w])].tenant = Home[target[w]]
        BY <2>1, <2>3 DEF FoundRefreshed, Usable, TenantsInv
      <3>. QED BY <2>3, <3>1 DEF FoundRefreshed, SendWith, TypeOK, TenantsInv
    <2>4. CASE StartAz(w)
      BY <2>4 DEF StartAz, TypeOK, TenantsInv
    <2>5. CASE AzAnswers(w)
      <3> DEFINE key == KeyOf(target[w])
                 token(life) == [tenant |-> AzTenant(sources[key]), expires |-> now + life]
      <3>1. pc[w] = "az" /\ target' = target
        BY <2>5 DEF AzAnswers
      <3>2. AzTenant(sources[key]) = Home[target[w]]
        BY <2>1, <3>1 DEF SourcesInv, AzTenant
      <3>3. PICK life \in Lifetimes :
              tokens' = [tokens EXCEPT ![key] = token(life)] /\ SendWith(w, token(life))
        BY <2>5 DEF AzAnswers
      <3>4. token(life).tenant = Home[target[w]] /\ TenantOf(key) = Home[target[w]]
        BY <2>1, <3>1, <3>2
      <3> HIDE DEF key, token
      <3>5. \A k \in Tenants \cup Subs : tokens'[k] # NoToken => tokens'[k].tenant = TenantOf(k)
        BY <3>3, <3>4, TenantFacts DEF TypeOK, TenantsInv
      <3>6. \A v \in Workers : pc'[v] \in {"check", "sending"} /\ seen'[v] # NoToken =>
              seen'[v].tenant = Home[target'[v]]
        BY <3>1, <3>3, <3>4 DEF SendWith, TypeOK, TenantsInv
      <3>. QED BY <3>5, <3>6 DEF TenantsInv
    <2>6. CASE AzFails(w) \/ Answered(w)
      BY <2>6 DEF AzFails, Answered, Finish, TypeOK, TenantsInv
    <2>. QED BY <1>6, <2>2, <2>3, <2>4, <2>5, <2>6 DEF Progress
  <1>7. CASE Tick \/ (\E tenant \in Tenants : AccountSet(tenant)) \/ UNCHANGED vars
    BY <1>7 DEF Tick, AccountSet, vars, TenantsInv
  <1>. QED BY <1>1, <1>2, <1>3, <1>4, <1>5, <1>6, <1>7 DEF Next, MainStep

\* When every subscription a request can name has been prepared, a request
\* carries a token of its subscription's tenant: across refreshes, and
\* whatever `az account set` does meanwhile (azure.py:310-316, 524-534).
THEOREM RightTenant ==
  ASSUME Scope \subseteq Prepared
  PROVE  Spec => []TokenOfTheRightTenant
  <1> DEFINE IInv == Base /\ SourcesInv /\ TenantsInv
  <1>1. Init => IInv
    BY TypeInit, LockInit, Distinct, ConstantsAssumption, TenantFacts
       DEF Base, Init, SourcesInv, TenantsInv
  <1>2. IInv /\ [Next]_vars => IInv'
    BY TypeStep, TargetStep, LockStep, SourcesStepAll, TenantsStep DEF Base
  <1>3. IInv /\ InFlightInv => TokenOfTheRightTenant
    BY Distinct DEF InFlightInv, TenantsInv, TokenOfTheRightTenant
  <1>. QED BY <1>1, <1>2, <1>3, InFlightCorrect, PTL DEF Spec

----------------------------------------------------------------------------
(* Single flight: the cache implements TokenStore.                         *)

LEMMA MintingFacts ==
  ASSUME Base
  PROVE  /\ lock = None => Minting = None
         /\ warming # None => Minting = warming.key /\ Minting \in Keys
         /\ \A w \in Workers : pc[w] = "az" =>
              /\ Minting = KeyOf(target[w])
              /\ Minting \in Keys
         /\ Minting \in Keys \cup {None}
         /\ Minting = None => lock = None
  <1>1. \A w \in Workers : pc[w] = "az" => target[w] \in Subs /\ KeyOf(target[w]) \in Keys
    BY KeyFacts, ConstantsAssumption DEF Base, TargetInv
  <1>. QED BY <1>1, Distinct DEF Base, TypeOK, LockInv, Minting

\* Steps that leave the table and the lock alone keep the key being minted.
LEMMA Undisturbed ==
  ASSUME Base, UNCHANGED <<lock, tokens, warming>>,
         \A w \in Workers : pc[w] = "az" => target'[w] = target[w]
  PROVE  UNCHANGED <<tokens, Minting>>
  BY Distinct DEF Base, TypeOK, LockInv, Minting

\* Every step of Credential is a step of TokenStore, or leaves it alone.
LEMMA StepRefines ==
  ASSUME Base, [Next]_vars
  PROVE  [Store!Next]_<<now, tokens, Minting>>
  <1> USE DEF Store!Next, Store!StartMint, Store!EndMint, Store!FailMint, Store!File,
              Store!Usable, Usable
  <1>1. CASE Construct
    <2>1. Minting = None /\ Minting' = DEFAULT_TENANT /\ DEFAULT_TENANT \in Keys
          /\ ~Usable(tokens[DEFAULT_TENANT]) /\ UNCHANGED <<now, tokens>>
      BY <1>1, MintingFacts, Distinct DEF Construct, WarmMiss, Minting, Keys
    <2>. QED BY <2>1
  <1>2. ASSUME NEW s \in Prepared, Prepare(s)
        PROVE  [Store!Next]_<<now, tokens, Minting>>
    <2>1. s \in Subs /\ KeyOf(s) \in Keys
      BY KeyFacts, ConstantsAssumption
    <2>2. CASE WarmHit(KeyOf(s), SourceOf(s))
      <3>1. tokens[KeyOf(s)] \in Token /\ tokens \in [Keys -> Token \cup {NoToken}]
        BY <2>1, <2>2 DEF WarmHit, Base, TypeOK
      <3>2. Minting = None /\ Minting' = None /\ now' = now
        BY <1>2, <2>2, MintingFacts DEF Prepare, WarmHit, Minting
      <3>3. \/ tokens' = tokens
            \/ /\ tokens[tokens[KeyOf(s)].tenant] = NoToken
               /\ tokens' = [tokens EXCEPT ![tokens[KeyOf(s)].tenant] = tokens[KeyOf(s)]]
        BY <2>2 DEF WarmHit, FileUnderItsOwnTenant
      <3>. QED BY <2>1, <2>2, <3>1, <3>2, <3>3 DEF WarmHit
    <2>3. CASE WarmMiss(KeyOf(s), SourceOf(s))
      <3>1. Minting = None /\ Minting' = KeyOf(s)
            /\ ~Usable(tokens[KeyOf(s)]) /\ UNCHANGED <<now, tokens>>
        BY <1>2, <2>3, MintingFacts, Distinct DEF Prepare, WarmMiss, Minting
      <3>. QED BY <2>1, <3>1
    <2>. QED BY <1>2, <2>2, <2>3 DEF Prepare
  <1>3. CASE WarmAnswers
    <2>1. PICK life \in Lifetimes : WarmAnswered(life)
      BY <1>3 DEF WarmAnswers
    <2> DEFINE tenant == AzTenant(sources[warming.key])
               tok == [tenant |-> tenant, expires |-> now + life]
    <2>2. warming # None /\ Minting = warming.key /\ Minting \in Keys
          /\ Minting' = None /\ now' = now
      BY <1>3, <2>1, MintingFacts DEF WarmAnswers, WarmAnswered, Minting
    <2>3. tenant \in Tenants
      BY <2>2, ConstantsAssumption DEF AzTenant, Base, TypeOK
    <2>4. FileUnderItsOwnTenant([tokens EXCEPT ![Minting] = tok], sources, tok, warming.source)
      BY <2>1, <2>2 DEF WarmAnswered
    <2>5. \/ tokens' = [tokens EXCEPT ![Minting] = tok]
          \/ /\ [tokens EXCEPT ![Minting] = tok][tenant] = NoToken
             /\ tokens' = [[tokens EXCEPT ![Minting] = tok] EXCEPT ![tenant] = tok]
      BY <2>4 DEF FileUnderItsOwnTenant
    <2>6. Store!EndMint(tenant, life)
      BY <2>2, <2>5
    <2>. QED BY <2>3, <2>6
  <1>4. CASE WarmFails
    <2>1. Minting \in Keys /\ Minting' = None /\ UNCHANGED <<now, tokens>>
      BY <1>4, MintingFacts DEF WarmFails, Minting
    <2>. QED BY <2>1
  <1>5. CASE StartPool
    <2>1. UNCHANGED <<tokens, Minting>> /\ now' = now
      BY <1>5, Undisturbed DEF StartPool
    <2>. QED BY <2>1
  <1>6. ASSUME NEW w \in Workers, NEW s \in Scope, Request(w, s)
        PROVE  [Store!Next]_<<now, tokens, Minting>>
    <2>1. \A v \in Workers : pc[v] = "az" => target'[v] = target[v]
      BY <1>6 DEF Request, Base, TypeOK
    <2>2. UNCHANGED <<tokens, Minting>> /\ now' = now
      BY <1>6, <2>1, Undisturbed DEF Request
    <2>. QED BY <2>2
  <1>7. ASSUME NEW w \in Workers, Progress(w)
        PROVE  [Store!Next]_<<now, tokens, Minting>>
    <2>1. CASE FastPath(w) \/ SlowPath(w) \/ FoundRefreshed(w) \/ Answered(w)
      <3>1. \A v \in Workers : pc[v] = "az" => target'[v] = target[v]
        BY <2>1 DEF FastPath, SlowPath, FoundRefreshed, Answered, Finish, Base, TypeOK
      <3>2. UNCHANGED <<tokens, Minting>> /\ now' = now
        BY <2>1, <3>1, Undisturbed DEF FastPath, SlowPath, FoundRefreshed, Answered
      <3>. QED BY <3>2
    <2>2. CASE StartAz(w)
      <3>1. Minting = None /\ Minting' = KeyOf(target[w]) /\ Minting' \in Keys
            /\ ~Usable(tokens[KeyOf(target[w])]) /\ UNCHANGED <<now, tokens>>
        <4>1. lock = None /\ lock' = w /\ target' = target /\ pc[w] = "waiting"
              /\ ~Usable(tokens[KeyOf(target[w])]) /\ UNCHANGED <<now, tokens>>
          BY <2>2 DEF StartAz
        <4>2. KeyOf(target[w]) \in Keys
          BY <4>1, KeyFacts, ConstantsAssumption DEF Base, TargetInv
        <4>. QED BY <4>1, <4>2, MintingFacts, Distinct DEF Minting
      <3>. QED BY <3>1
    <2>3. CASE AzAnswers(w)
      <3> DEFINE tenant == AzTenant(sources[KeyOf(target[w])])
      <3>1. pc[w] = "az" /\ lock' = None /\ now' = now
        BY <2>3 DEF AzAnswers
      <3>2. Minting = KeyOf(target[w]) /\ Minting \in Keys /\ Minting' = None
        BY <3>1, MintingFacts DEF Minting
      <3>3. tenant \in Tenants
        BY <3>2, ConstantsAssumption DEF AzTenant, Base, TypeOK
      <3>4. PICK life \in Lifetimes :
              tokens' = [tokens EXCEPT ![Minting] = [tenant |-> tenant, expires |-> now + life]]
        BY <2>3, <3>2 DEF AzAnswers
      <3>5. Store!EndMint(tenant, life)
        BY <3>1, <3>2, <3>4
      <3>. QED BY <3>3, <3>5
    <2>4. CASE AzFails(w)
      <3>1. Minting \in Keys /\ Minting' = None /\ UNCHANGED <<now, tokens>>
        BY <2>4, MintingFacts DEF AzFails, Minting
      <3>. QED BY <3>1
    <2>. QED BY <1>7, <2>1, <2>2, <2>3, <2>4 DEF Progress
  <1>8. CASE Tick
    <2>1. UNCHANGED <<tokens, Minting>> /\ now' = now + 1
      BY <1>8, Undisturbed DEF Tick
    <2>. QED BY <2>1 DEF Store!Tick
  <1>9. CASE (\E tenant \in Tenants : AccountSet(tenant)) \/ UNCHANGED vars
    <2>1. UNCHANGED <<tokens, Minting>> /\ now' = now
      BY <1>9, Undisturbed DEF AccountSet, vars
    <2>. QED BY <2>1
  <1>. QED BY <1>1, <1>2, <1>3, <1>4, <1>5, <1>6, <1>7, <1>8, <1>9 DEF Next, MainStep

\* The threads, the lock and the two looks at the cache together implement the
\* single-flight table (azure.py:307-330).
THEOREM Refinement == Spec => ImplementsTokenStore
  <1>1. Init => Store!Init
    BY DEF Init, Store!Init, Minting
  <1>2. Base /\ [Next]_vars => [Store!Next]_(Store!vars)
    BY StepRefines DEF Store!vars
  <1>. QED BY <1>1, <1>2, BaseCorrect, PTL DEF Spec, ImplementsTokenStore, Store!Spec

\* While an `az` runs, the key it mints for has no usable token.
StaleInv == Minting \in Keys => ~Usable(tokens[Minting])

LEMMA StaleInit == Init => StaleInv
  BY DEF Init, StaleInv, Minting, Usable

LEMMA StaleStep ==
  ASSUME Base, Base', StaleInv, [Next]_vars
  PROVE  StaleInv' /\ \A k \in Keys : Usable(tokens[k]) => tokens'[k] = tokens[k]
  <1>1. [Store!Next]_<<now, tokens, Minting>>
    BY StepRefines
  <1>2. Minting \in Keys \cup {None} /\ None \notin Keys
    BY MintingFacts, Distinct
  <1>3. now \in Nat /\ SKEW \in Nat /\ tokens \in [Keys -> Token \cup {NoToken}]
        /\ Tenants \subseteq Keys
    BY ConstantsAssumption DEF Base, TypeOK, Keys
  <1> USE DEF StaleInv, Usable, Store!Usable
  <1>4. CASE Store!Tick
    BY <1>2, <1>3, <1>4 DEF Store!Tick, Token
  <1>5. ASSUME NEW k \in Keys, Store!StartMint(k) PROVE StaleInv' /\ UNCHANGED tokens
    BY <1>5 DEF Store!StartMint
  <1>6. ASSUME NEW k \in Keys, Store!File(k)
        PROVE  StaleInv' /\ \A j \in Keys : Usable(tokens[j]) => tokens'[j] = tokens[j]
    BY <1>2, <1>3, <1>6 DEF Store!File, Token
  <1>7. ASSUME NEW tenant \in Tenants, NEW life \in Lifetimes, Store!EndMint(tenant, life)
        PROVE  StaleInv' /\ \A k \in Keys : Usable(tokens[k]) => tokens'[k] = tokens[k]
    BY <1>2, <1>3, <1>7 DEF Store!EndMint
  <1>8. CASE Store!FailMint
    BY <1>2, <1>8 DEF Store!FailMint
  <1>9. CASE UNCHANGED <<now, tokens, Minting>>
    BY <1>9
  <1>. QED BY <1>1, <1>4, <1>5, <1>6, <1>7, <1>8, <1>9 DEF Store!Next

\* A thread that waited for the lock never replaces a token that is still
\* good, so each expiry costs one `az` however many threads meet it
\* (azure.py:324-325).
THEOREM RefreshOnce == Spec => RefreshedOnce
  <1>1. Base /\ Base' /\ StaleInv /\ [Next]_vars => StaleInv'
    BY StaleStep
  <1>2. Base /\ Base' /\ StaleInv /\ [Next]_vars =>
          [\A k \in Keys : Usable(tokens[k]) => tokens'[k] = tokens[k]]_vars
    BY StaleStep
  <1>. QED BY <1>1, <1>2, StaleInit, BaseCorrect, PTL DEF Spec, RefreshedOnce
=============================================================================
