----------------------------- MODULE Credential -----------------------------
(***************************************************************************)
(* azure.Credential and the part of azure.Arm that drives it: the token    *)
(* cache every ARM request goes through.                                   *)
(*                                                                         *)
(* The main thread builds the Credential (one warm, with the subscription  *)
(* given on the command line if there is one), then calls Arm.prepare,     *)
(* which warms the key of every subscription in Prepared.  Only then does  *)
(* the pool start: each worker sends requests against subscriptions of     *)
(* Scope, and each request asks Credential.token for a token, first        *)
(* without the lock, then with it.  `az` is a slow external process that   *)
(* answers for the tenant of the subscription it is given, or for the      *)
(* account's current default when it is given none.                        *)
(***************************************************************************)
EXTENDS Integers

CONSTANTS
  Workers,         \* threads of the scan's pool
  Main,            \* the thread that warms the cache
  Tenants,
  Subs,            \* subscription ids
  Home,            \* Home[s]: the tenant s really sits in
  Known,           \* the subscriptions `az account list` reports
  Representative,  \* Arm._representative: the subscription named for a tenant
  NamedSub,        \* --subscription given to Credential.__init__, or None
  Prepared,        \* the subscriptions Arm.prepare is called with
  Scope,           \* the subscriptions requests are sent against
  DEFAULT_TENANT,  \* the cache key ""
  None,            \* Python's None
  Unset,           \* a key _sources does not hold
  NoToken,         \* a key _tokens does not hold
  Lifetimes,       \* seconds left on a token when `az` returns it
  SKEW,            \* Credential.SKEW
  RequestTimeout,  \* the longest a request is in flight (Arm timeout)
  MaxNow,          \* bound: the clock stops here
  MaxCalls         \* bound: requests per worker

Keys == {DEFAULT_TENANT} \cup Tenants \cup Subs

ASSUME ConstantsAssumption ==
  /\ Home \in [Subs -> Tenants]
  /\ Known \subseteq Subs /\ Prepared \subseteq Subs /\ Scope \subseteq Subs
  /\ Representative \in [Tenants -> Subs]
  /\ \A s \in Known : Home[Representative[Home[s]]] = Home[s]
  /\ NamedSub \in Subs \cup {None}
  /\ Tenants \cap Subs = {}
  /\ DEFAULT_TENANT \notin Tenants \cup Subs
  /\ {None, Unset} \cap (Keys \cup Workers \cup {Main}) = {}
  /\ Main \notin Workers /\ None # Unset
  /\ NoToken \notin [tenant: Tenants, expires: Nat]
  /\ None \notin [key: Keys, source: Subs \cup {None}]
  /\ SKEW \in Nat /\ RequestTimeout \in Nat
  /\ MaxNow \in Nat /\ MaxCalls \in Nat
  /\ Lifetimes \subseteq Nat

\* A request started on a token with SKEW to live ends before the token does,
\* and `az` never returns one with less: MSAL refreshes those itself.
ASSUME TimeAssumption ==
  /\ RequestTimeout <= SKEW
  /\ \A life \in Lifetimes : life > SKEW

VARIABLES
  now,             \* time.time()
  azDefault,       \* the tenant `az account set` last chose
  phase,           \* what the main thread is doing
  warmed,          \* the subscriptions of Prepared already warmed
  warming,         \* the warm waiting on `az`: [key, source], or None
  lock,            \* Credential._lock: its holder, or None
  tokens,          \* Credential._tokens
  sources,         \* Credential._sources
  pc,              \* pc[w]: where worker w is
  target,          \* target[w]: the subscription of w's request
  seen,            \* seen[w]: the token w read, then the one it sends with
  deadline,        \* deadline[w]: when w's request times out
  calls            \* calls[w]: requests w has begun

mainVars == <<phase, warmed, warming>>
cacheVars == <<lock, tokens, sources>>
workerVars == <<pc, target, seen, deadline, calls>>
vars == <<now, azDefault, mainVars, cacheVars, workerVars>>

Token == [tenant: Tenants, expires: Nat]

----------------------------------------------------------------------------
(* The cache: Credential._fetch, warm, token.                              *)

\* Arm.token_source: the cache key for a subscription, and the subscription
\* to mint its token from.  A subscription az does not know is its own key.
KeyOf(s) == IF s \in Known THEN Home[s] ELSE s
\* Mutant: mint by tenant id instead of by a subscription in it.
SourceOf_Tenant(s) == IF s \in Known THEN Home[s] ELSE s

SourceOf(s) == IF s \in Known THEN Representative[Home[s]] ELSE s

\* Mutant: the SKEW is forgotten.
Usable_NoSkew(tok) == tok # NoToken /\ now < tok.expires

\* _expiring, negated, for a key that may hold nothing.
Usable(tok) == tok # NoToken /\ now < tok.expires - SKEW

\* The tenant `az account get-access-token [--subscription source]` answers for.
AzTenant(source) == IF source \in Subs THEN Home[source] ELSE azDefault

\* Mutant: the source of a key is only ever set once.
Remember_Once(key, source) ==
  IF sources[key] = Unset THEN [sources EXCEPT ![key] = source] ELSE sources

\* warm's first statement: remember which subscription mints this key.
Remember(key, source) ==
  IF source # None \/ sources[key] = Unset
  THEN [sources EXCEPT ![key] = source] ELSE sources

\* Mutant: a token is filed even over one its tenant already has.
FileUnderItsOwnTenant_Always(toks, srcs, tok, source) ==
  /\ tokens' = [toks EXCEPT ![tok.tenant] = tok]
  /\ sources' = [srcs EXCEPT ![tok.tenant] = IF @ = Unset THEN source ELSE @]

\* _file_under_its_own_tenant, over the given tokens and sources.
FileUnderItsOwnTenant(toks, srcs, tok, source) ==
  IF toks[tok.tenant] # NoToken
  THEN tokens' = toks /\ sources' = srcs
  ELSE /\ tokens' = [toks EXCEPT ![tok.tenant] = tok]
       /\ sources' = [srcs EXCEPT ![tok.tenant] = IF @ = Unset THEN source ELSE @]

\* warm, when the key already holds a usable token.
WarmHit(key, source) ==
  /\ lock = None
  /\ Usable(tokens[key])
  /\ FileUnderItsOwnTenant(tokens, Remember(key, source), tokens[key], source)
  /\ UNCHANGED <<lock, warming>>

\* warm, up to the `az` process it starts with the lock held.
WarmMiss(key, source) ==
  /\ lock = None
  /\ ~Usable(tokens[key])
  /\ sources' = Remember(key, source)
  /\ lock' = Main
  /\ warming' = [key |-> key, source |-> source]
  /\ UNCHANGED tokens

\* The `az` process of a warm answers; the lock is released.
WarmAnswered(life) ==
  LET tok == [tenant |-> AzTenant(sources[warming.key]), expires |-> now + life]
  IN /\ warming # None
     /\ FileUnderItsOwnTenant([tokens EXCEPT ![warming.key] = tok], sources,
                              tok, warming.source)
     /\ warming' = None
     /\ lock' = None

----------------------------------------------------------------------------
(* The main thread: Credential.__init__, Arm.prepare, the pool.            *)

\* __init__ calls warm(DEFAULT_TENANT, subscription); its az answers in
\* WarmAnswers.  A key that holds nothing is never usable, so it is a miss.
Construct ==
  /\ phase = "start"
  /\ phase' = "constructing"
  /\ WarmMiss(DEFAULT_TENANT, NamedSub)
  /\ UNCHANGED <<now, azDefault, warmed, workerVars>>

\* One iteration of prepare's loop.
Prepare(s) ==
  /\ phase = "preparing" /\ warming = None
  /\ s \in Prepared \ warmed
  /\ warmed' = warmed \cup {s}
  /\ WarmHit(KeyOf(s), SourceOf(s)) \/ WarmMiss(KeyOf(s), SourceOf(s))
  /\ UNCHANGED <<now, azDefault, phase, workerVars>>

WarmAnswers ==
  /\ \E life \in Lifetimes : WarmAnswered(life)
  /\ phase' = "preparing"
  /\ UNCHANGED <<now, azDefault, warmed, workerVars>>

\* CredentialError out of warm ends the command (exit 2).
WarmFails ==
  /\ warming # None
  /\ warming' = None
  /\ lock' = None
  /\ phase' = "failed"
  /\ UNCHANGED <<now, azDefault, warmed, tokens, sources, workerVars>>

StartPool ==
  /\ phase = "preparing" /\ warming = None
  /\ warmed = Prepared
  /\ phase' = "pool"
  /\ UNCHANGED <<now, azDefault, warmed, warming, cacheVars, workerVars>>

----------------------------------------------------------------------------
(* A worker: Arm.request up to the end of one attempt of _send.            *)

\* token(), first statement: read the cache without the lock.
Request(w, s) ==
  /\ phase = "pool"
  /\ pc[w] = "idle" /\ calls[w] < MaxCalls
  /\ calls' = [calls EXCEPT ![w] = @ + 1]
  /\ target' = [target EXCEPT ![w] = s]
  /\ seen' = [seen EXCEPT ![w] = tokens[KeyOf(s)]]
  /\ pc' = [pc EXCEPT ![w] = "check"]
  /\ UNCHANGED <<now, azDefault, mainVars, cacheVars, deadline>>

\* token() returns: the request goes out with tok.
SendWith(w, tok) ==
  /\ seen' = [seen EXCEPT ![w] = tok]
  /\ deadline' = [deadline EXCEPT ![w] = now + RequestTimeout]
  /\ pc' = [pc EXCEPT ![w] = "sending"]

FastPath(w) ==
  /\ pc[w] = "check"
  /\ Usable(seen[w])
  /\ SendWith(w, seen[w])
  /\ UNCHANGED <<now, azDefault, mainVars, cacheVars, target, calls>>

SlowPath(w) ==
  /\ pc[w] = "check"
  /\ ~Usable(seen[w])
  /\ pc' = [pc EXCEPT ![w] = "waiting"]
  /\ UNCHANGED <<now, azDefault, mainVars, cacheVars, target, seen, deadline, calls>>

\* With the lock: another thread refreshed while this one waited.
FoundRefreshed(w) ==
  LET tok == tokens[KeyOf(target[w])]
  IN /\ pc[w] = "waiting" /\ lock = None
     /\ Usable(tok)
     /\ SendWith(w, tok)
     /\ UNCHANGED <<now, azDefault, mainVars, cacheVars, target, calls>>

\* Mutant: the refresh runs outside the lock.
StartAz_Unlocked(w) ==
  /\ pc[w] = "waiting"
  /\ ~Usable(tokens[KeyOf(target[w])])
  /\ lock' = w
  /\ pc' = [pc EXCEPT ![w] = "az"]
  /\ UNCHANGED <<now, azDefault, mainVars, tokens, sources, target, seen, deadline, calls>>

\* With the lock: still stale, so run `az`.
StartAz(w) ==
  /\ pc[w] = "waiting" /\ lock = None
  /\ ~Usable(tokens[KeyOf(target[w])])
  /\ lock' = w
  /\ pc' = [pc EXCEPT ![w] = "az"]
  /\ UNCHANGED <<now, azDefault, mainVars, tokens, sources, target, seen, deadline, calls>>

AzAnswers(w) ==
  LET key == KeyOf(target[w])
  IN /\ pc[w] = "az"
     /\ \E life \in Lifetimes :
          LET tok == [tenant |-> AzTenant(sources[key]), expires |-> now + life]
          IN tokens' = [tokens EXCEPT ![key] = tok] /\ SendWith(w, tok)
     /\ lock' = None
     /\ UNCHANGED <<now, azDefault, mainVars, sources, target, calls>>

\* The worker goes back for its next request with nothing in its locals.
Finish(w) ==
  /\ pc' = [pc EXCEPT ![w] = "idle"]
  /\ target' = [target EXCEPT ![w] = None]
  /\ seen' = [seen EXCEPT ![w] = NoToken]
  /\ deadline' = [deadline EXCEPT ![w] = 0]
  /\ UNCHANGED calls

\* Mutant: an error from `az` leaves the lock taken.
AzFails_KeepsLock(w) ==
  /\ pc[w] = "az"
  /\ Finish(w)
  /\ UNCHANGED <<now, azDefault, mainVars, cacheVars>>

\* CredentialError out of token(): the `with` releases the lock on the way.
AzFails(w) ==
  /\ pc[w] = "az"
  /\ lock' = None
  /\ Finish(w)
  /\ UNCHANGED <<now, azDefault, mainVars, tokens, sources>>

\* The answer, an error, or the timeout.
Answered(w) ==
  /\ pc[w] = "sending"
  /\ Finish(w)
  /\ UNCHANGED <<now, azDefault, mainVars, cacheVars>>

----------------------------------------------------------------------------
(* The environment.                                                        *)

\* Time passes; no request stays in flight beyond its timeout.
Tick ==
  /\ now < MaxNow
  /\ \A w \in Workers : pc[w] = "sending" => now < deadline[w]
  /\ now' = now + 1
  /\ UNCHANGED <<azDefault, mainVars, cacheVars, workerVars>>

\* The operator runs `az account set` in another terminal.
AccountSet(tenant) ==
  /\ azDefault' = tenant
  /\ UNCHANGED <<now, mainVars, cacheVars, workerVars>>

----------------------------------------------------------------------------
Init ==
  /\ now = 0
  /\ azDefault \in Tenants
  /\ phase = "start" /\ warmed = {} /\ warming = None
  /\ lock = None
  /\ tokens = [k \in Keys |-> NoToken]
  /\ sources = [k \in Keys |-> Unset]
  /\ pc = [w \in Workers |-> "idle"]
  /\ target = [w \in Workers |-> None]
  /\ seen = [w \in Workers |-> NoToken]
  /\ deadline = [w \in Workers |-> 0]
  /\ calls = [w \in Workers |-> 0]

MainStep ==
  \/ Construct
  \/ \E s \in Prepared : Prepare(s)
  \/ WarmAnswers \/ WarmFails
  \/ StartPool

\* The steps of a token() call already begun, and of the request it is for.
Progress(w) ==
  \/ FastPath(w) \/ SlowPath(w)
  \/ FoundRefreshed(w) \/ StartAz(w)
  \/ AzAnswers(w) \/ AzFails(w)
  \/ Answered(w)

Next ==
  \/ MainStep
  \/ \E w \in Workers : Progress(w) \/ \E s \in Scope : Request(w, s)
  \/ Tick
  \/ \E tenant \in Tenants : AccountSet(tenant)

\* _run_az kills `az` after 120 s and urlopen times out, so a call begun goes
\* on; nothing obliges a worker to start another one.
Fairness == WF_vars(MainStep) /\ \A w \in Workers : WF_vars(Progress(w))

Spec == Init /\ [][Next]_vars
FairSpec == Spec /\ Fairness

----------------------------------------------------------------------------
(* Properties.                                                             *)

TypeOK ==
  /\ now \in Nat
  /\ azDefault \in Tenants
  /\ phase \in {"start", "constructing", "preparing", "pool", "failed"}
  /\ warmed \subseteq Prepared
  /\ warming \in [key: Keys, source: Subs \cup {None}] \cup {None}
  /\ lock \in Workers \cup {Main, None}
  /\ tokens \in [Keys -> Token \cup {NoToken}]
  /\ sources \in [Keys -> Subs \cup {None, Unset}]
  /\ pc \in [Workers -> {"idle", "check", "waiting", "az", "sending"}]
  /\ target \in [Workers -> Subs \cup {None}]
  /\ seen \in [Workers -> Token \cup {NoToken}]
  /\ deadline \in [Workers -> Nat]
  /\ calls \in [Workers -> Nat]

\* The threads that have an `az` process running.
RunningAz == {w \in Workers : pc[w] = "az"} \cup (IF warming = None THEN {} ELSE {Main})

\* Never two `az` processes at once, in prepare or in the pool: concurrent
\* ones corrupt the MSAL cache (azure.py:320-323).
OneAzAtATime == \A a, b \in RunningAz : a = b

\* A request carries a token of the tenant its subscription sits in, across
\* refreshes and whatever `az account set` has done since (azure.py:310-316).
TokenOfTheRightTenant ==
  \A w \in Workers : pc[w] = "sending" => seen[w].tenant = Home[target[w]]

\* No request is in flight with a token that has expired: SKEW covers the
\* longest request (azure.py:331-333).
NoRequestOutlivesItsToken ==
  \A w \in Workers : pc[w] = "sending" => now < seen[w].expires

\* A refresh replaces a token once: no thread that waited for the lock mints
\* over one another thread has just stored (azure.py:324-325).
RefreshedOnce ==
  [][\A k \in Keys : Usable(tokens[k]) => tokens'[k] = tokens[k]]_vars

\* Nobody waits for ever: every call of token() that begins ends, with a token
\* or an error, even when `az` keeps failing, because no thread leaves with the
\* lock; and the pool starts or the command gives up (azure.py:364-400, 524-534).
NobodyIsStuck ==
  /\ \A w \in Workers : pc[w] # "idle" ~> pc[w] = "idle"
  /\ <>(phase \in {"pool", "failed"})

\* The cache is a TokenStore: the key whose `az` is running is the one minted.
Minting ==
  IF lock = None THEN None
  ELSE IF lock = Main THEN warming.key ELSE KeyOf(target[lock])

Store == INSTANCE TokenStore WITH held <- tokens, minting <- Minting

\* Credential, with all its threads, implements the single-flight table.
ImplementsTokenStore == Store!Spec
=============================================================================
