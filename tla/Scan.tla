-------------------------------- MODULE Scan --------------------------------
(***************************************************************************)
(* engine.scan and the provider pre-check it rests on: a pool of threads   *)
(* takes (check, subscription) pairs off a queue, each reads which         *)
(* resource providers the subscription has registered -- through a cache   *)
(* that is looked up under a lock, filled without it -- and runs the check *)
(* only when none it needs is missing.  The main thread records results in *)
(* the order they complete.                                                *)
(*                                                                         *)
(* ARM answers a check against an unregistered provider with an empty      *)
(* page, so a check that runs blind finds nothing.  While the scan runs,   *)
(* people register and unregister providers.                               *)
(***************************************************************************)
EXTENDS Integers, Sequences, FiniteSets

CONSTANTS
  Workers,         \* threads of the pool (max_workers)
  Subs, Checks,
  Jobs,            \* the pairs attempted, in submission order
  Needs,           \* Needs[c]: the providers check c declares
  Pages,           \* the pages ARM lists the namespaces in, as it spells them
  Waste,           \* the indices of the jobs that have something to find
  Failures,        \* what a call may raise, see Failure
  MaxChanges       \* bound: registrations changed during one scan

\* A namespace in one spelling; ARM compares them in lower case.
Lower(p) == [p EXCEPT !.case = "lower"]

Namespaces == UNION {Pages[i] : i \in DOMAIN Pages}

Outcome == [kind: {"pending", "findings", "nothing", "ArmError",
                   "ProviderNotRegistered", "Exception"},
            code: {"", "Unregistered", "Missing", "Other"},
            status: Nat]

Failure == {e \in Outcome : e.kind \in {"ArmError", "Exception"}}

Plain(kind) == [kind |-> kind, code |-> "", status |-> 0]

ASSUME ScanAssumption ==
  /\ Jobs \in Seq([sub: Subs, check: Checks])
  /\ Needs \in [Checks -> SUBSET [id: STRING, case: {"mixed", "lower"}]]
  /\ Pages \in Seq(SUBSET [id: STRING, case: {"mixed", "lower"}])
  /\ Waste \subseteq 1..Len(Jobs)
  /\ Failures \subseteq Failure
  /\ MaxChanges \in Nat

VARIABLES
  phase,           \* "preparing", "pool", "returned" or "aborted"
  next,            \* the queue: jobs from this index on are not yet taken
  registered,      \* registered[s]: the namespaces s has registered now
  on, off,         \* on[s], off[s]: those seen registered, and not, since the start
  changes,         \* registrations changed so far
  cached,          \* Arm._providers: the dictionary's keys are its DOMAIN
  pc, job,         \* where each thread is, and the index of its job
  got,             \* got[w]: the registered namespaces w works from
  page,            \* page[w]: the pages w has read of the provider list
  outcome,         \* outcome[j]: the result of job j's future
  awaited,         \* the futures as_completed has not yielded yet
  found, errors,   \* ScanResult.findings and .errors, by the job they are of
  unavailable      \* ScanResult.unavailable

envVars == <<registered, on, off, changes>>
workVars == <<pc, job, got, page>>
resultVars == <<awaited, found, errors, unavailable>>
vars == <<phase, next, envVars, cached, workVars, outcome, resultVars>>

Pairs == 1..Len(Jobs)
SubOf(j) == Jobs[j].sub
CheckOf(j) == Jobs[j].check

----------------------------------------------------------------------------
(* azure.Arm.registered_providers, one call by one thread.                 *)

Take(w) ==
  /\ phase = "pool" /\ pc[w] = "idle"
  /\ next \in Pairs
  /\ job' = [job EXCEPT ![w] = next]
  /\ next' = next + 1
  /\ pc' = [pc EXCEPT ![w] = "lookup"]
  /\ UNCHANGED <<phase, envVars, cached, got, page, outcome, resultVars>>

\* Under the lock: the answer another thread stored.
Hit(w) ==
  /\ pc[w] = "lookup"
  /\ SubOf(job[w]) \in DOMAIN cached
  /\ got' = [got EXCEPT ![w] = cached[SubOf(job[w])]]
  /\ pc' = [pc EXCEPT ![w] = "precheck"]
  /\ UNCHANGED <<phase, next, envVars, cached, job, page, outcome, resultVars>>

\* Under the lock: nothing stored.  The lock is released before the call.
Miss(w) ==
  /\ pc[w] = "lookup"
  /\ SubOf(job[w]) \notin DOMAIN cached
  /\ pc' = [pc EXCEPT ![w] = "fetching"]
  /\ UNCHANGED <<phase, next, envVars, cached, job, got, page, outcome, resultVars>>

\* Mutant: namespaces are kept as ARM spells them.
ReadPage_AsSpelt(w) ==
  /\ pc[w] = "fetching" /\ page[w] < Len(Pages)
  /\ got' = [got EXCEPT ![w] = @ \cup
               {p \in Pages[page[w] + 1] : p \in registered[SubOf(job[w])]}]
  /\ page' = [page EXCEPT ![w] = @ + 1]
  /\ UNCHANGED <<phase, next, envVars, cached, pc, job, outcome, resultVars>>

\* One page of the provider list arrives; only "Registered" ones are kept.
ReadPage(w) ==
  /\ pc[w] = "fetching" /\ page[w] < Len(Pages)
  /\ got' = [got EXCEPT ![w] = @ \cup
               {Lower(p) : p \in Pages[page[w] + 1] \cap registered[SubOf(job[w])]}]
  /\ page' = [page EXCEPT ![w] = @ + 1]
  /\ UNCHANGED <<phase, next, envVars, cached, pc, job, outcome, resultVars>>

\* Under the lock again: the last thread to finish its fetch wins.
Store(w) ==
  /\ pc[w] = "fetching" /\ page[w] = Len(Pages)
  /\ cached' = [s \in DOMAIN cached \cup {SubOf(job[w])} |->
                  IF s = SubOf(job[w]) THEN got[w] ELSE cached[s]]
  /\ pc' = [pc EXCEPT ![w] = "precheck"]
  /\ UNCHANGED <<phase, next, envVars, job, got, page, outcome, resultVars>>

----------------------------------------------------------------------------
(* engine._run_one.                                                        *)

Missing(w) == {p \in Needs[CheckOf(job[w])] : Lower(p) \notin got[w]}

\* The thread's future holds result r; the thread is free.
Complete(w, r) ==
  /\ outcome' = [outcome EXCEPT ![job[w]] = r]
  /\ pc' = [pc EXCEPT ![w] = "idle"]
  /\ job' = [job EXCEPT ![w] = 0]
  /\ got' = [got EXCEPT ![w] = {}]
  /\ page' = [page EXCEPT ![w] = 0]
  /\ UNCHANGED <<phase, next, envVars, cached, resultVars>>

\* Any call a thread makes may raise; an ArmError may come from the provider
\* list as well as from the check itself.
Fail(w) ==
  /\ \/ pc[w] = "fetching" /\ page[w] < Len(Pages)
     \/ pc[w] = "precheck" /\ Missing(w) = {}
  /\ \E e \in Failures : Complete(w, e)

Refuse(w) ==
  /\ pc[w] = "precheck"
  /\ Missing(w) # {}
  /\ Complete(w, Plain("ProviderNotRegistered"))

\* What ARM answers a check with: an empty page when a provider is off.
Answer(j) ==
  IF j \in Waste
     /\ \A p \in Needs[CheckOf(j)] : \E q \in registered[SubOf(j)] : Lower(q) = Lower(p)
  THEN "findings" ELSE "nothing"

\* Mutant: the check runs whatever is registered.
RunCheck_Blind(w) ==
  /\ pc[w] = "precheck"
  /\ Complete(w, Plain(Answer(job[w])))

RunCheck(w) ==
  /\ pc[w] = "precheck"
  /\ Missing(w) = {}
  /\ Complete(w, Plain(Answer(job[w])))

----------------------------------------------------------------------------
(* azure.classify and the main thread's loop in engine.scan.               *)

Classify(e) ==
  CASE e.kind = "ProviderNotRegistered"                  -> "unregistered"
    [] e.kind = "ArmError" /\ e.code = "Unregistered"    -> "unregistered"
    [] e.kind = "ArmError" /\ e.code = "Missing"         -> "missing"
    [] e.kind = "ArmError" /\ e.code = "Other" /\ e.status = 403 -> "forbidden"
    [] e.kind = "ArmError" /\ e.code = "Other" /\ e.status = 404 -> "missing"
    [] OTHER -> "none"

VerdictOf(r) ==
  IF r.kind \in {"findings", "nothing"} THEN "read"
  ELSE IF Classify(r) \in {"unregistered", "missing"} THEN "unavailable" ELSE "error"

\* Every tenant in scope has a token before a thread exists (Arm.prepare).
Prepared ==
  /\ phase = "preparing"
  /\ phase' = "pool"
  /\ UNCHANGED <<next, envVars, cached, workVars, outcome, resultVars>>

\* CredentialError out of prepare leaves scan without a result.
PrepareFails ==
  /\ phase = "preparing"
  /\ phase' = "aborted"
  /\ UNCHANGED <<next, envVars, cached, workVars, outcome, resultVars>>

\* Mutant: a failure that is no ArmError is swallowed.
Record_DropsExceptions(j) ==
  /\ phase = "pool"
  /\ j \in awaited /\ outcome[j].kind # "pending"
  /\ awaited' = awaited \ {j}
  /\ found' = IF outcome[j].kind = "findings" THEN found \cup {j} ELSE found
  /\ errors' = IF VerdictOf(outcome[j]) = "error" /\ outcome[j].kind = "ArmError"
               THEN errors \cup {j} ELSE errors
  /\ unavailable' = IF VerdictOf(outcome[j]) = "unavailable" THEN unavailable + 1 ELSE unavailable
  /\ UNCHANGED <<phase, next, envVars, cached, workVars, outcome>>

\* as_completed yields a finished future.
Record(j) ==
  /\ phase = "pool"
  /\ j \in awaited /\ outcome[j].kind # "pending"
  /\ awaited' = awaited \ {j}
  /\ found' = IF outcome[j].kind = "findings" THEN found \cup {j} ELSE found
  /\ errors' = IF VerdictOf(outcome[j]) = "error" THEN errors \cup {j} ELSE errors
  /\ unavailable' = IF VerdictOf(outcome[j]) = "unavailable" THEN unavailable + 1 ELSE unavailable
  /\ UNCHANGED <<phase, next, envVars, cached, workVars, outcome>>

\* Mutant: the report goes back as soon as the queue is empty.
Return_Early ==
  /\ phase = "pool" /\ next \notin Pairs
  /\ phase' = "returned"
  /\ UNCHANGED <<next, envVars, cached, workVars, outcome, resultVars>>

\* Mutant: completions are counted by what they left in the result.
Return_CountsResults ==
  /\ phase = "pool"
  /\ Cardinality(found) + Cardinality(errors) + unavailable = Len(Jobs)
  /\ phase' = "returned"
  /\ UNCHANGED <<next, envVars, cached, workVars, outcome, resultVars>>

Return ==
  /\ phase = "pool" /\ awaited = {}
  /\ phase' = "returned"
  /\ UNCHANGED <<next, envVars, cached, workVars, outcome, resultVars>>

----------------------------------------------------------------------------
(* Azure.                                                                  *)

\* Somebody registers or unregisters one provider of one subscription.
Toggle(s, p) ==
  /\ phase \in {"preparing", "pool"}
  /\ changes < MaxChanges
  /\ changes' = changes + 1
  /\ IF p \in registered[s]
     THEN /\ registered' = [registered EXCEPT ![s] = @ \ {p}]
          /\ off' = [off EXCEPT ![s] = @ \cup {p}]
          /\ UNCHANGED on
     ELSE /\ registered' = [registered EXCEPT ![s] = @ \cup {p}]
          /\ on' = [on EXCEPT ![s] = @ \cup {p}]
          /\ UNCHANGED off
  /\ UNCHANGED <<phase, next, cached, workVars, outcome, resultVars>>

----------------------------------------------------------------------------
Init ==
  /\ phase = IF Jobs = <<>> THEN "returned" ELSE "preparing"
  /\ next = 1
  /\ registered \in [Subs -> SUBSET Namespaces]
  /\ on = registered
  /\ off = [s \in Subs |-> Namespaces \ registered[s]]
  /\ changes = 0
  /\ cached = [s \in {} |-> {}]
  /\ pc = [w \in Workers |-> "idle"]
  /\ job = [w \in Workers |-> 0]
  /\ got = [w \in Workers |-> {}]
  /\ page = [w \in Workers |-> 0]
  /\ outcome = [j \in Pairs |-> Plain("pending")]
  /\ awaited = Pairs
  /\ found = {} /\ errors = {} /\ unavailable = 0

Work(w) ==
  \/ Take(w)
  \/ Hit(w) \/ Miss(w) \/ ReadPage(w) \/ Store(w)
  \/ Fail(w) \/ Refuse(w) \/ RunCheck(w)

MainStep == Prepared \/ PrepareFails \/ Return \/ \E j \in Pairs : Record(j)

Next ==
  \/ MainStep
  \/ \E w \in Workers : Work(w)
  \/ \E s \in Subs, p \in Namespaces : Toggle(s, p)

\* Every call a thread makes has a timeout and a bounded number of attempts,
\* and as_completed blocks only on futures that are not done.
Fairness == WF_vars(MainStep) /\ \A w \in Workers : WF_vars(Work(w))

Spec == Init /\ [][Next]_vars
FairSpec == Spec /\ Fairness

----------------------------------------------------------------------------
(* Properties.                                                             *)

TypeOK ==
  /\ phase \in {"preparing", "pool", "returned", "aborted"}
  /\ next \in 1..(Len(Jobs) + 1)
  /\ registered \in [Subs -> SUBSET Namespaces]
  /\ on \in [Subs -> SUBSET Namespaces] /\ off \in [Subs -> SUBSET Namespaces]
  /\ changes \in Nat
  /\ DOMAIN cached \subseteq Subs
  /\ cached \in [DOMAIN cached -> SUBSET {Lower(p) : p \in Namespaces}]
  /\ pc \in [Workers -> {"idle", "lookup", "fetching", "precheck"}]
  /\ job \in [Workers -> 0..Len(Jobs)]
  /\ got \in [Workers -> SUBSET {Lower(p) : p \in Namespaces}]
  /\ page \in [Workers -> 0..Len(Pages)]
  /\ outcome \in [Pairs -> Outcome]
  /\ awaited \subseteq Pairs /\ found \subseteq Pairs /\ errors \subseteq Pairs
  /\ unavailable \in Nat

\* Somebody could have seen provider p on (off) on s since the scan began.
SeenOn(s, p) == \E q \in on[s] : Lower(q) = Lower(p)
SeenOff(s, p) == \A q \in Namespaces : Lower(q) = Lower(p) => q \in off[s]

\* The cache, the race to fill it and the pages never invent a verdict: a
\* check refused had a provider off at some moment of this scan, one that ran
\* had each of its providers on at some moment, and one that missed waste ran
\* where a provider was off at some moment (engine.py:11-16).
VerdictsAreJustified ==
  \A j \in Pairs :
    LET seenOff == \E p \in Needs[CheckOf(j)] : SeenOff(SubOf(j), p)
        seenOn == \A p \in Needs[CheckOf(j)] : SeenOn(SubOf(j), p)
    IN /\ outcome[j].kind = "ProviderNotRegistered" => seenOff
       /\ outcome[j].kind \in {"findings", "nothing"} => seenOn
       /\ outcome[j].kind = "nothing" /\ j \in Waste => seenOff

\* ScanResult.completely_failed.
CompletelyFailed ==
  Len(Jobs) > 0 /\ Cardinality(errors) + unavailable = Len(Jobs)

\* A report that is returned says "nothing could be scanned" exactly when no
\* pair was read: an empty report that is not marked so is a clean one
\* (engine.py:66-74).
FailureIsTold ==
  phase = "returned" /\ Jobs # <<>> =>
    (CompletelyFailed <=> \A j \in Pairs : VerdictOf(outcome[j]) # "read")

\* scan returns or raises, whatever fails inside it.
ScanEnds == <>(phase \in {"returned", "aborted"})

\* Each pair gets one verdict, for good, and the report waits for all of them.
Report == INSTANCE ScanReport WITH
  verdict <- [j \in Pairs |-> IF j \in awaited THEN "pending" ELSE VerdictOf(outcome[j])],
  returned <- phase = "returned"

ImplementsScanReport == Report!Spec
=============================================================================
