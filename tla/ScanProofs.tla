----------------------------- MODULE ScanProofs -----------------------------
(***************************************************************************)
(* Proofs about Scan, for any number of threads, pairs, pages and changes  *)
(* of registration.                                                        *)
(***************************************************************************)
EXTENDS Scan, FiniteSetTheorems, SequenceTheorems, TLAPS

USE DEF envVars, workVars, resultVars

LEMMA JobFacts ==
  /\ Len(Jobs) \in Nat /\ Len(Pages) \in Nat
  /\ Pairs = 1..Len(Jobs)
  /\ \A j \in Pairs : SubOf(j) \in Subs /\ CheckOf(j) \in Checks
  /\ Pairs = {} <=> Jobs = <<>>
  <1>1. Len(Jobs) \in Nat /\ Len(Pages) \in Nat
    <2>1. \A S, q : q \in Seq(S) => Len(q) \in Nat
      OBVIOUS
    <2>. QED BY <2>1, ScanAssumption
  <1>2. \A j \in 1..Len(Jobs) : Jobs[j] \in [sub: Subs, check: Checks]
    BY <1>1, ScanAssumption, ElementOfSeq
  <1>3. Len(Jobs) = 0 <=> Jobs = <<>>
    BY ScanAssumption, EmptySeq
  <1>. QED BY <1>1, <1>2, <1>3 DEF Pairs, SubOf, CheckOf

LEMMA PageFacts ==
  ASSUME NEW i \in 1..Len(Pages)
  PROVE  Pages[i] \subseteq Namespaces
  BY ScanAssumption DEF Namespaces

LEMMA OutcomeFacts ==
  /\ \A k \in {"pending", "findings", "nothing", "ProviderNotRegistered"} :
       Plain(k) \in Outcome /\ Plain(k).kind = k
  /\ \A e \in Failures : e \in Outcome /\ e.kind \in {"ArmError", "Exception"}
  /\ \A j : Answer(j) \in {"findings", "nothing"}
  <1>1. \A k \in {"pending", "findings", "nothing", "ProviderNotRegistered"} :
          Plain(k) \in Outcome /\ Plain(k).kind = k
    BY DEF Plain, Outcome
  <1>2. \A e \in Failures : e \in Outcome /\ e.kind \in {"ArmError", "Exception"}
    BY ScanAssumption DEF Failure
  <1>3. \A j : Answer(j) \in {"findings", "nothing"}
    BY DEF Answer
  <1>. QED BY <1>1, <1>2, <1>3

\* What the end of a job does, whatever its result.
LEMMA CompleteFacts ==
  ASSUME NEW w \in Workers, Fail(w) \/ Refuse(w) \/ RunCheck(w)
  PROVE  \E r \in Outcome : r.kind # "pending" /\ Complete(w, r) /\ pc[w] # "idle"
  <1>1. CASE Fail(w)
    BY <1>1, OutcomeFacts DEF Fail
  <1>2. CASE Refuse(w)
    BY <1>2, OutcomeFacts DEF Refuse
  <1>3. CASE RunCheck(w)
    BY <1>3, OutcomeFacts DEF RunCheck
  <1>. QED BY <1>1, <1>2, <1>3

\* Who is doing what: each job is one thread's at a time, the queue holds the
\* rest, and a future that was recorded was done.
WorkInv ==
  /\ \A w \in Workers : pc[w] # "idle" =>
       /\ job[w] \in Pairs /\ job[w] < next /\ job[w] \in awaited
       /\ phase = "pool"
       /\ outcome[job[w]].kind = "pending"
  /\ \A v, w \in Workers : pc[v] # "idle" /\ pc[w] # "idle" /\ job[v] = job[w] => v = w
  /\ \A j \in Pairs : j >= next => outcome[j].kind = "pending" /\ j \in awaited
  /\ \A j \in Pairs \ awaited : outcome[j].kind # "pending"
  /\ phase = "returned" => awaited = {}

----------------------------------------------------------------------------
(* Types.                                                                  *)

LEMMA TypeInit == Init => TypeOK
  <1> SUFFICES ASSUME Init PROVE TypeOK
    OBVIOUS
  <1>1. next \in 1..(Len(Jobs) + 1) /\ changes \in Nat /\ unavailable \in Nat
    BY JobFacts DEF Init
  <1>2. job \in [Workers -> 0..Len(Jobs)] /\ page \in [Workers -> 0..Len(Pages)]
    BY JobFacts DEF Init
  <1>3. outcome \in [Pairs -> Outcome]
    BY OutcomeFacts DEF Init
  <1>4. /\ registered \in [Subs -> SUBSET Namespaces]
        /\ on \in [Subs -> SUBSET Namespaces] /\ off \in [Subs -> SUBSET Namespaces]
    BY DEF Init
  <1>5. /\ DOMAIN cached \subseteq Subs
        /\ cached \in [DOMAIN cached -> SUBSET {Lower(p) : p \in Namespaces}]
    BY DEF Init
  <1>. QED BY <1>1, <1>2, <1>3, <1>4, <1>5 DEF Init, TypeOK

LEMMA TypeStep == TypeOK /\ WorkInv /\ [Next]_vars => TypeOK'
  <1> SUFFICES ASSUME TypeOK, WorkInv, [Next]_vars PROVE TypeOK'
    OBVIOUS
  <1>1. ASSUME NEW w \in Workers, Take(w) PROVE TypeOK'
    <2>1. next \in 1..Len(Jobs) /\ next \in 0..Len(Jobs) /\ next + 1 \in 1..(Len(Jobs) + 1)
      BY <1>1, JobFacts DEF Take
    <2>. QED BY <1>1, <2>1 DEF Take, TypeOK
  <1>2. ASSUME NEW w \in Workers, Hit(w) PROVE TypeOK'
    BY <1>2 DEF Hit, TypeOK
  <1>3. ASSUME NEW w \in Workers, Miss(w) PROVE TypeOK'
    BY <1>3 DEF Miss, TypeOK
  <1>4. ASSUME NEW w \in Workers, ReadPage(w) PROVE TypeOK'
    <2>1. page[w] + 1 \in 0..Len(Pages) /\ page[w] + 1 \in 1..Len(Pages)
      BY <1>4, JobFacts DEF ReadPage, TypeOK
    <2>2. Pages[page[w] + 1] \subseteq Namespaces
      BY <2>1, PageFacts
    <2>. QED BY <1>4, <2>1, <2>2 DEF ReadPage, TypeOK
  <1>5. ASSUME NEW w \in Workers, Store(w) PROVE TypeOK'
    <2>1. SubOf(job[w]) \in Subs
      BY <1>5, JobFacts DEF Store, WorkInv
    <2>. QED BY <1>5, <2>1 DEF Store, TypeOK
  <1>6. ASSUME NEW w \in Workers, Fail(w) \/ Refuse(w) \/ RunCheck(w) PROVE TypeOK'
    <2>1. PICK r \in Outcome : Complete(w, r)
      BY <1>6, CompleteFacts
    <2>2. 0 \in 0..Len(Jobs) /\ 0 \in 0..Len(Pages)
      BY JobFacts
    <2>. QED BY <2>1, <2>2 DEF Complete, TypeOK
  <1>7. CASE Prepared \/ PrepareFails \/ Return
    BY <1>7 DEF Prepared, PrepareFails, Return, TypeOK
  <1>8. ASSUME NEW j \in Pairs, Record(j) PROVE TypeOK'
    BY <1>8 DEF Record, TypeOK
  <1>9. ASSUME NEW s \in Subs, NEW p \in Namespaces, Toggle(s, p) PROVE TypeOK'
    <2>1. changes' \in Nat
      BY <1>9 DEF Toggle, TypeOK
    <2>2. /\ registered' \in [Subs -> SUBSET Namespaces]
          /\ on' \in [Subs -> SUBSET Namespaces] /\ off' \in [Subs -> SUBSET Namespaces]
      <3>1. CASE p \in registered[s]
        <4>1. /\ registered' = [registered EXCEPT ![s] = @ \ {p}]
              /\ off' = [off EXCEPT ![s] = @ \cup {p}] /\ on' = on
          BY <1>9, <3>1 DEF Toggle
        <4>2. registered[s] \ {p} \subseteq Namespaces /\ off[s] \cup {p} \subseteq Namespaces
          BY DEF TypeOK
        <4>. QED BY <4>1, <4>2 DEF TypeOK
      <3>2. CASE p \notin registered[s]
        <4>1. /\ registered' = [registered EXCEPT ![s] = @ \cup {p}]
              /\ on' = [on EXCEPT ![s] = @ \cup {p}] /\ off' = off
          BY <1>9, <3>2 DEF Toggle
        <4>2. registered[s] \cup {p} \subseteq Namespaces /\ on[s] \cup {p} \subseteq Namespaces
          BY DEF TypeOK
        <4>. QED BY <4>1, <4>2 DEF TypeOK
      <3>. QED BY <3>1, <3>2
    <2>3. UNCHANGED <<next, cached, workVars, outcome, resultVars, phase>>
      BY <1>9 DEF Toggle
    <2>. QED BY <2>1, <2>2, <2>3 DEF TypeOK
  <1>10. CASE UNCHANGED vars
    BY <1>10 DEF vars, TypeOK
  <1>. QED BY <1>1, <1>2, <1>3, <1>4, <1>5, <1>6, <1>7, <1>8, <1>9, <1>10
       DEF Next, MainStep, Work

----------------------------------------------------------------------------
(* The threads and the queue.                                              *)

LEMMA WorkInit == Init => WorkInv
  <1> SUFFICES ASSUME Init PROVE WorkInv
    OBVIOUS
  <1>1. \A j \in Pairs : outcome[j].kind = "pending"
    BY OutcomeFacts DEF Init
  <1>. QED BY <1>1, JobFacts DEF Init, WorkInv

LEMMA WorkStep == TypeOK /\ WorkInv /\ [Next]_vars => WorkInv'
  <1> SUFFICES ASSUME TypeOK, WorkInv, [Next]_vars PROVE WorkInv'
    OBVIOUS
  <1>0. next \in Nat /\ \A j \in Pairs : j \in Nat
    BY JobFacts DEF TypeOK
  <1>1. ASSUME NEW w \in Workers, Take(w) PROVE WorkInv'
    <2>1. /\ phase = "pool" /\ pc[w] = "idle" /\ next \in Pairs
          /\ job'[w] = next /\ pc'[w] = "lookup" /\ next' = next + 1
          /\ \A v \in Workers \ {w} : job'[v] = job[v] /\ pc'[v] = pc[v]
          /\ UNCHANGED <<phase, outcome, awaited>>
      BY <1>1 DEF Take, TypeOK
    <2>2. outcome[next].kind = "pending" /\ next \in awaited
      BY <2>1, <1>0 DEF WorkInv
    <2>3. \A v \in Workers : pc[v] # "idle" => job[v] # next /\ job[v] < next + 1
      BY <1>0 DEF WorkInv
    <2>4. /\ \A v \in Workers : pc'[v] # "idle" =>
               /\ job'[v] \in Pairs /\ job'[v] < next' /\ job'[v] \in awaited'
               /\ phase' = "pool"
               /\ outcome'[job'[v]].kind = "pending"
      BY <1>0, <2>1, <2>2, <2>3 DEF WorkInv
    <2>5. \A v, u \in Workers :
            pc'[v] # "idle" /\ pc'[u] # "idle" /\ job'[v] = job'[u] => v = u
      BY <2>1, <2>3 DEF WorkInv
    <2>6. \A j \in Pairs : j >= next' => j >= next
      BY <1>0, <2>1
    <2>. QED BY <2>1, <2>4, <2>5, <2>6 DEF WorkInv
  <1>2. ASSUME NEW w \in Workers, Hit(w) \/ Miss(w) \/ ReadPage(w) \/ Store(w)
        PROVE  WorkInv'
    <2>1. /\ pc[w] # "idle"
          /\ \A v \in Workers \ {w} : pc'[v] = pc[v]
          /\ UNCHANGED <<phase, next, job, outcome, awaited>>
      BY <1>2 DEF Hit, Miss, ReadPage, Store, TypeOK
    <2>. QED BY <2>1 DEF WorkInv
  <1>3. ASSUME NEW w \in Workers, Fail(w) \/ Refuse(w) \/ RunCheck(w) PROVE WorkInv'
    <2>1. PICK r \in Outcome : r.kind # "pending" /\ Complete(w, r) /\ pc[w] # "idle"
      BY <1>3, CompleteFacts
    <2>2. /\ pc'[w] = "idle" /\ UNCHANGED <<phase, next, awaited>>
          /\ \A v \in Workers \ {w} : job'[v] = job[v] /\ pc'[v] = pc[v]
          /\ \A j \in Pairs \ {job[w]} : outcome'[j] = outcome[j]
          /\ job[w] \in Pairs => outcome'[job[w]] = r
      BY <2>1 DEF Complete, TypeOK
    <2>3. job[w] \in Pairs /\ job[w] < next
      BY <2>1 DEF WorkInv
    <2>. QED BY <1>0, <2>1, <2>2, <2>3 DEF WorkInv
  <1>4. CASE Prepared \/ PrepareFails
    BY <1>4 DEF Prepared, PrepareFails, WorkInv
  <1>5. CASE Return
    BY <1>5 DEF Return, WorkInv
  <1>6. ASSUME NEW j \in Pairs, Record(j) PROVE WorkInv'
    <2>1. /\ phase = "pool" /\ outcome[j].kind # "pending" /\ awaited' = awaited \ {j}
          /\ UNCHANGED <<phase, next, pc, job, outcome>>
      BY <1>6 DEF Record
    <2>. QED BY <2>1 DEF WorkInv
  <1>7. ASSUME NEW s \in Subs, NEW p \in Namespaces, Toggle(s, p) PROVE WorkInv'
    BY <1>7 DEF Toggle, WorkInv
  <1>8. CASE UNCHANGED vars
    BY <1>8 DEF vars, WorkInv
  <1>. QED BY <1>1, <1>2, <1>3, <1>4, <1>5, <1>6, <1>7, <1>8 DEF Next, MainStep, Work

Base == TypeOK /\ WorkInv

LEMMA BaseCorrect == Spec => []Base
  <1>1. Init => Base
    BY TypeInit, WorkInit DEF Base
  <1>2. Base /\ [Next]_vars => Base'
    BY TypeStep, WorkStep DEF Base
  <1>. QED BY <1>1, <1>2, PTL DEF Spec

\* The queue, the cache, the futures and the result keep their types: every
\* namespace that is kept is in lower case (azure.py:679-692).
THEOREM TypeCorrect == Spec => []TypeOK
  <1>1. Base => TypeOK
    BY DEF Base
  <1>. QED BY <1>1, BaseCorrect, PTL

----------------------------------------------------------------------------
(* The report.                                                             *)

\* The verdict the report will hold of pair j.
Verdict == [j \in Pairs |-> IF j \in awaited THEN "pending" ELSE VerdictOf(outcome[j])]

LEMMA VerdictFacts == \A r : VerdictOf(r) \in Report!Verdicts
  BY DEF VerdictOf, Report!Verdicts

LEMMA ReportInit == Init => Report!Init
  <1> SUFFICES ASSUME Init PROVE Report!Init
    OBVIOUS
  <1>1. awaited = Pairs /\ (phase = "returned" <=> Pairs = {})
    BY JobFacts DEF Init
  <1>. QED BY <1>1 DEF Report!Init

LEMMA ReportStep == Base /\ [Next]_vars => [Report!Next]_(Report!vars)
  <1> SUFFICES ASSUME TypeOK, WorkInv, [Next]_vars
               PROVE  [Report!Next]_(Report!vars)
    BY DEF Base
  <1>1. ASSUME awaited' = awaited, phase' = "returned" <=> phase = "returned",
               \A j \in Pairs \ awaited : outcome'[j] = outcome[j]
        PROVE  UNCHANGED Report!vars
    BY <1>1 DEF Report!vars
  <1>2. ASSUME NEW w \in Workers, Work(w) PROVE UNCHANGED Report!vars
    <2>1. CASE Take(w) \/ Hit(w) \/ Miss(w) \/ ReadPage(w) \/ Store(w)
      BY <1>1, <2>1 DEF Take, Hit, Miss, ReadPage, Store
    <2>2. CASE Fail(w) \/ Refuse(w) \/ RunCheck(w)
      <3>1. PICK r \in Outcome : Complete(w, r) /\ pc[w] # "idle"
        BY <2>2, CompleteFacts
      <3>2. job[w] \in awaited
        BY <3>1 DEF WorkInv
      <3>3. \A j \in Pairs \ awaited : outcome'[j] = outcome[j]
        BY <3>1, <3>2 DEF Complete, TypeOK
      <3>. QED BY <1>1, <3>1, <3>3 DEF Complete
    <2>. QED BY <1>2, <2>1, <2>2 DEF Work
  <1>3. ASSUME NEW j \in Pairs, Record(j) PROVE Report!Decide(j)
    <2>1. /\ phase = "pool" /\ j \in awaited /\ awaited' = awaited \ {j}
          /\ UNCHANGED <<phase, outcome>>
      BY <1>3 DEF Record
    <2>2. Verdict[j] = "pending" /\ Verdict' = [Verdict EXCEPT ![j] = VerdictOf(outcome[j])]
      BY <2>1 DEF Verdict
    <2>3. VerdictOf(outcome[j]) \in Report!Verdicts
      BY VerdictFacts
    <2>. QED BY <2>1, <2>2, <2>3 DEF Report!Decide, Verdict
  <1>4. CASE Return
    <2>1. /\ phase = "pool" /\ awaited = {} /\ phase' = "returned"
          /\ UNCHANGED <<outcome, awaited>>
      BY <1>4 DEF Return
    <2>2. \A j \in Pairs : VerdictOf(outcome[j]) # "pending"
      BY VerdictFacts DEF Report!Verdicts
    <2>3. Verdict' = Verdict
      BY <2>1 DEF Verdict
    <2>4. \A j \in Pairs : Verdict[j] # "pending"
      BY <2>1, <2>2 DEF Verdict
    <2>5. (phase = "returned")' = TRUE
      BY <2>1
    <2>. QED BY <2>1, <2>3, <2>4, <2>5 DEF Report!Return, Report!Next, Verdict
  <1>5. CASE Prepared \/ PrepareFails \/ UNCHANGED vars
             \/ \E s \in Subs, p \in Namespaces : Toggle(s, p)
    BY <1>1, <1>5 DEF Prepared, PrepareFails, vars, Toggle
  <1>. QED BY <1>2, <1>3, <1>4, <1>5 DEF Next, MainStep, Report!Next

\* Whatever the order in which futures end, each pair is given one verdict that
\* is never revised, and the report waits for them all (engine.py:240-261).
THEOREM Refinement == Spec => ImplementsScanReport
  <1>. QED BY ReportInit, ReportStep, BaseCorrect, PTL
       DEF Spec, ImplementsScanReport, Report!Spec

----------------------------------------------------------------------------
(* The failure that is told.                                               *)

RecordedAs(verdict) == {j \in Pairs \ awaited : VerdictOf(outcome[j]) = verdict}

\* What the result holds is what was recorded: the errors one by one, the pairs
\* that were unavailable by their number.
CountInv ==
  /\ errors = RecordedAs("error")
  /\ unavailable = Cardinality(RecordedAs("unavailable"))

LEMMA CountInit == Init => CountInv
  <1> SUFFICES ASSUME Init PROVE CountInv
    OBVIOUS
  <1>1. \A v : RecordedAs(v) = {}
    BY DEF Init, RecordedAs
  <1>. QED BY <1>1, FS_EmptySet DEF Init, CountInv

LEMMA CountStep == Base /\ CountInv /\ [Next]_vars => CountInv'
  <1> SUFFICES ASSUME TypeOK, WorkInv, CountInv, [Next]_vars PROVE CountInv'
    BY DEF Base
  <1>1. ASSUME UNCHANGED <<awaited, errors, unavailable>>,
               \A j \in Pairs \ awaited : outcome'[j] = outcome[j]
        PROVE  CountInv'
    <2>1. \A v : RecordedAs(v)' = RecordedAs(v)
      BY <1>1 DEF RecordedAs
    <2>2. RecordedAs("error")' = RecordedAs("error")
      BY <1>1 DEF RecordedAs
    <2>3. RecordedAs("unavailable")' = RecordedAs("unavailable")
      BY <1>1 DEF RecordedAs
    <2>. QED BY <1>1, <2>2, <2>3 DEF CountInv
  <1>2. ASSUME NEW w \in Workers, Work(w) PROVE CountInv'
    <2>1. CASE Take(w) \/ Hit(w) \/ Miss(w) \/ ReadPage(w) \/ Store(w)
      BY <1>1, <2>1 DEF Take, Hit, Miss, ReadPage, Store
    <2>2. CASE Fail(w) \/ Refuse(w) \/ RunCheck(w)
      <3>1. PICK r \in Outcome : Complete(w, r) /\ pc[w] # "idle"
        BY <2>2, CompleteFacts
      <3>2. job[w] \in awaited
        BY <3>1 DEF WorkInv
      <3>3. \A j \in Pairs \ awaited : outcome'[j] = outcome[j]
        BY <3>1, <3>2 DEF Complete, TypeOK
      <3>. QED BY <1>1, <3>1, <3>3 DEF Complete
    <2>. QED BY <1>2, <2>1, <2>2 DEF Work
  <1>3. ASSUME NEW j \in Pairs, Record(j) PROVE CountInv'
    <2>1. /\ j \in awaited /\ awaited' = awaited \ {j} /\ outcome' = outcome
          /\ errors' = IF VerdictOf(outcome[j]) = "error" THEN errors \cup {j} ELSE errors
          /\ unavailable' = IF VerdictOf(outcome[j]) = "unavailable"
                            THEN unavailable + 1 ELSE unavailable
      BY <1>3 DEF Record
    <2>2. RecordedAs("error")' = IF VerdictOf(outcome[j]) = "error"
                                 THEN RecordedAs("error") \cup {j} ELSE RecordedAs("error")
      BY <2>1 DEF RecordedAs
    <2>3. RecordedAs("unavailable")' = IF VerdictOf(outcome[j]) = "unavailable"
                                       THEN RecordedAs("unavailable") \cup {j}
                                       ELSE RecordedAs("unavailable")
      BY <2>1 DEF RecordedAs
    <2>4. IsFiniteSet(RecordedAs("unavailable")) /\ j \notin RecordedAs("unavailable")
      <3>1. IsFiniteSet(Pairs)
        BY JobFacts, FS_Interval
      <3>2. RecordedAs("unavailable") \in SUBSET Pairs
        BY DEF RecordedAs
      <3>3. j \notin RecordedAs("unavailable")
        BY <2>1 DEF RecordedAs
      <3>. QED BY <3>1, <3>2, <3>3, FS_Subset
    <2>5. Cardinality(RecordedAs("unavailable") \cup {j}) =
            Cardinality(RecordedAs("unavailable")) + 1
      BY <2>4, FS_AddElement
    <2>6. errors' = RecordedAs("error")'
      BY <2>1, <2>2 DEF CountInv
    <2>7. unavailable' = Cardinality(RecordedAs("unavailable"))'
      <3>1. CASE VerdictOf(outcome[j]) = "unavailable"
        BY <2>1, <2>3, <2>5, <3>1 DEF CountInv
      <3>2. CASE VerdictOf(outcome[j]) # "unavailable"
        BY <2>1, <2>3, <3>2 DEF CountInv
      <3>. QED BY <3>1, <3>2
    <2>. QED BY <2>6, <2>7 DEF CountInv
  <1>4. CASE Prepared \/ PrepareFails \/ Return \/ UNCHANGED vars
             \/ \E s \in Subs, p \in Namespaces : Toggle(s, p)
    BY <1>1, <1>4 DEF Prepared, PrepareFails, Return, vars, Toggle
  <1>. QED BY <1>2, <1>3, <1>4 DEF Next, MainStep

\* A report says that nothing could be scanned exactly when no pair was read,
\* whatever mixture of failures there was (engine.py:66-74, 240-258).
THEOREM FailuresTold == Spec => []FailureIsTold
  <1>1. Base /\ CountInv => FailureIsTold
    <2> SUFFICES ASSUME TypeOK, WorkInv, CountInv, phase = "returned", Jobs # <<>>
                 PROVE  CompletelyFailed <=>
                          \A j \in Pairs : VerdictOf(outcome[j]) # "read"
      BY DEF Base, FailureIsTold
    <2> DEFINE E == RecordedAs("error")
               U == RecordedAs("unavailable")
    <2>1. awaited = {} /\ errors = E /\ unavailable = Cardinality(U)
      BY DEF WorkInv, CountInv
    <2>2. E \in SUBSET Pairs /\ U \in SUBSET Pairs /\ E \cap U = {}
      BY DEF RecordedAs
    <2>3. E \cup U = {j \in Pairs : VerdictOf(outcome[j]) # "read"}
      BY <2>1, VerdictFacts DEF RecordedAs, Report!Verdicts
    <2>4. /\ IsFiniteSet(Pairs) /\ Cardinality(Pairs) = Len(Jobs) /\ Len(Jobs) > 0
      <3>1. Len(Jobs) \in Nat /\ Pairs = 1..Len(Jobs) /\ Pairs # {}
        BY JobFacts
      <3>2. Len(Jobs) > 0
        BY <3>1
      <3>3. /\ IsFiniteSet(1..Len(Jobs))
            /\ Cardinality(1..Len(Jobs)) = IF 1 > Len(Jobs) THEN 0 ELSE Len(Jobs) - 1 + 1
        BY <3>1, FS_Interval
      <3>. QED BY <3>1, <3>2, <3>3
    <2> HIDE DEF E, U
    <2>5. /\ IsFiniteSet(E) /\ IsFiniteSet(U) /\ IsFiniteSet(E \cup U)
          /\ Cardinality(E) \in Nat /\ Cardinality(U) \in Nat
      BY <2>2, <2>4, FS_Subset, FS_Union, FS_CardinalityType
    <2>6. Cardinality(E \cup U) = Cardinality(E) + Cardinality(U)
      <3>1. Cardinality(E \cup U) = Cardinality(E) + Cardinality(U) - Cardinality(E \cap U)
        BY <2>5, FS_Union
      <3>2. Cardinality(E \cap U) = 0
        BY <2>2, FS_EmptySet
      <3>. QED BY <2>5, <3>1, <3>2
    <2>7. Cardinality(E \cup U) = Cardinality(Pairs) <=> E \cup U = Pairs
      BY <2>2, <2>4, FS_Subset
    <2>. QED BY <2>1, <2>3, <2>4, <2>6, <2>7 DEF CompletelyFailed
  <1>2. Init => CountInv
    BY CountInit
  <1>3. Base /\ CountInv /\ [Next]_vars => CountInv'
    BY CountStep
  <1>. QED BY <1>1, <1>2, <1>3, BaseCorrect, PTL DEF Spec

----------------------------------------------------------------------------
(* The verdicts.                                                           *)

\* Set g is an account of the namespaces of N that subscription s could have
\* given since the scan began: each of g was seen on, each left out seen off.
Accounts(s, g, N) ==
  /\ \A x \in g : \E q \in on[s] : Lower(q) = x
  /\ \A q \in N : Lower(q) \notin g => q \in off[s]

\* What has been seen covers how things are, and only grows.
SeenInv ==
  \A s \in Subs : registered[s] \subseteq on[s] /\ Namespaces \ registered[s] \subseteq off[s]

ReadBy(w) == UNION {Pages[i] : i \in 1..page[w]}

\* The answers in the cache, and in the hands of the threads.
GotInv ==
  /\ \A s \in DOMAIN cached : Accounts(s, cached[s], Namespaces)
  /\ \A w \in Workers :
       /\ pc[w] \in {"idle", "lookup"} => got[w] = {} /\ page[w] = 0
       /\ pc[w] = "fetching" => Accounts(SubOf(job[w]), got[w], ReadBy(w))
       /\ pc[w] = "precheck" => Accounts(SubOf(job[w]), got[w], Namespaces)

JustInv == SeenInv /\ GotInv /\ VerdictsAreJustified

\* Nothing seen is forgotten.
SeenGrows == \A s \in Subs : on[s] \subseteq on'[s] /\ off[s] \subseteq off'[s]

LEMMA AccountsLast ==
  ASSUME SeenGrows, NEW s \in Subs, NEW g, NEW N, Accounts(s, g, N)
  PROVE  Accounts(s, g, N)'
  BY DEF SeenGrows, Accounts

LEMMA SeenStep ==
  ASSUME TypeOK, SeenInv, [Next]_vars
  PROVE  SeenGrows /\ SeenInv'
  <1>1. ASSUME NEW s \in Subs, NEW p \in Namespaces, Toggle(s, p)
        PROVE  SeenGrows /\ SeenInv'
    <2>1. CASE p \in registered[s]
      <3>1. /\ registered' = [registered EXCEPT ![s] = @ \ {p}]
            /\ off' = [off EXCEPT ![s] = @ \cup {p}] /\ on' = on
        BY <1>1, <2>1 DEF Toggle
      <3>. QED BY <3>1 DEF TypeOK, SeenInv, SeenGrows
    <2>2. CASE p \notin registered[s]
      <3>1. /\ registered' = [registered EXCEPT ![s] = @ \cup {p}]
            /\ on' = [on EXCEPT ![s] = @ \cup {p}] /\ off' = off
        BY <1>1, <2>2 DEF Toggle
      <3>. QED BY <3>1 DEF TypeOK, SeenInv, SeenGrows
    <2>. QED BY <2>1, <2>2
  <1>2. ASSUME UNCHANGED <<registered, on, off>> PROVE SeenGrows /\ SeenInv'
    BY <1>2 DEF SeenGrows, SeenInv
  <1>3. ASSUME NEW w \in Workers, Work(w) PROVE UNCHANGED <<registered, on, off>>
    BY <1>3 DEF Work, Take, Hit, Miss, ReadPage, Store, Fail, Refuse, RunCheck, Complete
  <1>4. MainStep \/ UNCHANGED vars => UNCHANGED <<registered, on, off>>
    BY DEF MainStep, Prepared, PrepareFails, Return, Record, vars
  <1>. QED BY <1>1, <1>2, <1>3, <1>4 DEF Next

LEMMA JustInit == Init => JustInv
  <1> SUFFICES ASSUME Init PROVE JustInv
    OBVIOUS
  <1>1. SeenInv
    BY DEF Init, SeenInv
  <1>2. GotInv
    BY DEF Init, GotInv
  <1>3. \A j \in Pairs : outcome[j].kind = "pending"
    BY OutcomeFacts DEF Init
  <1>4. VerdictsAreJustified
    BY <1>3 DEF VerdictsAreJustified
  <1>. QED BY <1>1, <1>2, <1>4 DEF JustInv

\* A verdict stays justified when nothing seen is forgotten.
LEMMA JustifiedLast ==
  ASSUME TypeOK, SeenGrows, VerdictsAreJustified, NEW j \in Pairs,
         outcome'[j] = outcome[j]
  PROVE  LET seenOff == \E p \in Needs[CheckOf(j)] : SeenOff(SubOf(j), p)
             seenOn == \A p \in Needs[CheckOf(j)] : SeenOn(SubOf(j), p)
         IN /\ outcome'[j].kind = "ProviderNotRegistered" => seenOff'
            /\ outcome'[j].kind \in {"findings", "nothing"} => seenOn'
            /\ outcome'[j].kind = "nothing" /\ j \in Waste => seenOff'
  <1>1. SubOf(j) \in Subs
    BY JobFacts
  <1>2. \A p : SeenOff(SubOf(j), p) => SeenOff(SubOf(j), p)'
    BY <1>1 DEF SeenOff, SeenGrows
  <1>3. \A p : SeenOn(SubOf(j), p) => SeenOn(SubOf(j), p)'
    BY <1>1 DEF SeenOn, SeenGrows
  <1>. QED BY <1>2, <1>3 DEF VerdictsAreJustified

\* A thread that gives job j an answer has seen what justifies it.
LEMMA NewVerdict ==
  ASSUME TypeOK, WorkInv, SeenInv, GotInv, NEW w \in Workers,
         Fail(w) \/ Refuse(w) \/ RunCheck(w)
  PROVE  LET j == job[w]
             seenOff == \E p \in Needs[CheckOf(j)] : SeenOff(SubOf(j), p)
             seenOn == \A p \in Needs[CheckOf(j)] : SeenOn(SubOf(j), p)
         IN \E r \in Outcome :
              /\ Complete(w, r)
              /\ r.kind = "ProviderNotRegistered" => seenOff
              /\ r.kind \in {"findings", "nothing"} => seenOn
              /\ r.kind = "nothing" /\ j \in Waste => seenOff
  <1> DEFINE j == job[w]
             s == SubOf(j)
  <1>1. pc[w] # "idle" /\ j \in Pairs
    BY CompleteFacts DEF WorkInv
  <1>2. s \in Subs
    BY <1>1, JobFacts
  <1>3. CASE Fail(w)
    BY <1>3, OutcomeFacts DEF Fail
  <1>4. CASE Refuse(w)
    <2>1. pc[w] = "precheck" /\ Complete(w, Plain("ProviderNotRegistered"))
      BY <1>4 DEF Refuse
    <2>2. PICK p \in Needs[CheckOf(j)] : Lower(p) \notin got[w]
      BY <1>4 DEF Refuse, Missing
    <2>3. SeenOff(s, p)
      BY <2>1, <2>2 DEF GotInv, Accounts, SeenOff
    <2>. QED BY <2>1, <2>2, <2>3, OutcomeFacts
  <1>5. CASE RunCheck(w)
    <2>1. pc[w] = "precheck" /\ Complete(w, Plain(Answer(j)))
      BY <1>5 DEF RunCheck
    <2>2. \A p \in Needs[CheckOf(j)] : SeenOn(s, p)
      BY <1>5, <2>1 DEF RunCheck, Missing, GotInv, Accounts, SeenOn
    <2>3. ASSUME Answer(j) = "nothing", j \in Waste
          PROVE  \E p \in Needs[CheckOf(j)] : SeenOff(s, p)
      <3>1. PICK p \in Needs[CheckOf(j)] : \A q \in registered[s] : Lower(q) # Lower(p)
        BY <2>3 DEF Answer
      <3>2. SeenOff(s, p)
        BY <1>2, <3>1 DEF SeenInv, SeenOff
      <3>. QED BY <3>2
    <2>. QED BY <2>1, <2>2, <2>3, OutcomeFacts
  <1>. QED BY <1>3, <1>4, <1>5

LEMMA VerdictsStep ==
  ASSUME TypeOK, WorkInv, JustInv, [Next]_vars, SeenGrows
  PROVE  VerdictsAreJustified'
  <1>0. SeenInv /\ GotInv /\ VerdictsAreJustified
    BY DEF JustInv
  <1>1. CASE outcome' = outcome
    <2>1. \A j \in Pairs : outcome'[j] = outcome[j]
      BY <1>1
    <2>. QED BY <1>0, <2>1, JustifiedLast DEF VerdictsAreJustified
  <1>2. ASSUME NEW w \in Workers, Fail(w) \/ Refuse(w) \/ RunCheck(w)
        PROVE  VerdictsAreJustified'
    <2>1. PICK r \in Outcome :
            LET j == job[w]
                seenOff == \E p \in Needs[CheckOf(j)] : SeenOff(SubOf(j), p)
                seenOn == \A p \in Needs[CheckOf(j)] : SeenOn(SubOf(j), p)
            IN /\ Complete(w, r)
               /\ r.kind = "ProviderNotRegistered" => seenOff
               /\ r.kind \in {"findings", "nothing"} => seenOn
               /\ r.kind = "nothing" /\ j \in Waste => seenOff
      BY <1>0, <1>2, NewVerdict
    <2>2. job[w] \in Pairs
      BY <1>2, CompleteFacts DEF WorkInv
    <2>3. /\ outcome'[job[w]] = r /\ UNCHANGED <<on, off>>
          /\ \A j \in Pairs \ {job[w]} : outcome'[j] = outcome[j]
      BY <2>1, <2>2 DEF Complete, TypeOK
    <2>4. \A s, p : /\ SeenOff(s, p)' <=> SeenOff(s, p)
                    /\ SeenOn(s, p)' <=> SeenOn(s, p)
      BY <2>3 DEF SeenOff, SeenOn
    <2>. QED BY <1>0, <2>1, <2>2, <2>3, <2>4 DEF VerdictsAreJustified
  <1>3. \/ outcome' = outcome
        \/ \E w \in Workers : Fail(w) \/ Refuse(w) \/ RunCheck(w)
    BY DEF Next, MainStep, Work, Take, Hit, Miss, ReadPage, Store,
           Prepared, PrepareFails, Record, Return, Toggle, vars
  <1>. QED BY <1>1, <1>2, <1>3

LEMMA GotStep ==
  ASSUME TypeOK, WorkInv, SeenInv, GotInv, [Next]_vars, SeenGrows
  PROVE  GotInv'
  <1> DEFINE Kept(v) ==
        /\ pc[v] \in {"idle", "lookup"} => got[v] = {} /\ page[v] = 0
        /\ pc[v] = "fetching" => Accounts(SubOf(job[v]), got[v], ReadBy(v))
        /\ pc[v] = "precheck" => Accounts(SubOf(job[v]), got[v], Namespaces)
  <1>1. ASSUME cached' = cached
        PROVE  (\A s \in DOMAIN cached : Accounts(s, cached[s], Namespaces))'
    <2> SUFFICES ASSUME NEW s \in DOMAIN cached'
                 PROVE  Accounts(s, cached[s], Namespaces)'
      OBVIOUS
    <2>1. s \in Subs /\ Accounts(s, cached[s], Namespaces)
      BY <1>1 DEF GotInv, TypeOK
    <2>. QED BY <1>1, <2>1 DEF Accounts, SeenGrows
  <1>2. ASSUME NEW v \in Workers, pc'[v] = pc[v], job'[v] = job[v], got'[v] = got[v],
               page'[v] = page[v]
        PROVE  Kept(v)'
    <2>1. Kept(v)
      BY DEF GotInv
    <2>2. pc[v] # "idle" => SubOf(job[v]) \in Subs
      BY JobFacts DEF WorkInv
    <2>3. CASE pc[v] = "fetching"
      <3>1. Accounts(SubOf(job[v]), got[v], ReadBy(v))
        BY <2>1, <2>3
      <3>2. Accounts(SubOf(job[v]), got[v], ReadBy(v))'
        BY <1>2, <2>2, <2>3, <3>1, AccountsLast DEF ReadBy, Accounts, SeenGrows
      <3>. QED BY <1>2, <2>3, <3>2
    <2>4. CASE pc[v] = "precheck"
      <3>1. Accounts(SubOf(job[v]), got[v], Namespaces)
        BY <2>1, <2>4
      <3>2. Accounts(SubOf(job[v]), got[v], Namespaces)'
        BY <1>2, <2>2, <2>4, <3>1 DEF Accounts, SeenGrows
      <3>. QED BY <1>2, <2>4, <3>2
    <2>5. CASE pc[v] \notin {"fetching", "precheck"}
      BY <1>2, <2>1, <2>5
    <2>. QED BY <2>3, <2>4, <2>5
  <1>3. ASSUME cached' = cached, \A v \in Workers : Kept(v)'
        PROVE  GotInv'
    BY <1>1, <1>3 DEF GotInv
  <1>4. ASSUME NEW w \in Workers, Work(w) PROVE GotInv'
    <2>0. \A v \in Workers \ {w} :
            pc'[v] = pc[v] /\ job'[v] = job[v] /\ got'[v] = got[v] /\ page'[v] = page[v]
      BY <1>4 DEF Work, Take, Hit, Miss, ReadPage, Store, Fail, Refuse, RunCheck, Complete, TypeOK
    <2>1. \A v \in Workers \ {w} : Kept(v)'
      BY <1>2, <2>0
    <2>2. UNCHANGED <<on, off>>
      BY <1>4 DEF Work, Take, Hit, Miss, ReadPage, Store, Fail, Refuse, RunCheck, Complete
    <2>3. Kept(w) /\ (pc[w] # "idle" => SubOf(job[w]) \in Subs)
      BY JobFacts DEF GotInv, WorkInv
    <2>4. CASE Take(w) \/ Miss(w)
      <3>1. /\ pc'[w] = IF pc[w] = "idle" THEN "lookup" ELSE "fetching"
            /\ pc[w] \in {"idle", "lookup"}
            /\ got'[w] = got[w] /\ page'[w] = page[w] /\ cached' = cached
        BY <2>4 DEF Take, Miss, TypeOK
      <3>2. got'[w] = {} /\ page'[w] = 0
        BY <2>3, <3>1
      <3>3. ReadBy(w)' = {}
        BY <3>2 DEF ReadBy
      <3>4. Kept(w)'
        BY <3>1, <3>2, <3>3 DEF Accounts
      <3>. QED BY <1>3, <2>1, <3>1, <3>4
    <2>5. CASE Hit(w)
      <3>1. /\ pc'[w] = "precheck" /\ pc[w] # "idle" /\ job' = job
            /\ SubOf(job[w]) \in DOMAIN cached
            /\ got'[w] = cached[SubOf(job[w])] /\ cached' = cached
        BY <2>5 DEF Hit, TypeOK
      <3>2. Accounts(SubOf(job[w]), cached[SubOf(job[w])], Namespaces)
        BY <3>1 DEF GotInv
      <3>3. Accounts(SubOf(job[w]), got[w], Namespaces)'
        BY <2>2, <3>1, <3>2 DEF Accounts
      <3>. QED BY <1>3, <2>1, <3>1, <3>3
    <2>6. CASE ReadPage(w)
      <3> DEFINE new == Pages[page[w] + 1]
                 s == SubOf(job[w])
      <3>1. /\ pc[w] = "fetching" /\ pc'[w] = "fetching" /\ job' = job /\ cached' = cached
            /\ got'[w] = got[w] \cup {Lower(p) : p \in new \cap registered[s]}
            /\ page'[w] = page[w] + 1
        BY <2>6 DEF ReadPage, TypeOK
      <3>2. page[w] + 1 \in 1..Len(Pages) /\ page[w] \in Nat
        BY <2>6, JobFacts DEF ReadPage, TypeOK
      <3>3. s \in Subs /\ new \subseteq Namespaces
        BY <2>3, <3>1, <3>2, PageFacts
      <3>4. ReadBy(w)' = ReadBy(w) \cup new
        <4>1. 1..(page[w] + 1) = 1..page[w] \cup {page[w] + 1}
          BY <3>2
        <4>. QED BY <3>1, <4>1 DEF ReadBy
      <3>5. Accounts(s, got[w], ReadBy(w))
        BY <2>3, <3>1
      <3>6. \A x \in got'[w] : \E q \in on[s] : Lower(q) = x
        BY <3>1, <3>3, <3>5 DEF Accounts, SeenInv
      <3>7. \A q \in ReadBy(w) \cup new : Lower(q) \notin got'[w] => q \in off[s]
        BY <3>1, <3>3, <3>5 DEF Accounts, SeenInv
      <3>8. Accounts(SubOf(job[w]), got[w], ReadBy(w))'
        BY <2>2, <3>1, <3>4, <3>6, <3>7 DEF Accounts
      <3>. QED BY <1>3, <2>1, <3>1, <3>8
    <2>7. CASE Store(w)
      <3> DEFINE s == SubOf(job[w])
      <3>1. /\ pc[w] = "fetching" /\ pc'[w] = "precheck" /\ job' = job /\ got' = got
            /\ page[w] = Len(Pages)
            /\ cached' = [t \in DOMAIN cached \cup {s} |-> IF t = s THEN got[w] ELSE cached[t]]
        BY <2>7 DEF Store, TypeOK
      <3>2. ReadBy(w) = Namespaces
        BY <3>1, ScanAssumption DEF ReadBy, Namespaces
      <3>3. Accounts(s, got[w], Namespaces)
        BY <2>3, <3>1, <3>2
      <3>4. Accounts(SubOf(job[w]), got[w], Namespaces)'
        BY <2>2, <3>1, <3>3 DEF Accounts
      <3>5. (\A t \in DOMAIN cached : Accounts(t, cached[t], Namespaces))'
        <4> SUFFICES ASSUME NEW t \in DOMAIN cached'
                     PROVE  Accounts(t, cached[t], Namespaces)'
          OBVIOUS
        <4>1. t \in DOMAIN cached \cup {s} /\ cached'[t] = IF t = s THEN got[w] ELSE cached[t]
          BY <3>1
        <4>2. Accounts(t, IF t = s THEN got[w] ELSE cached[t], Namespaces)
          BY <3>3, <4>1 DEF GotInv
        <4>. QED BY <2>2, <4>1, <4>2 DEF Accounts
      <3>6. Kept(w)'
        BY <3>1, <3>4
      <3>. QED BY <2>1, <3>5, <3>6 DEF GotInv
    <2>8. CASE Fail(w) \/ Refuse(w) \/ RunCheck(w)
      <3>1. PICK r \in Outcome : Complete(w, r)
        BY <2>8, CompleteFacts
      <3>2. pc'[w] = "idle" /\ got'[w] = {} /\ page'[w] = 0 /\ cached' = cached
        BY <3>1 DEF Complete, TypeOK
      <3>. QED BY <1>3, <2>1, <3>2
    <2>. QED BY <1>4, <2>4, <2>5, <2>6, <2>7, <2>8 DEF Work
  <1>5. ASSUME UNCHANGED <<cached, workVars>> PROVE GotInv'
    BY <1>2, <1>3, <1>5
  <1>6. \/ UNCHANGED <<cached, workVars>>
        \/ \E w \in Workers : Work(w)
    BY DEF Next, MainStep, Prepared, PrepareFails, Record, Return, Toggle, vars
  <1>. QED BY <1>4, <1>5, <1>6

\* No verdict is invented: a check that was refused had a provider off at some
\* moment of the scan, one that ran had all of them on at some moment, and one
\* that missed waste ran where a provider was off (engine.py:197-213,
\* azure.py:670-703).
THEOREM Justified == Spec => []VerdictsAreJustified
  <1>1. Base /\ JustInv /\ [Next]_vars => JustInv'
    <2> SUFFICES ASSUME TypeOK, WorkInv, JustInv, [Next]_vars PROVE JustInv'
      BY DEF Base
    <2>1. SeenInv /\ GotInv
      BY DEF JustInv
    <2>2. SeenGrows /\ SeenInv'
      BY <2>1, SeenStep
    <2>3. GotInv'
      BY <2>1, <2>2, GotStep
    <2>4. VerdictsAreJustified'
      BY <2>2, VerdictsStep
    <2>. QED BY <2>2, <2>3, <2>4 DEF JustInv
  <1>2. JustInv => VerdictsAreJustified
    BY DEF JustInv
  <1>. QED BY <1>1, <1>2, JustInit, BaseCorrect, PTL DEF Spec
=============================================================================
