--------------------------- MODULE TransportProofs ---------------------------
(***************************************************************************)
(* For any number of parents, pages, threads and attempts: a parent's rows *)
(* come whole or not at all, a walk that returns misses only refused       *)
(* parents, no read asks Azure too often and none goes on after the walk.  *)
(*                                                                         *)
(* A read that has not failed holds the pages before the one it asks for,  *)
(* none of which was the last (ReadOK), and has spent at most MAX_ATTEMPTS *)
(* requests on each (CountOK); the walk holds what the completed reads had *)
(* (WalkInv).                                                              *)
(***************************************************************************)
EXTENDS Transport, SequenceTheorems, TLAPS

ReadOK(r) ==
  /\ \A i \in DOMAIN read[r] : read[r][i] = i
  /\ Len(read[r]) = IF state[r] = "done" THEN page[r] ELSE page[r] - 1
  /\ \A i \in 1..page[r] - 1 : ~IsLast(r, i)
  /\ state[r] = "done" => IsLast(r, page[r])
  /\ error[r] = "none" <=> state[r] # "raised"

CountOK(r) ==
  asked[r] <= MAX_ATTEMPTS * (page[r] - 1) + (IF Ended(r) THEN MAX_ATTEMPTS ELSE attempt[r])

ReadInv == \A r \in Parents : ReadOK(r) /\ CountOK(r)

WalkInv ==
  /\ \A r \in collected : Ended(r)
  /\ \A r \in collected : r \in DOMAIN items <=> error[r] = "none"
  /\ \A r \in DOMAIN items : items[r] = read[r]
  /\ phase = "returned" => collected = Parents
  /\ phase \in {"walking", "returned"} <=> \A r \in collected : error[r] \in {"none", "arm"}
  /\ NobodyReadsOn

IInv == TypeOK /\ ReadInv /\ WalkInv

----------------------------------------------------------------------------
LEMMA ConstantsType ==
  /\ \A r \in Parents : Pages[r] \in Nat \ {0} /\ Empty[r] \subseteq Nat
  /\ \A r \in Graph : r \in Parents /\ Empty[r] \cap 1..Pages[r] - 1 = {}
  /\ Endless \subseteq Graph
  /\ MAX_ATTEMPTS \in Nat \ {0}
BY TransportAssumption

LEMMA Times ==
  ASSUME NEW m \in Nat, NEW a \in Nat, NEW b \in Nat
  PROVE  /\ m * a \in Nat
         /\ m * (a + 1) = m * a + m
         /\ a <= b => m * a <= m * b
<1>1. m * a \in Nat /\ m * (a + 1) = m * a + m
  OBVIOUS
<1>2. ASSUME a <= b PROVE m * a <= m * b
  <2>1. b - a \in Nat /\ b = a + (b - a)
    BY <1>2
  <2>2. m * (b - a) \in Nat
    BY <2>1
  <2>3. m * b = m * a + m * (b - a)
    BY <2>1
  <2> QED
    BY <1>1, <2>2, <2>3
<1> QED
  BY <1>1, <1>2

\* A read is never past the page after which it must stop.
LEMMA PageBound ==
  ASSUME TypeOK, NEW r \in Parents, ReadOK(r)
  PROVE  page[r] <= (IF r \in Endless THEN Pages[r] + 1 ELSE Pages[r])
<1>1. page[r] \in Nat \ {0} /\ Pages[r] \in Nat \ {0}
  BY ConstantsType DEF TypeOK
<1>2. CASE page[r] = 1
  BY <1>1, <1>2
<1>3. CASE page[r] # 1
  <2>1. page[r] - 1 \in 1..page[r] - 1
    BY <1>1, <1>3
  <2>2. ~IsLast(r, page[r] - 1)
    BY <2>1 DEF ReadOK
  <2> QED
    BY <1>1, <2>2, ConstantsType DEF IsLast, HasToken, HasRows
<1> QED
  BY <1>2, <1>3

\* What a read that is done has is all that Azure has.
LEMMA DoneIsWhole ==
  ASSUME TypeOK, NEW r \in Parents, ReadOK(r), state[r] = "done"
  PROVE  Whole(r, read[r])
<1>1. /\ page[r] \in Nat \ {0} /\ Pages[r] \in Nat \ {0} /\ read[r] \in Seq(Nat)
      /\ Len(read[r]) = page[r] /\ IsLast(r, page[r])
  BY ConstantsType DEF TypeOK, ReadOK
<1>2. page[r] >= Pages[r]
  BY <1>1, ConstantsType DEF IsLast, HasToken, HasRows
<1>3. DOMAIN read[r] = 1..page[r]
  BY <1>1, LenProperties
<1> QED
  BY <1>1, <1>2, <1>3 DEF Whole, ReadOK

LEMMA InitInv == Init => IInv
<1> SUFFICES ASSUME Init PROVE IInv
  OBVIOUS
<1>1. TypeOK
  <2>1. <<>> \in Seq(Nat)
    OBVIOUS
  <2> QED
    BY <2>1, ConstantsType DEF Init, TypeOK
<1>2. ReadInv
  <2> SUFFICES ASSUME NEW r \in Parents PROVE ReadOK(r) /\ CountOK(r)
    BY DEF ReadInv
  <2>1. ReadOK(r)
    BY DEF Init, ReadOK
  <2>2. CountOK(r)
    BY ConstantsType DEF Init, CountOK, Ended
  <2> QED
    BY <2>1, <2>2
<1>3. WalkInv
  BY DEF Init, WalkInv, NobodyReadsOn
<1> QED
  BY <1>1, <1>2, <1>3 DEF IInv

----------------------------------------------------------------------------
(* A step of a thread.                                                     *)

LEMMA ThreadType ==
  ASSUME TypeOK, NEW r \in Parents, Thread(r)
  PROVE  TypeOK'
<1>1. /\ state' \in [Parents -> {"queued", "asking", "waiting", "done", "raised"}]
      /\ error' \in [Parents -> {"none", "arm", "cut", "token"}]
      /\ asked' \in [Parents -> Nat]
  <2>1. state' = state \/ \E v \in {"queued", "asking", "waiting", "done", "raised"} :
          state' = [state EXCEPT ![r] = v]
    BY DEF Thread, Start, Answered, Transient, Refused, Breaks, NoToken, WaitEnds, RaiseError
  <2>2. error' = error \/ \E v \in {"arm", "cut", "token"} : error' = [error EXCEPT ![r] = v]
    BY DEF Thread, Start, Answered, Transient, Refused, Breaks, NoToken, WaitEnds, RaiseError
  <2>3. asked' = asked \/ asked' = [asked EXCEPT ![r] = @ + 1]
    BY DEF Thread, Start, Answered, Transient, Refused, Breaks, NoToken, WaitEnds, Asks
  <2>4. state' \in [Parents -> {"queued", "asking", "waiting", "done", "raised"}]
    BY <2>1 DEF TypeOK
  <2>5. error' \in [Parents -> {"none", "arm", "cut", "token"}]
    BY <2>2 DEF TypeOK
  <2>6. asked' \in [Parents -> Nat]
    <3>1. asked[r] + 1 \in Nat /\ asked \in [Parents -> Nat]
      BY DEF TypeOK
    <3> QED
      BY <2>3, <3>1
  <2> QED
    BY <2>4, <2>5, <2>6
<1>2. page' \in [Parents -> Nat \ {0}] /\ read' \in [Parents -> Seq(Nat)]
  <2>1. page' = page \/ page' = [page EXCEPT ![r] = @ + 1]
    BY DEF Thread, Start, Answered, Transient, Refused, Breaks, NoToken, WaitEnds
  <2>2. read' = read \/ read' = [read EXCEPT ![r] = Append(@, page[r])]
    BY DEF Thread, Start, Answered, Transient, Refused, Breaks, NoToken, WaitEnds
  <2>3. page' \in [Parents -> Nat \ {0}]
    <3>1. page[r] + 1 \in Nat \ {0} /\ page \in [Parents -> Nat \ {0}]
      BY DEF TypeOK
    <3> QED
      BY <2>1, <3>1
  <2>4. read' \in [Parents -> Seq(Nat)]
    <3>1. Append(read[r], page[r]) \in Seq(Nat)
      BY DEF TypeOK
    <3> QED
      BY <2>2, <3>1 DEF TypeOK
  <2> QED
    BY <2>3, <2>4
<1>3. attempt' \in [Parents -> 0..MAX_ATTEMPTS - 1]
  <2>1. \/ attempt' = attempt \/ attempt' = [attempt EXCEPT ![r] = 0]
        \/ attempt[r] < MAX_ATTEMPTS - 1 /\ attempt' = [attempt EXCEPT ![r] = @ + 1]
    BY DEF Thread, Start, Answered, Transient, Refused, Breaks, NoToken, WaitEnds
  <2> QED
    BY <2>1, ConstantsType DEF TypeOK
<1>4. UNCHANGED <<phase, collected, items>>
  BY DEF Thread, Start, Answered, Transient, Refused, Breaks, NoToken, WaitEnds, walkVars
<1> QED
  BY <1>1, <1>2, <1>3, <1>4 DEF TypeOK

\* A thread goes on with a read that has not ended, and with no other.
LEMMA ThreadFrame ==
  ASSUME TypeOK, NEW r \in Parents, Thread(r)
  PROVE  /\ ~Ended(r)
         /\ \A q \in Parents \ {r} :
              /\ state'[q] = state[q] /\ page'[q] = page[q] /\ attempt'[q] = attempt[q]
              /\ read'[q] = read[q] /\ error'[q] = error[q] /\ asked'[q] = asked[q]
         /\ UNCHANGED walkVars
BY DEF TypeOK, Thread, Start, Answered, Transient, Refused, Breaks, NoToken, WaitEnds,
       Asks, RaiseError, Ended, walkVars

LEMMA ThreadRead ==
  ASSUME TypeOK, NEW r \in Parents, ReadOK(r), Thread(r)
  PROVE  ReadOK(r)'
<1>1. CASE Start(r) \/ WaitEnds(r) \/ Refused(r) \/ Breaks(r) \/ NoToken(r) \/ Transient(r)
  <2>1. /\ page'[r] = page[r] /\ read'[r] = read[r] /\ state[r] # "done" /\ state'[r] # "done"
        /\ error'[r] = "none" <=> state'[r] # "raised"
    BY <1>1 DEF TypeOK, ReadOK, Start, WaitEnds, Refused, Breaks, NoToken, Transient, Asks,
                RaiseError
  <2> QED
    BY <2>1 DEF ReadOK, IsLast, HasToken, HasRows
<1>2. CASE Answered(r)
  <2>1. /\ state[r] = "asking" /\ page[r] \in Nat \ {0} /\ read[r] \in Seq(Nat)
        /\ Len(read[r]) = page[r] - 1 /\ read'[r] = Append(read[r], page[r])
        /\ error'[r] = "none"
    BY <1>2 DEF TypeOK, ReadOK, Answered, Asks
  <2>2. Len(read'[r]) = page[r] /\ \A i \in DOMAIN read'[r] : read'[r][i] = i
    BY <2>1, AppendProperties, LenProperties DEF ReadOK
  <2>3. CASE IsLast(r, page[r])
    <3>1. page'[r] = page[r] /\ state'[r] = "done"
      BY <1>2, <2>3 DEF Answered, TypeOK
    <3> QED
      BY <2>1, <2>2, <2>3, <3>1 DEF ReadOK, IsLast, HasToken, HasRows
  <2>4. CASE ~IsLast(r, page[r])
    <3>1. page'[r] = page[r] + 1 /\ state'[r] = "asking"
      BY <1>2, <2>1, <2>4 DEF Answered, TypeOK
    <3>2. \A i \in 1..page[r] : ~IsLast(r, i)
      <4> SUFFICES ASSUME NEW i \in 1..page[r] PROVE ~IsLast(r, i)
        OBVIOUS
      <4>1. i = page[r] \/ i \in 1..page[r] - 1
        BY <2>1
      <4> QED
        BY <2>4, <4>1 DEF ReadOK
    <3> QED
      BY <2>1, <2>2, <3>1, <3>2 DEF ReadOK, IsLast, HasToken, HasRows
  <2> QED
    BY <2>3, <2>4
<1> QED
  BY <1>1, <1>2 DEF Thread

LEMMA ThreadCount ==
  ASSUME TypeOK, NEW r \in Parents, CountOK(r), Thread(r)
  PROVE  CountOK(r)'
<1> DEFINE spent == MAX_ATTEMPTS * (page[r] - 1)
<1>1. /\ MAX_ATTEMPTS \in Nat \ {0} /\ page[r] \in Nat \ {0} /\ asked[r] \in Nat
      /\ attempt[r] \in 0..MAX_ATTEMPTS - 1 /\ ~Ended(r)
  BY ConstantsType, ThreadFrame DEF TypeOK
<1>2. spent \in Nat /\ MAX_ATTEMPTS * (page[r] + 1 - 1) = spent + MAX_ATTEMPTS
  <2>1. page[r] - 1 \in Nat /\ page[r] + 1 - 1 = (page[r] - 1) + 1
    BY <1>1
  <2> QED
    BY <1>1, <2>1, Times
<1>3. asked[r] <= spent + attempt[r]
  BY <1>1 DEF CountOK
<1>4. CASE Start(r) \/ WaitEnds(r)
  <2>1. /\ page'[r] = page[r] /\ asked'[r] = asked[r] /\ attempt'[r] = attempt[r]
        /\ state'[r] = "asking"
    BY <1>4 DEF Start, WaitEnds, TypeOK
  <2> QED
    BY <1>1, <1>2, <1>3, <2>1 DEF CountOK, Ended
<1>5. CASE Refused(r) \/ Breaks(r) \/ NoToken(r)
  <2>1. page'[r] = page[r] /\ asked'[r] <= asked[r] + 1 /\ state'[r] = "raised"
    BY <1>1, <1>5 DEF Refused, Breaks, NoToken, Asks, RaiseError, TypeOK
  <2>2. asked'[r] \in Nat
    BY ThreadType DEF TypeOK
  <2> QED
    BY <1>1, <1>2, <1>3, <2>1, <2>2 DEF CountOK, Ended
<1>6. CASE Transient(r)
  <2>1. /\ page'[r] = page[r] /\ asked'[r] = asked[r] + 1
        /\ \/ state'[r] = "raised"
           \/ state'[r] = "waiting" /\ attempt'[r] = attempt[r] + 1
    BY <1>1, <1>6 DEF Transient, Asks, RaiseError, TypeOK
  <2> QED
    BY <1>1, <1>2, <1>3, <2>1 DEF CountOK, Ended
<1>7. CASE Answered(r)
  <2>1. /\ asked'[r] = asked[r] + 1 /\ attempt'[r] = 0
        /\ \/ state'[r] = "done" /\ page'[r] = page[r]
           \/ state'[r] = "asking" /\ page'[r] = page[r] + 1
    BY <1>1, <1>7 DEF Answered, Asks, TypeOK
  <2> QED
    BY <1>1, <1>2, <1>3, <2>1 DEF CountOK, Ended
<1> QED
  BY <1>4, <1>5, <1>6, <1>7 DEF Thread

LEMMA ThreadStep ==
  ASSUME IInv, NEW r \in Parents, Thread(r)
  PROVE  IInv'
<1>1. TypeOK'
  BY ThreadType DEF IInv
<1>2. ReadInv'
  <2> SUFFICES ASSUME NEW q \in Parents PROVE ReadOK(q)' /\ CountOK(q)'
    BY DEF ReadInv
  <2>1. CASE q = r
    BY <2>1, ThreadRead, ThreadCount DEF IInv, ReadInv
  <2>2. CASE q # r
    BY <2>2, ThreadFrame DEF IInv, ReadInv, ReadOK, CountOK, Ended, IsLast, HasToken, HasRows
  <2> QED
    BY <2>1, <2>2
<1>3. WalkInv'
  <2>1. ~Ended(r) /\ r \notin collected /\ collected \subseteq Parents
        /\ DOMAIN items \subseteq collected
    BY ThreadFrame DEF IInv, WalkInv, TypeOK
  <2>2. \A q \in collected : state'[q] = state[q] /\ read'[q] = read[q] /\ error'[q] = error[q]
    BY <2>1, ThreadFrame DEF IInv
  <2>3. UNCHANGED <<phase, collected, items>>
    BY ThreadFrame DEF IInv, walkVars
  <2> QED
    BY <2>1, <2>2, <2>3 DEF IInv, WalkInv, NobodyReadsOn, Ended
<1> QED
  BY <1>1, <1>2, <1>3 DEF IInv

----------------------------------------------------------------------------
(* A step of across_parents.                                               *)

LEMMA ReadsStay ==
  ASSUME ReadInv, UNCHANGED readVars
  PROVE  ReadInv'
BY DEF ReadInv, ReadOK, CountOK, Ended, IsLast, HasToken, HasRows, readVars

LEMMA CollectStep ==
  ASSUME IInv, NEW r \in Parents, Collect(r)
  PROVE  IInv'
<1>1. /\ phase = "walking" /\ Ended(r) /\ r \notin collected /\ UNCHANGED readVars
      /\ collected' = collected \cup {r}
      /\ phase' = IF error[r] \in {"cut", "token"} THEN "raising" ELSE "walking"
  BY DEF Collect, Completed
<1>2. /\ DOMAIN items' = IF error[r] = "none" THEN DOMAIN items \cup {r} ELSE DOMAIN items
      /\ \A q \in DOMAIN items' : items'[q] = IF q = r THEN read[r] ELSE items[q]
  <2>1. CASE error[r] = "none"
    BY <2>1 DEF Collect, Yielded
  <2>2. CASE error[r] # "none"
    BY <1>1, <2>2 DEF Collect, IInv, TypeOK
  <2> QED
    BY <2>1, <2>2
<1>3. TypeOK'
  BY <1>1, <1>2 DEF IInv, TypeOK, readVars
<1>4. ReadInv'
  BY <1>1, ReadsStay DEF IInv
<1>5. WalkInv'
  <2>1. error[r] \in {"none", "arm", "cut", "token"} /\ DOMAIN items \subseteq collected
    BY DEF IInv, TypeOK
  <2> QED
    BY <1>1, <1>2, <2>1 DEF IInv, WalkInv, NobodyReadsOn, Ended, readVars
<1> QED
  BY <1>3, <1>4, <1>5 DEF IInv

LEMMA LeaveStep ==
  ASSUME IInv, Leave
  PROVE  IInv'
<1>1. TypeOK'
  BY DEF Leave, IInv, TypeOK, readVars
<1>2. ReadInv'
  BY ReadsStay DEF IInv, Leave
<1>3. WalkInv'
  BY DEF Leave, IInv, WalkInv, NobodyReadsOn, Ended, readVars
<1> QED
  BY <1>1, <1>2, <1>3 DEF IInv

THEOREM Inductive == Spec => []IInv
<1>1. IInv /\ [Next]_vars => IInv'
  <2> SUFFICES ASSUME IInv, [Next]_vars PROVE IInv'
    OBVIOUS
  <2>1. ASSUME NEW r \in Parents, Thread(r) PROVE IInv'
    BY <2>1, ThreadStep
  <2>2. ASSUME NEW r \in Parents, Collect(r) PROVE IInv'
    BY <2>2, CollectStep
  <2>3. CASE Leave
    BY <2>3, LeaveStep
  <2>4. CASE UNCHANGED vars
    <3>1. ReadInv'
      BY <2>4, ReadsStay DEF IInv, vars
    <3> QED
      BY <2>4, <3>1 DEF IInv, TypeOK, WalkInv, NobodyReadsOn, Ended, vars, readVars, walkVars
  <2> QED
    BY <2>1, <2>2, <2>3, <2>4 DEF Next
<1> QED
  BY <1>1, InitInv, PTL DEF Spec

----------------------------------------------------------------------------
\* The reads and the walk keep their types.
THEOREM TypeCorrect == Spec => []TypeOK
<1>1. IInv => TypeOK
  BY DEF IInv
<1> QED
  BY <1>1, Inductive, PTL

\* A parent's rows come whole or not at all, however its read went
\* (helpers.py:310-336, azure.py:565-666).
THEOREM AllOrNothing == Spec => []WholeOrNothing
<1>1. IInv => WholeOrNothing
  <2> SUFFICES ASSUME IInv, NEW r \in DOMAIN items PROVE Whole(r, items[r])
    BY DEF WholeOrNothing
  <2>1. r \in collected /\ r \in Parents /\ Ended(r) /\ error[r] = "none" /\ items[r] = read[r]
    BY DEF IInv, TypeOK, WalkInv
  <2>2. TypeOK /\ ReadOK(r)
    BY <2>1 DEF IInv, ReadInv
  <2>3. state[r] = "done"
    BY <2>1, <2>2 DEF Ended, ReadOK
  <2> QED
    BY <2>1, <2>2, <2>3, DoneIsWhole
<1> QED
  BY <1>1, Inductive, PTL

\* A walk that returns has missed only parents that refused or broke off the
\* read, and one that raises met a read that broke off or a missing token
\* (helpers.py:329-334).
THEOREM UnreadableOnly == Spec => []OnlyUnreadableAreMissed
<1>1. IInv => OnlyUnreadableAreMissed
  <2> SUFFICES ASSUME IInv PROVE OnlyUnreadableAreMissed
    OBVIOUS
  <2>1. \A r \in Parents : error[r] \in {"none", "arm", "cut", "token"}
    BY DEF IInv, TypeOK
  <2>2. collected \subseteq Parents
    BY DEF IInv, TypeOK
  <2> QED
    BY <2>1, <2>2 DEF IInv, WalkInv, OnlyUnreadableAreMissed
<1> QED
  BY <1>1, Inductive, PTL

\* No read asks Azure more often than MAX_ATTEMPTS times for each page there is
\* and for one token too many (azure.py:569-595, 665).
THEOREM BoundedRequests == Spec => []RequestsAreBounded
<1>1. IInv => RequestsAreBounded
  <2> SUFFICES ASSUME IInv, NEW r \in Parents
      PROVE asked[r] <= MAX_ATTEMPTS * (IF r \in Endless THEN Pages[r] + 1 ELSE Pages[r])
    BY DEF RequestsAreBounded
  <2> DEFINE limit == IF r \in Endless THEN Pages[r] + 1 ELSE Pages[r]
  <2>1. /\ MAX_ATTEMPTS \in Nat \ {0} /\ page[r] \in Nat \ {0} /\ asked[r] \in Nat
        /\ attempt[r] \in 0..MAX_ATTEMPTS - 1 /\ limit \in Nat
    BY ConstantsType DEF IInv, TypeOK
  <2>2. page[r] <= limit
    BY PageBound DEF IInv, ReadInv
  <2>3. /\ MAX_ATTEMPTS * (page[r] - 1) \in Nat
        /\ MAX_ATTEMPTS * page[r] = MAX_ATTEMPTS * (page[r] - 1) + MAX_ATTEMPTS
        /\ MAX_ATTEMPTS * page[r] <= MAX_ATTEMPTS * limit
        /\ MAX_ATTEMPTS * page[r] \in Nat /\ MAX_ATTEMPTS * limit \in Nat
    <3>1. page[r] - 1 \in Nat /\ page[r] = (page[r] - 1) + 1
      BY <2>1
    <3> HIDE DEF limit
    <3> QED
      BY <2>1, <2>2, <3>1, Times
  <2>4. asked[r] <= MAX_ATTEMPTS * (page[r] - 1) + MAX_ATTEMPTS
    BY <2>1, <2>3 DEF IInv, ReadInv, CountOK
  <2>5. asked[r] <= MAX_ATTEMPTS * limit
    <3> HIDE DEF limit
    <3> QED
      BY <2>1, <2>3, <2>4
  <2> QED
    BY <2>5
<1> QED
  BY <1>1, Inductive, PTL

\* No thread reads on after the check has ended (helpers.py:327).
THEOREM Quiet == Spec => []NobodyReadsOn
<1>1. IInv => NobodyReadsOn
  BY DEF IInv, WalkInv
<1> QED
  BY <1>1, Inductive, PTL
=============================================================================
