---------------------------- MODULE FrontendsProofs ----------------------------
(***************************************************************************)
(* Proofs about Frontends and the reports it is built from, for any        *)
(* accounts, subscriptions, checks, waste, options and messages, and any   *)
(* number of command lines.                                                *)
(*                                                                         *)
(* First what the operators of Reports return for every argument: a        *)
(* sequence is put in order, cut, filtered and added up by folds, whose    *)
(* values are found one step after the other, by the least natural number  *)
(* for which they would go wrong.  Then what a scan is taken at its word   *)
(* for, what each tool says of it, and how both outlive the writing of the *)
(* report by two processes.  Last, the lines of the server.                *)
(***************************************************************************)
EXTENDS Frontends, FiniteSetTheorems, SequenceTheorems, WellFoundedInduction, TLAPS

----------------------------------------------------------------------------
(* Induction, and the functions it defines.                                *)

\* Any set of natural numbers that has a member has a least one.
LEMMA Least ==
  ASSUME NEW T, T \subseteq Nat, T # {}
  PROVE  \E n \in T : \A m \in T : n <= m
  <1> DEFINE R == OpToRel(<, Nat)
  <1>1. IsWellFoundedOn(R, Nat)
    BY NatLessThanWellFounded
  <1>2. \A x, y \in Nat : x < y => <<x, y>> \in R
    BY DEF OpToRel
  <1> HIDE DEF R
  <1>3. PICK n \in T : \A m \in T : <<m, n>> \notin R
    BY <1>1, WFMin
  <1>4. ASSUME NEW m \in T
        PROVE  n <= m
    <2>1. m \in Nat /\ n \in Nat /\ ~(m < n)
      BY <1>2, <1>3
    <2> QED
      BY <2>1
  <1> QED
    BY <1>4

\* Induction, over a set rather than a predicate.
LEMMA Induction ==
  ASSUME NEW T, 0 \in T, \A n \in T \cap Nat : n + 1 \in T
  PROVE  Nat \subseteq T
  <1>1. SUFFICES ASSUME Nat \ T # {}
                 PROVE  FALSE
    OBVIOUS
  <1>2. PICK n \in Nat \ T : \A m \in Nat \ T : n <= m
    BY <1>1, Least
  <1>3. n # 0 /\ n - 1 \in Nat /\ (n - 1) + 1 = n
    BY <1>2
  <1>4. n - 1 \in T
    BY <1>2, <1>3
  <1> QED
    BY <1>2, <1>3, <1>4

\* A function defined by taking the chosen member of a finite set away until
\* none is left; the folds of the library are of this form.
Foldable(S, V, base, c, step) ==
  /\ IsFiniteSet(S) /\ base \in V /\ step \in [S \X V -> V]
  /\ \A t \in SUBSET S : t # {} => c[t] \in t
\* g is that function, on the subsets of S.
Folds(g, S, V, base, c, step) ==
  /\ g \in [SUBSET S -> V]
  /\ \A t \in SUBSET S : g[t] = IF t = {} THEN base ELSE step[<<c[t], g[t \ {c[t]}]>>]

LEMMA FoldExists ==
  ASSUME NEW S, NEW V, NEW base, NEW c, NEW step, Foldable(S, V, base, c, step)
  PROVE  \E g : Folds(g, S, V, base, c, step)
  <1> USE DEF Foldable
  <1> DEFINE D(n) == {t \in SUBSET S : Cardinality(t) <= n}
             Good(n, g) == \A t \in D(n) :
                             g[t] = IF t = {} THEN base ELSE step[<<c[t], g[t \ {c[t]}]>>]
             T == {n \in Nat : \E g \in [D(n) -> V] : Good(n, g)}
  <1>1. \A t \in SUBSET S : IsFiniteSet(t) /\ Cardinality(t) \in Nat
    BY FS_Subset, FS_CardinalityType
  <1>2. \A t \in SUBSET S : t # {} => /\ t \ {c[t]} \in SUBSET S /\ c[t] \in S
                                      /\ Cardinality(t \ {c[t]}) = Cardinality(t) - 1
    BY <1>1, FS_RemoveElement
  <1>3. 0 \in T
    <2>1. D(0) = {{}}
      BY <1>1, FS_EmptySet
    <2>2. Good(0, [t \in D(0) |-> base])
      BY <2>1
    <2> QED
      BY <2>2, 0 \in Nat
  <1>4. ASSUME NEW n \in T \cap Nat
        PROVE  n + 1 \in T
    <2>1. PICK g \in [D(n) -> V] : Good(n, g)
      OBVIOUS
    <2> DEFINE h == [t \in D(n + 1) |-> IF t \in D(n) THEN g[t] ELSE step[<<c[t], g[t \ {c[t]}]>>]]
    <2>2. \A t \in D(n) : t \in D(n + 1) /\ h[t] = g[t]
      BY <1>1
    <2>3. \A t \in D(n + 1) : t # {} => t \ {c[t]} \in D(n)
      BY <1>1, <1>2
    <2>4. {} \in D(n)
      BY FS_EmptySet
    <2>5. h \in [D(n + 1) -> V]
      BY <1>2, <2>3, <2>4
    <2>6. ASSUME NEW t \in D(n + 1), t # {}
          PROVE  h[t] = step[<<c[t], h[t \ {c[t]}]>>]
      <3>1. h[t \ {c[t]}] = g[t \ {c[t]}]
        BY <2>2, <2>3, <2>6
      <3> QED
        BY <2>1, <2>2, <2>6, <3>1
    <2>7. h[{}] = base
      BY <2>1, <2>2, <2>4
    <2> HIDE DEF h
    <2>8. Good(n + 1, h)
      BY <2>6, <2>7
    <2> HIDE DEF D, Good
    <2>9. n + 1 \in Nat /\ \E f \in [D(n + 1) -> V] : Good(n + 1, f)
      BY <1>4, <2>5, <2>8
    <2> QED
      BY <2>9
  <1>5. Cardinality(S) \in T
    <2> HIDE DEF T
    <2> QED
      BY <1>3, <1>4, Induction, FS_CardinalityType
  <1>6. D(Cardinality(S)) = SUBSET S
    BY FS_Subset
  <1>7. PICK g \in [SUBSET S -> V] : Good(Cardinality(S), g)
    BY <1>5, <1>6
  <1>8. Folds(g, S, V, base, c, step)
    BY <1>6, <1>7 DEF Folds
  <1> QED
    BY <1>8

\* A finite set of integers has a greatest member.
LEMMA MaxFacts ==
  ASSUME NEW n \in Nat, NEW t \in SUBSET (1..n), t # {}
  PROVE  Max(t) \in t /\ \A i \in t : Max(t) >= i
  <1>1. PICK m \in {n - i : i \in t} : \A k \in {n - i : i \in t} : m <= k
    <2>1. \A i \in t : n - i \in Nat
      OBVIOUS
    <2>2. {n - i : i \in t} \subseteq Nat /\ {n - i : i \in t} # {}
      BY <2>1
    <2> QED
      BY <2>2, Least
  <1>2. PICK j \in t : m = n - j
    BY <1>1
  <1>3. \A i \in t : j >= i
    <2> SUFFICES ASSUME NEW i \in t
                 PROVE  j >= i
      OBVIOUS
    <2>1. n - j <= n - i
      BY <1>1, <1>2
    <2> QED
      BY <2>1
  <1> QED
    BY <1>3 DEF Max

LEMMA MaxOfInterval ==
  ASSUME NEW n \in Nat, NEW k \in 1..n
  PROVE  Max(1..k) = k /\ (1..k) \ {Max(1..k)} = 1..(k - 1) /\ 1..k # {}
  <1>1. 1..k \in SUBSET (1..n) /\ k \in 1..k
    OBVIOUS
  <1>2. Max(1..k) \in 1..k /\ Max(1..k) >= k
    BY <1>1, MaxFacts
  <1>3. Max(1..k) = k
    BY <1>2
  <1> QED
    BY <1>3

\* What a fold takes from the left, step by step.
Largest(n) == [t \in SUBSET (1..n) |-> Max(t)]

Stepwise(n, V, base, step) == n \in Nat /\ base \in V /\ step \in [(1..n) \X V -> V]

LEMMA MaxFoldExists ==
  ASSUME NEW n, NEW V, NEW base, NEW step, Stepwise(n, V, base, step)
  PROVE  \E g : Folds(g, 1..n, V, base, Largest(n), step)
  <1> USE DEF Stepwise
  <1>1. \A t \in SUBSET (1..n) : t # {} => Largest(n)[t] \in t
    BY MaxFacts DEF Largest
  <1>2. IsFiniteSet(1..n)
    BY FS_Interval
  <1>3. Foldable(1..n, V, base, Largest(n), step)
    BY <1>1, <1>2 DEF Foldable
  <1> QED
    BY <1>3, FoldExists

\* p holds the values, from the first.
Walks(p, n, V, base, step) ==
  p \in [0..n -> V] /\ p[0] = base /\ \A k \in 1..n : p[k] = step[<<k, p[k - 1]>>]

LEMMA StepsExist ==
  ASSUME NEW n, NEW V, NEW base, NEW step, Stepwise(n, V, base, step)
  PROVE  \E p : Walks(p, n, V, base, step)
  <1>1. PICK g : Folds(g, 1..n, V, base, Largest(n), step)
    BY MaxFoldExists
  <1> USE DEF Stepwise
  <1> DEFINE p == [k \in 0..n |-> g[1..k]]
  <1>2. p \in [0..n -> V] /\ p[0] = base
    <2>1. \A k \in 0..n : 1..k \in SUBSET (1..n)
      OBVIOUS
    <2>2. 1..0 = {}
      OBVIOUS
    <2>3. g \in [SUBSET (1..n) -> V] /\ g[{}] = base
      BY <1>1 DEF Folds
    <2> QED
      BY <2>1, <2>2, <2>3
  <1>3. ASSUME NEW k \in 1..n
        PROVE  p[k] = step[<<k, p[k - 1]>>]
    <2>1. 1..k \in SUBSET (1..n) /\ k - 1 \in 0..n /\ k \in 0..n
      OBVIOUS
    <2>2. Largest(n)[1..k] = k
      BY <2>1, MaxOfInterval DEF Largest
    <2>3. 1..k # {} /\ (1..k) \ {k} = 1..(k - 1)
      OBVIOUS
    <2>4. g[1..k] = step[<<k, g[1..(k - 1)]>>]
      BY <1>1, <2>1, <2>2, <2>3 DEF Folds
    <2> QED
      BY <2>1, <2>4
  <1> HIDE DEF p
  <1> QED
    BY <1>2, <1>3 DEF Walks

\* Whatever holds of the first value and passes from each to the next.
LEMMA AllSteps ==
  ASSUME NEW n \in Nat, NEW Q, 0 \in Q, \A k \in 1..n : k - 1 \in Q => k \in Q
  PROVE  (\A k \in 0..n : k \in Q) /\ n \in Q
  <1> DEFINE T == {k \in Nat : k <= n => k \in Q}
  <1>1. 0 \in T
    OBVIOUS
  <1>2. \A k \in T \cap Nat : k + 1 \in T
    OBVIOUS
  <1>3. Nat \subseteq T
    <2> HIDE DEF T
    <2> QED
      BY <1>1, <1>2, Induction
  <1> QED
    BY <1>3

----------------------------------------------------------------------------
(* The folds of Reports and Frontends, step by step.                       *)

\* fs is n elements of S.
IsRun(fs, n, S) == n \in Nat /\ DOMAIN fs = 1..n /\ \A i \in 1..n : fs[i] \in S

LEMMA RunFacts ==
  ASSUME NEW S, NEW fs \in Seq(S)
  PROVE  IsRun(fs, Len(fs), S) /\ Len(fs) \in Nat
  BY DEF IsRun

\* TotalCost, seen as a walk: what the first k findings cost.
TotalWalk(p, fs, n) ==
  /\ p \in [0..n -> Int] /\ p[0] = 0 /\ \A k \in 1..n : p[k] = p[k - 1] + fs[k].cost
  /\ TotalCost(fs) = p[n]

LEMMA TotalSteps ==
  ASSUME NEW S, \A f \in S : f.cost \in Int, NEW fs, NEW n, IsRun(fs, n, S)
  PROVE  \E p : TotalWalk(p, fs, n)
  <1>0. n \in Nat /\ DOMAIN fs = 1..n /\ \A i \in 1..n : fs[i].cost \in Int
    BY DEF IsRun
  <1> USE <1>0
  <1> DEFINE step == [x \in (1..n) \X Int |-> x[2] + fs[x[1]].cost]
  <1>1. Stepwise(n, Int, 0, step)
    BY DEF Stepwise
  <1>2. PICK g : Folds(g, 1..n, Int, 0, Largest(n), step)
    <2> HIDE DEF step
    <2> QED
      BY <1>1, MaxFoldExists
  <1>3. ASSUME NEW t \in SUBSET (1..n), t # {}
        PROVE  g[t] = g[t \ {Max(t)}] + fs[Max(t)].cost
    <2>1. Max(t) \in 1..n /\ Largest(n)[t] = Max(t)
      BY <1>3, MaxFacts DEF Largest
    <2>2. g[t \ {Max(t)}] \in Int /\ g[t] = step[<<Max(t), g[t \ {Max(t)}]>>]
      BY <1>2, <1>3, <2>1 DEF Folds
    <2> QED
      BY <2>1, <2>2
  <1>4. g = [t \in SUBSET DOMAIN fs |-> IF t = {} THEN 0 ELSE g[t \ {Max(t)}] + fs[Max(t)].cost]
    BY <1>2, <1>3 DEF Folds
  <1>5. \E h : /\ h = [t \in SUBSET DOMAIN fs |->
                        IF t = {} THEN 0 ELSE h[t \ {Max(t)}] + fs[Max(t)].cost]
              /\ TotalCost(fs) = h[DOMAIN fs]
    BY <1>4 DEF TotalCost, FoldLeft, MapThenFoldSet
  <1> HIDE DEF step
  <1>6. PICK h : /\ \A t \in SUBSET (1..n) :
                      h[t] = IF t = {} THEN 0 ELSE h[t \ {Max(t)}] + fs[Max(t)].cost
                 /\ TotalCost(fs) = h[1..n]
    BY <1>5
  <1> DEFINE p == [k \in 0..n |-> h[1..k]]
  <1>7. p[0] = 0
    <2>1. 1..0 = {} /\ {} \in SUBSET (1..n) /\ 0 \in 0..n
      OBVIOUS
    <2>2. h[{}] = 0
      BY <1>6, <2>1
    <2> QED
      BY <2>1, <2>2
  <1>8. ASSUME NEW k \in 1..n
        PROVE  p[k] = p[k - 1] + fs[k].cost
    <2>1. 1..k \in SUBSET (1..n) /\ k - 1 \in 0..n /\ k \in 0..n
      OBVIOUS
    <2>2. h[1..k] = h[(1..k) \ {Max(1..k)}] + fs[Max(1..k)].cost
      BY <1>6, <2>1, MaxOfInterval
    <2>3. h[1..k] = h[1..(k - 1)] + fs[k].cost
      BY <2>2, MaxOfInterval
    <2> QED
      BY <2>1, <2>3
  <1>9. \A k \in 0..n : p[k] \in Int
    <2> DEFINE Q == {k \in 0..n : p[k] \in Int}
    <2> HIDE DEF p
    <2>0. 0 \in Q
      BY <1>7
    <2>1. ASSUME NEW k \in 1..n, k - 1 \in Q
          PROVE  k \in Q
      <3>1. p[k - 1] \in Int /\ fs[k].cost \in Int /\ k \in 0..n
        BY <2>1
      <3>2. p[k] = p[k - 1] + fs[k].cost
        BY <1>8
      <3> QED
        BY <3>1, <3>2
    <2>2. \A k \in 0..n : k \in Q
      <3> HIDE DEF Q
      <3> QED
        BY <2>0, <2>1, AllSteps
    <2> QED
      BY <2>2
  <1>10. p \in [0..n -> Int] /\ TotalCost(fs) = p[n]
    BY <1>6, <1>9
  <1> HIDE DEF p
  <1> QED
    BY <1>7, <1>8, <1>10 DEF TotalWalk

LEMMA ToSetOfConcatenation ==
  ASSUME NEW S, NEW s \in Seq(S), NEW t \in Seq(S)
  PROVE  ToSet(s \o t) = ToSet(s) \cup ToSet(t)
  <1>1. \A u : ToSet(u) = Range(u)
    BY DEF ToSet, Range
  <1> QED
    BY <1>1, RangeConcatenation

LEMMA ToSetOfAppend ==
  ASSUME NEW S, NEW s \in Seq(S), NEW e \in S
  PROVE  ToSet(Append(s, e)) = ToSet(s) \cup {e}
  <1> DEFINE u == <<e>>
  <1>1. Append(s, e) = s \o u /\ u \in Seq(S)
    OBVIOUS
  <1>2. ToSet(u) = {e}
    BY DEF ToSet
  <1> HIDE DEF u
  <1>3. ToSet(s \o u) = ToSet(s) \cup ToSet(u)
    BY <1>1, ToSetOfConcatenation
  <1> QED
    BY <1>1, <1>2, <1>3

\* Sorted puts f in front of the first it has that is cheaper.
Inserted(done, f) ==
  InsertAt(done, 1 + Cardinality({i \in DOMAIN done : ~Before(f, done[i])}), f)

LEMMA InsertedFacts ==
  ASSUME NEW S, NEW done \in Seq(S), NEW f \in S
  PROVE  Inserted(done, f) \in Seq(S) /\ ToSet(Inserted(done, f)) = ToSet(done) \cup {f}
  <1> DEFINE m == Cardinality({i \in DOMAIN done : ~Before(f, done[i])})
             a == SubSeq(done, 1, m)
             b == SubSeq(done, m + 1, Len(done))
  <1>1. m \in 0..Len(done)
    <2>1. DOMAIN done = 1..Len(done) /\ Len(done) \in Nat
      OBVIOUS
    <2>2. IsFiniteSet(DOMAIN done) /\ Cardinality(DOMAIN done) = Len(done)
      BY <2>1, FS_Interval
    <2>3. {i \in DOMAIN done : ~Before(f, done[i])} \in SUBSET DOMAIN done
      OBVIOUS
    <2> QED
      BY <2>1, <2>2, <2>3, FS_Subset, FS_CardinalityType
  <1>2. Inserted(done, f) = a \o <<f>> \o b
    <2>1. (1 + m) - 1 = m /\ 1 + m = m + 1
      BY <1>1
    <2>2. Inserted(done, f) = SubSeq(done, 1, (1 + m) - 1) \o <<f>> \o SubSeq(done, 1 + m, Len(done))
      BY DEF Inserted, InsertAt
    <2> QED
      BY <2>1, <2>2
  <1> HIDE DEF m
  <1>3. /\ a \in Seq(S) /\ Len(a) = m /\ \A i \in 1..m : a[i] = done[i]
        /\ b \in Seq(S) /\ Len(b) = Len(done) - m /\ \A i \in 1..(Len(done) - m) : b[i] = done[m + i]
    BY <1>1
  <1> HIDE DEF a, b
  <1>4. ToSet(a) \cup ToSet(b) = ToSet(done)
    <2>1. ASSUME NEW x \in ToSet(done)
          PROVE  x \in ToSet(a) \cup ToSet(b)
      <3>1. PICK i \in 1..Len(done) : x = done[i]
        BY DEF ToSet
      <3>2. CASE i <= m
        <4>1. i \in 1..m /\ DOMAIN a = 1..m
          BY <1>1, <1>3, <3>2
        <4>2. i \in DOMAIN a /\ x = a[i]
          BY <1>3, <3>1, <4>1
        <4> QED
          BY <4>2 DEF ToSet
      <3>3. CASE i > m
        <4>1. i - m \in 1..(Len(done) - m) /\ b[i - m] = done[i]
          BY <1>1, <1>3, <3>3
        <4> QED
          BY <1>3, <3>1, <4>1 DEF ToSet
      <3> QED
        BY <1>1, <3>2, <3>3
    <2>2. ToSet(a) \subseteq ToSet(done)
      BY <1>1, <1>3 DEF ToSet
    <2>3. ToSet(b) \subseteq ToSet(done)
      <3>1. \A i \in 1..(Len(done) - m) : m + i \in DOMAIN done
        BY <1>1
      <3>2. DOMAIN b = 1..(Len(done) - m)
        BY <1>3
      <3> QED
        BY <1>3, <3>1, <3>2 DEF ToSet
    <2> QED
      BY <2>1, <2>2, <2>3
  <1>5. ToSet(a \o <<f>> \o b) = ToSet(a) \cup {f} \cup ToSet(b)
    <2> DEFINE one == <<f>>
               begins == a \o one
    <2>1. begins \in Seq(S) /\ one \in Seq(S)
      BY <1>3
    <2>2. ToSet(one) = {f}
      BY DEF ToSet
    <2> HIDE DEF one
    <2>a. a \in Seq(S) /\ b \in Seq(S)
      BY <1>3
    <2>3. ToSet(begins) = ToSet(a) \cup ToSet(one)
      BY <2>1, <2>a, ToSetOfConcatenation
    <2> HIDE DEF begins
    <2>4. ToSet(begins \o b) = ToSet(begins) \cup ToSet(b)
      BY <2>1, <2>a, ToSetOfConcatenation
    <2> QED
      BY <2>2, <2>3, <2>4 DEF begins, one
  <1> QED
    BY <1>2, <1>3, <1>4, <1>5

\* Sorted, seen as a walk.
SortedWalk(p, fs, n, S) ==
  /\ p \in [0..n -> Seq(S)] /\ p[0] = <<>> /\ \A k \in 1..n : p[k] = Inserted(p[k - 1], fs[k])
  /\ Sorted(fs) = p[n]

LEMMA SortedSteps ==
  ASSUME NEW S, NEW fs, NEW n, IsRun(fs, n, S)
  PROVE  \E p : SortedWalk(p, fs, n, S)
  <1>0. n \in Nat /\ DOMAIN fs = 1..n /\ \A i \in 1..n : fs[i] \in S
    BY DEF IsRun
  <1> USE <1>0
  <1> DEFINE step == [x \in (1..n) \X Seq(S) |-> Inserted(x[2], fs[x[1]])]
  <1>1. Stepwise(n, Seq(S), <<>>, step)
    BY InsertedFacts DEF Stepwise
  <1>2. PICK g : Folds(g, 1..n, Seq(S), <<>>, Largest(n), step)
    <2> HIDE DEF step
    <2> QED
      BY <1>1, MaxFoldExists
  <1>3. ASSUME NEW t \in SUBSET (1..n), t # {}
        PROVE  g[t] = Inserted(g[t \ {Max(t)}], fs[Max(t)])
    <2>1. Max(t) \in 1..n /\ Largest(n)[t] = Max(t)
      BY <1>3, MaxFacts DEF Largest
    <2>2. g[t \ {Max(t)}] \in Seq(S) /\ g[t] = step[<<Max(t), g[t \ {Max(t)}]>>]
      BY <1>2, <1>3, <2>1 DEF Folds
    <2> QED
      BY <2>1, <2>2
  <1>4. g = [t \in SUBSET DOMAIN fs |-> IF t = {} THEN <<>> ELSE Inserted(g[t \ {Max(t)}], fs[Max(t)])]
    BY <1>2, <1>3 DEF Folds
  <1>5. \E h : /\ h = [t \in SUBSET DOMAIN fs |->
                        IF t = {} THEN <<>> ELSE Inserted(h[t \ {Max(t)}], fs[Max(t)])]
              /\ Sorted(fs) = h[DOMAIN fs]
    BY <1>4 DEF Sorted, Inserted, FoldLeft, MapThenFoldSet
  <1> HIDE DEF step
  <1>6. PICK h : /\ \A t \in SUBSET (1..n) :
                      h[t] = IF t = {} THEN <<>> ELSE Inserted(h[t \ {Max(t)}], fs[Max(t)])
                 /\ Sorted(fs) = h[1..n]
    BY <1>5
  <1> DEFINE p == [k \in 0..n |-> h[1..k]]
  <1>7. p[0] = <<>>
    <2>1. 1..0 = {} /\ {} \in SUBSET (1..n) /\ 0 \in 0..n
      OBVIOUS
    <2>2. h[{}] = <<>>
      BY <1>6, <2>1
    <2> QED
      BY <2>1, <2>2
  <1>8. ASSUME NEW k \in 1..n
        PROVE  p[k] = Inserted(p[k - 1], fs[k])
    <2>1. 1..k \in SUBSET (1..n) /\ k - 1 \in 0..n /\ k \in 0..n
      OBVIOUS
    <2>2. h[1..k] = Inserted(h[(1..k) \ {Max(1..k)}], fs[Max(1..k)])
      BY <1>6, <2>1, MaxOfInterval
    <2>3. h[1..k] = Inserted(h[1..(k - 1)], fs[k])
      BY <2>2, MaxOfInterval
    <2> QED
      BY <2>1, <2>3
  <1>9. \A k \in 0..n : p[k] \in Seq(S)
    <2> DEFINE Q == {k \in 0..n : p[k] \in Seq(S)}
    <2> HIDE DEF p
    <2>1. 0 \in Q
      <3>1. <<>> \in Seq(S) /\ 0 \in 0..n
        OBVIOUS
      <3> QED
        BY <1>7, <3>1
    <2>2. ASSUME NEW k \in 1..n, k - 1 \in Q
          PROVE  k \in Q
      BY InsertedFacts, <1>8, <2>2
    <2>3. \A k \in 0..n : k \in Q
      <3> HIDE DEF Q
      <3> QED
        BY <2>1, <2>2, AllSteps
    <2> QED
      BY <2>3
  <1>10. p \in [0..n -> Seq(S)] /\ Sorted(fs) = p[n]
    BY <1>6, <1>9
  <1> HIDE DEF p
  <1> QED
    BY <1>7, <1>8, <1>10 DEF SortedWalk

\* Keep is a function of the length of what it has seen.
KeepWalk(p, fs, n, S, these) ==
  /\ p \in [0..n -> Seq(S)] /\ p[0] = <<>>
  /\ \A k \in 1..n : p[k] = IF fs[k] \in these THEN Append(p[k - 1], fs[k]) ELSE p[k - 1]
  /\ Keep(fs, these) = p[n]

LEMMA KeepSteps ==
  ASSUME NEW S, NEW fs \in Seq(S), NEW these
  PROVE  \E p : KeepWalk(p, fs, Len(fs), S, these)
  <1> DEFINE n == Len(fs)
             step == [x \in (1..n) \X Seq(S) |->
                        IF fs[x[1]] \in these THEN Append(x[2], fs[x[1]]) ELSE x[2]]
  <1>1. n \in Nat /\ \A i \in 1..n : fs[i] \in S
    OBVIOUS
  <1>2. Stepwise(n, Seq(S), <<>>, step)
    BY <1>1 DEF Stepwise
  <1>3. PICK g : Walks(g, n, Seq(S), <<>>, step)
    <2> HIDE DEF n, step
    <2> QED
      BY <1>2, StepsExist
  <1>4. ASSUME NEW k \in 0..n, k # 0
        PROVE  g[k] = IF fs[k] \in these THEN Append(g[k - 1], fs[k]) ELSE g[k - 1]
    <2>1. k \in 1..n /\ k - 1 \in 0..n
      BY <1>1, <1>4
    <2>2. g[k] = step[<<k, g[k - 1]>>] /\ g[k - 1] \in Seq(S)
      BY <1>3, <2>1 DEF Walks
    <2> QED
      BY <2>1, <2>2
  <1> HIDE DEF step
  <1>5. g = [k \in 0..Len(fs) |-> IF k = 0 THEN <<>>
                                 ELSE IF fs[k] \in these THEN Append(g[k - 1], fs[k]) ELSE g[k - 1]]
    BY <1>3, <1>4 DEF Walks
  <1>6. PICK h : /\ h = [k \in 0..Len(fs) |-> IF k = 0 THEN <<>>
                                 ELSE IF fs[k] \in these THEN Append(h[k - 1], fs[k]) ELSE h[k - 1]]
                 /\ Keep(fs, these) = h[Len(fs)]
    BY <1>5 DEF Keep
  <1>7. h[0] = <<>>
    BY <1>1, <1>6
  <1>8. ASSUME NEW k \in 1..n
        PROVE  h[k] = IF fs[k] \in these THEN Append(h[k - 1], fs[k]) ELSE h[k - 1]
    <2>1. k \in 0..n /\ k # 0
      BY <1>1
    <2> QED
      BY <1>6, <2>1
  <1>9. \A k \in 0..n : h[k] \in Seq(S)
    <2> DEFINE Q == {k \in 0..n : h[k] \in Seq(S)}
    <2>1. 0 \in Q
      <3>1. <<>> \in Seq(S) /\ 0 \in 0..n
        OBVIOUS
      <3> QED
        BY <1>7, <3>1
    <2>2. ASSUME NEW k \in 1..n, k - 1 \in Q
          PROVE  k \in Q
      <3>1. k \in 0..n /\ fs[k] \in S /\ h[k - 1] \in Seq(S)
        BY <1>1, <2>2
      <3>2. Append(h[k - 1], fs[k]) \in Seq(S)
        BY <3>1
      <3>3. h[k] \in Seq(S)
        <4> HIDE DEF n
        <4> QED
          BY <1>8, <3>1, <3>2
      <3> QED
        BY <3>1, <3>3
    <2>3. \A k \in 0..n : k \in Q
      <3> HIDE DEF Q, n
      <3> QED
        BY <1>1, <2>1, <2>2, AllSteps
    <2> QED
      BY <2>3
  <1>10. h \in [0..n -> Seq(S)] /\ Keep(fs, these) = h[n]
    BY <1>6, <1>9
  <1> QED
    BY <1>7, <1>8, <1>10 DEF KeepWalk

\* FlattenSeq, seen as a walk that starts with nothing.
FlattenWalk(p, ss, n, S) ==
  /\ p \in [0..n -> Seq(S)] /\ p[0] = <<>> /\ \A k \in 1..n : p[k] = p[k - 1] \o ss[k]
  /\ FlattenSeq(ss) = p[n]

LEMMA FlattenSteps ==
  ASSUME NEW S, NEW ss \in Seq(Seq(S))
  PROVE  \E p : FlattenWalk(p, ss, Len(ss), S)
  <1> DEFINE n == Len(ss)
             step == [x \in (1..n) \X Seq(S) |-> x[2] \o ss[x[1]]]
  <1>1. n \in Nat /\ \A i \in 1..n : ss[i] \in Seq(S)
    OBVIOUS
  <1>2. Stepwise(n, Seq(S), <<>>, step)
    BY <1>1 DEF Stepwise
  <1>3. PICK g : Walks(g, n, Seq(S), <<>>, step)
    <2> HIDE DEF n, step
    <2> QED
      BY <1>2, StepsExist
  <1>4. ASSUME NEW k \in 1..n
        PROVE  k - 1 \in 0..n /\ g[k - 1] \in Seq(S) /\ g[k] = g[k - 1] \o ss[k]
    <2>1. k - 1 \in 0..n
      BY <1>1
    <2>2. g[k] = step[<<k, g[k - 1]>>] /\ g[k - 1] \in Seq(S)
      BY <1>3, <2>1 DEF Walks
    <2> QED
      BY <2>1, <2>2
  <1>5. g[0] = <<>> /\ g \in [0..n -> Seq(S)]
    BY <1>3 DEF Walks
  <1>6. n = Len(ss) /\ \A s \in Seq(S) : <<>> \o s = s
    OBVIOUS
  <1> HIDE DEF step, n
  <1>7. ASSUME NEW k \in 1..n, k = 1
        PROVE  g[k] = ss[k]
    <2>1. k - 1 = 0 /\ g[k - 1] = <<>> /\ ss[k] \in Seq(S)
      BY <1>1, <1>5, <1>7
    <2> QED
      BY <1>4, <1>6, <2>1
  <1>8. CASE n = 0
    <2>1. FlattenSeq(ss) = ss
      BY <1>6, <1>8 DEF FlattenSeq
    <2>2. ss = <<>>
      BY <1>6, <1>8, EmptySeq
    <2> QED
      BY <1>4, <1>5, <1>6, <1>8, <2>1, <2>2 DEF FlattenWalk
  <1>9. CASE n # 0
    <2> DEFINE f == [k \in 1..n |-> g[k]]
    <2>1. ASSUME NEW k \in 1..n
          PROVE  f[k] = IF k = 1 THEN ss[k] ELSE f[k - 1] \o ss[k]
      <3>1. CASE k = 1
        BY <1>7, <3>1
      <3>2. CASE k # 1
        <4>1. k - 1 \in 1..n
          BY <1>1, <3>2
        <4> QED
          BY <1>4, <3>2, <4>1
      <3> QED
        BY <3>1, <3>2
    <2>2. f = [k \in 1..Len(ss) |-> IF k = 1 THEN ss[k] ELSE f[k - 1] \o ss[k]]
      BY <1>6, <2>1
    <2> HIDE DEF f
    <2>3. PICK h : /\ h = [k \in 1..Len(ss) |-> IF k = 1 THEN ss[k] ELSE h[k - 1] \o ss[k]]
                   /\ FlattenSeq(ss) = h[Len(ss)]
      BY <1>6, <1>9, <2>2 DEF FlattenSeq
    <2>4. ASSUME NEW k \in 1..n
          PROVE  h[k] = IF k = 1 THEN ss[k] ELSE h[k - 1] \o ss[k]
      BY <1>6, <2>3
    <2> DEFINE Q == {k \in 0..n : k # 0 => h[k] = g[k]}
    <2>5. ASSUME NEW k \in 1..n, k - 1 \in Q
          PROVE  k \in Q
      <3>1. k \in 0..n
        BY <1>1
      <3>2. CASE k = 1
        BY <1>7, <2>4, <3>1, <3>2
      <3>3. CASE k # 1
        <4>1. k - 1 # 0
          BY <1>1, <3>3
        <4>2. h[k - 1] = g[k - 1]
          BY <2>5, <4>1
        <4> QED
          BY <1>4, <2>4, <3>1, <3>3, <4>2
      <3> QED
        BY <3>2, <3>3
    <2>6. \A k \in 0..n : k \in Q
      <3>1. 0 \in Q
        BY <1>1
      <3> HIDE DEF Q
      <3> QED
        BY <1>1, <2>5, <3>1, AllSteps
    <2>7. n \in Q
      BY <1>1, <2>6
    <2>8. FlattenSeq(ss) = g[n]
      BY <1>6, <1>9, <2>3, <2>7
    <2> QED
      BY <1>4, <1>5, <1>6, <2>8 DEF FlattenWalk
  <1> QED
    BY <1>8, <1>9

----------------------------------------------------------------------------
(* What the operators of Reports return.                                   *)

\* Sorting loses nothing and adds nothing.
LEMMA SortedFacts ==
  ASSUME NEW S, NEW fs \in Seq(S)
  PROVE  Sorted(fs) \in Seq(S) /\ ToSet(Sorted(fs)) = ToSet(fs)
  <1> DEFINE n == Len(fs)
  <1>0. n \in Nat
    OBVIOUS
  <1>1. DOMAIN fs = 1..n /\ n = Len(fs) /\ \A i \in 1..n : fs[i] \in S
    OBVIOUS
  <1>r. IsRun(fs, n, S)
    BY RunFacts
  <1> HIDE DEF n
  <1>p. PICK p : SortedWalk(p, fs, n, S)
    BY <1>r, SortedSteps
  <1>2. /\ p \in [0..n -> Seq(S)] /\ p[0] = <<>>
        /\ \A k \in 1..n : p[k] = Inserted(p[k - 1], fs[k])
        /\ Sorted(fs) = p[n]
    BY <1>p DEF SortedWalk
  <1> DEFINE Q == {k \in 0..n : ToSet(p[k]) = {fs[i] : i \in 1..k}}
  <1>3. 0 \in Q
    BY <1>1, <1>2 DEF ToSet
  <1>4. ASSUME NEW k \in 1..n, k - 1 \in Q
        PROVE  k \in Q
    <2>1. p[k - 1] \in Seq(S) /\ fs[k] \in S /\ k \in 0..n
      BY <1>0, <1>1, <1>2, <1>4
    <2>2. ToSet(p[k]) = ToSet(p[k - 1]) \cup {fs[k]}
      <3> DEFINE done == p[k - 1]
                 f == fs[k]
      <3>1. p[k] = Inserted(done, f) /\ done \in Seq(S) /\ f \in S
        BY <1>2, <2>1
      <3> HIDE DEF done, f
      <3>2. ToSet(Inserted(done, f)) = ToSet(done) \cup {f}
        BY <3>1, InsertedFacts
      <3> QED
        BY <3>1, <3>2 DEF done, f
    <2>3. 1..k = (1..(k - 1)) \cup {k}
      BY <1>0
    <2> QED
      BY <1>4, <2>1, <2>2, <2>3
  <1>5. n \in Q
    <2> HIDE DEF Q
    <2> QED
      BY <1>0, <1>3, <1>4, AllSteps
  <1> QED
    <2>1. n \in 0..n
      BY <1>0
    <2>2. ToSet(fs) = {fs[i] : i \in 1..n}
      BY <1>1 DEF ToSet
    <2> QED
      BY <1>2, <1>5, <2>1, <2>2

\* What is kept is what there was of the kind, and no more of it.
LEMMA KeepFacts ==
  ASSUME NEW S, NEW fs \in Seq(S), NEW these
  PROVE  Keep(fs, these) \in Seq(S) /\ ToSet(Keep(fs, these)) = ToSet(fs) \cap these
  <1> DEFINE n == Len(fs)
  <1>0. n \in Nat
    OBVIOUS
  <1>1. DOMAIN fs = 1..n /\ n = Len(fs) /\ \A i \in 1..n : fs[i] \in S
    OBVIOUS
  <1>p. PICK p : KeepWalk(p, fs, n, S, these)
    BY KeepSteps
  <1>2. /\ p \in [0..n -> Seq(S)] /\ p[0] = <<>>
        /\ \A k \in 1..n : p[k] = IF fs[k] \in these THEN Append(p[k - 1], fs[k]) ELSE p[k - 1]
        /\ Keep(fs, these) = p[n]
    BY <1>p DEF KeepWalk
  <1> HIDE DEF n
  <1> DEFINE Q == {k \in 0..n : ToSet(p[k]) = {fs[i] : i \in 1..k} \cap these}
  <1>3. 0 \in Q
    BY <1>1, <1>2 DEF ToSet
  <1>4. ASSUME NEW k \in 1..n, k - 1 \in Q
        PROVE  k \in Q
    <2>1. p[k - 1] \in Seq(S) /\ fs[k] \in S /\ k \in 0..n
      BY <1>0, <1>1, <1>2, <1>4
    <2>2. 1..k = (1..(k - 1)) \cup {k}
      BY <1>0
    <2>3. CASE fs[k] \in these
      <3> DEFINE s == p[k - 1]
                 f == fs[k]
      <3>1. p[k] = Append(s, f) /\ s \in Seq(S) /\ f \in S
        BY <1>2, <2>1, <2>3
      <3> HIDE DEF s, f
      <3>2. ToSet(Append(s, f)) = ToSet(s) \cup {f}
        BY <3>1, ToSetOfAppend
      <3>3. ToSet(p[k]) = ToSet(p[k - 1]) \cup {fs[k]}
        BY <3>1, <3>2 DEF s, f
      <3> QED
        BY <1>4, <2>1, <2>2, <2>3, <3>3
    <2>4. CASE fs[k] \notin these
      BY <1>2, <1>4, <2>1, <2>2, <2>4
    <2> QED
      BY <2>3, <2>4
  <1>5. n \in Q
    <2> HIDE DEF Q
    <2> QED
      BY <1>0, <1>3, <1>4, AllSteps
  <1> QED
    <2>1. n \in 0..n
      BY <1>0
    <2>2. ToSet(fs) = {fs[i] : i \in 1..n}
      BY <1>1 DEF ToSet
    <2> QED
      BY <1>2, <1>5, <2>1, <2>2

LEMMA KeepAll ==
  ASSUME NEW S, NEW fs \in Seq(S), NEW these, ToSet(fs) \subseteq these
  PROVE  Keep(fs, these) = fs
  <1> DEFINE n == Len(fs)
  <1>0. n \in Nat
    OBVIOUS
  <1>1. DOMAIN fs = 1..n /\ n = Len(fs) /\ \A i \in 1..n : fs[i] \in S /\ fs[i] \in these
    BY DEF ToSet
  <1>p. PICK p : KeepWalk(p, fs, n, S, these)
    BY KeepSteps
  <1>2. /\ p \in [0..n -> Seq(S)] /\ p[0] = <<>>
        /\ \A k \in 1..n : p[k] = IF fs[k] \in these THEN Append(p[k - 1], fs[k]) ELSE p[k - 1]
        /\ Keep(fs, these) = p[n]
    BY <1>p DEF KeepWalk
  <1> HIDE DEF n
  <1> DEFINE Q == {k \in 0..n : Len(p[k]) = k /\ \A i \in 1..k : p[k][i] = fs[i]}
  <1>3. 0 \in Q
    BY <1>1, <1>2
  <1>4. ASSUME NEW k \in 1..n, k - 1 \in Q
        PROVE  k \in Q
    <2>1. p[k - 1] \in Seq(S) /\ fs[k] \in S /\ k \in 0..n /\ Len(p[k - 1]) = k - 1
      BY <1>0, <1>1, <1>2, <1>4
    <2>2. p[k] = Append(p[k - 1], fs[k])
      BY <1>1, <1>2
    <2> DEFINE s == p[k - 1]
               f == fs[k]
    <2>3. /\ s \in Seq(S) /\ f \in S /\ Len(s) = k - 1 /\ p[k] = Append(s, f)
          /\ \A i \in 1..(k - 1) : s[i] = fs[i]
      BY <1>4, <2>1, <2>2
    <2> HIDE DEF s
    <2>4. Len(p[k]) = k /\ (\A i \in 1..(k - 1) : p[k][i] = fs[i]) /\ p[k][k] = fs[k]
      BY <1>0, <2>3
    <2> QED
      BY <1>0, <2>1, <2>4
  <1>5. n \in Q
    <2> HIDE DEF Q
    <2> QED
      BY <1>0, <1>3, <1>4, AllSteps
  <1> QED
    BY <1>1, <1>2, <1>5, SeqEqual

LEMMA TotalOfAppend ==
  ASSUME NEW S, \A f \in S : f.cost \in Int, NEW fs \in Seq(S), NEW f \in S
  PROVE  /\ TotalCost(<<>>) = 0 /\ TotalCost(fs) \in Int
         /\ TotalCost(Append(fs, f)) = TotalCost(fs) + f.cost
  <1> DEFINE n == Len(fs)
             gs == Append(fs, f)
             m == n + 1
  <1>1. /\ n \in Nat /\ DOMAIN fs = 1..n /\ \A i \in 1..n : fs[i] \in S
        /\ DOMAIN gs = 1..m /\ \A i \in 1..n : gs[i] = fs[i]
        /\ gs[m] = f /\ \A i \in 1..m : gs[i] \in S
    OBVIOUS
  <1>0. n \in Nat
    OBVIOUS
  <1>2. m \in Nat /\ m = n + 1
    BY <1>1
  <1>r. IsRun(fs, n, S) /\ IsRun(gs, m, S)
    BY <1>1, <1>2 DEF IsRun
  <1> HIDE DEF n, m, gs
  <1>p. (\E p : TotalWalk(p, fs, n)) /\ \E q : TotalWalk(q, gs, m)
    BY <1>r, TotalSteps
  <1>3. PICK p : /\ p \in [0..n -> Int] /\ p[0] = 0
                 /\ \A k \in 1..n : p[k] = p[k - 1] + fs[k].cost
                 /\ TotalCost(fs) = p[n]
    BY <1>p DEF TotalWalk
  <1>4. PICK q : /\ q \in [0..m -> Int] /\ q[0] = 0
                 /\ \A k \in 1..m : q[k] = q[k - 1] + gs[k].cost
                 /\ TotalCost(gs) = q[m]
    BY <1>p DEF TotalWalk
  <1> DEFINE Q == {k \in 0..n : p[k] = q[k]}
  <1>5. 0 \in Q
    BY <1>1, <1>3, <1>4
  <1>6. ASSUME NEW k \in 1..n, k - 1 \in Q
        PROVE  k \in Q
    <2>1. k \in 0..n /\ k \in 1..m /\ gs[k] = fs[k]
      BY <1>1, <1>2
    <2> QED
      BY <1>3, <1>4, <1>6, <2>1
  <1>7. n \in Q
    <2> HIDE DEF Q
    <2> QED
      BY <1>0, <1>5, <1>6, AllSteps
  <1>8. m \in 1..m /\ m - 1 = n /\ n \in 0..n
    BY <1>1, <1>2
  <1>9. TotalCost(gs) = TotalCost(fs) + f.cost /\ TotalCost(fs) \in Int
    BY <1>1, <1>3, <1>4, <1>7, <1>8
  <1>10. TotalCost(<<>>) = 0
    <2> DEFINE e == <<>>
               z == 0
    <2>1. IsRun(e, z, S)
      BY DEF IsRun
    <2> HIDE DEF e, z
    <2>2. PICK r : TotalWalk(r, e, z)
      BY <2>1, TotalSteps
    <2> QED
      BY <2>2 DEF TotalWalk, e, z
  <1> QED
    BY <1>9, <1>10 DEF gs

\* Findings whose costs are integers.
Priced(S) == \A f \in S : f.cost \in Int

LEMMA MeasureOfAppend ==
  ASSUME NEW S, Priced(S), NEW s \in Seq(S), NEW f \in S
  PROVE  /\ Len(s) \in Nat /\ Len(Append(s, f)) = Len(s) + 1
         /\ f.cost \in Int /\ TotalCost(s) \in Int /\ TotalCost(Append(s, f)) = TotalCost(s) + f.cost
  BY TotalOfAppend DEF Priced

\* Count and cost of c are those of a and b together.
Adds(a, b, c) == Len(c) = Len(a) + Len(b) /\ TotalCost(c) = TotalCost(a) + TotalCost(b)

LEMMA NothingAdds ==
  ASSUME NEW S, Priced(S)
  PROVE  Adds(<<>>, <<>>, <<>>)
  <1>1. IsRun(<<>>, 0, S)
    BY DEF IsRun
  <1>2. PICK r : TotalWalk(r, <<>>, 0)
    BY <1>1, TotalSteps DEF Priced
  <1>3. TotalCost(<<>>) = 0
    BY <1>2 DEF TotalWalk
  <1> QED
    BY <1>3 DEF Adds

\* What is kept for one reason or for another, which exclude each other.
LEMMA KeepSplit ==
  ASSUME NEW S, Priced(S), NEW fs \in Seq(S), NEW A, NEW B, A \cap B = {}
  PROVE  Adds(Keep(fs, A), Keep(fs, B), Keep(fs, A \cup B))
  <1> DEFINE n == Len(fs)
             C == A \cup B
  <1>0. n \in Nat
    OBVIOUS
  <1>1. \A i \in 1..n : fs[i] \in S
    OBVIOUS
  <1>2. PICK a, b, c : KeepWalk(a, fs, n, S, A) /\ KeepWalk(b, fs, n, S, B) /\ KeepWalk(c, fs, n, S, C)
    <2> HIDE DEF C
    <2> QED
      BY KeepSteps
  <1> HIDE DEF n
  <1>3. /\ a[0] = <<>> /\ \A k \in 0..n : a[k] \in Seq(S)
        /\ \A k \in 1..n : a[k] = IF fs[k] \in A THEN Append(a[k - 1], fs[k]) ELSE a[k - 1]
    BY <1>2 DEF KeepWalk
  <1>4. /\ b[0] = <<>> /\ \A k \in 0..n : b[k] \in Seq(S)
        /\ \A k \in 1..n : b[k] = IF fs[k] \in B THEN Append(b[k - 1], fs[k]) ELSE b[k - 1]
    BY <1>2 DEF KeepWalk
  <1>5. /\ c[0] = <<>> /\ \A k \in 0..n : c[k] \in Seq(S)
        /\ \A k \in 1..n : c[k] = IF fs[k] \in C THEN Append(c[k - 1], fs[k]) ELSE c[k - 1]
    BY <1>2 DEF KeepWalk
  <1> DEFINE Q == {k \in 0..n : Adds(a[k], b[k], c[k])}
  <1>6. 0 \in Q
    BY <1>0, <1>3, <1>4, <1>5, NothingAdds
  <1>7. ASSUME NEW k \in 1..n, k - 1 \in Q
        PROVE  k \in Q
    <2> DEFINE f == fs[k]
               a0 == a[k - 1]
               b0 == b[k - 1]
               c0 == c[k - 1]
    <2>1. k \in 0..n /\ k - 1 \in 0..n /\ f \in S
      BY <1>0, <1>1
    <2>2. Adds(a0, b0, c0)
      BY <1>7
    <2>3. /\ a0 \in Seq(S) /\ b0 \in Seq(S) /\ c0 \in Seq(S)
      BY <1>3, <1>4, <1>5, <2>1
    <2>4. /\ a[k] = IF f \in A THEN Append(a0, f) ELSE a0
          /\ b[k] = IF f \in B THEN Append(b0, f) ELSE b0
          /\ c[k] = IF f \in C THEN Append(c0, f) ELSE c0
      BY <1>3, <1>4, <1>5
    <2> HIDE DEF f, a0, b0, c0
    <2>5. /\ Len(a0) \in Nat /\ Len(Append(a0, f)) = Len(a0) + 1
          /\ f.cost \in Int /\ TotalCost(a0) \in Int /\ TotalCost(Append(a0, f)) = TotalCost(a0) + f.cost
      BY <2>1, <2>3, MeasureOfAppend
    <2>6. /\ Len(b0) \in Nat /\ Len(Append(b0, f)) = Len(b0) + 1
          /\ TotalCost(b0) \in Int /\ TotalCost(Append(b0, f)) = TotalCost(b0) + f.cost
      BY <2>1, <2>3, MeasureOfAppend
    <2>7. /\ Len(c0) \in Nat /\ Len(Append(c0, f)) = Len(c0) + 1
          /\ TotalCost(c0) \in Int /\ TotalCost(Append(c0, f)) = TotalCost(c0) + f.cost
      BY <2>1, <2>3, MeasureOfAppend
    <2>a. Len(c0) = Len(a0) + Len(b0) /\ TotalCost(c0) = TotalCost(a0) + TotalCost(b0)
      BY <2>2 DEF Adds
    <2>8. Adds(Append(a0, f), b0, Append(c0, f)) /\ Adds(a0, Append(b0, f), Append(c0, f))
      <3> DEFINE a1 == Append(a0, f)
                 b1 == Append(b0, f)
                 c1 == Append(c0, f)
      <3> HIDE DEF a1, b1, c1
      <3>1. Len(c1) = Len(a1) + Len(b0) /\ Len(c1) = Len(a0) + Len(b1)
        BY <2>a, <2>5, <2>6, <2>7 DEF a1, b1, c1
      <3>2. TotalCost(c1) = TotalCost(c0) + f.cost
        BY <2>7 DEF c1
      <3>3. TotalCost(a1) = TotalCost(a0) + f.cost
        BY <2>5 DEF a1
      <3>4. TotalCost(b1) = TotalCost(b0) + f.cost
        BY <2>6 DEF b1
      <3>5. TotalCost(c1) = TotalCost(a1) + TotalCost(b0) /\ TotalCost(c1) = TotalCost(a0) + TotalCost(b1)
        <4> DEFINE x == TotalCost(a0)
                   y == TotalCost(b0)
                   z == f.cost
        <4>1. x \in Int /\ y \in Int /\ z \in Int
          BY <2>5, <2>6
        <4>2. TotalCost(c1) = (x + y) + z /\ TotalCost(a1) = x + z /\ TotalCost(b1) = y + z
          BY <2>a, <3>2, <3>3, <3>4
        <4> HIDE DEF x, y, z
        <4> QED
          BY <4>1, <4>2 DEF x, y
      <3> QED
        BY <3>1, <3>5 DEF Adds, a1, b1, c1
    <2>9. Adds(a[k], b[k], c[k])
      <3>1. CASE f \in A
        BY <2>4, <2>8, <3>1
      <3>2. CASE f \in B
        BY <2>4, <2>8, <3>2
      <3>3. CASE f \notin C
        BY <2>2, <2>4, <3>3
      <3> QED
        BY <3>1, <3>2, <3>3
    <2> QED
      BY <2>1, <2>9
  <1>8. n \in Q
    <2> HIDE DEF Q
    <2> QED
      BY <1>0, <1>6, <1>7, AllSteps
  <1> QED
    BY <1>2, <1>8 DEF KeepWalk

LEMMA LenOfAppend ==
  ASSUME NEW S, NEW s \in Seq(S), NEW f \in S
  PROVE  Len(s) \in Nat /\ Len(Append(s, f)) = Len(s) + 1
  OBVIOUS

Counts(a, b, c) == Len(c) = Len(a) + Len(b)

LEMMA NothingCounts == Counts(<<>>, <<>>, <<>>)
  BY DEF Counts

\* The same by count alone, of any sequence.
LEMMA CountSplit ==
  ASSUME NEW S, NEW fs \in Seq(S), NEW A, NEW B, A \cap B = {}
  PROVE  Counts(Keep(fs, A), Keep(fs, B), Keep(fs, A \cup B))
  <1> DEFINE n == Len(fs)
             C == A \cup B
  <1>0. n \in Nat
    OBVIOUS
  <1>1. \A i \in 1..n : fs[i] \in S
    OBVIOUS
  <1>2. PICK a, b, c : KeepWalk(a, fs, n, S, A) /\ KeepWalk(b, fs, n, S, B) /\ KeepWalk(c, fs, n, S, C)
    <2> HIDE DEF C
    <2> QED
      BY KeepSteps
  <1> HIDE DEF n
  <1>3. /\ a[0] = <<>> /\ \A k \in 0..n : a[k] \in Seq(S)
        /\ \A k \in 1..n : a[k] = IF fs[k] \in A THEN Append(a[k - 1], fs[k]) ELSE a[k - 1]
    BY <1>2 DEF KeepWalk
  <1>4. /\ b[0] = <<>> /\ \A k \in 0..n : b[k] \in Seq(S)
        /\ \A k \in 1..n : b[k] = IF fs[k] \in B THEN Append(b[k - 1], fs[k]) ELSE b[k - 1]
    BY <1>2 DEF KeepWalk
  <1>5. /\ c[0] = <<>> /\ \A k \in 0..n : c[k] \in Seq(S)
        /\ \A k \in 1..n : c[k] = IF fs[k] \in C THEN Append(c[k - 1], fs[k]) ELSE c[k - 1]
    BY <1>2 DEF KeepWalk
  <1> DEFINE Q == {k \in 0..n : Counts(a[k], b[k], c[k])}
  <1>6. 0 \in Q
    BY <1>0, <1>3, <1>4, <1>5, NothingCounts
  <1>7. ASSUME NEW k \in 1..n, k - 1 \in Q
        PROVE  k \in Q
    <2> DEFINE f == fs[k]
               a0 == a[k - 1]
               b0 == b[k - 1]
               c0 == c[k - 1]
    <2>1. k \in 0..n /\ k - 1 \in 0..n /\ f \in S
      BY <1>0, <1>1
    <2>a. Counts(a0, b0, c0)
      BY <1>7
    <2>2. a0 \in Seq(S) /\ b0 \in Seq(S) /\ c0 \in Seq(S)
      BY <1>3, <1>4, <1>5, <2>1
    <2>3. /\ a[k] = IF f \in A THEN Append(a0, f) ELSE a0
          /\ b[k] = IF f \in B THEN Append(b0, f) ELSE b0
          /\ c[k] = IF f \in C THEN Append(c0, f) ELSE c0
      BY <1>3, <1>4, <1>5
    <2> HIDE DEF f, a0, b0, c0
    <2>4. Len(a0) \in Nat /\ Len(Append(a0, f)) = Len(a0) + 1
      BY <2>1, <2>2, LenOfAppend
    <2>b. Len(b0) \in Nat /\ Len(Append(b0, f)) = Len(b0) + 1
      BY <2>1, <2>2, LenOfAppend
    <2>c. Len(c0) \in Nat /\ Len(Append(c0, f)) = Len(c0) + 1
      BY <2>1, <2>2, LenOfAppend
    <2>d. Counts(Append(a0, f), b0, Append(c0, f)) /\ Counts(a0, Append(b0, f), Append(c0, f))
      <3> DEFINE a1 == Append(a0, f)
                 b1 == Append(b0, f)
                 c1 == Append(c0, f)
      <3> HIDE DEF a1, b1, c1
      <3>1. Len(c1) = Len(a1) + Len(b0) /\ Len(c1) = Len(a0) + Len(b1)
        BY <2>a, <2>4, <2>b, <2>c DEF Counts, a1, b1, c1
      <3> QED
        BY <3>1 DEF Counts, a1, b1, c1
    <2>5. Counts(a[k], b[k], c[k])
      <3>1. CASE f \in A
        BY <2>3, <2>d, <3>1
      <3>2. CASE f \in B
        BY <2>3, <2>d, <3>2
      <3>3. CASE f \notin C
        BY <2>3, <2>a, <3>3
      <3> QED
        BY <3>1, <3>2, <3>3
    <2> QED
      BY <2>1, <2>5
  <1>8. n \in Q
    <2> HIDE DEF Q
    <2> QED
      BY <1>0, <1>6, <1>7, AllSteps
  <1> QED
    BY <1>2, <1>8 DEF KeepWalk

\* The sum of a function, taking the members of its domain away one by one.
SumWalk(g, D, w) ==
  /\ g[{}] = 0
  /\ \A t \in SUBSET D : t # {} => g[t] = w[CHOOSE x \in t : TRUE] + g[t \ {CHOOSE x \in t : TRUE}]
  /\ FoldFunction(+, 0, w) = g[D]

LEMMA SumSteps ==
  ASSUME NEW D, IsFiniteSet(D), NEW w, DOMAIN w = D, \A v \in D : w[v] \in Int
  PROVE  \E g : SumWalk(g, D, w)
  <1> DEFINE c == [t \in SUBSET D |-> CHOOSE x \in t : TRUE]
             step == [x \in D \X Int |-> w[x[1]] + x[2]]
  <1>1. \A t \in SUBSET D : t # {} => c[t] \in t
    OBVIOUS
  <1>2. step \in [D \X Int -> Int]
    OBVIOUS
  <1>3. Foldable(D, Int, 0, c, step)
    <2> HIDE DEF c, step
    <2> QED
      BY <1>1, <1>2 DEF Foldable
  <1>4. PICK g : Folds(g, D, Int, 0, c, step)
    <2> HIDE DEF c, step
    <2> QED
      BY <1>3, FoldExists
  <1>5. ASSUME NEW t \in SUBSET D, t # {}
        PROVE  g[t] = w[CHOOSE x \in t : TRUE] + g[t \ {CHOOSE x \in t : TRUE}]
    <2>1. c[t] = (CHOOSE x \in t : TRUE) /\ c[t] \in D
      BY <1>1, <1>5
    <2>2. g[t \ {c[t]}] \in Int /\ g[t] = step[<<c[t], g[t \ {c[t]}]>>]
      BY <1>4, <1>5 DEF Folds
    <2>3. g[t] = w[c[t]] + g[t \ {c[t]}]
      <3> HIDE DEF c
      <3> QED
        BY <2>1, <2>2
    <2> HIDE DEF c
    <2> QED
      BY <2>1, <2>3, Zenon
  <1>6. g = [t \in SUBSET D |-> IF t = {} THEN 0
                               ELSE w[CHOOSE x \in t : TRUE] + g[t \ {CHOOSE x \in t : TRUE}]]
    <2>1. g \in [SUBSET D -> Int] /\ g[{}] = 0
      BY <1>4 DEF Folds
    <2>2. \A t \in SUBSET D :
            g[t] = IF t = {} THEN 0
                   ELSE w[CHOOSE x \in t : TRUE] + g[t \ {CHOOSE x \in t : TRUE}]
      BY <1>5, <2>1, Zenon
    <2> QED
      BY <2>1, <2>2, Zenon
  <1> HIDE DEF c, step
  <1>7. \E h : /\ h = [t \in SUBSET D |-> IF t = {} THEN 0
                               ELSE w[CHOOSE x \in t : TRUE] + h[t \ {CHOOSE x \in t : TRUE}]]
              /\ FoldFunctionOnSet(+, 0, w, D) = h[D]
    <2>1. FoldFunctionOnSet(+, 0, w, D) =
            (CHOOSE h : h = [t \in SUBSET D |-> IF t = {} THEN 0
                               ELSE w[CHOOSE x \in t : TRUE] + h[t \ {CHOOSE x \in t : TRUE}]])[D]
      BY Zenon DEF FoldFunctionOnSet, MapThenFoldSet
    <2> DEFINE IsSum(h) == h = [t \in SUBSET D |-> IF t = {} THEN 0
                                 ELSE w[CHOOSE x \in t : TRUE] + h[t \ {CHOOSE x \in t : TRUE}]]
               F == CHOOSE h : IsSum(h)
    <2>2. FoldFunctionOnSet(+, 0, w, D) = F[D]
      BY <2>1, Zenon
    <2>3. IsSum(g)
      BY <1>6, Zenon
    <2> HIDE DEF IsSum
    <2>4. IsSum(F)
      BY <2>3, Zenon
    <2> HIDE DEF F
    <2> QED
      BY <2>2, <2>4, Zenon DEF IsSum
  <1>8. FoldFunction(+, 0, w) = FoldFunctionOnSet(+, 0, w, D)
    BY DOMAIN w = D, Zenon DEF FoldFunction
  <1>9. ASSUME NEW h, h = [t \in SUBSET D |-> IF t = {} THEN 0
                               ELSE w[CHOOSE x \in t : TRUE] + h[t \ {CHOOSE x \in t : TRUE}]]
        PROVE  /\ h[{}] = 0
               /\ \A t \in SUBSET D : t # {} =>
                    h[t] = w[CHOOSE x \in t : TRUE] + h[t \ {CHOOSE x \in t : TRUE}]
    <2>1. {} \in SUBSET D
      OBVIOUS
    <2> QED
      BY <1>9, <2>1, Zenon
  <1> QED
    BY <1>7, <1>8, <1>9, Zenon DEF SumWalk

ColumnIn(fs, column, values) == {f \in ToSet(fs) : f[column] \in values}

\* The part of fs whose column is in a set, by count and cost.
LEMMA KeepColumn ==
  ASSUME NEW S, Priced(S), NEW fs \in Seq(S), NEW column, NEW values, NEW v \in values
  PROVE  /\ Adds(Keep(fs, {f \in ToSet(fs) : f[column] = v}),
                 Keep(fs, ColumnIn(fs, column, values \ {v})),
                 Keep(fs, ColumnIn(fs, column, values)))
         /\ Adds(Keep(fs, {}), Keep(fs, {}), Keep(fs, {}))
  <1> DEFINE A == {f \in ToSet(fs) : f[column] = v}
             B == ColumnIn(fs, column, values \ {v})
  <1>1. A \cap B = {} /\ A \cup B = ColumnIn(fs, column, values)
    BY DEF ColumnIn
  <1> HIDE DEF A, B
  <1>2. Adds(Keep(fs, A), Keep(fs, B), Keep(fs, A \cup B))
    BY <1>1, KeepSplit
  <1>3. Adds(Keep(fs, {}), Keep(fs, {}), Keep(fs, {} \cup {}))
    BY KeepSplit
  <1> QED
    BY <1>1, <1>2, <1>3 DEF A, B

LEMMA Measured ==
  ASSUME NEW S, Priced(S), NEW fs \in Seq(S), NEW these
  PROVE  Len(Keep(fs, these)) \in Nat /\ TotalCost(Keep(fs, these)) \in Int
  <1> DEFINE s == Keep(fs, these)
  <1>1. s \in Seq(S)
    BY KeepFacts
  <1> HIDE DEF s
  <1>2. Len(s) \in Nat
    BY <1>1
  <1>3. TotalCost(s) \in Int
    <2>1. IsRun(s, Len(s), S)
      BY <1>1, RunFacts
    <2>2. PICK r : TotalWalk(r, s, Len(s))
      BY <2>1, TotalSteps DEF Priced
    <2> QED
      BY <1>2, <2>2 DEF TotalWalk
  <1> QED
    BY <1>2, <1>3 DEF s

LEMMA ColumnIsFinite ==
  ASSUME NEW S, NEW fs \in Seq(S), NEW column
  PROVE  IsFiniteSet({f[column] : f \in ToSet(fs)})
  <1> DEFINE D == {f[column] : f \in ToSet(fs)}
             h == [i \in 1..Len(fs) |-> fs[i][column]]
  <1>1. Len(fs) \in Nat /\ DOMAIN fs = 1..Len(fs)
    OBVIOUS
  <1>2. IsFiniteSet(1..Len(fs))
    BY <1>1, FS_Interval
  <1>3. \A i \in 1..Len(fs) : h[i] \in D
    BY <1>1 DEF ToSet
  <1>4. \A d \in D : \E i \in 1..Len(fs) : h[i] = d
    BY <1>1 DEF ToSet
  <1>5. h \in Surjection(1..Len(fs), D)
    BY <1>3, <1>4 DEF Surjection
  <1> QED
    BY <1>2, <1>5, FS_Surjection

\* Every breakdown adds up to the whole.
LEMMA GroupAddsUp ==
  ASSUME NEW S, Priced(S), NEW fs \in Seq(S), NEW column
  PROVE  /\ SumOf(Group(fs, column), "count") = Len(fs)
         /\ SumOf(Group(fs, column), "cost") = TotalCost(fs)
  <1> DEFINE D == {f[column] : f \in ToSet(fs)}
             part(v) == Keep(fs, {f \in ToSet(fs) : f[column] = v})
             wn == [v \in D |-> Len(part(v))]
             wc == [v \in D |-> TotalCost(part(v))]
             Whole(t) == Keep(fs, ColumnIn(fs, column, t))
  <1>1. IsFiniteSet(D)
    BY ColumnIsFinite
  <1>2. /\ SumOf(Group(fs, column), "count") = FoldFunction(+, 0, wn)
        /\ SumOf(Group(fs, column), "cost") = FoldFunction(+, 0, wc)
    <2>1. DOMAIN Group(fs, column) = D
      BY DEF Group
    <2>2. [v \in DOMAIN Group(fs, column) |-> Group(fs, column)[v]["count"]] = wn
      BY DEF Group
    <2>3. [v \in DOMAIN Group(fs, column) |-> Group(fs, column)[v]["cost"]] = wc
      BY DEF Group
    <2> HIDE DEF D, part, wn, wc
    <2> QED
      BY <2>2, <2>3 DEF SumOf
  <1>3. \A v \in D : wn[v] \in Nat /\ wc[v] \in Int
    BY Measured
  <1>4. DOMAIN wn = D /\ DOMAIN wc = D /\ \A v \in D : wn[v] = Len(part(v)) /\ wc[v] = TotalCost(part(v))
    OBVIOUS
  <1>5. \A t : Len(Whole(t)) \in Nat /\ TotalCost(Whole(t)) \in Int
    BY Measured
  <1> HIDE DEF D, wn, wc
  <1>6. (\E g : SumWalk(g, D, wn)) /\ \E h : SumWalk(h, D, wc)
    BY <1>1, <1>3, <1>4, SumSteps
  <1>7. PICK g, h : SumWalk(g, D, wn) /\ SumWalk(h, D, wc)
    BY <1>6
  <1> DEFINE T == {n \in Nat : \A t \in SUBSET D : Cardinality(t) = n =>
                                g[t] = Len(Whole(t)) /\ h[t] = TotalCost(Whole(t))}
  <1>8. 0 \in T
    <2>1. ASSUME NEW t \in SUBSET D, Cardinality(t) = 0
          PROVE  g[t] = Len(Whole(t)) /\ h[t] = TotalCost(Whole(t))
      <3>1. t = {}
        BY <1>1, <2>1, FS_Subset, FS_EmptySet
      <3>2. ColumnIn(fs, column, t) = {} /\ Whole(t) = Keep(fs, {})
        BY <3>1 DEF ColumnIn
      <3>3. Adds(Keep(fs, {}), Keep(fs, {}), Keep(fs, {}))
        <4>1. Adds(Keep(fs, {}), Keep(fs, {}), Keep(fs, {} \cup {}))
          BY KeepSplit
        <4> QED
          BY <4>1
      <3>4. Len(Keep(fs, {})) = 0 /\ TotalCost(Keep(fs, {})) = 0
        BY <3>3, Measured DEF Adds
      <3> QED
        BY <1>7, <3>1, <3>2, <3>4 DEF SumWalk
    <2> QED
      BY <2>1
  <1>9. ASSUME NEW n \in T \cap Nat
        PROVE  n + 1 \in T
    <2>1. ASSUME NEW t \in SUBSET D, Cardinality(t) = n + 1
          PROVE  g[t] = Len(Whole(t)) /\ h[t] = TotalCost(Whole(t))
      <3> DEFINE x == CHOOSE x \in t : TRUE
                 s == t \ {x}
      <3>1. IsFiniteSet(t)
        BY <1>1, FS_Subset
      <3>2. t # {}
        <4>1. n \in Nat /\ Cardinality({}) = 0
          BY <1>9, FS_EmptySet
        <4>2. n + 1 # 0
          BY <4>1
        <4> QED
          BY <2>1, <4>1, <4>2, Zenon
      <3>3. x \in t
        BY <3>2
      <3>4. Cardinality(s) = n /\ s \in SUBSET D
        <4> HIDE DEF x
        <4>1. IsFiniteSet(s) /\ Cardinality(s) = Cardinality(t) - 1
          BY <3>1, <3>3, FS_RemoveElement
        <4> QED
          BY <1>9, <2>1, <4>1
      <3>5. g[t] = wn[x] + g[s] /\ h[t] = wc[x] + h[s]
        BY <1>7, <3>2 DEF SumWalk
      <3> HIDE DEF x
      <3>6. g[s] = Len(Whole(s)) /\ h[s] = TotalCost(Whole(s))
        BY <3>4
      <3>7. Adds(part(x), Whole(s), Whole(t))
        BY <3>3, KeepColumn
      <3>8. wn[x] = Len(part(x)) /\ wc[x] = TotalCost(part(x))
        BY <1>4, <3>3
      <3> HIDE DEF part, Whole, s
      <3> QED
        BY <3>5, <3>6, <3>7, <3>8 DEF Adds
    <2> HIDE DEF Whole
    <2> QED
      BY <2>1
  <1>10. Cardinality(D) \in T /\ Cardinality(D) \in Nat
    <2> HIDE DEF T
    <2> QED
      BY <1>1, <1>8, <1>9, Induction, FS_CardinalityType
  <1>11. Whole(D) = fs
    <2>1. ToSet(fs) \subseteq ColumnIn(fs, column, D)
      BY DEF ColumnIn, D
    <2> QED
      BY <2>1, KeepAll
  <1>12. g[D] = Len(fs) /\ h[D] = TotalCost(fs)
    <2> HIDE DEF Whole
    <2>1. g[D] = Len(Whole(D)) /\ h[D] = TotalCost(Whole(D))
      BY <1>10
    <2> QED
      BY <1>11, <2>1
  <1> QED
    BY <1>2, <1>7, <1>12 DEF SumWalk

----------------------------------------------------------------------------
(* Rounding.                                                               *)

LEMMA Quotient ==
  ASSUME NEW c \in Nat \ {0}, NEW u \in Int
  PROVE  u = c * (u \div c) + (u % c)
  OBVIOUS

LEMMA Remainder ==
  ASSUME NEW c \in Nat \ {0}, NEW u \in Int
  PROVE  u \div c \in Int /\ u % c \in Int /\ 0 <= u % c /\ u % c < c
  <1>1. u \div c \in Int
    OBVIOUS
  <1>2. u % c \in Int /\ 0 <= u % c
    OBVIOUS
  <1>3. u % c < c
    OBVIOUS
  <1> QED
    BY <1>1, <1>2, <1>3

LEMMA Distribute ==
  ASSUME NEW c \in Int, NEW m \in Int, NEW n \in Int
  PROVE  c * (m + n) = c * m + c * n /\ c * m \in Int /\ c * n \in Int
  OBVIOUS

\* Rounding moves a cost by half a cent at most.
LEMMA RoundedNear ==
  ASSUME NEW u \in Int
  PROVE  Rounded(u) \in Int /\ Near(Rounded(u), u, 1)
  <1> DEFINE q == u \div Cent
             r == u % Cent
             up == 2 * r > Cent \/ (2 * r = Cent /\ q % 2 = 1)
             p == Cent * q
  <1>1. Cent \in Nat /\ Cent > 0 /\ Cent \in Nat \ {0}
    BY CentAssumption
  <1>2. q \in Int /\ r \in Int /\ 0 <= r /\ r < Cent
    BY <1>1, Remainder
  <1>3. u = p + r
    BY <1>1, Quotient
  <1>4. Rounded(u) = Cent * (IF up THEN q + 1 ELSE q)
    BY DEF Rounded
  <1>5. (up => 2 * r >= Cent) /\ (~up => 2 * r <= Cent)
    BY <1>1, <1>2
  <1> HIDE DEF up, q, r
  <1>6. Cent * (q + 1) = p + Cent /\ p \in Int
    BY <1>1, <1>2
  <1>7. Rounded(u) = IF up THEN p + Cent ELSE p
    BY <1>4, <1>6
  <1> HIDE DEF p
  <1>8. Cent * 1 = Cent
    BY <1>1
  <1>9. CASE up
    BY <1>1, <1>2, <1>3, <1>5, <1>6, <1>7, <1>8, <1>9 DEF Near
  <1>10. CASE ~up
    BY <1>1, <1>2, <1>3, <1>5, <1>6, <1>7, <1>8, <1>10 DEF Near
  <1> QED
    BY <1>9, <1>10

LEMMA NearAdds ==
  ASSUME NEW a \in Int, NEW b \in Int, NEW c \in Int, NEW d \in Int,
         NEW m \in Int, NEW n \in Int, Near(a, b, m), Near(c, d, n)
  PROVE  Near(a + c, b + d, m + n)
  <1>1. Cent \in Int
    BY CentAssumption
  <1> DEFINE x == Cent * m
             y == Cent * n
             z == Cent * (m + n)
  <1>2. x \in Int /\ y \in Int /\ z = x + y
    BY <1>1, Distribute
  <1>3. 2 * (a - b) <= x /\ 2 * (b - a) <= x /\ 2 * (c - d) <= y /\ 2 * (d - c) <= y
    BY DEF Near
  <1> HIDE DEF x, y, z
  <1>4. 2 * ((a + c) - (b + d)) <= z /\ 2 * ((b + d) - (a + c)) <= z
    BY <1>2, <1>3
  <1> QED
    BY <1>4 DEF Near, z

LEMMA NearThrough ==
  ASSUME NEW a \in Int, NEW b \in Int, NEW c \in Int,
         NEW m \in Int, NEW n \in Int, Near(a, b, m), Near(c, b, n)
  PROVE  Near(a, c, m + n)
  <1>1. Cent \in Int
    BY CentAssumption
  <1> DEFINE x == Cent * m
             y == Cent * n
             z == Cent * (m + n)
  <1>2. x \in Int /\ y \in Int /\ z = x + y
    BY <1>1, Distribute
  <1>3. 2 * (a - b) <= x /\ 2 * (b - a) <= x /\ 2 * (b - c) <= y /\ 2 * (c - b) <= y
    BY DEF Near
  <1> HIDE DEF x, y, z
  <1>4. 2 * (a - c) <= z /\ 2 * (c - a) <= z
    BY <1>2, <1>3
  <1> QED
    BY <1>4 DEF Near, z

LEMMA NearSame ==
  ASSUME NEW a \in Int
  PROVE  Near(a, a, 0)
  <1>1. Cent * 0 = 0
    BY CentAssumption
  <1> QED
    BY <1>1 DEF Near

LEMMA NearFor ==
  ASSUME NEW a \in Int, NEW b \in Int, NEW m \in Nat, NEW n \in Nat, m <= n, Near(a, b, m)
  PROVE  Near(a, b, n)
  <1> DEFINE k == n - m
             x == Cent * m
             y == Cent * k
             z == Cent * n
  <1>1. k \in Nat /\ n = m + k /\ Cent \in Nat
    BY CentAssumption
  <1>2. y \in Int /\ y >= 0
    BY <1>1
  <1> HIDE DEF k
  <1>3. x \in Int /\ z = x + y
    BY <1>1, Distribute
  <1>4. 2 * (a - b) <= x /\ 2 * (b - a) <= x
    BY DEF Near
  <1> HIDE DEF x, y, z
  <1>5. 2 * (a - b) <= z /\ 2 * (b - a) <= z
    BY <1>2, <1>3, <1>4
  <1> QED
    BY <1>5 DEF Near, z

\* What is written down of findings comes to what they cost, but for half a
\* cent for each.
Written(S) == {Shown(f) : f \in S}

LEMMA ShowsNear ==
  ASSUME NEW S, Priced(S), NEW fs \in Seq(S)
  PROVE  /\ Shows(fs) \in Seq(Written(S)) /\ Len(Shows(fs)) = Len(fs)
         /\ Priced(Written(S))
         /\ TotalCost(Shows(fs)) \in Int /\ TotalCost(fs) \in Int
         /\ Near(TotalCost(Shows(fs)), TotalCost(fs), Len(fs))
  <1> DEFINE n == Len(fs)
             T == Written(S)
             gs == Shows(fs)
  <1>1. n \in Nat /\ DOMAIN fs = 1..n /\ \A i \in 1..n : fs[i] \in S
    OBVIOUS
  <1>2. DOMAIN gs = 1..n /\ \A i \in 1..n : gs[i] = Shown(fs[i])
    BY <1>1 DEF Shows
  <1>3. \A f \in S : f.cost \in Int /\ Shown(f).cost = Rounded(f.cost) /\ Shown(f).cost \in Int
    BY RoundedNear DEF Priced, Shown
  <1>4. Priced(T)
    BY <1>3 DEF Priced, Written
  <1>5. \A i \in 1..n : gs[i] \in T
    BY <1>1, <1>2 DEF Written
  <1>6. gs \in Seq(T) /\ Len(gs) = n
    BY <1>1, <1>2, <1>5 DEF Shows
  <1>7. IsRun(fs, n, S) /\ IsRun(gs, n, T)
    BY <1>1, <1>2, <1>5 DEF IsRun
  <1>8. \A i \in 1..n : fs[i].cost \in Int /\ gs[i].cost \in Int /\ Near(gs[i].cost, fs[i].cost, 1)
    BY <1>1, <1>2, <1>3, RoundedNear
  <1> HIDE DEF n, T, gs
  <1>9. PICK p : TotalWalk(p, fs, n)
    BY <1>7, TotalSteps DEF Priced
  <1>10. PICK q : TotalWalk(q, gs, n)
    BY <1>4, <1>7, TotalSteps DEF Priced
  <1>11. /\ \A k \in 0..n : p[k] \in Int /\ q[k] \in Int
         /\ p[0] = 0 /\ q[0] = 0 /\ TotalCost(fs) = p[n] /\ TotalCost(gs) = q[n]
         /\ \A k \in 1..n : p[k] = p[k - 1] + fs[k].cost /\ q[k] = q[k - 1] + gs[k].cost
    BY <1>9, <1>10 DEF TotalWalk
  <1> DEFINE Q == {k \in 0..n : Near(q[k], p[k], k)}
  <1>12. 0 \in Q
    BY <1>1, <1>11, NearSame
  <1>13. ASSUME NEW k \in 1..n, k - 1 \in Q
         PROVE  k \in Q
    <2> DEFINE a == q[k - 1]
               b == p[k - 1]
               c == gs[k].cost
               d == fs[k].cost
               m == k - 1
    <2>1. /\ k \in 0..n /\ m \in 0..n /\ m \in Int /\ k = m + 1
          /\ q[k] = a + c /\ p[k] = b + d
      BY <1>1, <1>11
    <2>2. a \in Int /\ b \in Int /\ c \in Int /\ d \in Int /\ Near(a, b, m) /\ Near(c, d, 1)
      BY <1>8, <1>11, <1>13, <2>1
    <2> HIDE DEF a, b, c, d, m
    <2>3. Near(a + c, b + d, m + 1)
      BY <2>1, <2>2, NearAdds
    <2> QED
      BY <2>1, <2>3
  <1>14. n \in Q
    <2> HIDE DEF Q
    <2> QED
      BY <1>1, <1>12, <1>13, AllSteps
  <1>15. Near(TotalCost(gs), TotalCost(fs), n) /\ TotalCost(gs) \in Int /\ TotalCost(fs) \in Int
    BY <1>1, <1>11, <1>14
  <1> QED
    BY <1>4, <1>6, <1>15 DEF n, T, gs

\* Sums over the same values differ by what their summands do.
LEMMA NearSums ==
  ASSUME NEW D, IsFiniteSet(D), NEW u, DOMAIN u = D, NEW v, DOMAIN v = D, NEW w, DOMAIN w = D,
         \A d \in D : u[d] \in Int /\ v[d] \in Int /\ w[d] \in Int /\ Near(u[d], v[d], w[d])
  PROVE  /\ FoldFunction(+, 0, u) \in Int /\ FoldFunction(+, 0, v) \in Int
         /\ FoldFunction(+, 0, w) \in Int
         /\ Near(FoldFunction(+, 0, u), FoldFunction(+, 0, v), FoldFunction(+, 0, w))
  <1>1. (\E f : SumWalk(f, D, u)) /\ (\E g : SumWalk(g, D, v)) /\ \E h : SumWalk(h, D, w)
    BY SumSteps
  <1>2. PICK f, g, h : SumWalk(f, D, u) /\ SumWalk(g, D, v) /\ SumWalk(h, D, w)
    BY <1>1
  <1> DEFINE Good(t) == f[t] \in Int /\ g[t] \in Int /\ h[t] \in Int /\ Near(f[t], g[t], h[t])
             T == {n \in Nat : \A t \in SUBSET D : Cardinality(t) = n => Good(t)}
  <1>3. 0 \in T
    <2>1. ASSUME NEW t \in SUBSET D, Cardinality(t) = 0
          PROVE  Good(t)
      <3>1. t = {}
        BY <2>1, FS_Subset, FS_EmptySet
      <3>2. f[{}] = 0 /\ g[{}] = 0 /\ h[{}] = 0
        BY <1>2 DEF SumWalk
      <3>3. Near(0, 0, 0)
        BY NearSame
      <3> QED
        BY <3>1, <3>2, <3>3
    <2> HIDE DEF Good
    <2> QED
      BY <2>1
  <1>4. ASSUME NEW n \in T \cap Nat
        PROVE  n + 1 \in T
    <2>1. ASSUME NEW t \in SUBSET D, Cardinality(t) = n + 1
          PROVE  Good(t)
      <3> DEFINE x == CHOOSE x \in t : TRUE
                 s == t \ {x}
      <3>1. IsFiniteSet(t)
        BY FS_Subset
      <3>2. t # {}
        <4>1. n \in Nat /\ Cardinality({}) = 0
          BY <1>4, FS_EmptySet
        <4>2. n + 1 # 0
          BY <4>1
        <4> QED
          BY <2>1, <4>1, <4>2, Zenon
      <3>3. x \in t /\ x \in D
        BY <3>2
      <3>4. Cardinality(s) = n /\ s \in SUBSET D
        <4> HIDE DEF x
        <4>1. IsFiniteSet(s) /\ Cardinality(s) = Cardinality(t) - 1
          BY <3>1, <3>3, FS_RemoveElement
        <4> QED
          BY <1>4, <2>1, <4>1
      <3>5. f[t] = u[x] + f[s] /\ g[t] = v[x] + g[s] /\ h[t] = w[x] + h[s]
        BY <1>2, <3>2 DEF SumWalk
      <3>6. Good(s)
        BY <1>4, <3>4
      <3> HIDE DEF x, s
      <3>7. u[x] \in Int /\ v[x] \in Int /\ w[x] \in Int /\ Near(u[x], v[x], w[x])
        BY <3>3
      <3>8. Near(u[x] + f[s], v[x] + g[s], w[x] + h[s])
        BY <3>6, <3>7, NearAdds
      <3> QED
        BY <3>5, <3>6, <3>7, <3>8
    <2> HIDE DEF Good
    <2> QED
      BY <2>1
  <1>5. Cardinality(D) \in T /\ Cardinality(D) \in Nat
    <2> HIDE DEF T
    <2> QED
      BY <1>3, <1>4, Induction, FS_CardinalityType
  <1>6. Good(D)
    <2> HIDE DEF Good
    <2> QED
      BY <1>5
  <1> QED
    BY <1>2, <1>6 DEF SumWalk

\* The breakdown by check is that of its findings, but for the half cents.
LEMMA ByCheckBreaks ==
  ASSUME NEW S, Priced(S), NEW fs \in Seq(S)
  PROVE  Breaks(ByCheck(fs), Len(fs), Rounded(TotalCost(fs)))
  <1> DEFINE exact == Group(fs, "check")
             by == ByCheck(fs)
             D == {f.check : f \in ToSet(fs)}
             part(v) == Keep(fs, {f \in ToSet(fs) : f.check = v})
             n == [v \in D |-> Len(part(v))]
             c == [v \in D |-> TotalCost(part(v))]
             r == [v \in D |-> Rounded(TotalCost(part(v)))]
             total == TotalCost(fs)
             k == Len(fs)
  <1>1. IsFiniteSet(D)
    <2> DEFINE E == {f["check"] : f \in ToSet(fs)}
    <2>1. IsFiniteSet(E)
      BY ColumnIsFinite
    <2> QED
      BY <2>1
  <1>2. DOMAIN exact = D /\ \A v \in D : exact[v] = [count |-> n[v], cost |-> c[v]]
    BY DEF Group
  <1>3. DOMAIN by = D /\ \A v \in D : by[v] = [count |-> n[v], cost |-> r[v]]
    <2>1. by = [v \in DOMAIN exact |-> [count |-> exact[v].count, cost |-> Rounded(exact[v].cost)]]
      BY DEF ByCheck
    <2>2. DOMAIN by = D
      BY <1>2, <2>1
    <2>3. ASSUME NEW v \in D
          PROVE  by[v] = [count |-> n[v], cost |-> r[v]]
      <3>1. by[v] = [count |-> exact[v].count, cost |-> Rounded(exact[v].cost)]
        BY <1>2, <2>1
      <3>2. exact[v].count = n[v] /\ exact[v].cost = c[v]
        <4> HIDE DEF exact, n, c, D
        <4> QED
          BY <1>2
      <3>3. r[v] = Rounded(c[v])
        OBVIOUS
      <3> HIDE DEF by, exact, n, c, r
      <3> QED
        BY <3>1, <3>2, <3>3
    <2> QED
      BY <2>2, <2>3
  <1>4. ASSUME NEW v \in D
        PROVE  n[v] \in Nat /\ n[v] >= 1 /\ c[v] \in Int /\ r[v] \in Int /\ Near(r[v], c[v], n[v])
    <2> DEFINE s == part(v)
    <2>1. s \in Seq(S) /\ ToSet(s) = ToSet(fs) \cap {f \in ToSet(fs) : f.check = v}
      BY KeepFacts
    <2>2. ToSet(s) # {}
      BY <2>1
    <2>3. Len(s) \in Nat /\ TotalCost(s) \in Int
      BY Measured
    <2> HIDE DEF s
    <2>4. Len(s) >= 1
      BY <2>1, <2>2, <2>3 DEF ToSet
    <2>5. Rounded(TotalCost(s)) \in Int /\ Near(Rounded(TotalCost(s)), TotalCost(s), 1)
      BY <2>3, RoundedNear
    <2>6. Near(Rounded(TotalCost(s)), TotalCost(s), Len(s))
      BY <2>3, <2>4, <2>5, NearFor
    <2>7. n[v] = Len(s) /\ c[v] = TotalCost(s) /\ r[v] = Rounded(TotalCost(s))
      BY DEF s
    <2> QED
      BY <2>3, <2>4, <2>5, <2>6, <2>7
  <1>5. DOMAIN n = D /\ DOMAIN c = D /\ DOMAIN r = D
    OBVIOUS
  <1> HIDE DEF exact, by, n, c, r, D
  <1>6. /\ SumOf(exact, "count") = FoldFunction(+, 0, n) /\ SumOf(exact, "cost") = FoldFunction(+, 0, c)
        /\ SumOf(by, "count") = FoldFunction(+, 0, n) /\ SumOf(by, "cost") = FoldFunction(+, 0, r)
    <2>1. [v \in DOMAIN exact |-> exact[v]["count"]] = n /\ [v \in DOMAIN exact |-> exact[v]["cost"]] = c
      BY <1>2, <1>5 DEF n, c
    <2>2. [v \in DOMAIN by |-> by[v]["count"]] = n /\ [v \in DOMAIN by |-> by[v]["cost"]] = r
      BY <1>3, <1>5 DEF n, r
    <2> QED
      BY <2>1, <2>2 DEF SumOf
  <1>7. SumOf(exact, "count") = k /\ SumOf(exact, "cost") = total
    BY GroupAddsUp DEF exact
  <1>8. k \in Nat /\ total \in Int
    <2>1. IsRun(fs, k, S) /\ k \in Nat
      BY RunFacts
    <2>2. PICK p : TotalWalk(p, fs, k)
      BY <2>1, TotalSteps DEF Priced
    <2> QED
      BY <2>1, <2>2 DEF TotalWalk
  <1>9. /\ FoldFunction(+, 0, r) \in Int
        /\ Near(FoldFunction(+, 0, r), FoldFunction(+, 0, c), FoldFunction(+, 0, n))
    <2>1. \A d \in D : r[d] \in Int /\ c[d] \in Int /\ n[d] \in Int /\ Near(r[d], c[d], n[d])
      BY <1>4
    <2> QED
      BY <1>1, <1>5, <2>1, NearSums
  <1> HIDE DEF k, total
  <1>10. SumOf(by, "count") = k /\ SumOf(by, "cost") \in Int /\ Near(SumOf(by, "cost"), total, k)
    BY <1>6, <1>7, <1>9
  <1>11. Rounded(total) \in Int /\ Near(Rounded(total), total, 1)
    BY <1>8, RoundedNear
  <1>12. Near(SumOf(by, "cost"), Rounded(total), k + 1)
    BY <1>8, <1>10, <1>11, NearThrough
  <1>13. Breaks(by, k, Rounded(total))
    BY <1>10, <1>12 DEF Breaks
  <1> QED
    BY <1>13 DEF by, k, total

LEMMA ShownTotal ==
  ASSUME NEW S, Priced(S), NEW fs \in Seq(S)
  PROVE  /\ Len(Shows(fs)) = Len(fs) /\ Rounded(TotalCost(fs)) \in Int
         /\ Near(TotalCost(Shows(fs)), Rounded(TotalCost(fs)), Len(fs) + 1)
  <1> DEFINE k == Len(fs)
             a == TotalCost(Shows(fs))
             b == TotalCost(fs)
  <1>0. k \in Nat
    OBVIOUS
  <1>1. Len(Shows(fs)) = k /\ a \in Int /\ b \in Int /\ Near(a, b, k)
    BY ShowsNear, Zenon
  <1> HIDE DEF k, a, b
  <1>2. Rounded(b) \in Int /\ Near(Rounded(b), b, 1)
    BY <1>1, RoundedNear
  <1>3. Near(a, Rounded(b), k + 1)
    BY <1>0, <1>1, <1>2, NearThrough
  <1> QED
    BY <1>1, <1>2, <1>3 DEF k, a, b

\* A breakdown of what was written down is one of what was added up before.
LEMMA ShownBreaks ==
  ASSUME NEW S, Priced(S), NEW fs \in Seq(S), NEW column
  PROVE  Breaks(Group(Shows(fs), column), Len(fs), Rounded(TotalCost(fs)))
  <1> DEFINE T == Written(S)
             gs == Shows(fs)
  <1>1. gs \in Seq(T) /\ Priced(T)
    BY ShowsNear, Zenon
  <1>2. Len(gs) = Len(fs) /\ Near(TotalCost(gs), Rounded(TotalCost(fs)), Len(fs) + 1)
    BY ShownTotal
  <1> HIDE DEF T, gs
  <1>3. SumOf(Group(gs, column), "count") = Len(gs) /\ SumOf(Group(gs, column), "cost") = TotalCost(gs)
    BY <1>1, GroupAddsUp
  <1>4. Breaks(Group(gs, column), Len(fs), Rounded(TotalCost(fs)))
    BY <1>2, <1>3 DEF Breaks
  <1> QED
    BY <1>4 DEF gs

----------------------------------------------------------------------------
(* Sequences of sequences.                                                 *)

\* What the last of the sequences gives comes last.
LEMMA FlattenAppend ==
  ASSUME NEW S, NEW ss \in Seq(Seq(S)), NEW s \in Seq(S)
  PROVE  FlattenSeq(Append(ss, s)) = FlattenSeq(ss) \o s
  <1> DEFINE n == Len(ss)
             tt == Append(ss, s)
  <1>1. n \in Nat /\ tt \in Seq(Seq(S)) /\ Len(tt) = n + 1
    OBVIOUS
  <1>2. (\A k \in 1..n : tt[k] = ss[k]) /\ tt[n + 1] = s
    OBVIOUS
  <1>3. PICK p : FlattenWalk(p, ss, n, S)
    BY FlattenSteps
  <1> HIDE DEF tt, n
  <1>4. PICK q : FlattenWalk(q, tt, n + 1, S)
    BY <1>1, FlattenSteps
  <1> DEFINE Q == {k \in 0..n : q[k] = p[k]}
  <1>5. 0 \in Q
    BY <1>1, <1>3, <1>4 DEF FlattenWalk
  <1>6. ASSUME NEW k \in 1..n, k - 1 \in Q
        PROVE  k \in Q
    <2>1. k \in 1..(n + 1) /\ k \in 0..n
      BY <1>1
    <2>2. q[k] = q[k - 1] \o tt[k] /\ p[k] = p[k - 1] \o ss[k]
      BY <1>3, <1>4, <2>1 DEF FlattenWalk
    <2> QED
      BY <1>2, <1>6, <2>1, <2>2
  <1>7. n \in Q
    <2> HIDE DEF Q
    <2> QED
      BY <1>1, <1>5, <1>6, AllSteps
  <1>8. q[n + 1] = q[n] \o s
    <2>1. n + 1 \in 1..(n + 1) /\ (n + 1) - 1 = n
      BY <1>1
    <2>2. q[n + 1] = q[(n + 1) - 1] \o tt[n + 1]
      BY <1>4, <2>1 DEF FlattenWalk
    <2> QED
      BY <1>2, <2>1, <2>2
  <1>9. FlattenSeq(tt) = q[n + 1] /\ FlattenSeq(ss) = p[n]
    BY <1>3, <1>4 DEF FlattenWalk
  <1> QED
    BY <1>7, <1>8, <1>9 DEF tt

\* A member of the whole is one of a part.
LEMMA FlattenType ==
  ASSUME NEW S, NEW ss \in Seq(Seq(S))
  PROVE  /\ FlattenSeq(ss) \in Seq(S)
         /\ ToSet(FlattenSeq(ss)) = UNION {ToSet(ss[i]) : i \in DOMAIN ss}
  <1> DEFINE n == Len(ss)
  <1>1. n \in Nat /\ DOMAIN ss = 1..n /\ \A i \in 1..n : ss[i] \in Seq(S)
    OBVIOUS
  <1>2. PICK p : FlattenWalk(p, ss, n, S)
    BY FlattenSteps
  <1>3. /\ p \in [0..n -> Seq(S)] /\ p[0] = <<>> /\ FlattenSeq(ss) = p[n]
        /\ \A k \in 1..n : p[k] = p[k - 1] \o ss[k]
    BY <1>2 DEF FlattenWalk
  <1> HIDE DEF n
  <1> DEFINE Q == {k \in 0..n : ToSet(p[k]) = UNION {ToSet(ss[i]) : i \in 1..k}}
  <1>4. 0 \in Q
    BY <1>1, <1>3 DEF ToSet
  <1>5. ASSUME NEW k \in 1..n, k - 1 \in Q
        PROVE  k \in Q
    <2> DEFINE a == p[k - 1]
               b == ss[k]
    <2>1. k - 1 \in 0..n /\ k \in 0..n
      BY <1>1
    <2>2. a \in Seq(S) /\ b \in Seq(S) /\ p[k] = a \o b
      BY <1>1, <1>3, <2>1
    <2>3. 1..k = (1..(k - 1)) \cup {k}
      BY <1>1
    <2>4. ToSet(a) = UNION {ToSet(ss[i]) : i \in 1..(k - 1)}
      BY <1>5
    <2>5. UNION {ToSet(ss[i]) : i \in 1..k} = (UNION {ToSet(ss[i]) : i \in 1..(k - 1)}) \cup ToSet(b)
      BY <2>3
    <2> HIDE DEF a, b
    <2>6. ToSet(a \o b) = ToSet(a) \cup ToSet(b)
      BY <2>2, ToSetOfConcatenation
    <2> QED
      BY <2>1, <2>2, <2>4, <2>5, <2>6
  <1>6. n \in Q
    <2> HIDE DEF Q
    <2> QED
      BY <1>1, <1>4, <1>5, AllSteps
  <1>7. n \in 0..n
    BY <1>1
  <1> QED
    BY <1>1, <1>3, <1>6, <1>7

\* What the first of the sequences gives comes first.
LEMMA FlattenTail ==
  ASSUME NEW S, NEW ss \in Seq(Seq(S)), ss # <<>>
  PROVE  FlattenSeq(ss) = Head(ss) \o FlattenSeq(Tail(ss))
  <1> DEFINE n == Len(ss)
             tt == Tail(ss)
             a  == Head(ss)
  <1>1. n \in Nat /\ n >= 1 /\ tt \in Seq(Seq(S)) /\ Len(tt) = n - 1 /\ n - 1 \in Nat /\ a \in Seq(S)
    OBVIOUS
  <1>2. (\A k \in 1..(n - 1) : tt[k] = ss[k + 1]) /\ ss[1] = a
    OBVIOUS
  <1>3. \A k \in 1..n : ss[k] \in Seq(S)
    OBVIOUS
  <1>4. PICK p : FlattenWalk(p, ss, n, S)
    BY FlattenSteps
  <1> HIDE DEF tt, n, a
  <1>5. PICK q : FlattenWalk(q, tt, n - 1, S)
    BY <1>1, FlattenSteps
  <1> DEFINE Q == {k \in 0..(n - 1) : p[k + 1] = a \o q[k]}
  <1>6. 0 \in Q
    <2>1. 1 \in 1..n /\ 1 - 1 = 0 /\ 0 + 1 = 1 /\ 0 \in 0..(n - 1)
      BY <1>1
    <2>2. p[1] = p[1 - 1] \o ss[1] /\ p[0] = <<>> /\ q[0] = <<>>
      BY <1>4, <1>5, <2>1 DEF FlattenWalk
    <2>3. <<>> \o a = a /\ a \o <<>> = a
      BY <1>1
    <2> QED
      BY <1>2, <2>1, <2>2, <2>3
  <1>7. ASSUME NEW k \in 1..(n - 1), k - 1 \in Q
        PROVE  k \in Q
    <2> DEFINE b == q[k - 1]
               c == tt[k]
    <2>1. k + 1 \in 1..n /\ (k + 1) - 1 = k /\ (k - 1) + 1 = k /\ k \in 0..(n - 1) /\ k - 1 \in 0..(n - 1)
      BY <1>1
    <2>2. p[k + 1] = p[(k + 1) - 1] \o ss[k + 1]
      BY <1>4, <2>1 DEF FlattenWalk
    <2>3. q[k] = b \o c /\ b \in Seq(S)
      BY <1>5, <2>1 DEF FlattenWalk
    <2>4. c = ss[k + 1] /\ c \in Seq(S)
      BY <1>2, <1>3, <2>1
    <2>5. p[k] = a \o b
      BY <1>7, <2>1
    <2> HIDE DEF b, c
    <2>6. (a \o b) \o c = a \o (b \o c)
      <3>1. a \in Seq(S) /\ b \in Seq(S) /\ c \in Seq(S)
        BY <1>1, <2>3, <2>4
      <3> QED
        BY <3>1, ConcatAssociative, SMTT(30)
    <2> QED
      BY <2>1, <2>2, <2>3, <2>4, <2>5, <2>6
  <1>8. n - 1 \in Q
    <2> HIDE DEF Q
    <2> QED
      BY <1>1, <1>6, <1>7, AllSteps
  <1>9. FlattenSeq(ss) = p[n] /\ FlattenSeq(tt) = q[n - 1] /\ (n - 1) + 1 = n
    BY <1>1, <1>4, <1>5 DEF FlattenWalk
  <1> QED
    BY <1>8, <1>9 DEF tt, a

\* A finite set laid out in a row, each member once.
LEMMA SetToSeqFacts ==
  ASSUME NEW T, IsFiniteSet(T)
  PROVE  SetToSeq(T) \in Seq(T) /\ ToSet(SetToSeq(T)) = T
  <1> DEFINE n == Cardinality(T)
             s == SetToSeq(T)
  <1>1. n \in Nat /\ ExistsBijection(1..n, T)
    BY FS_CardinalityType
  <1>2. IsFiniteSet(1..n) /\ Cardinality(1..n) = n
    BY <1>1, FS_Interval
  <1>3. PICK f \in [1..n -> T] : \A i, j \in 1..n : f[i] = f[j] => i = j
    BY <1>1 DEF ExistsBijection, Bijection, Injection, IsInjective
  <1>4. IsInjective(f)
    BY <1>3 DEF IsInjective
  <1>5. s \in [1..n -> T] /\ IsInjective(s)
    BY <1>4, Zenon DEF SetToSeq
  <1> HIDE DEF s
  <1>6. s \in Injection(1..n, T)
    BY <1>5 DEF IsInjective, Injection
  <1> HIDE DEF n
  <1>7. Cardinality(1..n) = Cardinality(T) /\ s \in Injection(1..n, T) /\ IsFiniteSet(T)
    BY <1>2, <1>6 DEF n
  <1>8. s \in Surjection(1..n, T)
    BY <1>7, FS_Injection
  <1>9. ToSet(s) = T
    BY <1>5, <1>8 DEF Surjection, ToSet
  <1>10. s \in Seq(T)
    BY <1>1, <1>5
  <1> QED
    BY <1>9, <1>10 DEF s


----------------------------------------------------------------------------
(* A scan.                                                                 *)

\* The pairs of the subscriptions and the checks.
LEMMA JobsFacts ==
  ASSUME NEW targets \in Seq(Subscriptions), NEW checks \in Seq(Checks)
  PROVE  /\ Jobs(targets, checks) \in Seq(Subscriptions \X Checks)
         /\ ToSet(Jobs(targets, checks)) = ToSet(targets) \X ToSet(checks)
  <1> DEFINE P == Subscriptions \X Checks
             row(i) == [j \in DOMAIN checks |-> <<targets[i], checks[j]>>]
             ss == [i \in DOMAIN targets |-> row(i)]
  <1>1. \A i \in DOMAIN targets : targets[i] \in Subscriptions
    OBVIOUS
  <1>2. \A j \in DOMAIN checks : checks[j] \in Checks
    OBVIOUS
  <1>3. Len(checks) \in Nat /\ DOMAIN checks = 1..Len(checks)
    OBVIOUS
  <1>4. \A i \in DOMAIN targets : row(i) \in Seq(P) /\ ToSet(row(i)) = {targets[i]} \X ToSet(checks)
    <2> SUFFICES ASSUME NEW i \in DOMAIN targets
                 PROVE  row(i) \in Seq(P) /\ ToSet(row(i)) = {targets[i]} \X ToSet(checks)
      OBVIOUS
    <2>1. \A j \in DOMAIN checks : <<targets[i], checks[j]>> \in P
      BY <1>1, <1>2
    <2>2. row(i) \in [DOMAIN checks -> P]
      BY <2>1
    <2>3. row(i) \in Seq(P)
      BY <1>3, <2>2
    <2>4. ToSet(row(i)) = {<<targets[i], checks[j]>> : j \in DOMAIN checks}
      BY DEF ToSet
    <2>5. ToSet(checks) = {checks[j] : j \in DOMAIN checks}
      BY DEF ToSet
    <2> QED
      BY <2>3, <2>4, <2>5
  <1> HIDE DEF row, P
  <1>5. ss \in Seq(Seq(P)) /\ DOMAIN ss = DOMAIN targets
    <2>1. Len(targets) \in Nat /\ DOMAIN targets = 1..Len(targets)
      OBVIOUS
    <2>2. \A i \in DOMAIN targets : ss[i] \in Seq(P)
      BY <1>4
    <2> QED
      BY <2>1, <2>2
  <1>6. Jobs(targets, checks) = FlattenSeq(ss)
    BY DEF Jobs, row
  <1> HIDE DEF ss
  <1>7. FlattenSeq(ss) \in Seq(P) /\ ToSet(FlattenSeq(ss)) = UNION {ToSet(ss[i]) : i \in DOMAIN ss}
    BY <1>5, FlattenType
  <1>8. \A i \in DOMAIN ss : ToSet(ss[i]) = {targets[i]} \X ToSet(checks)
    BY <1>4, <1>5 DEF ss
  <1>9. UNION {ToSet(ss[i]) : i \in DOMAIN ss} = ToSet(targets) \X ToSet(checks)
    <2>1. ToSet(targets) = {targets[i] : i \in DOMAIN targets}
      BY DEF ToSet
    <2> QED
      BY <1>5, <1>8, <2>1
  <1> QED
    BY <1>6, <1>7, <1>9 DEF P

\* The waste of the pairs that were read.
ReadIn(jobs, reads) ==
  {f \in Waste : /\ <<f.subscription, f.check>> \in ToSet(jobs)
                 /\ reads[<<f.subscription, f.check>>] = "read"}

\* A scan finds what it read, and of that everything.
LEMMA ScannedFindings ==
  ASSUME FrontendsAssumption, NEW targets, NEW checks, NEW reads,
         Jobs(targets, checks) \in Seq(Subscriptions \X Checks)
  PROVE  /\ Scanned(targets, checks, reads).findings \in Seq(Waste)
         /\ ToSet(Scanned(targets, checks, reads).findings) = ReadIn(Jobs(targets, checks), reads)
  <1> DEFINE jobs == Jobs(targets, checks)
             n  == Len(jobs)
             of(i) == WasteOf(jobs[i], reads)
             ss == [i \in DOMAIN jobs |-> SetToSeq(of(i))]
  <1>1. n \in Nat /\ DOMAIN jobs = 1..n
    OBVIOUS
  <1>2. \A p : IsFiniteSet(WasteOf(p, reads)) /\ WasteOf(p, reads) \subseteq Waste
    BY FS_Subset DEF FrontendsAssumption, WasteOf
  <1>6. Scanned(targets, checks, reads).findings = Sorted(FlattenSeq(ss))
    BY DEF Scanned
  <1> HIDE DEF jobs
  <1>3. \A i \in DOMAIN jobs : ss[i] \in Seq(of(i)) /\ ToSet(ss[i]) = of(i)
    BY <1>2, SetToSeqFacts
  <1>4. \A i \in DOMAIN jobs : ss[i] \in Seq(Waste)
    <2> HIDE DEF ss
    <2> QED
      BY <1>2, <1>3, SeqMonotonic
  <1>5. ss \in Seq(Seq(Waste)) /\ DOMAIN ss = DOMAIN jobs
    BY <1>1, <1>4
  <1> HIDE DEF ss
  <1> DEFINE fs == FlattenSeq(ss)
  <1>7. fs \in Seq(Waste) /\ ToSet(fs) = UNION {ToSet(ss[i]) : i \in DOMAIN ss}
    BY <1>5, FlattenType
  <1>8. UNION {ToSet(ss[i]) : i \in DOMAIN ss} = ReadIn(jobs, reads)
    <2>1. ASSUME NEW i \in DOMAIN ss, NEW f \in ToSet(ss[i])
          PROVE  f \in ReadIn(jobs, reads)
      <3>1. jobs[i] \in ToSet(jobs) /\ f \in WasteOf(jobs[i], reads)
        BY <1>3, <1>5, <2>1 DEF ToSet
      <3> QED
        BY <3>1 DEF WasteOf, ReadIn
    <2>2. ASSUME NEW f \in ReadIn(jobs, reads)
          PROVE  \E i \in DOMAIN ss : f \in ToSet(ss[i])
      <3>1. PICK i \in DOMAIN jobs : jobs[i] = <<f.subscription, f.check>>
        BY <2>2 DEF ReadIn, ToSet
      <3>2. f \in WasteOf(jobs[i], reads)
        BY <2>2, <3>1 DEF WasteOf, ReadIn
      <3> QED
        BY <1>3, <1>5, <3>2
    <2> QED
      BY <2>1, <2>2
  <1> HIDE DEF fs
  <1>9. Sorted(fs) \in Seq(Waste) /\ ToSet(Sorted(fs)) = ToSet(fs)
    BY <1>7, SortedFacts
  <1> QED
    BY <1>6, <1>7, <1>8, <1>9 DEF fs, jobs

LEMMA NothingThere ==
  ASSUME NEW S, NEW s \in Seq(S)
  PROVE  s = <<>> <=> ToSet(s) = {}
  BY DEF ToSet

\* None of these pairs was read.
NothingRead(jobs, reads) == \A p \in ToSet(jobs) : reads[p] # "read"

\* Nothing was read exactly when no pair is left but the failed.
LEMMA ScannedPairs ==
  ASSUME NEW targets, NEW checks, NEW reads \in [Subscriptions \X Checks -> Verdicts],
         Jobs(targets, checks) \in Seq(Subscriptions \X Checks)
  PROVE  LET r == Scanned(targets, checks, reads)
         IN  /\ r.attempted \in Nat /\ r.unavailable \in Nat /\ r.errors \in Nat
             /\ r.errors + r.unavailable = r.attempted <=> NothingRead(Jobs(targets, checks), reads)
  <1> DEFINE jobs == Jobs(targets, checks)
             P == Subscriptions \X Checks
             With(v) == {p \in ToSet(jobs) : reads[p] = v}
             E == With("error")
             U == With("unavailable")
             R == With("read")
             EU == E \cup U
             r == Scanned(targets, checks, reads)
  <1>1. r.attempted = Len(jobs) /\ r.errors = Len(Keep(jobs, E)) /\ r.unavailable = Len(Keep(jobs, U))
    BY DEF Scanned, Answered
  <1>2. E \cap U = {} /\ EU \cap R = {}
    OBVIOUS
  <1>3. jobs \in Seq(P)
    OBVIOUS
  <1>4. \A p \in ToSet(jobs) : reads[p] \in Verdicts
    <2>1. \A p \in ToSet(jobs) : p \in P
      <3> HIDE DEF jobs, P
      <3> QED
        BY <1>3 DEF ToSet
    <2> QED
      BY <2>1
  <1>5. ToSet(jobs) \subseteq EU \cup R
    BY <1>4 DEF Verdicts
  <1>6. NothingRead(jobs, reads) <=> ToSet(jobs) \cap R = {}
    BY DEF NothingRead
  <1> HIDE DEF jobs, P, E, U, R, r
  <1>7. Len(Keep(jobs, EU)) = Len(Keep(jobs, E)) + Len(Keep(jobs, U))
    BY <1>2, <1>3, CountSplit DEF Counts
  <1> HIDE DEF EU
  <1>8. Len(Keep(jobs, EU \cup R)) = Len(Keep(jobs, EU)) + Len(Keep(jobs, R))
    BY <1>2, <1>3, CountSplit DEF Counts
  <1>9. Keep(jobs, EU \cup R) = jobs
    BY <1>3, <1>5, KeepAll
  <1>10. /\ Keep(jobs, E) \in Seq(P) /\ Keep(jobs, U) \in Seq(P) /\ Keep(jobs, R) \in Seq(P)
         /\ ToSet(Keep(jobs, R)) = ToSet(jobs) \cap R
    BY <1>3, KeepFacts
  <1>11. /\ Len(Keep(jobs, E)) \in Nat /\ Len(Keep(jobs, U)) \in Nat /\ Len(Keep(jobs, R)) \in Nat
         /\ Len(jobs) \in Nat
    BY <1>3, <1>10
  <1>12. Len(Keep(jobs, R)) = 0 <=> ToSet(jobs) \cap R = {}
    <2> DEFINE s == Keep(jobs, R)
    <2>1. s \in Seq(P) /\ ToSet(s) = ToSet(jobs) \cap R
      BY <1>10
    <2> HIDE DEF s
    <2>a. s = <<>> <=> ToSet(s) = {}
      BY <2>1, NothingThere
    <2>2. Len(s) = 0 <=> ToSet(s) = {}
      BY <2>1, <2>a
    <2> QED
      BY <2>1, <2>2 DEF s
  <1>13. /\ r.attempted \in Nat /\ r.unavailable \in Nat /\ r.errors \in Nat
         /\ r.errors + r.unavailable = r.attempted <=> NothingRead(jobs, reads)
    BY <1>1, <1>6, <1>7, <1>8, <1>9, <1>11, <1>12
  <1> QED
    BY <1>13 DEF r, jobs

\* What is scanned are subscriptions, of somebody signed in.
LEMMA TargetsFacts ==
  ASSUME FrontendsAssumption, account \in Accounts \cup {None},
         NEW o, o.named \in Seq(Subscriptions), Targets(o) # None
  PROVE  /\ account \in Accounts /\ Targets(o) \in Seq(Subscriptions)
         /\ o.named # <<>> => Targets(o) = o.named
  <1>1. account \in Accounts /\ Targets(o) = ResolveSubscriptions(Enabled[account], o.named, o.all, Default[account])
    BY DEF Targets
  <1> DEFINE E == Enabled[account]
             D == Default[account]
             T == ResolveSubscriptions(E, o.named, o.all, D)
  <1>2. E \in SUBSET Subscriptions /\ IsFiniteSet(E) /\ D \in Subscriptions \cup {None}
    <2>1. E \in SUBSET Subscriptions /\ D \in Subscriptions \cup {None} /\ IsFiniteSet(Subscriptions)
      BY <1>1 DEF FrontendsAssumption
    <2> QED
      BY <2>1, FS_Subset
  <1>3. SetToSeq(E) \in Seq(Subscriptions)
    <2>1. SetToSeq(E) \in Seq(E)
      BY <1>2, SetToSeqFacts
    <2> QED
      BY <1>2, <2>1, SeqMonotonic
  <1> HIDE DEF E, D
  <1>4. T # None /\ T = Targets(o)
    BY <1>1 DEF E, D
  <1>5. CASE o.named # <<>>
    <2>1. T = o.named
      BY <1>5 DEF ResolveSubscriptions
    <2> QED
      BY <1>1, <1>4, <2>1
  <1>6. CASE o.named = <<>> /\ o.all
    <2>1. T = IF E = {} THEN None ELSE SetToSeq(E)
      BY <1>6 DEF ResolveSubscriptions
    <2> QED
      BY <1>1, <1>3, <1>4, <1>6, <2>1
  <1>7. CASE o.named = <<>> /\ ~o.all
    <2>1. T = IF D = None THEN None ELSE <<D>>
      BY <1>7 DEF ResolveSubscriptions
    <2> HIDE DEF T
    <2>2. T = <<D>> /\ D \in Subscriptions
      BY <1>2, <1>4, <2>1
    <2>3. T \in Seq(Subscriptions)
      BY <2>2
    <2> QED
      BY <1>1, <1>4, <1>7, <2>3
  <1> QED
    BY <1>5, <1>6, <1>7

LEMMA SelectedFacts ==
  ASSUME FrontendsAssumption, NEW o, o.checks \in Seq(STRING), Selected(o) # None
  PROVE  Selected(o) \in Seq(Checks)
  <1> DEFINE A == Checks \ o.disabled
  <1>1. CASE o.checks = <<>>
    <2>1. Selected(o) = SetToSeq(A)
      BY <1>1 DEF Selected, SelectChecks
    <2>2. IsFiniteSet(A) /\ A \subseteq Checks
      BY FS_Subset DEF FrontendsAssumption
    <2> HIDE DEF A
    <2>3. SetToSeq(A) \in Seq(A)
      BY <2>2, SetToSeqFacts
    <2> QED
      BY <2>1, <2>2, <2>3, SeqMonotonic
  <1>2. CASE o.checks # <<>> /\ ToSet(o.checks) \subseteq A
    <2>1. Selected(o) = o.checks
      BY <1>2 DEF Selected, SelectChecks
    <2> DEFINE s == o.checks
    <2>2. s \in Seq(STRING) /\ \A i \in DOMAIN s : s[i] \in Checks
      BY <1>2 DEF ToSet
    <2> HIDE DEF s
    <2>3. s \in Seq(Checks)
      BY <2>2
    <2> QED
      BY <2>1, <2>3 DEF s
  <1>3. CASE o.checks # <<>> /\ ~(ToSet(o.checks) \subseteq A)
    <2>1. Selected(o) = None
      BY <1>3 DEF Selected, SelectChecks
    <2> QED
      BY <2>1
  <1> QED
    BY <1>1, <1>2, <1>3

\* What a scan keeps that is asked for these regions.
Here(f, locations) ==
  locations = {} \/ RegionOf(f.location) \in {RegionOf(l) : l \in locations} \/ f.location = GLOBAL

LEMMA FilterLocationsFacts ==
  ASSUME NEW S, NEW fs \in Seq(S), NEW locations
  PROVE  /\ FilterLocations(fs, locations) \in Seq(S)
         /\ ToSet(FilterLocations(fs, locations))
              = {f \in ToSet(fs) : Here(f, locations)}
  <1>1. CASE locations = {}
    BY <1>1 DEF FilterLocations, Here
  <1>2. CASE locations # {}
    <2> DEFINE these == {f \in ToSet(fs) : \/ RegionOf(f.location) \in {RegionOf(l) : l \in locations}
                                         \/ f.location = GLOBAL}
    <2>1. FilterLocations(fs, locations) = Keep(fs, these)
      BY <1>2 DEF FilterLocations
    <2>2. Keep(fs, these) \in Seq(S) /\ ToSet(Keep(fs, these)) = ToSet(fs) \cap these
      BY KeepFacts
    <2>3. these = {f \in ToSet(fs) : Here(f, locations)}
      BY <1>2 DEF Here
    <2> HIDE DEF these
    <2> QED
      BY <2>1, <2>2, <2>3
  <1> QED
    BY <1>1, <1>2

\* A scan's result, and what it has to do with what was read.
IsResult(r) ==
  /\ r = [findings |-> r.findings, subscriptions |-> r.subscriptions, attempted |-> r.attempted,
          unavailable |-> r.unavailable, errors |-> r.errors]
  /\ r.findings \in Seq(Waste)
  /\ r.attempted \in Nat /\ r.unavailable \in Nat /\ r.errors \in Nat

\* A scan as the properties know it: its options, its result, what was read.
IsScan(scan) ==
  /\ IsResult(scan.raw)
  /\ scan.raw.errors + scan.raw.unavailable = scan.raw.attempted <=> PairsRead(scan) = {}
  /\ ToSet(scan.raw.findings) = {f \in Waste : <<f.subscription, f.check>> \in PairsRead(scan)}

LEMMA ScanFacts ==
  ASSUME FrontendsAssumption, account \in Accounts \cup {None},
         NEW o, o.named \in Seq(Subscriptions), o.checks \in Seq(STRING), CanScan(o),
         NEW reads \in [Subscriptions \X Checks -> Verdicts]
  PROVE  LET raw == Scanned(Targets(o), Selected(o), reads)
         IN  /\ IsScan([options |-> o, raw |-> raw, reads |-> reads])
             /\ \A f \in ToSet(raw.findings) : o.named # <<>> => f.subscription \in ToSet(o.named)
  <1> DEFINE T == Targets(o)
             C == Selected(o)
             raw == Scanned(T, C, reads)
             scan == [options |-> o, raw |-> raw, reads |-> reads]
  <1>1. T \in Seq(Subscriptions) /\ (o.named # <<>> => T = o.named)
    BY TargetsFacts DEF CanScan
  <1>2. C \in Seq(Checks)
    BY SelectedFacts DEF CanScan
  <1>3. PairsRead(scan) = {p \in ToSet(T) \X ToSet(C) : reads[p] = "read"}
    BY DEF PairsRead, Scanned
  <1> HIDE DEF T, C
  <1> DEFINE jobs == Jobs(T, C)
  <1>j. jobs \in Seq(Subscriptions \X Checks) /\ ToSet(jobs) = ToSet(T) \X ToSet(C)
    BY <1>1, <1>2, JobsFacts
  <1>k. Jobs(T, C) \in Seq(Subscriptions \X Checks)
    BY <1>j
  <1>4. /\ raw.findings \in Seq(Waste)
        /\ ToSet(raw.findings) = ReadIn(jobs, reads)
    BY <1>k, ScannedFindings
  <1>5. /\ raw.attempted \in Nat /\ raw.unavailable \in Nat /\ raw.errors \in Nat
        /\ raw.errors + raw.unavailable = raw.attempted <=> NothingRead(jobs, reads)
    BY <1>j, ScannedPairs
  <1> HIDE DEF jobs
  <1>6. NothingRead(jobs, reads) <=> PairsRead(scan) = {}
    BY <1>j, <1>3 DEF NothingRead
  <1>7. ReadIn(jobs, reads) = {f \in Waste : <<f.subscription, f.check>> \in PairsRead(scan)}
    <2> HIDE DEF scan
    <2> QED
      BY <1>j, <1>3 DEF ReadIn
  <1>8. raw = [findings |-> raw.findings, subscriptions |-> raw.subscriptions,
               attempted |-> raw.attempted, unavailable |-> raw.unavailable, errors |-> raw.errors]
    BY DEF Scanned
  <1>9. scan.raw = raw
    OBVIOUS
  <1>10. \A f \in ToSet(raw.findings) : o.named # <<>> => f.subscription \in ToSet(o.named)
    BY <1>1, <1>4, <1>j DEF ReadIn
  <1> HIDE DEF raw, scan
  <1>11. IsResult(raw)
    BY <1>4, <1>5, <1>8 DEF IsResult
  <1>12. IsScan(scan)
    BY <1>4, <1>5, <1>6, <1>7, <1>9, <1>11 DEF IsScan
  <1> QED
    BY <1>10, <1>12 DEF raw, scan, T, C


\* What the options cut, of a scan's result.
LEMMA CutFacts ==
  ASSUME NEW r, IsResult(r), NEW o
  PROVE  LET cut == Cut(r, o).result
             hidden == Cut(r, o).hidden
         IN  /\ IsResult(cut) /\ cut.attempted = r.attempted
             /\ cut.unavailable = r.unavailable /\ cut.errors = r.errors
             /\ ToSet(cut.findings) \subseteq ToSet(r.findings)
             /\ hidden \in Int /\ Len(cut.findings) \in Nat
             /\ hidden + Len(cut.findings) = Len(FilterLocations(r.findings, o.locations))
             /\ cut.findings = <<>> =>
                  ToSet(FilterLocations(r.findings, o.locations)) \cap Worth(o.minCost) = {}
  <1> DEFINE here == FilterLocations(r.findings, o.locations)
             kept == IF o.minCost > 0 THEN Keep(here, Worth(o.minCost)) ELSE here
             cut  == [r EXCEPT !.findings = kept]
             hidden == Len(here) - Len(kept)
  <1>1. Cut(r, o) = [result |-> cut, hidden |-> hidden]
    BY DEF Cut
  <1>2. here \in Seq(Waste) /\ ToSet(here) \subseteq ToSet(r.findings)
    BY FilterLocationsFacts DEF IsResult
  <1> HIDE DEF here
  <1>3. /\ kept \in Seq(Waste) /\ ToSet(kept) \subseteq ToSet(here)
        /\ ToSet(here) \cap Worth(o.minCost) \subseteq ToSet(kept)
    <2> DEFINE these == Worth(o.minCost)
               some == Keep(here, these)
    <2>1. some \in Seq(Waste) /\ ToSet(some) = ToSet(here) \cap these
      BY <1>2, KeepFacts
    <2>2. kept = some \/ kept = here
      OBVIOUS
    <2> HIDE DEF these, some
    <2>3. CASE kept = some
      BY <2>1, <2>3 DEF these
    <2>4. CASE kept = here
      BY <1>2, <2>4
    <2> QED
      BY <2>2, <2>3, <2>4
  <1> HIDE DEF kept
  <1>4. cut = [findings |-> kept, subscriptions |-> r.subscriptions, attempted |-> r.attempted,
               unavailable |-> r.unavailable, errors |-> r.errors]
    BY DEF IsResult
  <1>5. Len(here) \in Nat /\ Len(kept) \in Nat
    BY <1>2, <1>3
  <1> HIDE DEF cut
  <1>6. IsResult(cut)
    BY <1>3, <1>4 DEF IsResult
  <1>7. Cut(r, o).result = cut /\ Cut(r, o).hidden = hidden
    BY <1>1
  <1>8. hidden \in Int /\ hidden + Len(kept) = Len(here)
    BY <1>5
  <1>9. ToSet(kept) \subseteq ToSet(r.findings)
    BY <1>2, <1>3
  <1>10. kept = <<>> => ToSet(here) \cap Worth(o.minCost) = {}
    BY <1>3 DEF ToSet
  <1> HIDE DEF hidden
  <1> QED
    BY <1>4, <1>5, <1>6, <1>7, <1>8, <1>9, <1>10 DEF here

\* What is found has a price, as it is and as it is written down.
LEMMA KnownFacts ==
  ASSUME FrontendsAssumption
  PROVE  Priced(Waste) /\ Priced(Known)
  <1>1. Priced(Waste)
    BY DEF FrontendsAssumption, Priced
  <1>2. \A f \in Waste : Shown(f).cost = Rounded(f.cost) /\ Rounded(f.cost) \in Int
    BY <1>1, RoundedNear DEF Priced, Shown
  <1>3. \A f \in {Shown(g) : g \in Waste} : f.cost \in Int
    BY <1>2
  <1> QED
    BY <1>1, <1>3 DEF Priced, Known

LEMMA ShowsKnown ==
  ASSUME NEW fs \in Seq(Waste)
  PROVE  /\ Shows(fs) \in Seq(Known)
         /\ \A g \in ToSet(Shows(fs)) : \E f \in ToSet(fs) : g.id = f.id
  <1> DEFINE n == Len(fs)
             gs == Shows(fs)
  <1>1. n \in Nat /\ DOMAIN fs = 1..n /\ \A i \in 1..n : fs[i] \in Waste
    OBVIOUS
  <1>2. DOMAIN gs = 1..n /\ \A i \in 1..n : gs[i] = Shown(fs[i])
    BY <1>1 DEF Shows
  <1>3. \A i \in 1..n : gs[i] \in Known
    BY <1>1, <1>2 DEF Known
  <1>4. gs \in Seq(Known)
    BY <1>1, <1>2, <1>3 DEF Shows
  <1>5. \A f : Shown(f).id = f.id
    BY DEF Shown
  <1> HIDE DEF n, gs
  <1>6. \A g \in ToSet(gs) : \E f \in ToSet(fs) : g.id = f.id
    BY <1>1, <1>2, <1>5 DEF ToSet
  <1> QED
    BY <1>4, <1>6 DEF gs

\* What NoFalseAllClear and FiguresAgree ask of what scan_command tells,
\* and of what scan_subscription answers.
ScanHonest(t) ==
  t.scan.raw.attempted > 0 =>
    /\ t.screen.verdict = "no waste found" => PairsRead(t.scan) # {} /\ InScope(t.scan) = {}
    /\ t.screen.verdict = "nothing could be scanned" => PairsRead(t.scan) = {}
    /\ t.html.headline = "no waste found" =>
         PairsRead(t.scan) # {} /\ InScope(t.scan) \cap Worth(t.scan.options.minCost) = {}
    /\ (t.exit = 1) = (PairsRead(t.scan) = {})
    /\ t.html.banner = (PairsRead(t.scan) = {})
ScanAgrees(t) ==
  /\ Breaks(t.screen.byCheck, t.screen.count, t.screen.total)
  /\ Near(TotalCost(t.html.rows), t.html.total, Len(t.html.rows) + 1)
  /\ t.screen.total = t.html.total /\ t.html.total = t.script.total
  /\ t.screen.count = Len(t.html.rows) /\ t.script.count = Len(t.html.rows)
  /\ t.html.ran + t.screen.skipped + t.screen.errors = t.scan.raw.attempted
\* The same of what scan_subscription answers.
SummaryHonest(t) ==
  t.scan.raw.attempted > 0 =>
    /\ t.complete = (PairsRead(t.scan) # {})
    /\ t.count = 0 /\ t.complete /\ t.hidden = 0 => InScope(t.scan) = {}
SummaryAgrees(t) ==
  /\ \A c \in Columns : Breaks(t.by[c], t.count, t.total)
  /\ t.hidden + t.count = Len(FilterLocations(t.scan.raw.findings, t.scan.options.locations))

\* An empty scope is one whose findings were all filtered by location.
LEMMA ScopeIsHere ==
  ASSUME NEW scan, IsScan(scan)
  PROVE  /\ InScope(scan) = ToSet(FilterLocations(scan.raw.findings, scan.options.locations))
         /\ InScope(scan) = {} <=> Len(FilterLocations(scan.raw.findings, scan.options.locations)) = 0
  <1> DEFINE fs == scan.raw.findings
             here == FilterLocations(fs, scan.options.locations)
  <1>1. fs \in Seq(Waste)
    BY DEF IsScan, IsResult
  <1>2. /\ here \in Seq(Waste)
        /\ ToSet(here) = {f \in ToSet(fs) : Here(f, scan.options.locations)}
    BY <1>1, FilterLocationsFacts
  <1>3. ToSet(here) = InScope(scan)
    <2>1. scan.options.locations = {} <=> {RegionOf(l) : l \in scan.options.locations} = {}
      OBVIOUS
    <2> QED
      BY <1>2, <2>1 DEF IsScan, InScope, Here
  <1> HIDE DEF here
  <1>4. Len(here) = 0 <=> here = <<>>
    BY <1>2
  <1>5. here = <<>> <=> ToSet(here) = {}
    BY <1>2, NothingThere
  <1> QED
    BY <1>3, <1>4, <1>5 DEF here

\* What scan_command says of a scan.
WhatScanTells(scan) ==
  LET cut == Cut(scan.raw, scan.options)
      r   == cut.result
  IN  [kind   |-> "scan",
       scan   |-> scan,
       screen |-> Render(r, scan.options.limit, cut.hidden),
       html   |-> ToHtml(r),
       script |-> ToScript(r),
       exit   |-> IF CompletelyFailed(r) THEN 1 ELSE 0]

LEMMA ScanTells ==
  ASSUME FrontendsAssumption, NEW scan, IsScan(scan)
  PROVE  ScanHonest(WhatScanTells(scan)) /\ ScanAgrees(WhatScanTells(scan))
  <1> DEFINE cut == Cut(scan.raw, scan.options)
             r == cut.result
             hidden == cut.hidden
             t == WhatScanTells(scan)
             here == FilterLocations(scan.raw.findings, scan.options.locations)
             screen == Render(r, scan.options.limit, hidden)
             html == ToHtml(r)
             script == ToScript(r)
  <1>1. /\ IsResult(r) /\ r.attempted = scan.raw.attempted
        /\ r.unavailable = scan.raw.unavailable /\ r.errors = scan.raw.errors
        /\ hidden \in Int /\ Len(r.findings) \in Nat /\ hidden + Len(r.findings) = Len(here)
        /\ r.findings = <<>> => ToSet(here) \cap Worth(scan.options.minCost) = {}
    BY CutFacts DEF IsScan
  <1>2. /\ t.scan = scan /\ t.screen = screen /\ t.html = html /\ t.script = script
        /\ t.exit = IF CompletelyFailed(r) THEN 1 ELSE 0
    BY DEF WhatScanTells
  <1>3. InScope(scan) = ToSet(here) /\ (InScope(scan) = {} <=> Len(here) = 0)
    BY ScopeIsHere
  <1> HIDE DEF cut, r, hidden, t, here
  <1>4. scan.raw.attempted > 0 => (CompletelyFailed(r) <=> PairsRead(scan) = {})
    BY <1>1 DEF CompletelyFailed, IsScan
  <1>5. /\ screen.verdict = "no waste found" =>
             r.findings = <<>> /\ ~CompletelyFailed(r) /\ ~(hidden > 0)
        /\ screen.verdict = "nothing could be scanned" => CompletelyFailed(r)
    <2>1. CASE r.findings # <<>>
      BY <2>1 DEF Render
    <2>2. CASE r.findings = <<>> /\ CompletelyFailed(r)
      BY <2>2 DEF Render
    <2>3. CASE r.findings = <<>> /\ ~CompletelyFailed(r) /\ hidden > 0
      BY <2>3 DEF Render
    <2>4. CASE r.findings = <<>> /\ ~CompletelyFailed(r) /\ ~(hidden > 0)
      BY <2>4
      DEF Render
    <2> QED
      BY <2>1, <2>2, <2>3, <2>4
  <1>6. /\ html.banner = CompletelyFailed(r)
        /\ html.headline = "no waste found" => r.findings = <<>> /\ ~CompletelyFailed(r)
    BY DEF ToHtml
  <1>7. r.findings = <<>> /\ ~(hidden > 0) => Len(here) = 0
    <2>1. Len(here) \in Int /\ (r.findings = <<>> => Len(r.findings) = 0)
      BY <1>1
    <2>2. Len(here) >= 0
      <3>1. here \in Seq(Waste)
        BY FilterLocationsFacts DEF IsScan, IsResult, here
      <3> QED
        BY <3>1
    <2> QED
      BY <1>1, <2>1, <2>2
  <1>8. ScanHonest(t)
    <2> HIDE DEF screen, html
    <2>1. t.exit = 1 <=> CompletelyFailed(r)
      BY <1>2
    <2>2. (t.exit = 1) \in BOOLEAN /\ (PairsRead(scan) = {}) \in BOOLEAN
      OBVIOUS
    <2>3. CompletelyFailed(r) \in BOOLEAN
      BY DEF CompletelyFailed
    <2> QED
      BY <1>1, <1>2, <1>3, <1>4, <1>5, <1>6, <1>7, <2>1, <2>2, <2>3 DEF ScanHonest
  <1>9. ScanAgrees(t)
    <2>1. r.findings \in Seq(Waste) /\ Priced(Waste)
      BY <1>1 DEF IsResult, FrontendsAssumption, Priced
    <2> DEFINE fs == r.findings
               total == Rounded(TotalCost(fs))
               k == Len(fs)
    <2>2. Breaks(ByCheck(fs), k, total)
      BY <2>1, ByCheckBreaks
    <2>3. /\ screen.byCheck = ByCheck(fs) /\ screen.count = k
          /\ screen.total = total /\ screen.skipped = r.unavailable
          /\ screen.errors = r.errors
      BY DEF Render
    <2>4. /\ html.total = total /\ html.rows = Shows(fs)
          /\ html.ran = r.attempted - r.unavailable - r.errors
      BY DEF ToHtml
    <2>5. script.total = total /\ script.count = k
      BY DEF ToScript
    <2>a. Len(Shows(fs)) = k /\ Near(TotalCost(Shows(fs)), total, k + 1)
      BY <2>1, ShownTotal
    <2>6. r.attempted \in Nat /\ r.unavailable \in Nat /\ r.errors \in Nat
      BY <1>1 DEF IsResult
    <2> HIDE DEF screen, html, script, fs, total, k
    <2>7. html.ran + screen.skipped + screen.errors = scan.raw.attempted
      BY <1>1, <2>3, <2>4, <2>6
    <2> QED
      BY <1>2, <2>2, <2>3, <2>4, <2>5, <2>7, <2>a DEF ScanAgrees
  <1> QED
    BY <1>8, <1>9 DEF t


LEMMA SummaryTells ==
  ASSUME FrontendsAssumption, NEW scan, IsScan(scan), NEW principal, NEW limit
  PROVE  LET cut == Cut(scan.raw, scan.options)
             t   == Summary(scan, ToJson(cut.result, principal), cut.hidden, limit)
         IN  t.kind = "summary" /\ SummaryHonest(t) /\ SummaryAgrees(t)
  <1> DEFINE cut == Cut(scan.raw, scan.options)
             r == cut.result
             hidden == cut.hidden
             doc == ToJson(r, principal)
             t == Summary(scan, doc, hidden, limit)
             here == FilterLocations(scan.raw.findings, scan.options.locations)
  <1>1. /\ IsResult(r) /\ r.attempted = scan.raw.attempted
        /\ r.unavailable = scan.raw.unavailable /\ r.errors = scan.raw.errors
        /\ hidden \in Int /\ Len(r.findings) \in Nat /\ hidden + Len(r.findings) = Len(here)
    BY CutFacts DEF IsScan
  <1>2. InScope(scan) = {} <=> Len(here) = 0
    BY ScopeIsHere
  <1> HIDE DEF cut, r, hidden, here
  <1>3. /\ doc.complete = ~CompletelyFailed(r) /\ doc.count = Len(r.findings)
        /\ doc.total = Rounded(TotalCost(r.findings)) /\ doc.byCheck = ByCheck(r.findings)
        /\ doc.findings = Shows(r.findings)
    BY DEF ToJson
  <1> HIDE DEF doc
  <1>4. /\ t.kind = "summary" /\ t.scan = scan /\ t.hidden = hidden /\ t.complete = doc.complete
        /\ t.count = doc.count /\ t.total = doc.total
        /\ \A c \in Columns :
             t.by[c] = IF c = "check" THEN doc.byCheck ELSE Group(doc.findings, c)
    BY DEF Summary
  <1> HIDE DEF t
  <1>5. \A c \in Columns :
          t.by[c] = IF c = "check" THEN ByCheck(r.findings) ELSE Group(Shows(r.findings), c)
    BY <1>3, <1>4
  <1>6. scan.raw.attempted > 0 => (CompletelyFailed(r) <=> PairsRead(scan) = {})
    BY <1>1 DEF CompletelyFailed, IsScan
  <1>7. SummaryHonest(t)
    <2>1. scan.raw.attempted > 0 => (t.complete <=> PairsRead(scan) # {}) /\ t.complete \in BOOLEAN
      BY <1>3, <1>4, <1>6
    <2>2. t.count = 0 /\ t.hidden = 0 => InScope(scan) = {}
      BY <1>1, <1>2, <1>3, <1>4
    <2> QED
      BY <1>4, <2>1, <2>2 DEF SummaryHonest
  <1>8. SummaryAgrees(t)
    <2>1. r.findings \in Seq(Waste) /\ Priced(Waste)
      BY <1>1 DEF IsResult, FrontendsAssumption, Priced
    <2>2. ASSUME NEW c \in Columns
          PROVE  Breaks(t.by[c], t.count, t.total)
      <3> DEFINE fs == r.findings
                 k == Len(fs)
                 total == Rounded(TotalCost(fs))
      <3>1. Breaks(ByCheck(fs), k, total) /\ Breaks(Group(Shows(fs), c), k, total)
        BY <2>1, ByCheckBreaks, ShownBreaks
      <3>2. t.count = k /\ t.total = total
        BY <1>3, <1>4
      <3>3. t.by[c] = ByCheck(fs) \/ t.by[c] = Group(Shows(fs), c)
        BY <1>5
      <3> HIDE DEF fs, k, total
      <3> QED
        BY <3>1, <3>2, <3>3
    <2>3. t.hidden + t.count = Len(here)
      BY <1>1, <1>3, <1>4
    <2> QED
      BY <1>4, <2>2, <2>3 DEF SummaryAgrees, here
  <1> QED
    BY <1>4, <1>7, <1>8 DEF t, doc, hidden, r, cut

\* A report: its count is that of its findings, its total is theirs but for the
\* half cents, and whoever it names had a scan return them.
Made(doc, seen) ==
  /\ doc.principal \in {NameOf[a] : a \in Accounts}
  /\ doc.findings \in Seq(Known)
  /\ doc.count = Len(doc.findings) /\ Near(TotalCost(doc.findings), doc.total, doc.count + 1)
  /\ \A f \in ToSet(doc.findings) : f.id \in seen[doc.principal]

\* What FiguresAgree asks of estimate_savings and of plan_cleanup, and what
\* ActsOnWhatWasReported asks of plan_cleanup and of clean.
EstimateAgrees(t, doc) ==
  /\ \A c \in Columns : /\ SumOf(t.by[c], "count") = t.matched.count
                        /\ SumOf(t.by[c], "cost") = t.matched.cost
  /\ t.matched.count + t.others.count = doc.count
  /\ Near(t.matched.cost + t.others.cost, doc.total, doc.count + 1)
PlanAgrees(t) == Len(t.chosen) + Len(t.unsupported) + t.left = t.matched
Acts(t) ==
  \A f \in ToSet(t.chosen) :
    /\ f.id \in found[NameOf[account]]
    /\ t.asked = {} \/ f.subscription \in t.asked

LEMMA Figures ==
  ASSUME FrontendsAssumption, NEW fs \in Seq(Known), NEW these
  PROVE  /\ Len(Keep(fs, these)) \in Int /\ TotalCost(Keep(fs, these)) \in Int
         /\ Len(fs) \in Int /\ TotalCost(fs) \in Int
  <1>1. Priced(Known)
    BY KnownFacts
  <1>2. ToSet(fs) \subseteq ToSet(fs) /\ Keep(fs, ToSet(fs)) = fs
    BY KeepAll
  <1>3. \A x : Len(Keep(fs, x)) \in Nat /\ TotalCost(Keep(fs, x)) \in Int
    BY <1>1, Measured
  <1> QED
    BY <1>2, <1>3

LEMMA EstimateTells ==
  ASSUME FrontendsAssumption, NEW a, Readable, Made(file, found)
  PROVE  /\ EstimateSavings(a).kind = "estimate"
         /\ EstimateAgrees(EstimateSavings(a), file)
  <1> DEFINE fs == file.findings
             kept == Matched(a)
             t == EstimateSavings(a)
  <1>1. fs \in Seq(Known) /\ file.count = Len(fs) 
        /\ Near(TotalCost(fs), file.total, file.count + 1)
    BY DEF Made
  <1>2. kept = Keep(fs, {f \in Known : Matches(f, a)})
    BY DEF Matched
  <1>3. kept \in Seq(Known)
    BY <1>1, <1>2, KeepFacts
  <1>4. /\ Len(kept) \in Int /\ TotalCost(kept) \in Int
        /\ Len(fs) \in Int /\ TotalCost(fs) \in Int
    BY <1>1, <1>2, Figures
  <1> HIDE DEF kept
  <1>5. /\ t.kind = "estimate" /\ t.matched = Totals(kept)
        /\ t.others = [count |-> Len(fs) - Len(kept), cost |-> TotalCost(fs) - TotalCost(kept)]
        /\ \A c \in Columns : t.by[c] = Group(kept, c)
    BY DEF EstimateSavings, kept
  <1>6. t.matched.count = Len(kept) /\ t.matched.cost = TotalCost(kept)
    BY <1>5 DEF Totals
  <1>7. t.others.count = Len(fs) - Len(kept) /\ t.others.cost = TotalCost(fs) - TotalCost(kept)
    BY <1>5
  <1> HIDE DEF t, fs
  <1>8. ASSUME NEW c \in Columns
        PROVE  SumOf(t.by[c], "count") = t.matched.count /\ SumOf(t.by[c], "cost") = t.matched.cost
    <2>1. Priced(Known)
      BY KnownFacts
    <2>2. SumOf(Group(kept, c), "count") = Len(kept) /\ SumOf(Group(kept, c), "cost") = TotalCost(kept)
      BY <1>3, <2>1, GroupAddsUp
    <2> QED
      BY <1>5, <1>6, <2>2
  <1>9. /\ t.matched.count + t.others.count = file.count
        /\ Near(t.matched.cost + t.others.cost, file.total, file.count + 1)
    <2>1. /\ t.matched.count + t.others.count = Len(fs)
          /\ t.matched.cost + t.others.cost = TotalCost(fs)
      BY <1>4, <1>6, <1>7
    <2> QED
      BY <1>1, <2>1
  <1>10. EstimateAgrees(t, file)
    BY <1>8, <1>9 DEF EstimateAgrees
  <1> QED
    BY <1>5, <1>10 DEF t

LEMMA MinMaxOfTwo ==
  ASSUME NEW a \in Int, NEW b \in Int
  PROVE  /\ Min({a, b}) = IF a <= b THEN a ELSE b
         /\ Max({a, b}) = IF a >= b THEN a ELSE b
  <1>1. CASE a <= b
    BY <1>1 DEF Min, Max
  <1>2. CASE a > b
    BY <1>2 DEF Min, Max
  <1> QED
    BY <1>1, <1>2

LEMMA NotBelowZero ==
  ASSUME NEW a \in Int
  PROVE  Max({a, 0}) = IF a >= 0 THEN a ELSE 0
  <1>1. 0 \in Int
    OBVIOUS
  <1> QED
    BY <1>1, MinMaxOfTwo, Zenon

LEMMA UpToFacts ==
  ASSUME NEW S, NEW s \in Seq(S), NEW n \in Nat
  PROVE  /\ UpTo(s, n) \in Seq(S) /\ ToSet(UpTo(s, n)) \subseteq ToSet(s)
         /\ Len(UpTo(s, n)) = IF n <= Len(s) THEN n ELSE Len(s)
  <1> DEFINE m == Min({n, Len(s)})
  <1>1. Len(s) \in Nat
    OBVIOUS
  <1>2. m = IF n <= Len(s) THEN n ELSE Len(s)
    <2>1. n \in Int /\ Len(s) \in Int
      BY <1>1
    <2> QED
      BY <2>1, MinMaxOfTwo, Zenon
  <1>3. UpTo(s, n) = SubSeq(s, 1, m)
    <2>1. n >= 0
      OBVIOUS
    <2> QED
      BY <2>1, Zenon DEF UpTo
  <1> HIDE DEF m
  <1>4. m \in Nat /\ m <= Len(s)
    BY <1>1, <1>2
  <1> DEFINE u == SubSeq(s, 1, m)
  <1>5. u \in Seq(S) /\ Len(u) = m /\ \A i \in 1..m : u[i] = s[i]
    BY <1>1, <1>4
  <1>6. ToSet(u) \subseteq ToSet(s)
    <2> HIDE DEF u
    <2>1. DOMAIN u = 1..m /\ \A i \in 1..m : i \in DOMAIN s
      BY <1>1, <1>4, <1>5
    <2> QED
      BY <1>5, <2>1 DEF ToSet
  <1> QED
    BY <1>2, <1>3, <1>5, <1>6

LEMMA PlanTells ==
  ASSUME FrontendsAssumption, NEW a, a.limit \in Int, Readable, account # None, OursToUse(file),
         Made(file, found)
  PROVE  /\ PlanCleanup(a).kind = "plan" /\ Acts(PlanCleanup(a))
         /\ a.limit >= 0 => PlanAgrees(PlanCleanup(a))
  <1> DEFINE fs == file.findings
             kept == Matched(a)
             limit == OrDefault(a.limit, "plan")
             tried == UpTo(kept, limit)
             planned == Keep(tried, HasCleaner)
             others == Keep(tried, Known \ HasCleaner)
             left == Max({Len(kept) - limit, 0})
             t == PlanCleanup(a)
  <1>1. /\ t.kind = "plan" /\ t.asked = a.subscription /\ t.chosen = planned
        /\ t.unsupported = others /\ t.matched = Len(kept) /\ t.left = left
    BY DEF PlanCleanup
  <1>2. fs \in Seq(Known) /\ \A f \in ToSet(fs) : f.id \in found[NameOf[account]]
    BY DEF Made, OursToUse
  <1>3. kept \in Seq(Known) /\ ToSet(kept) = ToSet(fs) \cap {f \in Known : Matches(f, a)}
    BY <1>2, KeepFacts DEF Matched
  <1>4. \A f \in ToSet(kept) : a.subscription = {} \/ f.subscription \in a.subscription
    BY <1>3 DEF Matches, Columns
  <1>5. limit \in Int /\ (a.limit >= 0 => limit \in Nat)
    BY DEF OrDefault, DEFAULT_LIMIT
  <1> HIDE DEF fs, kept, limit, t
  <1>6. tried \in Seq(Known) /\ ToSet(tried) \subseteq ToSet(kept)
    <2>1. CASE limit >= 0
      BY <1>3, <1>5, <2>1, UpToFacts
    <2>2. CASE limit < 0
      <3> DEFINE m == Max({Len(kept) + limit, 0})
      <3>1. Len(kept) \in Nat
        BY <1>3
      <3>2. m = IF Len(kept) + limit >= 0 THEN Len(kept) + limit ELSE 0
        <4>1. Len(kept) + limit \in Int
          BY <1>5, <3>1
        <4> QED
          BY <4>1, NotBelowZero, Zenon
      <3>3. tried = SubSeq(kept, 1, m)
        <4>1. ~(limit >= 0)
          BY <1>5, <2>2
        <4> QED
          BY <4>1, Zenon DEF UpTo
      <3> HIDE DEF m, tried
      <3>4. m \in Nat /\ m <= Len(kept)
        BY <1>5, <2>2, <3>1, <3>2
      <3>5. tried \in Seq(Known) /\ Len(tried) = m /\ \A i \in 1..m : tried[i] = kept[i]
        BY <1>3, <3>3, <3>4
      <3>6. DOMAIN tried = 1..m /\ \A i \in 1..m : i \in DOMAIN kept
        BY <1>3, <3>1, <3>4, <3>5
      <3> QED
        BY <3>5, <3>6 DEF ToSet
    <2> QED
      BY <1>5, <2>1, <2>2
  <1>7. ASSUME a.limit >= 0
        PROVE  Len(planned) + Len(others) + left = Len(kept)
    <2>1. limit \in Nat /\ Len(kept) \in Nat
      BY <1>3, <1>5, <1>7
    <2>2. Len(tried) = IF limit <= Len(kept) THEN limit ELSE Len(kept)
      BY <1>3, <2>1, UpToFacts
    <2>3. left = IF Len(kept) - limit >= 0 THEN Len(kept) - limit ELSE 0
      <3>1. Len(kept) - limit \in Int
        BY <2>1
      <3> QED
        BY <3>1, NotBelowZero, Zenon
    <2> HIDE DEF tried, left
    <2>4. Adds(planned, others, Keep(tried, HasCleaner \cup (Known \ HasCleaner)))
      <3>1. Priced(Known)
        BY KnownFacts
      <3>2. HasCleaner \cap (Known \ HasCleaner) = {}
        OBVIOUS
      <3> QED
        BY <1>6, <3>1, <3>2, KeepSplit
    <2>5. Keep(tried, HasCleaner \cup (Known \ HasCleaner)) = tried
      <3>1. ToSet(tried) \subseteq Known
        BY <1>6 DEF ToSet
      <3>2. ToSet(tried) \subseteq HasCleaner \cup (Known \ HasCleaner)
        BY <3>1
      <3> QED
        BY <1>6, <3>2, KeepAll
    <2>6. Len(planned) \in Int /\ Len(others) \in Int
      BY <1>6, Figures
    <2>7. Len(tried) = Len(planned) + Len(others)
      BY <2>4, <2>5 DEF Adds
    <2> HIDE DEF planned, others
    <2>8. CASE limit <= Len(kept)
      <3>1. Len(tried) = limit /\ left = Len(kept) - limit
        <4>1. Len(kept) - limit >= 0
          BY <2>1, <2>8
        <4> QED
          BY <2>2, <2>3, <2>8, <4>1, Zenon
      <3>2. limit \in Nat /\ Len(kept) \in Nat /\ Len(planned) + Len(others) = limit
        BY <2>1, <2>7, <3>1
      <3>3. limit + (Len(kept) - limit) = Len(kept)
        BY <3>2
      <3> QED
        BY <3>1, <3>2, <3>3, Zenon
    <2>9. CASE ~(limit <= Len(kept))
      <3>1. Len(tried) = Len(kept) /\ left = 0
        <4>1. ~(Len(kept) - limit >= 0)
          BY <2>1, <2>9
        <4> QED
          BY <2>2, <2>3, <2>9, <4>1, Zenon
      <3>2. Len(kept) \in Nat /\ Len(planned) + Len(others) = Len(kept)
        BY <2>1, <2>7, <3>1
      <3>3. Len(planned) + Len(others) \in Int
        BY <2>6
      <3> QED
        BY <3>1, <3>2, <3>3
    <2> QED
      BY <2>8, <2>9
  <1> HIDE DEF tried
  <1>8. ToSet(planned) \subseteq ToSet(tried)
    BY <1>6, KeepFacts
  <1>9. Acts(t)
    <2> HIDE DEF planned, others
    <2>1. ASSUME NEW f \in ToSet(t.chosen)
          PROVE  f.id \in found[NameOf[account]] /\ (t.asked = {} \/ f.subscription \in t.asked)
      BY <1>1, <1>2, <1>3, <1>4, <1>6, <1>8, <2>1
    <2> QED
      BY <2>1 DEF Acts
  <1>10. a.limit >= 0 => PlanAgrees(t)
    BY <1>1, <1>7 DEF PlanAgrees
  <1> QED
    BY <1>1, <1>9, <1>10 DEF t


----------------------------------------------------------------------------
(* Who made the reports, and what is told of them.                         *)

\* The principals there are, and the ids of findings.
Names == {NameOf[a] : a \in Accounts}
FindingIds == {f.id : f \in Waste}

\* A report the command line, and one the server, is writing.
IsCli(c, seen) == c = [doc |-> c.doc, mixed |-> c.mixed] /\ Made(c.doc, seen)
IsPending(p, seen) ==
  /\ p = [message |-> p.message, doc |-> p.doc, mixed |-> p.mixed, answer |-> p.answer]
  /\ Made(p.doc, seen)
  /\ p.answer.kind = "summary" /\ SummaryHonest(p.answer) /\ SummaryAgrees(p.answer)

\* Whatever report there is, in the file or about to be written to it by either
\* process, was made of a scan of the principal it names.
ReportsInv ==
  /\ scope \in Scopes /\ account \in Accounts \cup {None}
  /\ found \in [Names -> SUBSET FindingIds]
  /\ Readable => Made(file, found)
  /\ cli # None => IsCli(cli, found)
  /\ pending # None => IsPending(pending, found)

\* No plan is asked for with a limit below zero.
PlanLimits == \A s \in Scopes : \A m \in s.messages : Calls(m, "plan_cleanup") => m.args.limit >= 0

\* What was just said is so, of the report as it is now.
ToldInv ==
  /\ Tells({"scan"}) => ScanHonest(said) /\ ScanAgrees(said)
  /\ Tells({"summary"}) => SummaryHonest(said) /\ SummaryAgrees(said)
  /\ Tells({"estimate"}) => EstimateAgrees(said, file)
  /\ Tells({"plan"}) => (PlanLimits => PlanAgrees(said))
  /\ Tells({"clean", "plan"}) => Acts(said)

LEMMA ToldIsRight ==
  ASSUME ToldInv
  PROVE  NoFalseAllClear /\ ActsOnWhatWasReported /\ (PlanLimits => FiguresAgree)
  <1>1. NoFalseAllClear
    BY DEF ToldInv, NoFalseAllClear, ScanHonest, SummaryHonest
  <1>2. ActsOnWhatWasReported
    BY DEF ToldInv, ActsOnWhatWasReported, Acts
  <1>3. ASSUME PlanLimits
        PROVE  FiguresAgree
    BY <1>3 DEF ToldInv, FiguresAgree, ScanAgrees, SummaryAgrees, EstimateAgrees, PlanAgrees
  <1> QED
    BY <1>1, <1>2, <1>3

LEMMA MadeGrows ==
  ASSUME NEW doc, NEW f, NEW g, Made(doc, f), \A n \in Names : f[n] \subseteq g[n]
  PROVE  Made(doc, g)
  BY DEF Made, Names

LEMMA ScopeFacts ==
  ASSUME FrontendsAssumption, scope \in Scopes
  PROVE  /\ scope.accounts \subseteq Accounts \cup {None}
         /\ \A reads \in scope.reads : reads \in [Subscriptions \X Checks -> Verdicts]
         /\ \A o \in scope.options : o.named \in Seq(Subscriptions) /\ o.checks \in Seq(STRING)
         /\ \A m \in scope.messages :
              /\ m.form \in Forms /\ (m.form = "request" => m.id # None)
              /\ Calls(m, "scan_subscription") =>
                   m.args.named \in Seq(Subscriptions) /\ m.args.checks \in Seq(STRING)
              /\ Calls(m, "plan_cleanup") => m.args.limit \in Int
  BY DEF FrontendsAssumption

\* What a step may do to the reports.
Grows == found' \in [Names -> SUBSET FindingIds] /\ \A n \in Names : found[n] \subseteq found'[n]
KeepsReports ==
  /\ scope' = scope /\ account' \in Accounts \cup {None} /\ Grows
  /\ file' = file \/ file' = Half \/ Made(file', found')
  /\ \/ cli' = None \/ cli' = cli \/ IsCli(cli', found')
     \/ cli # None /\ cli' = [cli EXCEPT !.mixed = TRUE]
  /\ \/ pending' = None \/ pending' = pending \/ IsPending(pending', found')
     \/ pending # None /\ pending' = [pending EXCEPT !.mixed = TRUE]

LEMMA ReportsKept ==
  ASSUME ReportsInv, KeepsReports
  PROVE  ReportsInv'
  <1>1. scope' \in Scopes /\ account' \in Accounts \cup {None} /\ Grows
    BY DEF ReportsInv, KeepsReports
  <1>2. ASSUME NEW doc, Made(doc, found)
        PROVE  Made(doc, found')
    BY <1>1, <1>2, MadeGrows DEF Grows
  <1>3. Readable' => Made(file', found')
    <2>1. CASE file' = file
      BY <1>2, <2>1 DEF ReportsInv, Readable
    <2>2. CASE file' = Half
      BY <2>2 DEF Readable
    <2>3. CASE Made(file', found')
      BY <2>3
    <2> QED
      BY <2>1, <2>2, <2>3 DEF KeepsReports
  <1>4. cli' # None => IsCli(cli', found')
    <2>1. ASSUME cli # None, NEW u, u = cli \/ u = [cli EXCEPT !.mixed = TRUE]
          PROVE  IsCli(u, found')
      <3> DEFINE d == cli.doc
                 x == cli.mixed
      <3>1. cli = [doc |-> d, mixed |-> x] /\ Made(d, found')
        BY <1>2, <2>1 DEF ReportsInv, IsCli
      <3> HIDE DEF d, x
      <3>2. u = [doc |-> d, mixed |-> x] \/ u = [doc |-> d, mixed |-> TRUE]
        BY <2>1, <3>1
      <3> QED
        BY <3>1, <3>2 DEF IsCli
    <2> QED
      BY <2>1 DEF KeepsReports
  <1>5. pending' # None => IsPending(pending', found')
    <2>1. ASSUME pending # None, NEW u, u = pending \/ u = [pending EXCEPT !.mixed = TRUE]
          PROVE  IsPending(u, found')
      <3> DEFINE m == pending.message
                 d == pending.doc
                 x == pending.mixed
                 a == pending.answer
      <3>1. /\ pending = [message |-> m, doc |-> d, mixed |-> x, answer |-> a] /\ Made(d, found')
            /\ a.kind = "summary" /\ SummaryHonest(a) /\ SummaryAgrees(a)
        BY <1>2, <2>1 DEF ReportsInv, IsPending
      <3> HIDE DEF m, d, x, a
      <3>2. \/ u = [message |-> m, doc |-> d, mixed |-> x, answer |-> a]
            \/ u = [message |-> m, doc |-> d, mixed |-> TRUE, answer |-> a]
        BY <2>1, <3>1
      <3> QED
        BY <3>1, <3>2 DEF IsPending
    <2> QED
      BY <2>1 DEF KeepsReports
  <1> QED
    BY <1>1, <1>3, <1>4, <1>5 DEF ReportsInv, Grows

\* Nothing is said, or nothing of a report.
LEMMA Quiet ==
  ASSUME said' = None \/ said'.kind \in {"refused", "tool error", "explained", "checks"}
  PROVE  ToldInv'
  BY DEF ToldInv, Tells

LEMMA Same ==
  ASSUME ReportsInv
  PROVE  found' = found => Grows
  BY DEF ReportsInv, Grows


LEMMA Remembered ==
  ASSUME ReportsInv, account \in Accounts, NEW r, ToSet(r.findings) \subseteq Waste, Remember(r)
  PROVE  Grows /\ \A f \in ToSet(r.findings) : f.id \in found'[NameOf[account]]
  <1> DEFINE p == NameOf[account]
             ids == {f.id : f \in ToSet(r.findings)}
  <1>1. p \in Names /\ ids \subseteq FindingIds
    BY DEF Names, FindingIds
  <1>2. found \in [Names -> SUBSET FindingIds]
    BY DEF ReportsInv
  <1>3. found' = [found EXCEPT ![p] = found[p] \cup ids]
    BY <1>1, <1>2 DEF Remember
  <1>4. \A f \in ToSet(r.findings) : f.id \in ids
    OBVIOUS
  <1> HIDE DEF p, ids
  <1>5. found[p] \cup ids \in SUBSET FindingIds
    BY <1>1, <1>2
  <1>6. Grows
    BY <1>1, <1>2, <1>3, <1>5 DEF Grows
  <1>7. found'[p] = found[p] \cup ids
    BY <1>1, <1>2, <1>3
  <1> QED
    BY <1>4, <1>6, <1>7 DEF p

LEMMA ReportIsMade ==
  ASSUME FrontendsAssumption, account \in Accounts, NEW scan, IsScan(scan), NEW seen,
         \A f \in ToSet(scan.raw.findings) : f.id \in seen[NameOf[account]]
  PROVE  Made(ToJson(Cut(scan.raw, scan.options).result, NameOf[account]), seen)
  <1> DEFINE r == Cut(scan.raw, scan.options).result
             fs == r.findings
             total == Rounded(TotalCost(fs))
             doc == ToJson(r, NameOf[account])
  <1>1. IsResult(r) /\ ToSet(r.findings) \subseteq ToSet(scan.raw.findings)
    BY CutFacts DEF IsScan
  <1> HIDE DEF r
  <1>2. /\ doc.principal = NameOf[account] /\ doc.findings = Shows(fs)
        /\ doc.count = Len(fs) /\ doc.total = total
    BY DEF ToJson
  <1>3. fs \in Seq(Waste) /\ ToSet(fs) \subseteq ToSet(scan.raw.findings)
    BY <1>1 DEF IsResult
  <1> HIDE DEF doc, fs
  <1>4. /\ Shows(fs) \in Seq(Known) /\ Len(Shows(fs)) = Len(fs)
        /\ Near(TotalCost(Shows(fs)), total, Len(fs) + 1)
    BY <1>3, KnownFacts, ShowsKnown, ShownTotal
  <1>5. \A g \in ToSet(Shows(fs)) : g.id \in seen[NameOf[account]]
    BY <1>3, ShowsKnown
  <1> HIDE DEF total
  <1>6. Made(doc, seen)
    BY <1>2, <1>4, <1>5 DEF Made
  <1> QED
    BY <1>6 DEF doc, r

LEMMA CliShape ==
  ASSUME NEW d, NEW x, NEW seen, Made(d, seen)
  PROVE  IsCli([doc |-> d, mixed |-> x], seen)
  BY DEF IsCli

LEMMA PendingShape ==
  ASSUME NEW m, NEW d, NEW x, NEW a, NEW seen, Made(d, seen),
         a.kind = "summary", SummaryHonest(a), SummaryAgrees(a)
  PROVE  IsPending([message |-> m, doc |-> d, mixed |-> x, answer |-> a], seen)
  BY DEF IsPending

LEMMA CliScanStep ==
  ASSUME FrontendsAssumption, ReportsInv, NEW o \in scope.options, CliScan(o)
  PROVE  KeepsReports /\ ToldInv'
  <1> DEFINE Raw(reads) == Scanned(Targets(o), Selected(o), reads)
             Scan(reads) == [options |-> o, raw |-> Raw(reads), reads |-> reads]
             Doc(reads) == ToJson(Cut(Raw(reads), o).result, NameOf[account])
  <1>1. PICK reads \in scope.reads :
          /\ Remember(Raw(reads))
          /\ said' = WhatScanTells(Scan(reads))
          /\ IF o.json
             THEN /\ cli' = [doc |-> Doc(reads), mixed |-> pending # None]
                  /\ file' = Half
                  /\ pending' = IF pending = None THEN None ELSE [pending EXCEPT !.mixed = TRUE]
             ELSE UNCHANGED <<cli, file, pending>>
    BY DEF CliScan, WhatScanTells
  <1>2. CanScan(o) /\ scope' = scope /\ account' = account
    BY DEF CliScan, azVars
  <1>3. account \in Accounts \cup {None} /\ scope \in Scopes
    BY DEF ReportsInv
  <1>4. /\ o.named \in Seq(Subscriptions) /\ o.checks \in Seq(STRING)
        /\ reads \in [Subscriptions \X Checks -> Verdicts]
    BY <1>3, ScopeFacts
  <1>5. account \in Accounts
    BY <1>2, <1>3, <1>4, TargetsFacts DEF CanScan
  <1> DEFINE raw == Raw(reads)
             scan == Scan(reads)
             doc == Doc(reads)
  <1>6. IsScan(scan)
    BY <1>2, <1>3, <1>4, ScanFacts
  <1>7. scan.raw = raw /\ scan.options = o /\ doc = ToJson(Cut(raw, o).result, NameOf[account])
    OBVIOUS
  <1>8. Remember(raw) /\ said' = WhatScanTells(scan)
    BY <1>1
  <1>9. /\ o.json => cli' = [doc |-> doc, mixed |-> pending # None] /\ file' = Half
        /\ pending' = pending \/ pending' = None \/ (pending # None /\ pending' = [pending EXCEPT !.mixed = TRUE])
        /\ ~o.json => cli' = cli /\ file' = file
    BY <1>1
  <1> HIDE DEF Raw, Scan, Doc, raw, scan, doc
  <1>10. ToSet(raw.findings) \subseteq Waste
    BY <1>6, <1>7 DEF IsScan
  <1>11. Grows /\ \A f \in ToSet(raw.findings) : f.id \in found'[NameOf[account]]
    BY <1>5, <1>8, <1>10, Remembered
  <1>12. Made(doc, found')
    BY <1>5, <1>6, <1>7, <1>11, ReportIsMade
  <1>13. ASSUME o.json
         PROVE  IsCli(cli', found')
    <2> DEFINE x == pending # None
    <2>1. cli' = [doc |-> doc, mixed |-> x]
      BY <1>9, <1>13
    <2> HIDE DEF x
    <2>2. IsCli([doc |-> doc, mixed |-> x], found')
      BY <1>12, CliShape
    <2> QED
      BY <2>1, <2>2
  <1>14. KeepsReports
    BY <1>2, <1>3, <1>9, <1>11, <1>13 DEF KeepsReports
  <1>15. ToldInv'
    <2>1. ScanHonest(WhatScanTells(scan)) /\ ScanAgrees(WhatScanTells(scan))
      BY <1>6, ScanTells
    <2>2. WhatScanTells(scan).kind = "scan"
      BY DEF WhatScanTells
    <2>3. ScanHonest(said') /\ ScanAgrees(said') /\ said'.kind = "scan"
      BY <1>8, <2>1, <2>2
    <2> QED
      BY <2>3 DEF ToldInv, Tells
  <1> QED
    BY <1>14, <1>15

LEMMA RefusedStep ==
  ASSUME ReportsInv, NEW o, Refused(o)
  PROVE  KeepsReports /\ ToldInv'
  <1>1. KeepsReports
    BY Same DEF Refused, KeepsReports, ReportsInv, azVars, serverVars, lineVars
  <1>2. ToldInv'
    BY Quiet DEF Refused
  <1> QED
    BY <1>1, <1>2

LEMMA CliWriteStep ==
  ASSUME ReportsInv, CliWrite
  PROVE  KeepsReports /\ ToldInv'
  <1>1. file' = cli.doc \/ file' = Half
    BY DEF CliWrite, Leaves
  <1>2. Made(cli.doc, found)
    BY DEF CliWrite, ReportsInv, IsCli
  <1>3. /\ scope' = scope /\ account' = account /\ found' = found /\ pending' = pending
        /\ cli' = None /\ said' = None
    BY DEF CliWrite, azVars, serverVars, lineVars
  <1>4. KeepsReports
    BY <1>1, <1>2, <1>3, Same DEF KeepsReports, ReportsInv
  <1> QED
    BY <1>3, <1>4, Quiet

LEMMA CliKilledStep ==
  ASSUME ReportsInv, CliKilled
  PROVE  KeepsReports /\ ToldInv'
  <1>1. /\ scope' = scope /\ account' = account /\ found' = found /\ pending' = pending
        /\ cli' = None /\ said' = None /\ (file' = file \/ file' = Half)
    BY DEF CliKilled, azVars, serverVars, lineVars
  <1>2. KeepsReports
    BY <1>1, Same DEF KeepsReports, ReportsInv
  <1> QED
    BY <1>1, <1>2, Quiet


\* The findings that clean goes on with are among those it was given.
LEMMA CleanActs ==
  ASSUME NEW fs \in Seq(Known), NEW o, o.named \in Seq(Subscriptions), TellsChosen(fs, o),
         \A f \in ToSet(fs) : /\ f.id \in found'[NameOf[account']]
                              /\ o.named # <<>> => f.subscription \in ToSet(o.named)
  PROVE  ToldInv'
  <1>1. said'.kind = "clean" /\ said'.asked = ToSet(o.named) /\ said'.chosen = Chosen(fs, o)
    BY DEF TellsChosen
  <1>2. ToSet(Chosen(fs, o)) \subseteq ToSet(fs)
    BY KeepFacts DEF Chosen
  <1>3. o.named = <<>> => ToSet(o.named) = {}
    BY NothingThere
  <1>4. Acts(said)'
    BY <1>1, <1>2, <1>3 DEF Acts
  <1> QED
    BY <1>1, <1>4 DEF ToldInv, Tells

LEMMA CliCleanFromStep ==
  ASSUME FrontendsAssumption, ReportsInv, NEW o \in scope.options, CliCleanFrom(o)
  PROVE  KeepsReports /\ ToldInv'
  <1>1. /\ scope' = scope /\ account' = account /\ found' = found /\ pending' = pending
        /\ cli' = cli /\ file' = file
    BY DEF CliCleanFrom, azVars, serverVars, lineVars
  <1>2. KeepsReports
    BY <1>1, Same DEF KeepsReports, ReportsInv
  <1>3. CASE Readable /\ OursToUse(file)
    <2> DEFINE these == {f \in Known : o.named = <<>> \/ f.subscription \in ToSet(o.named)}
               fs == Keep(file.findings, these)
    <2>1. TellsChosen(fs, o)
      BY <1>3 DEF CliCleanFrom
    <2>2. file.findings \in Seq(Known) /\ \A f \in ToSet(file.findings) : f.id \in found[NameOf[account]]
      BY <1>3 DEF ReportsInv, Made, OursToUse
    <2>3. fs \in Seq(Known) /\ ToSet(fs) = ToSet(file.findings) \cap these
      BY <2>2, KeepFacts
    <2>4. \A f \in ToSet(fs) : /\ f.id \in found'[NameOf[account']]
                               /\ o.named # <<>> => f.subscription \in ToSet(o.named)
      BY <1>1, <2>2, <2>3
    <2>5. o.named \in Seq(Subscriptions)
      BY ScopeFacts DEF ReportsInv
    <2> HIDE DEF fs
    <2> QED
      BY <1>2, <2>1, <2>3, <2>4, <2>5, CleanActs
  <1>4. CASE ~(Readable /\ OursToUse(file))
    <2>1. said' = [kind |-> "refused", exit |-> 2]
      BY <1>4 DEF CliCleanFrom
    <2> QED
      BY <1>2, <2>1, Quiet
  <1> QED
    BY <1>3, <1>4

LEMMA CliCleanStep ==
  ASSUME FrontendsAssumption, ReportsInv, NEW o \in scope.options, CliClean(o)
  PROVE  KeepsReports /\ ToldInv'
  <1> DEFINE Raw(reads) == Scanned(Targets(o), Selected(o), reads)
             Scan(reads) == [options |-> o, raw |-> Raw(reads), reads |-> reads]
  <1>1. PICK reads \in scope.reads :
          /\ Remember(Raw(reads))
          /\ IF CompletelyFailed(Raw(reads)) THEN said' = [kind |-> "refused", exit |-> 1]
             ELSE TellsChosen(Raw(reads).findings, o)
    BY DEF CliClean
  <1>2. /\ CanScan(o) /\ scope' = scope /\ account' = account /\ file' = file /\ cli' = cli
        /\ pending' = pending
    BY DEF CliClean, azVars, serverVars, lineVars
  <1>3. account \in Accounts \cup {None} /\ scope \in Scopes
    BY DEF ReportsInv
  <1>4. /\ o.named \in Seq(Subscriptions) /\ o.checks \in Seq(STRING)
        /\ reads \in [Subscriptions \X Checks -> Verdicts]
    BY <1>3, ScopeFacts
  <1>5. account \in Accounts
    BY <1>2, <1>3, <1>4, TargetsFacts DEF CanScan
  <1> DEFINE raw == Raw(reads)
             scan == Scan(reads)
  <1>6. /\ IsScan(scan)
        /\ \A f \in ToSet(raw.findings) : o.named # <<>> => f.subscription \in ToSet(o.named)
    BY <1>2, <1>3, <1>4, ScanFacts
  <1>7. scan.raw = raw
    OBVIOUS
  <1>8. Remember(raw) /\ (said' = [kind |-> "refused", exit |-> 1] \/ TellsChosen(raw.findings, o))
    BY <1>1
  <1> HIDE DEF Raw, Scan, raw, scan
  <1>9. raw.findings \in Seq(Waste) /\ ToSet(raw.findings) \subseteq Waste
    BY <1>6, <1>7 DEF IsScan, IsResult
  <1>10. Grows /\ \A f \in ToSet(raw.findings) : f.id \in found'[NameOf[account]]
    BY <1>5, <1>8, <1>9, Remembered
  <1>11. KeepsReports
    BY <1>2, <1>3, <1>10 DEF KeepsReports
  <1>12. \A f \in ToSet(raw.findings) : /\ f.id \in found'[NameOf[account']]
                                        /\ o.named # <<>> => f.subscription \in ToSet(o.named)
    BY <1>2, <1>6, <1>10
  <1>13. ToldInv'
    <2>1. CASE said' = [kind |-> "refused", exit |-> 1]
      BY <2>1, Quiet
    <2>2. CASE TellsChosen(raw.findings, o)
      <3> DEFINE fs == raw.findings
      <3>1. /\ fs \in Seq(Waste) /\ TellsChosen(fs, o)
            /\ \A f \in ToSet(fs) : /\ f.id \in found'[NameOf[account']]
                                    /\ o.named # <<>> => f.subscription \in ToSet(o.named)
        BY <1>9, <1>12, <2>2
      <3> HIDE DEF fs
      <3>2. fs \in Seq(Known)
        BY <3>1 DEF Known
      <3> QED
        BY <1>4, <3>1, <3>2, CleanActs
    <2> QED
      BY <1>8, <2>1, <2>2
  <1> QED
    BY <1>11, <1>13

\* Steps that touch none of the reports and say nothing of one.
LEMMA QuietStep ==
  ASSUME ReportsInv, scope' = scope, account' \in Accounts \cup {None}, file' \in {file, Half}, cli' = cli,
         pending' = pending \/ pending' = None, found' = found,
         said' = None \/ said'.kind \in {"refused", "tool error", "explained", "checks"}
  PROVE  KeepsReports /\ ToldInv'
  <1>1. KeepsReports
    BY Same DEF KeepsReports, ReportsInv
  <1> QED
    BY <1>1, Quiet

LEMMA ServerQuietStep ==
  ASSUME FrontendsAssumption, ReportsInv, NEW m \in scope.messages,
         \/ HandleText \/ HandleRaises(m) \/ HandleStatic(m) \/ HandleScanRefused(m)
         \/ Send(m)
  PROVE  KeepsReports /\ ToldInv'
  <1>1. account \in Accounts \cup {None}
    BY DEF ReportsInv
  <1>2. /\ scope' = scope /\ account' = account /\ file' \in {file, Half} /\ cli' = cli
        /\ (pending' = pending \/ pending' = None) /\ found' = found
    BY DEF HandleText, HandleRaises, HandleStatic, HandleScanRefused, Send, azVars, cliVars
  <1>3. said' = None \/ said'.kind = "tool error"
    <2>1. CASE HandleScanRefused(m)
      BY <2>1 DEF HandleScanRefused, ToolError
    <2>2. CASE ~HandleScanRefused(m)
      BY <2>2 DEF HandleText, HandleRaises, HandleStatic, Send
    <2> QED
      BY <2>1, <2>2
  <1> QED
    BY <1>1, <1>2, <1>3, QuietStep

LEMMA SignInStep ==
  ASSUME FrontendsAssumption, ReportsInv, NEW a \in scope.accounts, SignIn(a)
  PROVE  KeepsReports /\ ToldInv'
  <1>1. /\ scope' = scope /\ account' = a /\ file' = file /\ cli' = cli
        /\ pending' = pending /\ found' = found /\ said' = None
    BY DEF SignIn, cliVars, serverVars, lineVars
  <1>2. a \in Accounts \cup {None}
    BY ScopeFacts DEF ReportsInv
  <1> QED
    BY <1>1, <1>2, QuietStep

LEMMA HandleCallStep ==
  ASSUME FrontendsAssumption, ReportsInv, NEW m \in scope.messages,
         IsMessage(m), HandleCall(m)
  PROVE  KeepsReports /\ ToldInv'
  <1>1. /\ scope' = scope /\ account' = account /\ file' = file /\ cli' = cli
        /\ pending' = pending /\ found' = found
    BY DEF HandleCall, azVars, cliVars
  <1>2. KeepsReports
    BY <1>1, Same DEF KeepsReports, ReportsInv
  <1>3. /\ m.tool = "estimate_savings" => said' = EstimateSavings(m.args)
        /\ m.tool = "plan_cleanup" => said' = PlanCleanup(m.args)
        /\ m.tool \notin {"estimate_savings", "plan_cleanup"} =>
             said'.kind \in {"tool error", "explained", "checks"}
    <2>1. CASE m.tool = "estimate_savings"
      BY <2>1 DEF HandleCall
    <2>2. CASE m.tool = "explain_finding"
      BY <2>2 DEF HandleCall, ExplainFinding, ToolError
    <2>3. CASE m.tool = "list_checks"
      BY <2>3 DEF HandleCall, ListChecks
    <2>4. CASE m.tool = "plan_cleanup"
      BY <2>4 DEF HandleCall
    <2>5. CASE m.tool \notin {"estimate_savings", "explain_finding", "list_checks", "plan_cleanup"}
      BY <2>5 DEF HandleCall, ToolError
    <2> QED
      BY <2>1, <2>2, <2>3, <2>4, <2>5
  <1>4. CASE m.tool = "estimate_savings" /\ Readable
    <2>1. Made(file, found)
      BY <1>4 DEF ReportsInv
    <2> DEFINE t == EstimateSavings(m.args)
    <2>2. t.kind = "estimate" /\ EstimateAgrees(t, file)
      BY <1>4, <2>1, EstimateTells
    <2>3. said' = t
      BY <1>3, <1>4
    <2> HIDE DEF t
    <2>4. said'.kind = "estimate" /\ EstimateAgrees(said', file')
      BY <1>1, <2>2, <2>3
    <2> QED
      BY <1>2, <2>4 DEF ToldInv, Tells
  <1>5. CASE m.tool = "plan_cleanup" /\ Readable /\ account # None /\ OursToUse(file)
    <2>1. Made(file, found) /\ scope \in Scopes
      BY <1>5 DEF ReportsInv
    <2>2. Calls(m, "plan_cleanup")
      BY <1>5 DEF Calls, HandleCall, IsMessage
    <2>3. m.args.limit \in Int /\ (PlanLimits => m.args.limit >= 0)
      BY <2>1, <2>2, ScopeFacts DEF PlanLimits
    <2> DEFINE t == PlanCleanup(m.args)
    <2>4. t.kind = "plan" /\ Acts(t) /\ (PlanLimits => PlanAgrees(t)) /\ said' = t
      BY <1>3, <1>5, <2>1, <2>3, PlanTells
    <2> HIDE DEF t
    <2>5. \A f \in ToSet(said'.chosen) :
            /\ f.id \in found'[NameOf[account']]
            /\ said'.asked = {} \/ f.subscription \in said'.asked
      BY <1>1, <2>4 DEF Acts
    <2>6. Acts(said)'
      BY <2>5 DEF Acts
    <2>7. said'.kind = "plan" /\ (PlanLimits => PlanAgrees(said'))
      BY <2>4
    <2> QED
      BY <1>2, <2>6, <2>7 DEF ToldInv, Tells
  <1>6. CASE /\ ~(m.tool = "estimate_savings" /\ Readable)
             /\ ~(m.tool = "plan_cleanup" /\ Readable /\ account # None /\ OursToUse(file))
    <2>1. m.tool = "estimate_savings" => EstimateSavings(m.args) = ToolError
      BY <1>6 DEF EstimateSavings
    <2>2. m.tool = "plan_cleanup" => PlanCleanup(m.args) = ToolError
      BY <1>6 DEF PlanCleanup
    <2>3. said' = ToolError \/ said'.kind \in {"tool error", "explained", "checks"}
      BY <1>3, <2>1, <2>2
    <2>4. ToolError.kind = "tool error"
      BY DEF ToolError
    <2> QED
      BY <1>2, <2>3, <2>4, Quiet
  <1> QED
    BY <1>4, <1>5, <1>6


LEMMA HandleScanStep ==
  ASSUME FrontendsAssumption, ReportsInv, NEW m \in scope.messages,
         IsMessage(m), HandleScan(m)
  PROVE  KeepsReports /\ ToldInv'
  <1> DEFINE o == m.args
             Raw(reads) == Scanned(Targets(o), Selected(o), reads)
             Scan(reads) == [options |-> o, raw |-> Raw(reads), reads |-> reads]
             Doc(reads) == ToJson(Cut(Raw(reads), o).result, NameOf[account])
             limit == OrDefault(o.limit, "summary")
             Answer(reads) == Summary(Scan(reads), Doc(reads), Cut(Raw(reads), o).hidden, limit)
  <1>1. PICK reads \in scope.reads :
          /\ Remember(Raw(reads))
          /\ pending' = [message |-> m, doc |-> Doc(reads), mixed |-> cli # None,
                         answer |-> Answer(reads)]
          /\ file' = Half
          /\ cli' = IF cli = None THEN None ELSE [cli EXCEPT !.mixed = TRUE]
          /\ said' = None
    BY DEF HandleScan
  <1>2. CanScan(o) /\ scope' = scope /\ account' = account
    BY DEF HandleScan, azVars
  <1>3. account \in Accounts \cup {None} /\ scope \in Scopes
    BY DEF ReportsInv
  <1>4. /\ o.named \in Seq(Subscriptions) /\ o.checks \in Seq(STRING)
        /\ reads \in [Subscriptions \X Checks -> Verdicts]
    <2>1. Calls(m, "scan_subscription")
      BY DEF Calls, HandleScan, IsMessage
    <2> QED
      BY <1>3, <2>1, ScopeFacts
  <1> DEFINE raw == Raw(reads)
             scan == Scan(reads)
             doc == Doc(reads)
             answer == Answer(reads)
  <1> HIDE DEF o
  <1>5. account \in Accounts
    BY <1>2, <1>3, <1>4, TargetsFacts DEF CanScan
  <1>6. IsScan(scan)
    BY <1>2, <1>3, <1>4, ScanFacts
  <1>7. /\ scan.raw = raw /\ scan.options = o /\ doc = ToJson(Cut(raw, o).result, NameOf[account])
        /\ answer = Summary(scan, doc, Cut(raw, o).hidden, limit)
    OBVIOUS
  <1>8. Remember(raw) /\ file' = Half /\ said' = None
    BY <1>1
  <1> DEFINE x == cli # None
  <1>9. pending' = [message |-> m, doc |-> doc, mixed |-> x, answer |-> answer]
    BY <1>1
  <1>10. cli' = None \/ cli' = cli \/ (cli # None /\ cli' = [cli EXCEPT !.mixed = TRUE])
    BY <1>1
  <1> HIDE DEF Raw, Scan, Doc, Answer, raw, scan, doc, answer, x, limit
  <1>11. ToSet(raw.findings) \subseteq Waste
    BY <1>6, <1>7 DEF IsScan
  <1>12. Grows /\ \A f \in ToSet(raw.findings) : f.id \in found'[NameOf[account]]
    BY <1>5, <1>8, <1>11, Remembered
  <1>13. Made(doc, found')
    BY <1>5, <1>6, <1>7, <1>12, ReportIsMade
  <1>14. answer.kind = "summary" /\ SummaryHonest(answer) /\ SummaryAgrees(answer)
    <2> DEFINE principal == NameOf[account]
               cut == Cut(scan.raw, scan.options)
               t == Summary(scan, ToJson(cut.result, principal), cut.hidden, limit)
    <2>1. answer = t
      BY <1>7
    <2> HIDE DEF principal
    <2>2. t.kind = "summary" /\ SummaryHonest(t) /\ SummaryAgrees(t)
      BY <1>6, SummaryTells
    <2> HIDE DEF t
    <2> QED
      BY <2>1, <2>2
  <1>15. IsPending(pending', found')
    <2>1. IsPending([message |-> m, doc |-> doc, mixed |-> x, answer |-> answer], found')
      BY <1>13, <1>14, PendingShape
    <2> QED
      BY <1>9, <2>1
  <1>16. KeepsReports
    BY <1>2, <1>3, <1>8, <1>10, <1>12, <1>15 DEF KeepsReports
  <1> QED
    BY <1>8, <1>16, Quiet

LEMMA ServerWritesStep ==
  ASSUME ReportsInv, ServerWrites
  PROVE  KeepsReports /\ ToldInv'
  <1>1. IsPending(pending, found)
    BY DEF ReportsInv, ServerWrites
  <1>2. /\ scope' = scope /\ account' = account /\ found' = found /\ cli' = cli
        /\ pending' = None /\ (file' = pending.doc \/ file' = Half) /\ said' = pending.answer
    BY DEF ServerWrites, Leaves, azVars, cliVars
  <1>3. KeepsReports
    BY <1>1, <1>2, Same DEF KeepsReports, ReportsInv, IsPending
  <1>4. said'.kind = "summary" /\ SummaryHonest(said') /\ SummaryAgrees(said')
    BY <1>1, <1>2 DEF IsPending
  <1> QED
    BY <1>3, <1>4 DEF ToldInv, Tells

LEMMA ReportsStep ==
  ASSUME FrontendsAssumption, ReportsInv /\ ToldInv, [Next]_vars
  PROVE  (ReportsInv /\ ToldInv)'
  <1>1. CASE UNCHANGED vars
    <2>1. ReportsInv'
      BY <1>1 DEF vars, azVars, cliVars, serverVars, lineVars, ReportsInv, Readable
    <2>2. ToldInv'
      BY <1>1 DEF vars, azVars, cliVars, serverVars, lineVars, ToldInv, Tells, Acts
    <2> QED
      BY <2>1, <2>2
  <1>2. CASE Next
    <2>1. KeepsReports /\ ToldInv'
      <3>1. ASSUME NEW o \in scope.options, Refused(o) \/ CliScan(o) \/ CliCleanFrom(o) \/ CliClean(o)
            PROVE  KeepsReports /\ ToldInv'
        BY <3>1, RefusedStep, CliScanStep, CliCleanFromStep, CliCleanStep
      <3>2. CASE CliWrite \/ CliKilled
        BY <3>2, CliWriteStep, CliKilledStep
      <3>3. CASE HandleText
        <4>1. PICK m \in scope.messages : TRUE
          BY <3>3 DEF HandleText
        <4> QED
          BY <3>3, ServerQuietStep
      <3>4. ASSUME NEW m \in scope.messages, IsMessage(m),
                   \/ HandleRaises(m) \/ HandleStatic(m)
                   \/ HandleCall(m) \/ HandleScanRefused(m) \/ HandleScan(m)
            PROVE  KeepsReports /\ ToldInv'
        BY <3>4, ServerQuietStep, HandleCallStep, HandleScanStep
      <3>5. CASE ServerWrites
        BY <3>5, ServerWritesStep
      <3>6. CASE HandleUnreadable \/ ServerStops \/ ServerStarts \/ Receive
        <4>1. /\ account \in Accounts \cup {None} /\ scope' = scope /\ account' = account
              /\ file' \in {file, Half} /\ cli' = cli
              /\ (pending' = pending \/ pending' = None) /\ found' = found /\ said' = None
          BY <3>6 DEF ReportsInv, HandleUnreadable, ServerStops, ServerStarts, Receive, azVars, cliVars
        <4> QED
          BY <4>1, QuietStep
      <3>7. ASSUME NEW m \in scope.messages, Send(m)
            PROVE  KeepsReports /\ ToldInv'
        BY <3>7, ServerQuietStep
      <3>8. ASSUME NEW a \in scope.accounts, SignIn(a)
            PROVE  KeepsReports /\ ToldInv'
        BY <3>8, SignInStep
      <3> QED
        BY <1>2, <3>1, <3>2, <3>3, <3>4, <3>5, <3>6, <3>7, <3>8 DEF Next, Handle
    <2> QED
      BY <2>1, ReportsKept
  <1> QED
    BY <1>1, <1>2

LEMMA ReportsInit ==
  ASSUME FrontendsAssumption, Init
  PROVE  ReportsInv /\ ToldInv
  <1>1. scope \in Scopes /\ account \in Accounts \cup {None}
    BY DEF Init, FrontendsAssumption
  <1>2. found \in [Names -> SUBSET FindingIds]
    BY DEF Init, Names
  <1>3. ~Readable
    <2>1. CASE file = NoFile
      BY <2>1 DEF Readable
    <2>2. CASE file = [schema |-> SCHEMA_VERSION - 1]
      BY <2>2 DEF Readable, SCHEMA_VERSION
    <2> QED
      BY <2>1, <2>2 DEF Init
  <1>4. cli = None /\ pending = None /\ said = None
    BY DEF Init
  <1> QED
    BY <1>1, <1>2, <1>3, <1>4 DEF ReportsInv, ToldInv, Tells

\* Every report in the file, and every one the command line or the server is
\* about to write, holds only findings that a scan of the principal it names
\* returned, with their count, and with a total that is theirs but for half a
\* cent for each and one more; and what the person or the agent is told of a
\* scan or of a report is so, whoever wrote it, was cut off, or signed in
\* meanwhile (report.py:125-171, cli.py:268-282, 365-384,
\* mcp_server.py:339-447, 631-690).
THEOREM ReportsAreMade == Spec => [](ReportsInv /\ ToldInv)
  <1>1. Init => ReportsInv /\ ToldInv
    BY FrontendsAssumption, ReportsInit
  <1>2. ReportsInv /\ ToldInv /\ [Next]_vars => (ReportsInv /\ ToldInv)'
    BY FrontendsAssumption, ReportsStep
  <1> QED
    BY <1>1, <1>2, PTL DEF Spec

\* Whatever is scanned and whatever the options cut, a scan that attempted
\* anything claims no waste, on the screen and in the answer, only if it read
\* something and nothing it found in the regions asked for was left out; its
\* page only if nothing that is worth the cost asked for was; and exit code 1,
\* the banner and an incomplete report mean that nothing was read
\* (engine.py:66-74, report.py:125-142, html.py:160-180, cli.py:279-282,
\* mcp_server.py:343-348, 385-392).
THEOREM NeverAFalseAllClear == Spec => []NoFalseAllClear
  <1>1. ToldInv => NoFalseAllClear
    BY ToldIsRight
  <1> QED
    BY <1>1, ReportsAreMade, PTL

\* Whoever signs in or writes the report meanwhile, and wherever a writer is
\* cut off, clean and plan_cleanup go on only with findings that a scan
\* returned to the principal signed in now, in subscriptions that were asked
\* for (cli.py:365-384, mcp_server.py:631-639).
THEOREM OnlyWhatWasReported == Spec => []ActsOnWhatWasReported
  <1>1. ToldInv => ActsOnWhatWasReported
    BY ToldIsRight
  <1> QED
    BY <1>1, ReportsAreMade, PTL

\* For any findings, filters and limits, with no plan asked for below a limit
\* of zero, the screen, the page, the script, the report and the tools give
\* figures of the same findings: every breakdown has the count of its total,
\* and its cost but for half a cent for each finding and one more (mcp_server.py:339-376, 429-447, 681-690; report.py:143-171, 276-281).
THEOREM FiguresAlwaysAgree ==
  ASSUME PlanLimits
  PROVE  Spec => []FiguresAgree
  <1>1. ToldInv => FiguresAgree
    BY ToldIsRight
  <1> QED
    BY <1>1, ReportsAreMade, PTL

----------------------------------------------------------------------------
(* One answer to each request.                                             *)

\* The ids answers carry, and the answers; what those on their way settle, and
\* what the lines not yet handled are owed.
RequestIds == {m.id : m \in UNION {s.messages : s \in Scopes}} \cup {None}
AnswerLines == [id : RequestIds, raised : BOOLEAN]
Settled(out) == [i \in DOMAIN out |-> Settles(out[i])]
Owing(in) == [i \in DOMAIN in |-> Owed(in[i])]

\* The ids of the answers on their way, and of those still to be given.
Promised(out, in) == FlattenSeq(Settled(out)) \o FlattenSeq(Owing(in))

\* The lines are the client's, the answers carry ids of theirs, nothing owed is
\* lost or doubled, and the scan under way is that of the next line.
MailInv ==
  /\ inbox \in Seq(scope.messages) /\ outbox \in Seq(AnswerLines)
  /\ OneAnswerEach
  /\ pending # None =>
       inbox # <<>> /\ pending.message = Head(inbox) /\ Calls(pending.message, "scan_subscription")

LEMMA OwedType ==
  ASSUME FrontendsAssumption, scope \in Scopes, NEW m \in scope.messages
  PROVE  m.id \in RequestIds /\ Owed(m) \in Seq(RequestIds)
  <1>1. m.id \in RequestIds /\ None \in RequestIds
    BY DEF RequestIds
  <1> DEFINE S == Seq(RequestIds)
  <1>2. <<m.id>> \in S /\ <<None>> \in S /\ <<>> \in S
    <2> HIDE DEF RequestIds
    <2> QED
      BY <1>1
  <1>3. Owed(m) \in {<<m.id>>, <<None>>, <<>>}
    <2>1. CASE IsRequest(m) /\ m.method \notin Notices
      BY <2>1 DEF Owed
    <2>2. CASE ~(IsRequest(m) /\ m.method \notin Notices) /\ m.form \in {"not json", "not an object"}
      BY <2>2 DEF Owed
    <2>3. CASE ~(IsRequest(m) /\ m.method \notin Notices) /\ m.form \notin {"not json", "not an object"}
      BY <2>3 DEF Owed
    <2> QED
      BY <2>1, <2>2, <2>3
  <1> HIDE DEF S
  <1>4. Owed(m) \in S
    BY <1>2, <1>3
  <1> QED
    BY <1>1, <1>4 DEF S

\* A function applied to each member of a sequence.
Mapped(s, f) == [i \in DOMAIN s |-> f[s[i]]]
Maps(f, S, T) == f \in [S -> T]
IsMapped(m, s, f, T) ==
  /\ m \in Seq(T) /\ Len(m) = Len(s) /\ Len(s) \in Nat
  /\ \A i \in 1..Len(s) : m[i] = f[s[i]]

LEMMA MappedType ==
  ASSUME NEW S, NEW T, NEW f, Maps(f, S, T), NEW s \in Seq(S)
  PROVE  IsMapped(Mapped(s, f), s, f, T) /\ Mapped(s, f) \in Seq(T)
  <1> DEFINE n == Len(s)
             m == [i \in 1..n |-> f[s[i]]]
  <1>1. n \in Nat /\ DOMAIN s = 1..n /\ \A i \in 1..n : s[i] \in S
    OBVIOUS
  <1>2. Mapped(s, f) = m
    BY <1>1 DEF Mapped
  <1>3. \A i \in 1..n : m[i] = f[s[i]] /\ m[i] \in T
    BY <1>1 DEF Maps
  <1>4. m \in Seq(T) /\ Len(m) = n
    <2> HIDE DEF n
    <2>1. m \in [1..n -> T]
      BY <1>3
    <2> HIDE DEF m
    <2> QED
      BY <1>1, <2>1
  <1> HIDE DEF m
  <1> QED
    BY <1>1, <1>2, <1>3, <1>4 DEF IsMapped

MapsJoined(s, t, f) == Mapped(s \o t, f) = Mapped(s, f) \o Mapped(t, f)

LEMMA MappedConcatenation ==
  ASSUME NEW S, NEW T, NEW f, Maps(f, S, T), NEW s \in Seq(S), NEW t \in Seq(S)
  PROVE  MapsJoined(s, t, f)
  <1> DEFINE w == s \o t
             a == Mapped(s, f)
             b == Mapped(t, f)
             u == Mapped(w, f)
             n == Len(s)
             k == Len(t)
  <1>1. /\ w \in Seq(S) /\ Len(w) = n + k /\ n \in Nat /\ k \in Nat
        /\ \A i \in 1..(n + k) : w[i] = IF i <= n THEN s[i] ELSE t[i - n]
    BY ConcatProperties
  <1> HIDE DEF w
  <1>2. /\ a \in Seq(T) /\ Len(a) = n /\ \A i \in 1..n : a[i] = f[s[i]]
        /\ b \in Seq(T) /\ Len(b) = k /\ \A i \in 1..k : b[i] = f[t[i]]
        /\ u \in Seq(T) /\ Len(u) = n + k /\ \A i \in 1..(n + k) : u[i] = f[w[i]]
    <2>1. IsMapped(a, s, f, T) /\ IsMapped(b, t, f, T) /\ IsMapped(u, w, f, T)
      BY <1>1, MappedType
    <2> HIDE DEF a, b, u
    <2> QED
      BY <1>1, <2>1 DEF IsMapped
  <1> HIDE DEF a, b, u, n, k
  <1> DEFINE v == a \o b
  <1>3. /\ v \in Seq(T) /\ Len(v) = n + k
        /\ \A i \in 1..(n + k) : v[i] = IF i <= n THEN a[i] ELSE b[i - n]
    <2>1. a \in Seq(T) /\ b \in Seq(T) /\ Len(a) = n /\ Len(b) = k
      BY <1>2
    <2>2. /\ v \in Seq(T) /\ Len(v) = Len(a) + Len(b)
          /\ \A i \in 1..(Len(a) + Len(b)) : v[i] = IF i <= Len(a) THEN a[i] ELSE b[i - Len(a)]
      BY <2>1, ConcatProperties
    <2> HIDE DEF v
    <2> QED
      BY <2>1, <2>2
  <1> HIDE DEF v
  <1>4. ASSUME NEW i \in 1..Len(u)
        PROVE  u[i] = v[i]
    <2>1. CASE i <= n
      <3>1. i \in 1..n /\ i \in 1..(n + k)
        BY <1>1, <1>2, <2>1
      <3>2. u[i] = f[w[i]] /\ w[i] = s[i]
        BY <1>1, <1>2, <2>1, <3>1, Zenon
      <3>3. v[i] = a[i] /\ a[i] = f[s[i]]
        BY <1>2, <1>3, <2>1, <3>1, Zenon
      <3> QED
        BY <3>2, <3>3, Zenon
    <2>2. CASE ~(i <= n)
      <3>1. i - n \in 1..k /\ i \in 1..(n + k)
        BY <1>1, <1>2, <2>2
      <3>2. u[i] = f[w[i]] /\ w[i] = t[i - n]
        BY <1>1, <1>2, <2>2, <3>1, Zenon
      <3>3. v[i] = b[i - n] /\ b[i - n] = f[t[i - n]]
        BY <1>2, <1>3, <2>2, <3>1, Zenon
      <3> QED
        BY <3>2, <3>3, Zenon
    <2> QED
      BY <2>1, <2>2
  <1>5. u = v
    BY <1>2, <1>3, <1>4, SeqEqual
  <1> QED
    BY <1>5 DEF u, v, w, a, b, MapsJoined

LEMMA MappedAppend ==
  ASSUME NEW S, NEW T, NEW f, Maps(f, S, T), NEW s \in Seq(S), NEW e \in S
  PROVE  Mapped(Append(s, e), f) = Append(Mapped(s, f), f[e])
  <1> DEFINE t == <<e>>
  <1>1. t \in Seq(S) /\ Append(s, e) = s \o t
    OBVIOUS
  <1>2. Mapped(t, f) = <<f[e]>>
    BY DEF Mapped
  <1> HIDE DEF t
  <1>3. Mapped(s \o t, f) = Mapped(s, f) \o <<f[e]>>
    <2>1. Mapped(s \o t, f) = Mapped(s, f) \o Mapped(t, f)
      <3>1. MapsJoined(s, t, f)
        BY <1>1, MappedConcatenation
      <3> QED
        BY <3>1, Zenon DEF MapsJoined
    <2> QED
      BY <1>2, <2>1, Zenon
  <1> DEFINE a == Mapped(s, f)
             b == f[e]
  <1>4. a \in Seq(T) /\ b \in T
    <2>1. a \in Seq(T)
      BY MappedType
    <2> QED
      BY <2>1 DEF Maps
  <1> HIDE DEF a, b
  <1>5. a \o <<b>> = Append(a, b)
    BY <1>4
  <1> QED
    BY <1>1, <1>3, <1>5, Zenon DEF a, b

LEMMA MappedHead ==
  ASSUME NEW S, NEW T, NEW f, Maps(f, S, T), NEW s \in Seq(S), s # <<>>
  PROVE  /\ Mapped(s, f) # <<>> /\ Head(Mapped(s, f)) = f[Head(s)]
         /\ Mapped(Tail(s), f) = Tail(Mapped(s, f))
  <1> DEFINE h == <<Head(s)>>
             t == Tail(s)
             a == Mapped(t, f)
             b == f[Head(s)]
  <1>1. h \in Seq(S) /\ t \in Seq(S) /\ s = h \o t /\ Head(s) \in S
    OBVIOUS
  <1>2. Mapped(h, f) = <<b>>
    BY DEF Mapped
  <1>3. a \in Seq(T) /\ b \in T
    BY <1>1, MappedType DEF Maps
  <1> HIDE DEF h, t
  <1>4. Mapped(s, f) = <<b>> \o a
    <2>1. Mapped(h \o t, f) = Mapped(h, f) \o Mapped(t, f)
      <3>1. MapsJoined(h, t, f)
        BY <1>1, MappedConcatenation
      <3> QED
        BY <3>1, Zenon DEF MapsJoined
    <2> QED
      BY <1>1, <1>2, <2>1, Zenon
  <1> HIDE DEF a, b
  <1>5. <<b>> \o a # <<>> /\ Head(<<b>> \o a) = b /\ Tail(<<b>> \o a) = a
    BY <1>3
  <1> QED
    BY <1>4, <1>5 DEF a, b, t

\* What an answer settles, and what a line is owed, as functions.
SettlesOf == [a \in AnswerLines |-> Settles(a)]
OwedOf(M) == [m \in M |-> Owed(m)]

LEMMA SettlesType ==
  ASSUME NEW a \in AnswerLines
  PROVE  Settles(a) \in Seq(RequestIds)
  <1>1. a.id \in RequestIds
    BY DEF AnswerLines
  <1> DEFINE S == Seq(RequestIds)
  <1>2. <<a.id>> \in S /\ <<>> \in S
    <2> HIDE DEF RequestIds
    <2> QED
      BY <1>1
  <1> HIDE DEF S
  <1>3. Settles(a) \in S
    BY <1>2 DEF Settles
  <1> QED
    BY <1>3 DEF S

LEMMA SettledFacts ==
  ASSUME NEW out \in Seq(AnswerLines)
  PROVE  /\ Settled(out) = Mapped(out, SettlesOf) /\ Maps(SettlesOf, AnswerLines, Seq(RequestIds))
         /\ Settled(out) \in Seq(Seq(RequestIds)) /\ FlattenSeq(Settled(out)) \in Seq(RequestIds)
  <1>1. Maps(SettlesOf, AnswerLines, Seq(RequestIds))
    BY SettlesType DEF SettlesOf, Maps
  <1>2. \A i \in DOMAIN out : out[i] \in AnswerLines
    OBVIOUS
  <1>3. \A x \in AnswerLines : SettlesOf[x] = Settles(x)
    BY DEF SettlesOf
  <1>4. Settled(out) = Mapped(out, SettlesOf)
    BY <1>2, <1>3 DEF Settled, Mapped
  <1>5. Settled(out) \in Seq(Seq(RequestIds))
    BY <1>1, <1>4, MappedType
  <1>6. FlattenSeq(Settled(out)) \in Seq(RequestIds)
    BY <1>5, FlattenType
  <1> QED
    BY <1>1, <1>4, <1>5, <1>6

LEMMA OwingFacts ==
  ASSUME NEW M, \A m \in M : Owed(m) \in Seq(RequestIds), NEW in \in Seq(M)
  PROVE  Owing(in) = Mapped(in, OwedOf(M)) /\ Maps(OwedOf(M), M, Seq(RequestIds))
  <1>1. Maps(OwedOf(M), M, Seq(RequestIds))
    BY DEF OwedOf, Maps
  <1>2. \A i \in DOMAIN in : in[i] \in M
    OBVIOUS
  <1>3. \A m \in M : OwedOf(M)[m] = Owed(m)
    BY DEF OwedOf
  <1> QED
    BY <1>1, <1>2, <1>3 DEF Owing, Mapped

\* These are the answers to a line that is owed these ids: one that settles
\* them, or none where nothing is owed.
Gives(answers, ids) ==
  \/ answers = <<>> /\ ids = <<>>
  \/ \E a \in AnswerLines : answers = <<a>> /\ Settles(a) = ids

LEMMA GivesFacts ==
  ASSUME NEW out \in Seq(AnswerLines), NEW answers, NEW ids \in Seq(RequestIds), Gives(answers, ids)
  PROVE  /\ out \o answers \in Seq(AnswerLines)
         /\ FlattenSeq(Settled(out \o answers)) = FlattenSeq(Settled(out)) \o ids
  <1> DEFINE d == FlattenSeq(Settled(out))
  <1>1. d \in Seq(RequestIds)
    BY SettledFacts
  <1>2. CASE answers = <<>> /\ ids = <<>>
    <2>1. out \o answers = out
      BY <1>2
    <2> HIDE DEF d
    <2>2. d \o ids = d
      BY <1>1, <1>2
    <2> QED
      BY <2>1, <2>2 DEF d
  <1>3. ASSUME NEW a \in AnswerLines, answers = <<a>>, Settles(a) = ids
        PROVE  /\ out \o answers \in Seq(AnswerLines)
               /\ FlattenSeq(Settled(out \o answers)) = d \o ids
    <2> DEFINE w == Append(out, a)
               os == Settled(out)
               f == SettlesOf
               ID == Seq(RequestIds)
    <2>1. out \o answers = w /\ w \in Seq(AnswerLines)
      BY <1>3
    <2>2. os = Mapped(out, f) /\ Maps(f, AnswerLines, ID) /\ os \in Seq(ID)
      BY SettledFacts
    <2>3. Settled(w) = Mapped(w, f)
      BY <2>1, SettledFacts
    <2>4. f[a] = ids
      BY <1>3 DEF SettlesOf
    <2> HIDE DEF f, ID
    <2>5. Mapped(w, f) = Append(Mapped(out, f), f[a])
      BY <2>2, MappedAppend
    <2>6. Settled(w) = Append(os, ids)
      BY <2>2, <2>3, <2>4, <2>5
    <2> HIDE DEF os, w
    <2>7. FlattenSeq(Append(os, ids)) = FlattenSeq(os) \o ids
      BY <2>2, FlattenAppend DEF ID
    <2> QED
      BY <2>1, <2>6, <2>7 DEF os
  <1> QED
    BY <1>2, <1>3 DEF Gives

\* A line is handled: what was owed for it is now an answer on its way.
LEMMA PromiseKept ==
  ASSUME NEW M, \A m \in M : Owed(m) \in Seq(RequestIds), NEW in \in Seq(M), in # <<>>,
         NEW out \in Seq(AnswerLines), NEW answers, Gives(answers, Owed(Head(in)))
  PROVE  /\ out \o answers \in Seq(AnswerLines)
         /\ Promised(out \o answers, Tail(in)) = Promised(out, in)
  <1> DEFINE a == FlattenSeq(Settled(out))
             b == Owed(Head(in))
             w == out \o answers
             t == Tail(in)
             os == Owing(in)
             f == OwedOf(M)
  <1>1. t \in Seq(M) /\ Head(in) \in M
    OBVIOUS
  <1>2. b \in Seq(RequestIds) /\ Gives(answers, b)
    BY <1>1
  <1>3. a \in Seq(RequestIds)
    BY SettledFacts
  <1> HIDE DEF t
  <1>4. os = Mapped(in, f) /\ Owing(t) = Mapped(t, f) /\ Maps(f, M, Seq(RequestIds))
    BY <1>1, OwingFacts
  <1>5. f[Head(in)] = b
    BY <1>1 DEF OwedOf
  <1> HIDE DEF f, os, b
  <1>6. w \in Seq(AnswerLines) /\ FlattenSeq(Settled(w)) = a \o b
    BY <1>2, GivesFacts
  <1> HIDE DEF w
  <1>7. os \in Seq(Seq(RequestIds)) /\ Owing(t) \in Seq(Seq(RequestIds))
    BY <1>1, <1>4, MappedType
  <1>8. os # <<>> /\ Head(os) = b /\ Tail(os) = Owing(t)
    <2>1. /\ Mapped(in, f) # <<>> /\ Head(Mapped(in, f)) = f[Head(in)]
          /\ Mapped(Tail(in), f) = Tail(Mapped(in, f))
      BY <1>4, MappedHead
    <2> QED
      BY <1>4, <1>5, <2>1 DEF t
  <1> DEFINE d == FlattenSeq(Owing(t))
  <1>9. FlattenSeq(os) = b \o d
    BY <1>7, <1>8, FlattenTail
  <1>10. d \in Seq(RequestIds)
    BY <1>7, FlattenType
  <1> HIDE DEF a, d
  <1>11. (a \o b) \o d = a \o (b \o d)
    BY <1>2, <1>3, <1>10, ConcatAssociative, SMTT(30)
  <1>12. Promised(w, t) = (a \o b) \o d
    BY <1>6 DEF Promised, d
  <1>13. Promised(out, in) = a \o (b \o d)
    BY <1>9 DEF Promised, a, os
  <1> QED
    BY <1>6, <1>11, <1>12, <1>13 DEF t, w

\* A line is sent: what is owed for it comes last.
LEMMA PromiseMade ==
  ASSUME NEW M, \A m \in M : Owed(m) \in Seq(RequestIds), NEW in \in Seq(M), NEW m \in M,
         NEW out \in Seq(AnswerLines)
  PROVE  Promised(out, Append(in, m)) = Promised(out, in) \o Owed(m)
  <1> DEFINE a == FlattenSeq(Settled(out))
             b == Owed(m)
             os == Owing(in)
             d == FlattenSeq(os)
             f == OwedOf(M)
             t == Append(in, m)
  <1>1. t \in Seq(M)
    OBVIOUS
  <1>2. os = Mapped(in, f) /\ Owing(t) = Mapped(t, f) /\ Maps(f, M, Seq(RequestIds))
    BY <1>1, OwingFacts
  <1>3. f[m] = b /\ b \in Seq(RequestIds)
    BY DEF OwedOf
  <1> HIDE DEF f, b
  <1>4. Mapped(t, f) = Append(Mapped(in, f), f[m])
    BY <1>2, MappedAppend
  <1>5. Owing(t) = Append(os, b)
    BY <1>2, <1>3, <1>4
  <1>6. os \in Seq(Seq(RequestIds))
    BY <1>2, MappedType
  <1> HIDE DEF os, t
  <1>7. FlattenSeq(Append(os, b)) = d \o b
    BY <1>3, <1>6, FlattenAppend
  <1>8. d \in Seq(RequestIds)
    BY <1>6, FlattenType
  <1>9. a \in Seq(RequestIds)
    BY SettledFacts
  <1> HIDE DEF a, d
  <1>10. (a \o d) \o b = a \o (d \o b)
    <2>1. b \in Seq(RequestIds)
      BY <1>3
    <2> QED
      BY <1>8, <1>9, <2>1, ConcatAssociative, SMTT(30)
  <1>11. Promised(out, t) = a \o (d \o b)
    BY <1>5, <1>7 DEF Promised, a
  <1>12. Promised(out, in) = a \o d
    BY DEF Promised, a, d, os
  <1> QED
    BY <1>10, <1>11, <1>12 DEF t, b

\* An answer is read.
LEMMA PromiseRead ==
  ASSUME NEW M, \A m \in M : Owed(m) \in Seq(RequestIds), NEW in \in Seq(M),
         NEW out \in Seq(AnswerLines), out # <<>>
  PROVE  Promised(Tail(out), in)
           = IF Complains(Head(out)) THEN Promised(out, in) ELSE Tail(Promised(out, in))
  <1> DEFINE os == Settled(out)
             t == Tail(out)
             b == FlattenSeq(Settled(t))
             d == FlattenSeq(Owing(in))
             h == Settles(Head(out))
             f == SettlesOf
  <1>1. d \in Seq(RequestIds)
    <2>1. Owing(in) = Mapped(in, OwedOf(M)) /\ Maps(OwedOf(M), M, Seq(RequestIds))
      BY OwingFacts
    <2>2. Owing(in) \in Seq(Seq(RequestIds))
      BY <2>1, MappedType
    <2> QED
      BY <2>2, FlattenType
  <1>2. t \in Seq(AnswerLines) /\ Head(out) \in AnswerLines
    OBVIOUS
  <1>3. /\ os = Mapped(out, f) /\ Settled(t) = Mapped(t, f) /\ Maps(f, AnswerLines, Seq(RequestIds))
        /\ os \in Seq(Seq(RequestIds)) /\ b \in Seq(RequestIds)
    BY <1>2, SettledFacts
  <1>4. h \in Seq(RequestIds)
    BY <1>2, SettlesType
  <1>5. f[Head(out)] = h
    BY <1>2 DEF SettlesOf
  <1> HIDE DEF f, os, h
  <1>6. os # <<>> /\ Head(os) = h /\ Tail(os) = Settled(t)
    <2>1. /\ Mapped(out, f) # <<>> /\ Head(Mapped(out, f)) = f[Head(out)]
          /\ Mapped(Tail(out), f) = Tail(Mapped(out, f))
      BY <1>3, MappedHead
    <2> QED
      BY <1>3, <1>5, <2>1
  <1>7. FlattenSeq(os) = h \o b
    BY <1>3, <1>6, FlattenTail
  <1> HIDE DEF b, d, t
  <1>8. (h \o b) \o d = h \o (b \o d) /\ b \o d \in Seq(RequestIds)
    BY <1>1, <1>3, <1>4, ConcatAssociative, SMTT(30)
  <1> DEFINE rest == b \o d
  <1> HIDE DEF rest
  <1>9. Promised(out, in) = h \o rest /\ Promised(t, in) = rest /\ rest \in Seq(RequestIds)
    BY <1>7, <1>8 DEF Promised, os, b, d, rest
  <1>10. CASE Complains(Head(out))
    <2>1. h = <<>>
      BY <1>10 DEF h, Settles
    <2>2. <<>> \o rest = rest
      BY <1>9
    <2> QED
      BY <1>9, <1>10, <2>1, <2>2 DEF t
  <1>11. CASE ~Complains(Head(out))
    <2> DEFINE x == Head(out).id
    <2>1. h = <<x>>
      BY <1>11 DEF h, Settles
    <2> HIDE DEF x
    <2>2. x \in RequestIds
      BY <1>2 DEF x, AnswerLines
    <2>3. Tail(<<x>> \o rest) = rest
      <3> HIDE DEF RequestIds
      <3> QED
        BY <1>9, <2>2
    <2> QED
      BY <1>9, <1>11, <2>1, <2>3 DEF t
  <1> QED
    BY <1>10, <1>11

LEMMA NothingPromised == Promised(<<>>, <<>>) = <<>>
  <1>1. Settled(<<>>) = <<>> /\ Owing(<<>>) = <<>>
    BY DEF Settled, Owing
  <1>2. FlattenSeq(<<>>) = <<>>
    <2> DEFINE ss == <<>>
    <2>1. ss \in Seq(Seq(RequestIds)) /\ Len(ss) = 0
      OBVIOUS
    <2> HIDE DEF ss
    <2>2. PICK p : FlattenWalk(p, ss, 0, RequestIds)
      BY <2>1, FlattenSteps
    <2>3. FlattenSeq(ss) = <<>>
      BY <2>2 DEF FlattenWalk
    <2> QED
      BY <2>3 DEF ss
  <1> QED
    BY <1>1, <1>2 DEF Promised

LEMMA OneLine ==
  ASSUME NEW x \in RequestIds, NEW raised \in BOOLEAN
  PROVE  /\ ~raised \/ x # None => Gives(<<[id |-> x, raised |-> raised]>>, <<x>>)
         /\ raised /\ x = None => Gives(<<[id |-> x, raised |-> raised]>>, <<>>)
  <1> DEFINE line == [id |-> x, raised |-> raised]
  <1>1. line \in AnswerLines /\ line.id = x /\ line.raised = raised
    BY DEF AnswerLines
  <1> HIDE DEF line
  <1>2. ~raised \/ x # None => Settles(line) = <<x>>
    BY <1>1 DEF Settles, Complains
  <1>3. raised /\ x = None => Settles(line) = <<>>
    BY <1>1 DEF Settles, Complains
  <1>4. /\ ~raised \/ x # None => Gives(<<line>>, <<x>>)
        /\ raised /\ x = None => Gives(<<line>>, <<>>)
    BY <1>1, <1>2, <1>3 DEF Gives
  <1> QED
    BY <1>4 DEF line

LEMMA NoLine == Gives(<<>>, <<>>)
  BY DEF Gives

\* What a line that does not raise is answered is what was owed for it, unless
\* it is a notice.
LEMMA AnswersFacts ==
  ASSUME FrontendsAssumption, scope \in Scopes, NEW m \in scope.messages, IsMessage(m),
         m.method \notin Notices
  PROVE  Gives(Answers(m), Owed(m))
  <1>1. m.id \in RequestIds
    BY OwedType
  <1> DEFINE one == <<[id |-> m.id, raised |-> FALSE]>>
  <1>2. Gives(one, <<m.id>>)
    BY <1>1, OneLine
  <1> HIDE DEF one
  <1>3. CASE IsRequest(m)
    <2>1. Answers(m) = one
      BY <1>3, Zenon DEF Answers, one
    <2>2. Owed(m) = <<m.id>>
      BY <1>3 DEF Owed, IsRequest
    <2> QED
      BY <1>2, <2>1, <2>2
  <1>4. CASE ~IsRequest(m)
    <2>1. m.form \notin {"not json", "not an object"}
      BY <1>4 DEF IsMessage, IsRequest
    <2>2. Answers(m) = <<>> /\ Owed(m) = <<>>
      BY <1>4, <2>1 DEF Answers, Owed
    <2> QED
      BY <2>2, NoLine
  <1> QED
    BY <1>3, <1>4

\* What a step may do to the lines.
Handled ==
  /\ inbox # <<>> /\ inbox' = Tail(inbox) /\ owed' = owed /\ pending' = None
  /\ \E answers : outbox' = outbox \o answers /\ Gives(answers, Owed(Head(inbox)))
\* The report of a scan is being written, or nothing to do with the lines.
Waits ==
  /\ inbox' = inbox /\ outbox' = outbox /\ owed' = owed
  /\ \/ pending' = None
     \/ pending # None /\ pending'.message = pending.message
     \/ /\ inbox # <<>> /\ pending'.message = Head(inbox)
        /\ Calls(Head(inbox), "scan_subscription")
Stopped == inbox' = <<>> /\ outbox' = <<>> /\ owed' = <<>> /\ pending' = None
Sent ==
  /\ outbox' = outbox /\ pending' = pending
  /\ \E m \in scope.messages : inbox' = Append(inbox, m) /\ owed' = owed \o Owed(m)
WasRead ==
  /\ outbox # <<>> /\ outbox' = Tail(outbox)
  /\ owed' = IF Complains(Head(outbox)) THEN owed ELSE Tail(owed)
  /\ inbox' = inbox /\ pending' = pending
KeepsMail == scope' = scope /\ (Handled \/ Waits \/ Stopped \/ Sent \/ WasRead)

LEMMA HeadOfAppend ==
  ASSUME NEW M, NEW s \in Seq(M), NEW m \in M
  PROVE  /\ Append(s, m) \in Seq(M) /\ Append(s, m) # <<>>
         /\ s # <<>> => Head(Append(s, m)) = Head(s)
  <1>1. Append(s, m) \in Seq(M) /\ Len(Append(s, m)) = Len(s) + 1 /\ Len(s) \in Nat
    OBVIOUS
  <1>2. Append(s, m) # <<>>
    BY <1>1
  <1>3. s # <<>> => Head(Append(s, m)) = Head(s)
    OBVIOUS
  <1> QED
    BY <1>1, <1>2, <1>3

LEMMA MailKept ==
  ASSUME FrontendsAssumption, scope \in Scopes, MailInv, KeepsMail
  PROVE  MailInv'
  <1> DEFINE M == scope.messages
  <1>1. \A m \in M : Owed(m) \in Seq(RequestIds)
    BY OwedType
  <1>2. inbox \in Seq(M) /\ outbox \in Seq(AnswerLines) /\ Promised(outbox, inbox) = owed
    BY DEF MailInv, OneAnswerEach, Promised, Settled, Owing
  <1>3. pending # None =>
          inbox # <<>> /\ pending.message = Head(inbox) /\ Calls(Head(inbox), "scan_subscription")
    BY DEF MailInv
  <1> HIDE DEF M
  <1>4. SUFFICES /\ inbox' \in Seq(M) /\ outbox' \in Seq(AnswerLines)
                 /\ Promised(outbox', inbox') = owed'
                 /\ pending' # None => /\ inbox' # <<>> /\ pending'.message = Head(inbox')
                                       /\ Calls(Head(inbox'), "scan_subscription")
    BY <1>4 DEF MailInv, OneAnswerEach, Promised, Settled, Owing, KeepsMail, M
  <1>5. CASE Handled
    <2>1. PICK answers : outbox' = outbox \o answers /\ Gives(answers, Owed(Head(inbox)))
      BY <1>5 DEF Handled
    <2>2. inbox # <<>> /\ inbox' = Tail(inbox) /\ owed' = owed /\ pending' = None
      BY <1>5 DEF Handled
    <2>3. inbox' \in Seq(M)
      BY <1>2, <2>2
    <2>4. /\ outbox \o answers \in Seq(AnswerLines)
          /\ Promised(outbox \o answers, Tail(inbox)) = Promised(outbox, inbox)
      BY <1>1, <1>2, <2>1, <2>2, PromiseKept
    <2> QED
      BY <1>2, <2>1, <2>2, <2>3, <2>4
  <1>6. CASE Waits
    BY <1>2, <1>3, <1>6 DEF Waits
  <1>7. CASE Stopped
    <2>1. inbox' = <<>> /\ outbox' = <<>> /\ owed' = <<>> /\ pending' = None
      BY <1>7 DEF Stopped
    <2>2. <<>> \in Seq(M) /\ <<>> \in Seq(AnswerLines)
      OBVIOUS
    <2> QED
      BY <2>1, <2>2, NothingPromised
  <1>8. CASE Sent
    <2>1. PICK m \in M : inbox' = Append(inbox, m) /\ owed' = owed \o Owed(m)
      BY <1>8 DEF Sent, M
    <2>2. outbox' = outbox /\ pending' = pending
      BY <1>8 DEF Sent
    <2>3. Promised(outbox, Append(inbox, m)) = Promised(outbox, inbox) \o Owed(m)
      BY <1>1, <1>2, PromiseMade
    <2>4. inbox # <<>> => Head(Append(inbox, m)) = Head(inbox)
      BY <1>2, HeadOfAppend
    <2>5. Append(inbox, m) \in Seq(M) /\ Append(inbox, m) # <<>>
      BY <1>2, HeadOfAppend
    <2> QED
      BY <1>2, <1>3, <2>1, <2>2, <2>3, <2>4, <2>5
  <1>9. CASE WasRead
    <2>1. /\ outbox # <<>> /\ outbox' = Tail(outbox)
          /\ owed' = IF Complains(Head(outbox)) THEN owed ELSE Tail(owed)
          /\ inbox' = inbox /\ pending' = pending
      BY <1>9 DEF WasRead
    <2>2. Promised(Tail(outbox), inbox)
            = IF Complains(Head(outbox)) THEN Promised(outbox, inbox) ELSE Tail(Promised(outbox, inbox))
      BY <1>1, <1>2, <2>1, PromiseRead
    <2>3. Tail(outbox) \in Seq(AnswerLines)
      BY <1>2, <2>1
    <2> QED
      BY <1>2, <1>3, <2>1, <2>2, <2>3
  <1> QED
    BY <1>5, <1>6, <1>7, <1>8, <1>9 DEF KeepsMail

\* A line the server takes up.
LEMMA TakenUp ==
  ASSUME FrontendsAssumption, scope \in Scopes, MailInv, NEW m \in scope.messages, Reads(m),
         \/ HandleText
         \/ /\ IsMessage(m)
            /\ \/ HandleRaises(m) \/ HandleStatic(m)
               \/ HandleCall(m) \/ HandleScanRefused(m) \/ HandleScan(m)
  PROVE  KeepsMail
  <1>1. inbox # <<>> /\ pending = None /\ m = Head(inbox)
    BY DEF Reads
  <1>2. None \in RequestIds /\ m.id \in RequestIds
    BY OwedType DEF RequestIds
  <1>3. ASSUME NEW answers, Gives(answers, Owed(m)), Done(answers),
               scope' = scope, pending' = pending, owed' = owed
        PROVE  KeepsMail
    BY <1>1, <1>3 DEF Done, Handled, KeepsMail
  <1>4. CASE HandleText
    <2>1. PICK w \in scope.messages :
            /\ Reads(w) /\ w.form \in {"not json", "not an object"} /\ Done(AnswersText(w))
            /\ scope' = scope /\ pending' = pending /\ owed' = owed
      BY <1>4 DEF HandleText, azVars
    <2>2. w = m
      BY <1>1, <2>1 DEF Reads
    <2>3. Owed(m) = <<None>>
      BY <2>1, <2>2 DEF Owed, IsRequest
    <2> DEFINE one == <<[id |-> None, raised |-> FALSE]>>
    <2>4. Done(one)
      BY <2>1 DEF AnswersText
    <2>5. Gives(one, <<None>>)
      BY <1>2, OneLine
    <2> HIDE DEF one
    <2> QED
      BY <1>3, <2>1, <2>3, <2>4, <2>5
  <1>5. CASE IsMessage(m) /\ HandleRaises(m)
    <2> DEFINE i == IF IsRequest(m) THEN m.id ELSE None
               one == <<[id |-> i, raised |-> TRUE]>>
    <2>1. m.method \notin Notices
      BY <1>5 DEF HandleRaises, Raises, Notices, NotAString
    <2>2. i \in RequestIds
      BY <1>2, Zenon
    <2>3. Done(one) /\ scope' = scope /\ pending' = pending /\ owed' = owed
      BY <1>5 DEF HandleRaises, azVars
    <2>4. IsRequest(m) => i # None /\ Owed(m) = <<i>>
      BY <2>1, ScopeFacts DEF IsRequest, Owed
    <2>5. ~IsRequest(m) => i = None /\ Owed(m) = <<>>
      BY <1>5 DEF IsMessage, IsRequest, Owed
    <2> HIDE DEF i
    <2>6. (i # None => Gives(one, <<i>>)) /\ (i = None => Gives(one, <<>>))
      BY <2>2, OneLine
    <2> HIDE DEF one
    <2>7. Gives(one, Owed(m))
      BY <2>4, <2>5, <2>6
    <2> QED
      BY <1>3, <2>3, <2>7
  <1>6. CASE IsMessage(m) /\ HandleStatic(m) /\ m.method \in Notices
    <2>1. Owed(m) = <<>>
      BY <1>6 DEF IsMessage, Owed
    <2>2. Done(<<>>) /\ scope' = scope /\ pending' = pending /\ owed' = owed
      BY <1>6 DEF HandleStatic, azVars
    <2>3. Gives(<<>>, Owed(m))
      BY <2>1, NoLine
    <2> QED
      BY <1>3, <2>2, <2>3
  <1>7. CASE /\ IsMessage(m) /\ (HandleStatic(m) \/ HandleCall(m) \/ HandleScanRefused(m))
             /\ m.method \notin Notices
    <2>1. Done(Answers(m)) /\ scope' = scope /\ pending' = pending /\ owed' = owed
      BY <1>7 DEF HandleStatic, HandleCall, HandleScanRefused, azVars
    <2>2. Gives(Answers(m), Owed(m))
      BY <1>7, AnswersFacts
    <2> QED
      BY <1>3, <2>1, <2>2
  <1>8. CASE IsMessage(m) /\ HandleScan(m)
    <2>1. scope' = scope /\ inbox' = inbox /\ outbox' = outbox /\ owed' = owed
      BY <1>8 DEF HandleScan, azVars, lineVars
    <2>2. Calls(m, "scan_subscription")
      BY <1>8 DEF HandleScan, Calls, IsMessage
    <2>3. pending'.message = m
      BY <1>8 DEF HandleScan
    <2> QED
      BY <1>1, <2>1, <2>2, <2>3 DEF Waits, KeepsMail
  <1>9. HandleCall(m) \/ HandleScanRefused(m) => m.method \notin Notices
    BY DEF HandleCall, HandleScanRefused, Notices
  <1> QED
    BY <1>4, <1>5, <1>6, <1>7, <1>8, <1>9

LEMMA MailStep ==
  ASSUME FrontendsAssumption, ReportsInv, MailInv, [Next]_vars
  PROVE  MailInv'
  <1>1. scope \in Scopes
    BY DEF ReportsInv
  <1>2. KeepsMail
    <2>1. CASE UNCHANGED vars
      BY <2>1 DEF vars, azVars, serverVars, lineVars, KeepsMail, Waits
    <2>2. ASSUME NEW o \in scope.options, Refused(o) \/ CliCleanFrom(o) \/ CliClean(o)
          PROVE  KeepsMail
      BY <2>2 DEF Refused, CliCleanFrom, CliClean, azVars, serverVars, lineVars, KeepsMail, Waits
    <2>3. ASSUME NEW o \in scope.options, CliScan(o)
          PROVE  KeepsMail
      <3>1. scope' = scope /\ inbox' = inbox /\ outbox' = outbox /\ owed' = owed
        BY <2>3 DEF CliScan, azVars, lineVars
      <3>2. \/ pending' = None \/ pending' = pending
            \/ pending # None /\ pending' = [pending EXCEPT !.mixed = TRUE]
        BY <2>3 DEF CliScan
      <3>3. ASSUME pending # None, NEW u, u = [pending EXCEPT !.mixed = TRUE]
            PROVE  u.message = pending.message
        <4>1. pending = [message |-> pending.message, doc |-> pending.doc,
                         mixed |-> pending.mixed, answer |-> pending.answer]
          BY <3>3 DEF ReportsInv, IsPending
        <4> QED
          BY <3>3, <4>1
      <3> QED
        BY <3>1, <3>2, <3>3 DEF Waits, KeepsMail
    <2>4. CASE CliWrite \/ CliKilled
      BY <2>4 DEF CliWrite, CliKilled, azVars, serverVars, lineVars, KeepsMail, Waits
    <2>5. CASE HandleText
      <3>1. PICK m \in scope.messages : Reads(m)
        BY <2>5 DEF HandleText
      <3> QED
        BY <1>1, <2>5, <3>1, TakenUp
    <2>6. ASSUME NEW m \in scope.messages, Reads(m), IsMessage(m),
                 \/ HandleRaises(m) \/ HandleStatic(m)
                 \/ HandleCall(m) \/ HandleScanRefused(m) \/ HandleScan(m)
          PROVE  KeepsMail
      BY <1>1, <2>6, TakenUp
    <2>7. CASE ServerWrites
      <3> DEFINE m == pending.message
      <3>1. /\ pending # None /\ Done(Answers(m)) /\ pending' = None
            /\ scope' = scope /\ owed' = owed
        BY <2>7 DEF ServerWrites, azVars
      <3>2. inbox # <<>> /\ m = Head(inbox) /\ Calls(m, "scan_subscription")
        BY <3>1 DEF MailInv
      <3>3. m \in scope.messages
        BY <3>2 DEF MailInv
      <3> HIDE DEF m
      <3>4. Gives(Answers(m), Owed(m))
        <4>1. IsMessage(m) /\ m.method \notin Notices
          BY <3>2 DEF Calls, IsMessage, Notices
        <4> QED
          BY <1>1, <3>3, <4>1, AnswersFacts
      <3> QED
        BY <3>1, <3>2, <3>4 DEF Done, Handled, KeepsMail
    <2>8. CASE ServerStops \/ ServerStarts
      BY <2>8 DEF ServerStops, ServerStarts, azVars, KeepsMail, Stopped
    <2>9. ASSUME NEW m \in scope.messages, Send(m)
          PROVE  KeepsMail
      BY <2>9 DEF Send, azVars, KeepsMail, Sent
    <2>10. CASE Receive
      BY <2>10 DEF Receive, azVars, KeepsMail, WasRead
    <2>11. ASSUME NEW a \in scope.accounts, SignIn(a)
           PROVE  KeepsMail
      BY <2>11 DEF SignIn, serverVars, lineVars, KeepsMail, Waits
    <2>12. CASE HandleUnreadable
      BY <2>12 DEF HandleUnreadable, azVars, lineVars, KeepsMail, Waits
    <2> QED
      BY <2>1, <2>2, <2>3, <2>4, <2>5, <2>6, <2>7, <2>8, <2>9, <2>10, <2>11, <2>12 DEF Next, Handle
  <1> QED
    BY <1>1, <1>2, MailKept

LEMMA MailInit ==
  ASSUME Init
  PROVE  MailInv
  <1>1. inbox = <<>> /\ outbox = <<>> /\ owed = <<>> /\ pending = None
    BY DEF Init
  <1>2. <<>> \in Seq(scope.messages) /\ <<>> \in Seq(AnswerLines)
    OBVIOUS
  <1>3. OneAnswerEach
    BY <1>1, NothingPromised DEF OneAnswerEach, Promised, Settled, Owing
  <1> QED
    BY <1>1, <1>2, <1>3 DEF MailInv

\* However the lines of the client, the answers, the scans and the ends and
\* starts of the server follow one another, what the answers on their way
\* settle and what the lines not yet handled are owed is exactly what the
\* client is waiting for, in its order: one answer to every request but a
\* notice and to every line that is no message, and none besides but
\* complaints without an id (mcp_server.py:755-777, 785-816).
THEOREM OneAnswerToEachLine == Spec => []OneAnswerEach
  <1>1. Init => MailInv
    BY MailInit
  <1>2. ReportsInv /\ MailInv /\ [Next]_vars => MailInv'
    BY FrontendsAssumption, MailStep
  <1>3. MailInv => OneAnswerEach
    BY DEF MailInv
  <1> QED
    BY <1>1, <1>2, <1>3, ReportsAreMade, PTL DEF Spec

=============================================================================
