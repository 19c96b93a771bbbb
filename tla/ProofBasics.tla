---------------------------- MODULE ProofBasics ----------------------------
(***************************************************************************)
(* What the proofs share: induction over numbers, facts about queues, and  *)
(* the choice schedule() makes.                                            *)
(***************************************************************************)
EXTENDS Integers, Sequences, FiniteSets, Functions, RoundRobin, TLAPS

(***************************************************************************)
(* What the library's theorems say of numbers and of finite sets.  The     *)
(* proofs about steps take it as a hypothesis, so that the library stays   *)
(* out of their obligations; a module that concludes instantiates the      *)
(* library behind them and proves LibraryFacts there.                      *)
(***************************************************************************)
LibraryFacts ==
    /\ \A S \in SUBSET Nat : S # {} => \E i \in S : \A j \in S : i <= j
    /\ IsFiniteSet({}) /\ Cardinality({}) = 0
    /\ \A a, b \in Int : IsFiniteSet(a..b) /\ Cardinality(a..b) = IF a > b THEN 0 ELSE b - a + 1
    /\ \A S : IsFiniteSet(S) =>
          /\ Cardinality(S) \in Nat /\ (Cardinality(S) = 0 <=> S = {})
          /\ \A x : /\ IsFiniteSet(S \union {x}) /\ IsFiniteSet(S \ {x})
                    /\ Cardinality(S \union {x}) = IF x \in S THEN Cardinality(S) ELSE Cardinality(S) + 1
                    /\ Cardinality(S \ {x}) = IF x \in S THEN Cardinality(S) - 1 ELSE Cardinality(S)
          /\ \A T \in SUBSET S : IsFiniteSet(T) /\ Cardinality(T) <= Cardinality(S)
          /\ \A T : \A f \in Injection(T, S) : IsFiniteSet(T) /\ Cardinality(T) <= Cardinality(S)

\* A non-empty set of naturals has a least element.
LEMMA LeastNat ==
  ASSUME LibraryFacts, NEW S \in SUBSET Nat, S # {}
  PROVE  \E i \in S : \A j \in S : i <= j
  BY DEF LibraryFacts

\* Finite sets are counted by natural numbers, and only the empty one by 0.
LEMMA CardNat ==
  ASSUME LibraryFacts, NEW S, IsFiniteSet(S)
  PROVE  Cardinality(S) \in Nat /\ (Cardinality(S) = 0 <=> S = {})
  BY DEF LibraryFacts

\* The empty set.
LEMMA CardEmpty ==
  ASSUME LibraryFacts
  PROVE  IsFiniteSet({}) /\ Cardinality({}) = 0
  BY DEF LibraryFacts

\* An interval.
LEMMA CardInterval ==
  ASSUME LibraryFacts, NEW a \in Int, NEW b \in Int
  PROVE  IsFiniteSet(a..b) /\ Cardinality(a..b) = IF a > b THEN 0 ELSE b - a + 1
  BY DEF LibraryFacts

\* One element more ...
LEMMA CardAdd ==
  ASSUME LibraryFacts, NEW S, NEW x, IsFiniteSet(S)
  PROVE  /\ IsFiniteSet(S \union {x})
         /\ Cardinality(S \union {x}) = IF x \in S THEN Cardinality(S) ELSE Cardinality(S) + 1
  BY Zenon DEF LibraryFacts

\* ... and one less.
LEMMA CardRemove ==
  ASSUME LibraryFacts, NEW S, NEW x, IsFiniteSet(S)
  PROVE  /\ IsFiniteSet(S \ {x})
         /\ Cardinality(S \ {x}) = IF x \in S THEN Cardinality(S) - 1 ELSE Cardinality(S)
  BY Zenon DEF LibraryFacts

\* A subset is no larger ...
LEMMA CardSubset ==
  ASSUME LibraryFacts, NEW S, IsFiniteSet(S), NEW T \in SUBSET S
  PROVE  IsFiniteSet(T) /\ Cardinality(T) <= Cardinality(S)
  BY DEF LibraryFacts

\* ... nor is what is mapped into a set without two elements meeting.
LEMMA CardInjection ==
  ASSUME LibraryFacts, NEW S, NEW T, NEW f \in Injection(T, S), IsFiniteSet(S)
  PROVE  IsFiniteSet(T) /\ Cardinality(T) <= Cardinality(S)
  BY Zenon DEF LibraryFacts

\* A set that holds 0, and with i - 1 also i for every i up to n, holds n.
LEMMA Inductive ==
  ASSUME LibraryFacts, NEW n \in Nat
  PROVE  \A P \in SUBSET (0..n) : 0 \in P /\ (\A i \in 1..n : i - 1 \in P => i \in P) => n \in P
<1> SUFFICES ASSUME NEW P \in SUBSET (0..n), 0 \in P,
                    \A i \in 1..n : i - 1 \in P => i \in P, n \notin P
             PROVE  FALSE
  OBVIOUS
<1> DEFINE S == (0..n) \ P
<1>1. S \in SUBSET Nat /\ S # {}
  OBVIOUS
<1>2. PICK i \in S : \A j \in S : i <= j
  BY <1>1, LeastNat
<1>3. i \in 1..n /\ i - 1 \in P
  BY <1>2
<1> QED BY <1>2, <1>3

-----------------------------------------------------------------------------
(* Queues. *)

\* Sequences with the same elements are the same.
LEMMA SeqEqual ==
  ASSUME NEW S, NEW s \in Seq(S), NEW t \in Seq(S), Len(s) = Len(t), \A i \in 1..Len(t) : s[i] = t[i]
  PROVE  s = t
  OBVIOUS

\* The two parts of a queue that is cut in two.
LEMMA Cut ==
  ASSUME NEW S, NEW b \in Seq(S), NEW k \in 0..Len(b)
  PROVE  /\ SubSeq(b, 1, k) \in Seq(S) /\ Len(SubSeq(b, 1, k)) = k
         /\ SubSeq(b, k + 1, Len(b)) \in Seq(S) /\ Len(SubSeq(b, k + 1, Len(b))) = Len(b) - k
  OBVIOUS

\* A queue is what a read takes from it and what it leaves.
LEMMA Split ==
  ASSUME NEW S, NEW b \in Seq(S), NEW k \in 0..Len(b)
  PROVE  SubSeq(b, 1, k) \o SubSeq(b, k + 1, Len(b)) = b
<1> DEFINE x == SubSeq(b, 1, k)
           y == SubSeq(b, k + 1, Len(b))
<1>1. x \in Seq(S) /\ Len(x) = k /\ \A i \in 1..k : x[i] = b[i]
  OBVIOUS
<1>2. y \in Seq(S) /\ Len(y) = Len(b) - k /\ \A i \in 1..(Len(b) - k) : y[i] = b[i + k]
  OBVIOUS
<1>0. Len(b) \in Nat
  OBVIOUS
<1> HIDE DEF x, y
<1>3. Len(x \o y) = Len(b) /\ x \o y \in Seq(S)
  <2>1. x \o y \in Seq(S) /\ Len(x \o y) = Len(x) + Len(y)
    BY <1>1, <1>2
  <2> QED BY <1>0, <1>1, <1>2, <2>1
<1>4. ASSUME NEW i \in 1..Len(b) PROVE (x \o y)[i] = b[i]
  <2>1. CASE i <= k
    BY <1>0, <1>1, <1>2, <2>1
  <2>2. CASE i > k
    <3>1. i - k \in 1..(Len(b) - k) /\ (i - k) + k = i
      BY <1>0, <2>2
    <3>2. y[i - k] = b[i]
      BY <3>1, <1>2
    <3> QED BY <1>0, <1>1, <1>2, <2>2, <3>2
  <2>3. i <= k \/ i > k
    BY <1>0
  <2> QED BY <2>1, <2>2, <2>3
<1>5. x \o y = b
  BY <1>3, <1>4, SeqEqual, Zenon
<1> QED BY <1>5 DEF x, y

\* What a queue holds after an element was added.
LEMMA RangeAppend ==
  ASSUME NEW S, NEW q \in Seq(S), NEW x \in S
  PROVE  Range(Append(q, x)) = Range(q) \union {x}
<1>1. Len(Append(q, x)) = Len(q) + 1 /\ DOMAIN Append(q, x) = 1..(Len(q) + 1) /\ DOMAIN q = 1..Len(q)
  OBVIOUS
<1>2. \A i \in DOMAIN q : Append(q, x)[i] = q[i] /\ i \in DOMAIN Append(q, x)
  BY <1>1
<1>3. Append(q, x)[Len(q) + 1] = x
  OBVIOUS
<1>4. \A i \in DOMAIN Append(q, x) : i = Len(q) + 1 \/ i \in DOMAIN q
  BY <1>1
<1>5. Len(q) + 1 \in DOMAIN Append(q, x)
  BY <1>1
<1> QED BY <1>2, <1>3, <1>4, <1>5 DEF Range

-----------------------------------------------------------------------------
(* schedule(). *)

\* schedule() picks a task of the vector, and a Runnable one as soon as there is
\* one at any offset, the running task's own included.
LEMMA NextTaskPicks ==
  ASSUME LibraryFacts, NEW m \in Nat \ {0}, NEW cur \in 0..(m - 1), NEW st,
         \E t \in 0..(m - 1) : st[t] = "Runnable"
  PROVE  /\ NextTask(st, cur, m) \in 0..(m - 1)
         /\ st[NextTask(st, cur, m)] = "Runnable"
<1> DEFINE offsets == RunnableOffsets(st, cur, m)
<1>1. PICK t \in 0..(m - 1) : st[t] = "Runnable"
  OBVIOUS
<1>2. offsets # {}
  <2>1. CASE t > cur
    <3>1. t - cur \in 1..m /\ (cur + (t - cur)) % m = t
      BY <2>1, t < m
    <3> QED BY <3>1, <1>1 DEF RunnableOffsets
  <2>2. CASE t <= cur
    <3>1. t + m - cur \in 1..m
      BY <2>2
    <3>2. (cur + (t + m - cur)) % m = t
      BY <2>2
    <3> QED BY <3>1, <3>2, <1>1 DEF RunnableOffsets
  <2> QED BY <2>1, <2>2
<1>3. offsets \in SUBSET Nat
  BY DEF RunnableOffsets
<1> DEFINE k == CHOOSE i \in offsets : \A j \in offsets : i <= j
<1>4. k \in offsets
  <2> HIDE DEF offsets
  <2> QED BY <1>2, <1>3, LeastNat
<1>5. k \in 1..m /\ st[(cur + k) % m] = "Runnable"
  BY <1>4 DEF RunnableOffsets
<1>6. NextTask(st, cur, m) = (cur + k) % m
  BY <1>2 DEF NextTask
<1> HIDE DEF k
<1>7. (cur + k) % m \in 0..(m - 1)
  BY <1>5
<1> QED BY <1>5, <1>6, <1>7

\* How far task t is from task c in the scan, from 1 for the one right after c to
\* the length of the vector for c itself.
Ahead(c, t, m) == IF t > c THEN t - c ELSE t + m - c

\* schedule() skips no Runnable task: the one it picks is another Runnable task or
\* comes before it in the scan.
LEMMA NextTaskFirst ==
  ASSUME LibraryFacts, NEW m \in Nat \ {0}, NEW cur \in 0..(m - 1), NEW st,
         NEW t \in 0..(m - 1), t # cur, st[t] = "Runnable", NextTask(st, cur, m) # t
  PROVE  Ahead(NextTask(st, cur, m), t, m) < Ahead(cur, t, m)
<1> DEFINE offsets == RunnableOffsets(st, cur, m)
           k == CHOOSE i \in offsets : \A j \in offsets : i <= j
           d == Ahead(cur, t, m)
<1>1. d \in 1..(m - 1)
  BY DEF Ahead
<1>2. (cur + d) % m = t
  <2>1. CASE t > cur
    BY <2>1 DEF Ahead
  <2>2. CASE t < cur
    BY <2>2 DEF Ahead
  <2> QED BY <2>1, <2>2
<1>3. d \in offsets
  BY <1>1, <1>2 DEF RunnableOffsets
<1>4. k \in offsets /\ k <= d
  <2>1. offsets \in SUBSET Nat
    BY DEF RunnableOffsets
  <2> HIDE DEF offsets, d
  <2> QED BY <1>3, <2>1, LeastNat
<1>5. NextTask(st, cur, m) = (cur + k) % m
  BY <1>3 DEF NextTask
<1>6. k \in 1..m
  BY <1>4 DEF RunnableOffsets
<1> HIDE DEF k, offsets
<1>7. k < d
  BY <1>1, <1>2, <1>4, <1>5, <1>6
<1>8. CASE cur + k < m
  <2>1. (cur + k) % m = cur + k
    BY <1>6, <1>8
  <2> QED BY <1>1, <1>5, <1>6, <1>7, <2>1 DEF Ahead
<1>9. CASE cur + k >= m
  <2>1. (cur + k) % m = cur + k - m
    BY <1>1, <1>6, <1>7, <1>9
  <2> QED BY <1>1, <1>5, <1>6, <1>7, <1>9, <2>1 DEF Ahead
<1> QED BY <1>6, <1>8, <1>9
=============================================================================
