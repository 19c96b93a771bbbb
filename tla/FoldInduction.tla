---------------------------- MODULE FoldInduction ----------------------------
(***************************************************************************)
(* Induction over the steps of a loop.  The kernel's loops over a queue or *)
(* a table are folds; a module that reasons about one instantiates Op with *)
(* the loop's body.  Mathematical induction is a hypothesis here, so that  *)
(* an instance brings nothing else with it; who cites a lemma discharges   *)
(* it (ProofBasics!Inductive).                                             *)
(***************************************************************************)
EXTENDS Loops

CONSTANT Op(_, _, _)   \* the loop's body: from a value, a parameter and an element

\* The recursion of a loop over a sequence of length n, by the last element.
IsFold(h, n, value, p, seq) ==
    h = [s \in SUBSET (1..n) |->
            IF s = {} THEN value ELSE Op(h[s \ {Largest(s)}], p, seq[Largest(s)])]

\* The value after the loop.
Folded(value, p, seq) == Loop(LAMBDA w, x : Op(w, p, x), value, seq)

\* f gives the values after each turn, the last of which is the value after the loop.
Turns(f, n, value, p, seq) ==
    /\ f[0] = value /\ f[n] = Folded(value, p, seq)
    /\ \A i \in 1..n : f[i] = Op(f[i - 1], p, seq[i])

\* The largest of a set of numbers up to n that holds n is n.
LEMMA LargestIs ==
  ASSUME NEW n \in Nat, NEW s \in SUBSET (1..n), n \in s
  PROVE  Largest(s) = n
<1>1. \A y \in s : n >= y
  OBVIOUS
<1>2. \A x \in s : (\A y \in s : x >= y) => x = n
  OBVIOUS
<1> QED BY <1>1, <1>2 DEF Largest

\* The recursion of the fold has a solution on the subsets of 1..n.
LEMMA FoldExists ==
  ASSUME NEW n \in Nat, NEW value, NEW p, NEW seq,
         \A S \in SUBSET (0..n) : 0 \in S /\ (\A i \in 1..n : i - 1 \in S => i \in S) => n \in S
  PROVE  \E h : IsFold(h, n, value, p, seq)
<1> DEFINE P == {k \in 0..n : \E h : IsFold(h, k, value, p, seq)}
<1>1. 0 \in P
  <2>1. SUBSET (1..0) = {{}}
    OBVIOUS
  <2>2. IsFold([s \in {{}} |-> value], 0, value, p, seq)
    BY <2>1 DEF IsFold
  <2>3. 0 \in 0..n
    OBVIOUS
  <2> QED BY <2>2, <2>3
<1>2. ASSUME NEW k \in 1..n, k - 1 \in P PROVE k \in P
  <2>1. PICK h : IsFold(h, k - 1, value, p, seq)
    BY <1>2
  <2> DEFINE g == [s \in SUBSET (1..k) |->
                      IF k \in s THEN Op(h[s \ {k}], p, seq[k]) ELSE h[s]]
  <2>2. ASSUME NEW s \in SUBSET (1..k)
        PROVE  g[s] = IF s = {} THEN value ELSE Op(g[s \ {Largest(s)}], p, seq[Largest(s)])
    <3>1. CASE k \in s
      <4>1. Largest(s) = k
        BY <3>1, LargestIs
      <4>2. g[s] = Op(h[s \ {k}], p, seq[k])
        BY <3>1
      <4>3. g[s \ {k}] = h[s \ {k}]
        OBVIOUS
      <4> QED BY <3>1, <4>1, <4>2, <4>3
    <3>2. CASE k \notin s /\ s # {}
      <4>1. s \in SUBSET (1..(k - 1)) /\ g[s] = h[s]
        BY <3>2
      <4>2. h[s] = Op(h[s \ {Largest(s)}], p, seq[Largest(s)])
        BY <3>2, <4>1, <2>1 DEF IsFold
      <4>3. g[s \ {Largest(s)}] = h[s \ {Largest(s)}]
        BY <3>2
      <4> QED BY <3>2, <4>1, <4>2, <4>3
    <3>3. CASE s = {}
      <4>1. s \in SUBSET (1..(k - 1)) /\ g[s] = h[s]
        BY <3>3
      <4>2. h[s] = value
        BY <3>3, <4>1, <2>1 DEF IsFold
      <4> QED BY <3>3, <4>1, <4>2
    <3> QED BY <3>1, <3>2, <3>3
  <2>3. IsFold(g, k, value, p, seq)
    <3>1. g = [s \in SUBSET (1..k) |-> g[s]]
      OBVIOUS
    <3> HIDE DEF g
    <3> QED BY <2>2, <3>1 DEF IsFold
  <2> HIDE DEF g
  <2>4. k \in 0..n
    OBVIOUS
  <2> QED BY <2>3, <2>4
<1> HIDE DEF P
<1>3. n \in P
  <2>1. P \in SUBSET (0..n)
    BY DEF P
  <2> QED BY <1>1, <1>2, <2>1
<1> QED BY <1>3 DEF P

\* A loop takes turns.
LEMMA FoldTurns ==
  ASSUME NEW n \in Nat, NEW value, NEW p, NEW seq, DOMAIN seq = 1..n,
         \A S \in SUBSET (0..n) : 0 \in S /\ (\A i \in 1..n : i - 1 \in S => i \in S) => n \in S
  PROVE  \E f : Turns(f, n, value, p, seq)
<1> DEFINE h == CHOOSE g : IsFold(g, n, value, p, seq)
           f == [i \in 0..n |-> h[1..i]]
<1>1. Folded(value, p, seq) = h[1..n]
  BY DEF Folded, Loop, MapThenFoldSet, IsFold
<1>2. IsFold(h, n, value, p, seq)
  BY FoldExists
<1> HIDE DEF h
<1>3. f[0] = value
  <2>1. 1..0 = {} /\ {} \in SUBSET (1..n)
    OBVIOUS
  <2>2. h[{}] = value
    BY <1>2, <2>1 DEF IsFold
  <2> QED BY <2>1, <2>2
<1>4. ASSUME NEW i \in 1..n PROVE f[i] = Op(f[i - 1], p, seq[i])
  <2>1. Largest(1..i) = i /\ (1..i) \ {i} = 1..(i - 1)
    BY LargestIs
  <2>2. 1..i \in SUBSET (1..n) /\ 1..i # {}
    <3>1. i \in 1..i /\ \A j \in 1..i : j \in 1..n
      OBVIOUS
    <3> QED BY <3>1
  <2>3. h[1..i] = Op(h[1..(i - 1)], p, seq[i])
    BY <1>2, <2>1, <2>2 DEF IsFold
  <2>4. f[i] = h[1..i] /\ f[i - 1] = h[1..(i - 1)]
    OBVIOUS
  <2> QED BY <2>3, <2>4
<1>5. f[n] = h[1..n]
  OBVIOUS
<1> HIDE DEF f
<1> QED BY <1>1, <1>3, <1>4, <1>5 DEF Turns

\* Induction along the loop: what holds of the value before the loop, and is
\* carried through each turn, holds of the value after it.  G[i] is the set of
\* values allowed after i turns.
LEMMA FoldPreserves ==
  ASSUME NEW n \in Nat, NEW value, NEW p, NEW seq, DOMAIN seq = 1..n,
         NEW G, value \in G[0],
         \A i \in 1..n : \A w \in G[i - 1] : Op(w, p, seq[i]) \in G[i],
         \A S \in SUBSET (0..n) : 0 \in S /\ (\A i \in 1..n : i - 1 \in S => i \in S) => n \in S
  PROVE  Folded(value, p, seq) \in G[n]
<1>1. PICK f : Turns(f, n, value, p, seq)
  BY FoldTurns
<1> DEFINE P == {i \in 0..n : f[i] \in G[i]}
<1>2. 0 \in P
  BY <1>1 DEF Turns
<1>3. ASSUME NEW i \in 1..n, i - 1 \in P PROVE i \in P
  <2>1. f[i - 1] \in G[i - 1]
    BY <1>3
  <2>2. f[i] \in G[i]
    BY <1>1, <2>1 DEF Turns
  <2> QED BY <2>2
<1> HIDE DEF P
<1>4. n \in P
  <2>1. P \in SUBSET (0..n)
    BY DEF P
  <2> QED BY <1>2, <1>3, <2>1
<1> QED BY <1>1, <1>4 DEF P, Turns
=============================================================================
