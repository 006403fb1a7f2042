--------------------------- MODULE InductionLemmas ---------------------------
(***************************************************************************)
(* Induction and recursion on the naturals as statements about sets and    *)
(* functions.  The library states them with an operator as a parameter,    *)
(* which the provers cannot instantiate; a set takes the operator's place. *)
(* They rest on the library's theorem that the finite sets are well        *)
(* founded under strict inclusion.                                         *)
(***************************************************************************)
EXTENDS Integers, FiniteSets, FiniteSetTheorems, WellFoundedInduction, TLAPS

\* The least-number principle: a set of naturals has a least element.
LEMMA LeastNatural ==
  ASSUME NEW T \in SUBSET Nat, T # {}
  PROVE  \E n \in T : \A m \in T : n <= m
<1> DEFINE F == {0 .. k : k \in T}
<1>1. \A k \in Nat : 0 .. k \in FiniteSubsetsOf(Nat)
  BY FS_Interval DEF FiniteSubsetsOf
<1>2. F \in SUBSET FiniteSubsetsOf(Nat) /\ F # {}
  BY <1>1
<1>3. PICK X \in F : \A Y \in F : ~(<<Y, X>> \in StrictSubsetOrdering(Nat))
  BY <1>2, WFMin, FS_StrictSubsetOrderingWellFounded
<1>4. PICK n \in T : X = 0 .. n
  BY <1>3
<1>5. \A m \in T : ~(m < n)
  <2> SUFFICES ASSUME NEW m \in T, m < n PROVE FALSE
    OBVIOUS
  <2>1. 0 .. m \subseteq 0 .. n /\ 0 .. m # 0 .. n /\ 0 .. m \in SUBSET Nat /\ 0 .. n \in SUBSET Nat
    <3>1. n \in 0 .. n /\ n \notin 0 .. m
      OBVIOUS
    <3> QED BY <3>1
  <2>2. <<0 .. m, 0 .. n>> \in StrictSubsetOrdering(Nat)
    BY <2>1 DEF StrictSubsetOrdering
  <2> QED BY <2>2, <1>3, <1>4
<1> QED BY <1>5

\* Induction: what holds of 0 and of each successor holds of all naturals.
LEMMA Induction ==
  ASSUME NEW T \in SUBSET Nat, 0 \in T, \A n \in T : n + 1 \in T
  PROVE  T = Nat
<1> SUFFICES ASSUME Nat \ T # {} PROVE FALSE
  OBVIOUS
<1>1. PICK n \in Nat \ T : \A m \in Nat \ T : n <= m
  BY LeastNatural
<1>2. n - 1 \in Nat /\ n - 1 \notin Nat \ T
  BY <1>1
<1>3. (n - 1) + 1 \in T
  BY <1>2
<1> QED BY <1>3

\* The first n + 1 values of a sequence that begins with v and goes on by a step.
Iterates(V, v, step, n) ==
  {g \in [0 .. n -> V] : g[0] = v /\ \A i \in 0 .. n - 1 : g[i + 1] = step[g[i]]}

\* A sequence is given by its first value and the step from each to the next.
LEMMA PrimitiveRecursion ==
  ASSUME NEW V, NEW v \in V, NEW step \in [V -> V]
  PROVE  \E f \in [Nat -> V] : f[0] = v /\ \A n \in Nat : f[n + 1] = step[f[n]]
<1> DEFINE It(n) == Iterates(V, v, step, n)
<1>1. \A n \in Nat : It(n) # {}
  <2> DEFINE T == {n \in Nat : It(n) # {}}
  <2>1. 0 \in T
    <3>1. [i \in 0 .. 0 |-> v] \in It(0)
      BY DEF Iterates
    <3> QED BY <3>1
  <2>2. ASSUME NEW n \in T PROVE n + 1 \in T
    <3>1. PICK g \in It(n) : TRUE
      OBVIOUS
    <3> DEFINE h == [i \in 0 .. n + 1 |-> IF i = n + 1 THEN step[g[n]] ELSE g[i]]
    <3>2. h \in It(n + 1)
      <4>1. g \in [0 .. n -> V] /\ g[0] = v /\ \A i \in 0 .. n - 1 : g[i + 1] = step[g[i]]
        BY DEF Iterates
      <4>2. h \in [0 .. n + 1 -> V] /\ h[0] = v
        BY <4>1
      <4>3. \A i \in 0 .. (n + 1) - 1 : h[i + 1] = step[h[i]]
        BY <4>1
      <4> HIDE DEF h
      <4> QED BY <4>2, <4>3 DEF Iterates
    <3> QED BY <3>2
  <2> HIDE DEF T
  <2>3. T = Nat
    <3>1. T \in SUBSET Nat
      BY DEF T
    <3> QED BY <2>1, <2>2, <3>1, Induction
  <2> QED BY <2>3 DEF T
<1>2. ASSUME NEW n \in Nat, NEW g \in It(n), NEW h \in It(n + 1)
      PROVE  g[n] = h[n]
  <2> DEFINE T == {i \in Nat : i \in 0 .. n => g[i] = h[i]}
  <2>1. 0 \in T
    BY DEF Iterates
  <2>2. ASSUME NEW i \in T PROVE i + 1 \in T
    BY DEF Iterates
  <2>3. T = Nat
    <3>1. T \in SUBSET Nat
      BY DEF T
    <3> HIDE DEF T
    <3> QED BY <2>1, <2>2, <3>1, Induction
  <2> QED BY <2>3
<1> DEFINE at(n) == CHOOSE g : g \in It(n)
           f == [n \in Nat |-> at(n)[n]]
<1>3. \A n \in Nat : at(n) \in It(n)
  BY <1>1
<1> HIDE DEF at
<1>4. f \in [Nat -> V]
  BY <1>3 DEF Iterates
<1>5. f[0] = v
  BY <1>3 DEF Iterates
<1>6. ASSUME NEW n \in Nat PROVE f[n + 1] = step[f[n]]
  <2>1. at(n) \in It(n) /\ at(n + 1) \in It(n + 1)
    BY <1>3
  <2> HIDE DEF It
  <2>2. at(n)[n] = at(n + 1)[n]
    BY <2>1, <1>2
  <2>3. at(n + 1)[n + 1] = step[at(n + 1)[n]]
    BY <2>1 DEF Iterates, It
  <2> QED BY <2>2, <2>3
<1> HIDE DEF f
<1> QED BY <1>4, <1>5, <1>6

\* Induction up to a bound.
LEMMA BoundedInduction ==
  ASSUME NEW N \in Nat, NEW T, 0 \in T, \A n \in 0 .. N - 1 : n \in T => n + 1 \in T
  PROVE  \A n \in 0 .. N : n \in T
<1> DEFINE U == {n \in Nat : n \in 0 .. N => n \in T}
<1>1. 0 \in U
  OBVIOUS
<1>2. ASSUME NEW n \in U PROVE n + 1 \in U
  <2>1. n + 1 \in 0 .. N => n \in 0 .. N - 1
    OBVIOUS
  <2>2. n \in 0 .. N - 1 => n \in 0 .. N
    OBVIOUS
  <2> QED BY <2>1, <2>2
<1>3. U = Nat
  <2>1. U \in SUBSET Nat
    OBVIOUS
  <2> HIDE DEF U
  <2> QED BY <1>1, <1>2, <2>1, Induction
<1> QED BY <1>3

\* f begins with v and goes on by a step; the named form of PrimitiveRecursion.
GoesOnBy(f, v, step) == f[0] = v /\ \A n \in Nat : f[n + 1] = step[f[n]]

LEMMA IterationExists ==
  ASSUME NEW V, NEW v \in V, NEW step \in [V -> V]
  PROVE  \E f \in [Nat -> V] : GoesOnBy(f, v, step)
BY PrimitiveRecursion DEF GoesOnBy

\* What is computed from a list, one element at a time, exists: step[n] takes the
\* result for the first n - 1 elements to the one for n.
ComputedBy(f, v, N, step) == f[0] = v /\ \A n \in 1 .. N : f[n] = step[n][f[n - 1]]

LEMMA ListRecursion ==
  ASSUME NEW V, NEW v \in V, NEW N \in Nat, NEW step \in [1 .. N -> [V -> V]]
  PROVE  \E f \in [0 .. N -> V] : ComputedBy(f, v, N, step)
<1> DEFINE W == Nat \X V
           w == <<0, v>>
           next == [p \in W |-> <<p[1] + 1, IF p[1] + 1 \in 1 .. N THEN step[p[1] + 1][p[2]] ELSE v>>]
<1>1. w \in W /\ next \in [W -> W]
  OBVIOUS
<1>2. PICK g \in [Nat -> W] : g[0] = w /\ \A n \in Nat : g[n + 1] = next[g[n]]
  <2> HIDE DEF W, w, next
  <2>1. PICK g \in [Nat -> W] : GoesOnBy(g, w, next)
    BY <1>1, IterationExists
  <2> QED BY <2>1 DEF GoesOnBy
<1>3. ASSUME NEW n \in Nat
      PROVE  /\ g[n] \in W /\ g[n][1] \in Nat /\ g[n][2] \in V
             /\ g[n + 1][1] = g[n][1] + 1
             /\ g[n + 1][2] = IF g[n][1] + 1 \in 1 .. N THEN step[g[n][1] + 1][g[n][2]] ELSE v
  <2>1. g[n] \in W
    OBVIOUS
  <2>2. g[n + 1] = <<g[n][1] + 1, IF g[n][1] + 1 \in 1 .. N THEN step[g[n][1] + 1][g[n][2]] ELSE v>>
    BY <1>2, <2>1
  <2> QED BY <2>1, <2>2
<1>4. \A n \in Nat : g[n][1] = n
  <2> DEFINE T == {n \in Nat : g[n][1] = n}
  <2>1. 0 \in T
    BY <1>2
  <2>2. ASSUME NEW n \in T PROVE n + 1 \in T
    <3>1. n \in Nat /\ g[n][1] = n
      OBVIOUS
    <3>2. g[n + 1][1] = n + 1
      BY <1>3, <3>1
    <3> QED BY <3>1, <3>2
  <2>3. T \in SUBSET Nat
    OBVIOUS
  <2> HIDE DEF T
  <2>4. T = Nat
    BY <2>1, <2>2, <2>3, Induction
  <2> QED BY <2>4 DEF T
<1> DEFINE f == [n \in 0 .. N |-> g[n][2]]
<1>5. f \in [0 .. N -> V] /\ f[0] = v
  BY <1>2, <1>3
<1>6. ASSUME NEW n \in 1 .. N PROVE f[n] = step[n][f[n - 1]]
  <2>1. n - 1 \in Nat /\ (n - 1) + 1 = n /\ n - 1 \in 0 .. N /\ n \in 0 .. N
    OBVIOUS
  <2>2. g[(n - 1) + 1][2]
          = IF g[n - 1][1] + 1 \in 1 .. N THEN step[g[n - 1][1] + 1][g[n - 1][2]] ELSE v
    BY <1>3, <2>1
  <2>3. g[n][2] = step[n][g[n - 1][2]]
    BY <1>4, <2>1, <2>2
  <2> QED BY <2>1, <2>3
<1> HIDE DEF f
<1> QED BY <1>5, <1>6 DEF ComputedBy

\* One more number of a set.
LEMMA OneMoreElement ==
  ASSUME NEW n \in Nat, NEW X
  PROVE  /\ IsFiniteSet((1 .. n) \cap X) /\ Cardinality((1 .. n) \cap X) \in Nat
         /\ Cardinality((1 .. n + 1) \cap X)
              = Cardinality((1 .. n) \cap X) + IF n + 1 \in X THEN 1 ELSE 0
<1> DEFINE A == (1 .. n) \cap X
<1>1. IsFiniteSet(A) /\ Cardinality(A) \in Nat
  <2>1. IsFiniteSet(1 .. n) /\ A \in SUBSET (1 .. n)
    BY FS_Interval
  <2> HIDE DEF A
  <2> QED BY <2>1, FS_Subset, FS_CardinalityType
<1>2. 1 .. n + 1 = (1 .. n) \cup {n + 1} /\ n + 1 \notin 1 .. n
  OBVIOUS
<1>3. CASE n + 1 \in X
  <2>1. (1 .. n + 1) \cap X = A \cup {n + 1} /\ n + 1 \notin A
    BY <1>2, <1>3
  <2> HIDE DEF A
  <2>2. Cardinality(A \cup {n + 1}) = Cardinality(A) + 1
    BY <1>1, <2>1, FS_AddElement
  <2> QED BY <1>1, <1>3, <2>1, <2>2 DEF A
<1>4. CASE n + 1 \notin X
  <2>1. (1 .. n + 1) \cap X = A
    BY <1>2, <1>4
  <2> HIDE DEF A
  <2> QED BY <1>1, <1>4, <2>1 DEF A
<1> QED BY <1>3, <1>4

=============================================================================
