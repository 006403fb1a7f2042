--------------------------- MODULE Indexer_proofs ---------------------------
(***************************************************************************)
(* Theorems about the indexer, for any page and batch size, any miners and *)
(* any faults.                                                             *)
(***************************************************************************)
EXTENDS Indexer, InductionLemmas, TLAPS

\* What is on the chain when the indexer is first started.
LEMMA InitChain == Init => chain \in Seq(Miners \cup {NoBlock})
<1> SUFFICES ASSUME Init PROVE chain \in Seq(Miners \cup {NoBlock})
  OBVIOUS
<1>1. PICK n \in 0 .. MAX_CHAIN : chain \in [1 .. n -> Miners \cup {NoBlock}]
  BY DEF Init
<1> QED BY <1>1, IndexerAssumption

\* The signature that a walk or a tick will leave in the cursor is not older
\* than the cursor it began with.
CursorInv ==
  /\ chain \in Seq(Miners \cup {NoBlock})
  /\ cursor \in Nat /\ newestSig \in Nat
  /\ cursor <= Len(chain)
  /\ newestSig <= Len(chain)
  /\ mode = "down" => newestSig = 0
  /\ mode = "backfill" /\ newestSig # 0 => cursor <= newestSig
  /\ mode = "tick" => last \in Nat /\ cursor <= last /\ last <= Len(chain)

\* The steps that touch neither the chain, the cursor, nor what will be put
\* into it.
Bystander == UNCHANGED <<chain, cursor, newestSig, last, mode>>

LEMMA WritesAreBystanders ==
  /\ \A write, i : Apply(write, i) => UNCHANGED cursor
  /\ WriteNext \/ MigrateWrite => Bystander
  /\ \A applied \in BOOLEAN : WriteFails(applied) => Bystander
  /\ \A lost : ParseBatch(lost) => Bystander
<1>1. \A write, i : Apply(write, i) => UNCHANGED cursor
  BY DEF Apply
<1>2. WriteNext \/ MigrateWrite => Bystander
  BY <1>1 DEF WriteNext, MigrateWrite, Bystander, walk
<1>3. \A applied \in BOOLEAN : WriteFails(applied) => Bystander
  BY <1>1 DEF WriteFails, Bystander, walk, redis
<1>4. \A lost : ParseBatch(lost) => UNCHANGED <<chain, cursor, newestSig, last, mode>>
  BY DEF ParseBatch, redis
<1> QED BY <1>1, <1>2, <1>3, <1>4 DEF Bystander

\* A step either leaves the invariant's variables alone or is one of those that
\* grow the chain, begin or end a walk or a tick, or crash.
LEMMA CursorStep ==
  ASSUME CursorInv, [Next]_vars
  PROVE  /\ CursorInv'
         /\ cursor' >= cursor \/ (mode = "down" /\ cursor' = 0)
<1> DEFINE Good == CursorInv' /\ (cursor' >= cursor \/ (mode = "down" /\ cursor' = 0))
<1> USE DEF CursorInv
<1>1. ASSUME Bystander PROVE Good
  BY <1>1 DEF Bystander
<1>2. CASE UNCHANGED vars
  BY <1>2, <1>1 DEF vars, redis, process, walk, Bystander
<1>3. ASSUME NEW w \in Miners \cup {NoBlock}, Append1(w) PROVE Good
  <2>1. chain' \in Seq(Miners \cup {NoBlock}) /\ Len(chain') = Len(chain) + 1
    BY <1>3 DEF Append1
  <2>2. UNCHANGED <<cursor, newestSig, last, mode>>
    BY <1>3 DEF Append1, redis, process, walk
  <2>3. Len(chain) \in Nat
    OBVIOUS
  <2> QED BY <2>1, <2>2, <2>3
<1>4. ASSUME NEW wipe \in BOOLEAN, NEW fails \in BOOLEAN, Start(wipe, fails) PROVE Good
  <2>1. /\ UNCHANGED <<chain, newestSig, last>> /\ mode = "down"
        /\ mode' \in {"backfill", "check"}
    BY <1>4 DEF Start, walk
  <2>2. cursor' \in {0, cursor}
    BY <1>4 DEF Start, WipeAggregator, redis
  <2>3. Len(chain) \in Nat
    OBVIOUS
  <2> QED BY <2>1, <2>2, <2>3
<1>5. CASE WalkPage
  <2>1. UNCHANGED <<chain, cursor, mode>> /\ mode \in {"backfill", "migrate"}
    BY <1>5 DEF WalkPage, redis
  <2>2. newestSig' = Len(chain) \/ newestSig' = newestSig
    BY <1>5 DEF WalkPage
  <2>3. Len(chain) \in Nat
    OBVIOUS
  <2> QED BY <2>1, <2>2, <2>3
<1>6. ASSUME NEW hour, BackfillDone(hour) PROVE Good
  BY <1>6 DEF BackfillDone, LeavePage
<1>7. ASSUME NEW failed, Check(failed) PROVE Good
  BY <1>7 DEF Check, redis, walk
<1>8. CASE MigrateDone
  BY <1>8 DEF MigrateDone, LeavePage, redis
<1>9. ASSUME NEW fails \in BOOLEAN, Tick(fails) PROVE Good
  <2>1. UNCHANGED <<chain, cursor, newestSig>> /\ last' = Len(chain) /\ mode' = "tick"
    BY <1>9 DEF Tick, TakePage, redis
  <2>2. Len(chain) \in Nat
    OBVIOUS
  <2> QED BY <2>1, <2>2
<1>10. ASSUME NEW hour, TickDone(hour) PROVE Good
  BY <1>10 DEF TickDone, LeavePage
<1>11. CASE TickDoneFails
  BY <1>11 DEF TickDoneFails, LeavePage, redis
<1>12. CASE Crash
  BY <1>12 DEF Crash, LeavePage, redis
<1>13. ASSUME NEW fails \in BOOLEAN, UpdateState(fails) PROVE Good
  BY <1>13 DEF UpdateState, walk
<1>14. ASSUME NEW fails \in BOOLEAN, TickEnds(fails) PROVE Good
  BY <1>14 DEF TickEnds, redis, walk
<1>15. CASE WipeDies
  <2>1. UNCHANGED <<chain, newestSig, last, mode>> /\ mode = "down" /\ cursor' \in {0, cursor}
    BY <1>15 DEF WipeDies, WipeAggregator, process, walk
  <2>2. Len(chain) \in Nat
    OBVIOUS
  <2> QED BY <2>1, <2>2
<1> QED
  BY <1>1, <1>2, <1>3, <1>4, <1>5, <1>6, <1>7, <1>8, <1>9, <1>10, <1>11, <1>12,
     <1>13, <1>14, <1>15,
     WritesAreBystanders DEF Next, Run

\* Whatever fails, the cursor never moves back except that REINDEX=1 removes it,
\* wherever the process dies: a walk or a tick ends with the newest signature there
\* was when it began.
THEOREM CursorOnlyAdvances == Spec => CursorNeverBackwards
<1>1. Init => CursorInv
  <2> SUFFICES ASSUME Init PROVE CursorInv
    OBVIOUS
  <2>1. /\ chain \in Seq(Miners \cup {NoBlock}) /\ Len(chain) \in Nat
        /\ cursor \in 0 .. Len(chain) /\ newestSig = 0 /\ last = 0 /\ mode = "down"
    BY InitChain DEF Init
  <2> QED BY <2>1 DEF CursorInv
<1>2. CursorInv /\ [Next]_vars => CursorInv'
  BY CursorStep
<1>3. CursorInv /\ [Next]_vars =>
        [cursor' >= cursor \/ (mode = "down" /\ cursor' = 0)]_vars
  BY CursorStep
<1> QED BY <1>1, <1>2, <1>3, PTL DEF Spec, CursorNeverBackwards

-----------------------------------------------------------------------------
\* Sums of sets of positions.  A sum is taken over the positions in their order,
\* where induction reaches it; SumSet takes them in any order.
IsPrefixSum(p, S) ==
  p[0] = 0 /\ \A n \in Nat : p[n + 1] = p[n] + (IF n + 1 \in S THEN n + 1 ELSE 0)

PrefixSums(S) == CHOOSE p \in [Nat -> Nat] : IsPrefixSum(p, S)

LEMMA PrefixSumsExist ==
  ASSUME NEW S
  PROVE  PrefixSums(S) \in [Nat -> Nat] /\ IsPrefixSum(PrefixSums(S), S)
<1> DEFINE V == Nat \X Nat
           none == <<0, 0>>
           succ == [x \in V |-> <<x[1] + 1, x[2] + (IF x[1] + 1 \in S THEN x[1] + 1 ELSE 0)>>]
<1>1. succ \in [V -> V] /\ none \in V
  OBVIOUS
<1>2. \E f \in [Nat -> V] : f[0] = none /\ \A n \in Nat : f[n + 1] = succ[f[n]]
  <2> HIDE DEF V, none, succ
  <2> QED BY <1>1, PrimitiveRecursion
<1>3. PICK f \in [Nat -> V] : f[0] = none /\ \A n \in Nat : f[n + 1] = succ[f[n]]
  BY <1>2
<1>4. /\ f[0] = <<0, 0>>
      /\ \A n \in Nat : f[n][1] \in Nat /\ f[n][2] \in Nat
      /\ \A n \in Nat : /\ f[n + 1][1] = f[n][1] + 1
                        /\ f[n + 1][2] = f[n][2] + (IF f[n][1] + 1 \in S THEN f[n][1] + 1 ELSE 0)
  <2>1. f[0] = <<0, 0>>
    BY <1>3
  <2>2. ASSUME NEW n \in Nat
        PROVE  /\ f[n] \in V /\ f[n][1] \in Nat /\ f[n][2] \in Nat
               /\ f[n + 1] = <<f[n][1] + 1,
                               f[n][2] + (IF f[n][1] + 1 \in S THEN f[n][1] + 1 ELSE 0)>>
    <3>1. f[n] \in V
      OBVIOUS
    <3>2. f[n + 1] = succ[f[n]]
      BY <1>3
    <3> QED BY <3>1, <3>2
  <2> HIDE DEF V, none, succ
  <2>3. ASSUME NEW n \in Nat
        PROVE  /\ f[n + 1][1] = f[n][1] + 1
               /\ f[n + 1][2] = f[n][2] + (IF f[n][1] + 1 \in S THEN f[n][1] + 1 ELSE 0)
    BY <2>2
  <2> QED BY <2>1, <2>2, <2>3
<1> HIDE DEF V, none, succ
<1>5. \A n \in Nat : f[n][1] = n
  <2> DEFINE T == {n \in Nat : f[n][1] = n}
  <2>1. 0 \in T
    BY <1>4
  <2>2. ASSUME NEW n \in T PROVE n + 1 \in T
    BY <1>4
  <2>3. T \in SUBSET Nat
    OBVIOUS
  <2> HIDE DEF T
  <2>4. T = Nat
    BY <2>1, <2>2, <2>3, Induction
  <2> QED BY <2>4 DEF T
<1> DEFINE p == [n \in Nat |-> f[n][2]]
<1>6. p \in [Nat -> Nat] /\ p[0] = 0
  BY <1>4
<1>7. ASSUME NEW n \in Nat PROVE p[n + 1] = p[n] + (IF n + 1 \in S THEN n + 1 ELSE 0)
  <2>1. n + 1 \in Nat /\ p[n] = f[n][2] /\ p[n + 1] = f[n + 1][2] /\ f[n][1] = n
    BY <1>5
  <2> QED BY <1>4, <2>1
<1> HIDE DEF p
<1>8. IsPrefixSum(p, S)
  BY <1>6, <1>7 DEF IsPrefixSum
<1> QED BY <1>6, <1>8 DEF PrefixSums

LEMMA PrefixSumWithout ==
  ASSUME NEW S, NEW x \in S, x \in Nat \ {0}, NEW n \in Nat
  PROVE  PrefixSums(S)[n] = PrefixSums(S \ {x})[n] + (IF n >= x THEN x ELSE 0)
<1> DEFINE p == PrefixSums(S)
           q == PrefixSums(S \ {x})
<1>1. p \in [Nat -> Nat] /\ q \in [Nat -> Nat] /\ IsPrefixSum(p, S) /\ IsPrefixSum(q, S \ {x})
  BY PrefixSumsExist
<1> HIDE DEF p, q
<1> DEFINE T == {k \in Nat : p[k] = q[k] + (IF k >= x THEN x ELSE 0)}
<1>2. 0 \in T
  BY <1>1 DEF IsPrefixSum
<1>3. ASSUME NEW k \in T PROVE k + 1 \in T
  <2>1. /\ k \in Nat /\ p[k] \in Nat /\ q[k] \in Nat /\ k + 1 \in Nat
        /\ p[k] = q[k] + (IF k >= x THEN x ELSE 0)
        /\ p[k + 1] = p[k] + (IF k + 1 \in S THEN k + 1 ELSE 0)
        /\ q[k + 1] = q[k] + (IF k + 1 \in S \ {x} THEN k + 1 ELSE 0)
    BY <1>1 DEF IsPrefixSum
  <2>2. CASE k + 1 = x
    BY <2>1, <2>2
  <2>3. CASE k + 1 # x
    BY <2>1, <2>3
  <2> QED BY <2>2, <2>3
<1>4. T \in SUBSET Nat
  OBVIOUS
<1> HIDE DEF T
<1>5. T = Nat
  BY <1>2, <1>3, <1>4, Induction
<1> QED BY <1>5 DEF T, p, q

LEMMA PrefixSumOfLess ==
  ASSUME NEW A, NEW B, A \subseteq B, NEW n \in Nat
  PROVE  PrefixSums(A)[n] <= PrefixSums(B)[n]
<1> DEFINE p == PrefixSums(A)
           q == PrefixSums(B)
<1>1. p \in [Nat -> Nat] /\ q \in [Nat -> Nat] /\ IsPrefixSum(p, A) /\ IsPrefixSum(q, B)
  BY PrefixSumsExist
<1> HIDE DEF p, q
<1> DEFINE T == {k \in Nat : p[k] <= q[k]}
<1>2. 0 \in T
  BY <1>1 DEF IsPrefixSum
<1>3. ASSUME NEW k \in T PROVE k + 1 \in T
  BY <1>1 DEF IsPrefixSum
<1>4. T \in SUBSET Nat
  OBVIOUS
<1> HIDE DEF T
<1>5. T = Nat
  BY <1>2, <1>3, <1>4, Induction
<1> QED BY <1>5 DEF T, p, q

LEMMA PrefixSumOfNone == \A n \in Nat : PrefixSums({})[n] = 0
<1> DEFINE p == PrefixSums({})
<1>1. p \in [Nat -> Nat] /\ IsPrefixSum(p, {})
  BY PrefixSumsExist
<1> HIDE DEF p
<1> DEFINE T == {k \in Nat : p[k] = 0}
<1>2. 0 \in T
  BY <1>1 DEF IsPrefixSum
<1>3. ASSUME NEW k \in T PROVE k + 1 \in T
  BY <1>1 DEF IsPrefixSum
<1>4. T \in SUBSET Nat
  OBVIOUS
<1> HIDE DEF T
<1>5. T = Nat
  BY <1>2, <1>3, <1>4, Induction
<1> QED BY <1>5 DEF T, p

\* The function that SumSet computes, on the subsets of S.
Iteration(it, S) ==
  it = [s \in SUBSET S |-> IF s = {} THEN 0
                           ELSE LET x == CHOOSE x \in s : TRUE IN x + it[s \ {x}]]

LEMMA SumIsPrefixSum ==
  ASSUME NEW n \in Nat, NEW S \in SUBSET (1 .. n)
  PROVE  SumSet(S) = PrefixSums(S)[n]
<1>1. SumSet(S) = (CHOOSE it : Iteration(it, S))[S]
  BY DEF SumSet, FoldSet, MapThenFoldSet, Iteration
<1>2. \E it : Iteration(it, S)
  <2> DEFINE w == [s \in SUBSET S |-> PrefixSums(s)[n]]
  <2>1. ASSUME NEW s \in SUBSET S
        PROVE  w[s] = IF s = {} THEN 0 ELSE LET x == CHOOSE x \in s : TRUE IN x + w[s \ {x}]
    <3>1. CASE s = {}
      BY <3>1, PrefixSumOfNone
    <3>2. CASE s # {}
      <4> DEFINE x == CHOOSE x \in s : TRUE
      <4>1. x \in s /\ x \in Nat \ {0} /\ n >= x
        <5>1. \E y \in s : TRUE
          BY <3>2
        <5>2. x \in s
          BY <5>1
        <5>3. \A y \in S : y \in Nat \ {0} /\ n >= y
          OBVIOUS
        <5> HIDE DEF x
        <5> QED BY <5>2, <5>3
      <4> HIDE DEF x
      <4>2. /\ w[s] = PrefixSums(s)[n] /\ w[s \ {x}] = PrefixSums(s \ {x})[n]
            /\ PrefixSums(s \ {x})[n] \in Nat
        BY PrefixSumsExist
      <4>3. PrefixSums(s)[n] = PrefixSums(s \ {x})[n] + x
        BY <4>1, PrefixSumWithout
      <4>4. w[s] = x + w[s \ {x}]
        BY <4>1, <4>2, <4>3
      <4> QED BY <3>2, <4>4 DEF x
    <3> QED BY <3>1, <3>2
  <2>2. DOMAIN w = SUBSET S /\ w = [s \in SUBSET S |-> w[s]]
    OBVIOUS
  <2> HIDE DEF w
  <2>3. Iteration(w, S)
    BY <2>1, <2>2 DEF Iteration
  <2> QED BY <2>3
<1>3. PICK it : it = (CHOOSE i : Iteration(i, S)) /\ Iteration(it, S)
  BY <1>2
<1> DEFINE T == {k \in Nat : \A s \in SUBSET S : Cardinality(s) = k => it[s] = PrefixSums(s)[n]}
<1>4. \A s \in SUBSET S : IsFiniteSet(s) /\ Cardinality(s) \in Nat
  <2>1. IsFiniteSet(1 .. n)
    BY FS_Interval
  <2> QED BY <2>1, FS_Subset, FS_CardinalityType
<1>5. 0 \in T
  <2> SUFFICES ASSUME NEW s \in SUBSET S, Cardinality(s) = 0 PROVE it[s] = PrefixSums(s)[n]
    OBVIOUS
  <2>1. s = {}
    BY <1>4, FS_EmptySet
  <2> QED BY <1>3, <2>1, PrefixSumOfNone DEF Iteration
<1>6. ASSUME NEW k \in T PROVE k + 1 \in T
  <2> SUFFICES ASSUME NEW s \in SUBSET S, Cardinality(s) = k + 1 PROVE it[s] = PrefixSums(s)[n]
    OBVIOUS
  <2>1. s # {}
    <3>1. k \in Nat /\ k + 1 # 0
      OBVIOUS
    <3> QED BY <3>1, FS_EmptySet
  <2> DEFINE x == CHOOSE x \in s : TRUE
  <2>2. x \in s /\ x \in Nat \ {0} /\ n >= x
    <3>1. \E y \in s : TRUE
      BY <2>1
    <3>2. x \in s
      BY <3>1
    <3>3. \A y \in S : y \in Nat \ {0} /\ n >= y
      OBVIOUS
    <3> HIDE DEF x
    <3> QED BY <3>2, <3>3
  <2>3. it[s] = x + it[s \ {x}]
    BY <1>3, <2>1 DEF Iteration
  <2> HIDE DEF x
  <2>4. Cardinality(s \ {x}) = k
    BY <1>4, <2>2, FS_RemoveElement
  <2>5. it[s \ {x}] = PrefixSums(s \ {x})[n] /\ PrefixSums(s \ {x})[n] \in Nat
    BY <2>4, PrefixSumsExist
  <2>6. PrefixSums(s)[n] = PrefixSums(s \ {x})[n] + x
    BY <2>2, PrefixSumWithout
  <2> QED BY <2>2, <2>3, <2>5, <2>6
<1>7. T = Nat
  <2>1. T \in SUBSET Nat
    OBVIOUS
  <2> HIDE DEF T
  <2> QED BY <1>5, <1>6, <2>1, Induction
<1> QED BY <1>1, <1>3, <1>4, <1>7

\* What the provers need to know of sums and sizes of sets of positions.
LEMMA SumFacts ==
  ASSUME NEW n \in Nat, NEW S \in SUBSET (1 .. n)
  PROVE  /\ SumSet(S) \in Nat
         /\ \A i \in 1 .. n : i \notin S => SumSet(S \cup {i}) = SumSet(S) + i
         /\ \A A \in SUBSET S : SumSet(A) <= SumSet(S)
<1>1. SumSet(S) \in Nat
  BY SumIsPrefixSum, PrefixSumsExist
<1>2. ASSUME NEW i \in 1 .. n, i \notin S PROVE SumSet(S \cup {i}) = SumSet(S) + i
  <2>1. S \cup {i} \in SUBSET (1 .. n) /\ (S \cup {i}) \ {i} = S /\ n >= i /\ i \in Nat \ {0}
    BY <1>2
  <2>2. PrefixSums(S \cup {i})[n] = PrefixSums((S \cup {i}) \ {i})[n] + i
    BY <2>1, PrefixSumWithout
  <2> QED BY <2>1, <2>2, SumIsPrefixSum
<1>3. ASSUME NEW A \in SUBSET S PROVE SumSet(A) <= SumSet(S)
  <2>1. A \in SUBSET (1 .. n) /\ A \subseteq S
    OBVIOUS
  <2> QED BY <2>1, SumIsPrefixSum, PrefixSumOfLess
<1> QED BY <1>1, <1>2, <1>3

LEMMA SumOfNone == SumSet({}) = 0
<1>1. {} \in SUBSET (1 .. 0) /\ 0 \in Nat
  OBVIOUS
<1> QED BY <1>1, SumIsPrefixSum, PrefixSumOfNone

LEMMA CountFacts ==
  ASSUME NEW n \in Nat, NEW S \in SUBSET (1 .. n)
  PROVE  /\ Cardinality(S) \in Nat
         /\ \A i \in 1 .. n : i \notin S => Cardinality(S \cup {i}) = Cardinality(S) + 1
         /\ \A A \in SUBSET S : Cardinality(A) <= Cardinality(S)
<1>1. IsFiniteSet(S)
  <2>1. IsFiniteSet(1 .. n)
    BY FS_Interval
  <2> QED BY <2>1, FS_Subset
<1> QED BY <1>1, FS_CardinalityType, FS_AddElement, FS_Subset

-----------------------------------------------------------------------------
\* What the process is through with.  NothingSkipped and CountedExactlyOnce speak of
\* the idle process; what must hold while it is at work is said of the positions
\* whose k-th Redis command has been carried out, if it is due at all: those up to
\* the cursor, those the walk or the tick has passed, and the block in hand.

\* The positions that the walk or the tick has read: a walk has read the pages from
\* the newest signature down to the page in hand, and of that what lies before next.
\* A tick's page begins no later than right after the cursor.
Past ==
  IF mode = "backfill" THEN IF before = 0 THEN {} ELSE (before .. newestSig) \ (next .. last)
  ELSE IF mode = "tick" THEN 1 .. next - 1 ELSE {}

Through == 1 .. cursor \cup (Past \ batch)

InHand(k) == IF mode # "migrate" /\ batch # {} /\ step > k THEN {Min(batch)} ELSE {}

Commands == 1 .. 7
Written == [k \in Commands |-> [m \in Miners |-> {i \in Through \cup InHand(k) : chain[i] = m}]]

Modes == {"down", "backfill", "check", "migrate", "idle", "poll", "tick"}

\* The process's own variables fit together.
Control ==
  /\ chain \in Seq(Miners \cup {NoBlock}) /\ faults \in [FaultKinds -> Nat]
  /\ {cursor, newestSig, last} \subseteq 0 .. Len(chain)
  /\ before \in Nat /\ next \in Nat \ {0} /\ short \in BOOLEAN /\ step \in Commands /\ mode \in Modes
  /\ \A i \in batch : i \in 1 .. Len(chain) /\ Mined(i) /\ before <= i /\ i < next
  /\ mode \in {"down", "check", "idle", "poll"} =>
       batch = {} /\ next = 1 /\ last = 0 /\ before = 0 /\ ~short
  /\ mode = "down" => newestSig = 0
  /\ mode = "tick" => before = 0 /\ next <= last + 1 /\ cursor <= last
  /\ mode \in {"backfill", "migrate"} =>
       /\ before = 0 => batch = {} /\ next = 1 /\ last = 0 /\ ~short
       /\ before # 0 => /\ before <= next /\ next <= last + 1
                        /\ last <= newestSig /\ before <= newestSig + 1
                        /\ unmigrated <= newestSig
       /\ short => before = 1
  /\ mode = "backfill" => IF before = 0 THEN newestSig = 0 ELSE cursor <= newestSig
  /\ unmigrated \in 0 .. Len(chain) /\ halfWiped \in BOOLEAN

\* No more signatures than a page wait after the cursor, or will.
Pacing ==
  /\ cursor # 0 \/ mode \notin {"down", "backfill"} => Len(chain) <= cursor + PAGE
  /\ mode = "backfill" /\ before # 0 => Len(chain) <= newestSig + PAGE

Keys == {miners, rewards, lastSeen, lastHeight, rank} \subseteq [Miners -> Nat]

\* Each block the process is through with is counted.
AtLeast ==
  /\ Keys
  /\ \A m \in Miners :
       /\ miners[m] >= Cardinality(Written[1][m])
       /\ rewards[m] >= SumSet(Written[2][m])
       /\ Written[3][m] # {} => lastSeen[m] # 0
       /\ Written[4][m] # {} => lastHeight[m] # 0
       /\ rank[m] >= Cardinality(Written[5][m])

\* The positions that a walk under way has recorded, whoever counted them.
Walked ==
  IF mode \in {"backfill", "migrate"} /\ before # 0
  THEN ((before .. newestSig) \ (next .. last)) \ batch ELSE {}

RecordDue == {i \in Through : i > unmigrated} \cup Walked

\* Each block the process is through with is recorded, but for those that a version
\* without records had counted and no walk has reached.
Recorded == \A i \in RecordDue : Mined(i) => i \in blocksByHeight

SkipInv == Control /\ Pacing /\ (~Swallowed => Keys /\ Recorded /\ (halfWiped \/ AtLeast))

Faultless == \A kind \in FaultKinds : faults[kind] = 0

\* Without faults the process starts once, nothing is counted twice, and what the
\* version without records had counted is migrated before the first tick.
Once ==
  /\ mode = "down" => blocksByHeight = {} /\ unmigrated <= cursor
  /\ mode = "backfill" => cursor = 0
  /\ mode = "check" =>
       unmigrated = 0 \/ (blocksByHeight = {} /\ ~reindex /\ unmigrated <= cursor)
  /\ mode = "migrate" => batch = {} \/ step = 1
  /\ mode \in {"idle", "poll", "tick"} => \A i \in 1 .. unmigrated : ~Mined(i)
  /\ mode = "tick" => cursor < next
  /\ mode # "migrate" => \A b \in batch : b > cursor
  /\ \A b \in batch, i \in 1 .. next - 1 : i > b /\ Mined(i) => i \in batch
  /\ snapshot \in 0 .. Len(chain)
  /\ mode \in {"down", "backfill", "check", "migrate"} => snapshot = 0
  /\ mode = "idle" => snapshot <= cursor
  /\ mode = "tick" => snapshot <= last

Exactly ==
  /\ \A i \in recent : \/ i \in blocksByHeight \/ i \in 1 .. unmigrated
                        \/ (batch # {} /\ step = 7 /\ i = Min(batch))
  /\ \A i \in blocksByHeight \cup recent : i \in 1 .. Len(chain) /\ Mined(i)
  /\ \A m \in Miners :
       /\ miners[m] = Cardinality(Written[1][m])
       /\ rewards[m] = SumSet(Written[2][m])
       /\ lastSeen[m] = IF batch # {} /\ step = 4 /\ chain[Min(batch)] = m
                        THEN Min(batch) ELSE lastHeight[m]
       /\ Written[4][m] # {} => lastHeight[m] \in Written[4][m]
       /\ \A i \in Written[4][m] : i > newestSig => i <= lastHeight[m]
       /\ rank[m] = Cardinality(Written[5][m])

CountInv == SkipInv /\ (Faultless => Once /\ Exactly)

LEMMA OldestOfBatch ==
  ASSUME Control, batch # {}
  PROVE  Min(batch) \in batch /\ \A i \in batch : Min(batch) <= i
<1>1. batch \in SUBSET Nat
  BY DEF Control
<1>2. \E i \in batch : \A j \in batch : i <= j
  BY <1>1, LeastNatural
<1> QED BY <1>2 DEF Min

LEMMA WipeIsBoolean ==
  ASSUME NEW keys, WipeAggregator(keys), halfWiped \in BOOLEAN
  PROVE  halfWiped' \in BOOLEAN
<1>1. halfWiped' = IF cursor' = 0 THEN FALSE ELSE halfWiped \/ keys \ {"recent"} # {}
  BY DEF WipeAggregator
<1>2. (halfWiped \/ keys \ {"recent"} # {}) \in BOOLEAN
  OBVIOUS
<1>3. CASE cursor' = 0
  BY <1>1, <1>3
<1>4. CASE cursor' # 0
  BY <1>1, <1>2, <1>4, Zenon
<1> QED BY <1>3, <1>4

\* The steps that write to Redis only touch the walk by taking a block from the batch.
LEMMA WritingSteps ==
  ASSUME Control, [Next]_vars,
         \/ WriteNext \/ MigrateWrite \/ \E applied \in BOOLEAN : WriteFails(applied)
  PROVE  /\ UNCHANGED <<chain, snapshot, cursor, mode, reindex, newestSig, before, next, last, short,
                       unmigrated, halfWiped>>
         /\ batch # {} /\ batch' \in {batch, batch \ {Min(batch)}}
         /\ step' \in Commands
<1>1. Len(Writes) = 7
  BY DEF Writes
<1>2. \A write, i : Apply(write, i) => UNCHANGED <<snapshot, cursor>>
  BY DEF Apply
<1>3. CASE WriteNext
  <2>1. UNCHANGED <<chain, snapshot, cursor, mode, reindex, newestSig, before, next, last, short,
                    unmigrated, halfWiped>>
        /\ batch # {}
    BY <1>2, <1>3 DEF WriteNext, walk, history
  <2>2. CASE step = 7
    BY <1>1, <1>3, <2>1, <2>2 DEF WriteNext, NextBlock, Commands
  <2>3. CASE step # 7
    BY <1>1, <1>3, <2>1, <2>3 DEF WriteNext, Control, Commands
  <2> QED BY <2>2, <2>3
<1>4. CASE MigrateWrite
  BY <1>2, <1>4 DEF MigrateWrite, NextBlock, walk, history, Control, Commands
<1>5. ASSUME NEW applied \in BOOLEAN, WriteFails(applied)
      PROVE  /\ UNCHANGED <<chain, snapshot, cursor, mode, reindex, newestSig, before, next, last, short,
                       unmigrated, halfWiped>>
             /\ batch # {} /\ batch' \in {batch, batch \ {Min(batch)}}
             /\ step' \in Commands
  <2>1. UNCHANGED cursor /\ UNCHANGED snapshot
    BY <1>2, <1>5 DEF WriteFails, redis
  <2>2. UNCHANGED <<chain, mode, reindex, newestSig, before, next, last, short, unmigrated, halfWiped>>
        /\ batch # {} /\ batch' = batch \ {Min(batch)} /\ step' = 1
    BY <1>5 DEF WriteFails, NextBlock, walk, history
  <2> QED BY <2>1, <2>2 DEF Commands
<1> QED BY <1>3, <1>4, <1>5

\* The signatures of a page.
LEMMA PageFits ==
  ASSUME NEW low \in Nat, NEW high \in Nat, low <= high, TakePage(low, high)
  PROVE  /\ next' \in Nat \ {0} /\ last' = high /\ short' \in BOOLEAN
         /\ next' <= high + 1 /\ low < next'
         /\ next' = low + 1 \/ next' + PAGE = high + 1
         /\ short' => next' = low + 1
<1>0. PAGE \in Nat \ {0}
  BY IndexerAssumption
<1>1. /\ next' = IF high - PAGE > low THEN high - PAGE + 1 ELSE low + 1
      /\ last' = high /\ short' \in BOOLEAN
      /\ short' <=> high - low < PAGE
  <2>1. /\ next' = IF high - PAGE > low THEN high - PAGE + 1 ELSE low + 1
        /\ last' = high
    BY DEF TakePage
  <2>2. CASE high - low < PAGE
    <3>1. short' = TRUE
      BY <2>2 DEF TakePage
    <3> QED BY <2>1, <2>2, <3>1
  <2>3. CASE ~(high - low < PAGE)
    <3>1. (high - low < PAGE) = FALSE
      BY <2>3
    <3>2. short' = (high - low < PAGE)
      BY DEF TakePage
    <3>3. short' = FALSE
      BY <3>1, <3>2, Zenon
    <3> QED BY <2>1, <2>3, <3>3
  <2> QED BY <2>2, <2>3
<1>2. CASE high - PAGE > low
  BY <1>0, <1>1, <1>2
<1>3. CASE ~(high - PAGE > low)
  BY <1>0, <1>1, <1>3
<1> QED BY <1>2, <1>3

\* Faults add up, and tell what kind of step was taken.
LEMMA FaultsAdd ==
  ASSUME faults \in [FaultKinds -> Nat], [Next]_vars
  PROVE  /\ faults' \in [FaultKinds -> Nat]
         /\ Swallowed => Swallowed'
         /\ Faultless' => Faultless /\ ~Swallowed'
         /\ \A kind : Fault(kind) => ~Faultless' /\ (kind \in {"write", "parse"} => Swallowed')
<1>1. ASSUME NEW kind, Fault(kind)
      PROVE  /\ kind \in FaultKinds /\ faults' = [faults EXCEPT ![kind] = @ + 1]
             /\ faults' \in [FaultKinds -> Nat]
             /\ \A k \in FaultKinds : faults'[k] >= faults[k]
             /\ faults'[kind] > 0
  BY <1>1, IndexerAssumption DEF Fault
<1>2. UNCHANGED faults \/ \E kind : Fault(kind)
  BY DEF Next, Run, vars, Append1, Start, FaultIf, WalkPage, MigrateDone, BackfillDone, TickDone,
         Check, UpdateState, Tick, TickEnds, ParseBatch, WriteNext, MigrateWrite, WriteFails,
         TickDoneFails, Crash, WipeDies
<1>3. \A k \in FaultKinds : faults[k] \in Nat /\ faults'[k] \in Nat /\ faults'[k] >= faults[k]
  BY <1>1, <1>2
<1>4. "parse" \in FaultKinds /\ "write" \in FaultKinds
  BY DEF FaultKinds
<1>5. faults' \in [FaultKinds -> Nat]
  BY <1>1, <1>2
<1> QED BY <1>1, <1>3, <1>4, <1>5 DEF Swallowed, Faultless

LEMMA ControlInductive ==
  ASSUME Control, [Next]_vars
  PROVE  Control'
<1>14. faults' \in [FaultKinds -> Nat]
  BY FaultsAdd DEF Control
<1> USE DEF Modes, Commands
<1>0. /\ Len(chain) \in Nat /\ PAGE \in Nat \ {0} /\ BATCH_SIZE \in Nat \ {0}
      /\ cursor \in Nat /\ newestSig \in Nat /\ last \in Nat /\ next \in Nat /\ before \in Nat
      /\ unmigrated \in Nat /\ unmigrated <= Len(chain) /\ halfWiped \in BOOLEAN
  BY IndexerAssumption DEF Control
<1>1. CASE UNCHANGED vars
  BY <1>14, <1>1 DEF vars, redis, process, walk, history, Control, Mined
<1>2. ASSUME NEW w \in Miners \cup {NoBlock}, Append1(w) PROVE Control'
  <2>1. /\ chain' \in Seq(Miners \cup {NoBlock}) /\ Len(chain') = Len(chain) + 1
        /\ \A i \in 1 .. Len(chain) : chain'[i] = chain[i]
    BY <1>2 DEF Append1, Control
  <2>2. UNCHANGED <<cursor, newestSig, last, before, next, short, step, mode, batch,
                    unmigrated, halfWiped>>
    BY <1>2 DEF Append1, redis, process, walk, history
  <2>3. \A i \in batch' : i \in 1 .. Len(chain') /\ Mined(i)' /\ before' <= i /\ i < next'
    BY SMTT(30), <1>0, <2>1, <2>2 DEF Control, Mined
  <2>4. {cursor', newestSig', last'} \subseteq 0 .. Len(chain')
    BY <1>0, <2>1, <2>2 DEF Control
  <2> QED BY <1>14, <2>1, <2>2, <2>3, <2>4 DEF Control
<1>3. ASSUME NEW wipe \in BOOLEAN, NEW fails \in BOOLEAN, Start(wipe, fails) PROVE Control'
  <2>1. /\ UNCHANGED <<chain, newestSig, before, next, last, short, batch, step, unmigrated>>
        /\ mode = "down" /\ mode' \in {"backfill", "check"} /\ cursor' \in {0, cursor}
    BY <1>3 DEF Start, walk, WipeAggregator, redis
  <2>2. halfWiped' \in BOOLEAN
    BY <1>0, <1>3, WipeIsBoolean DEF Start
  <2> QED BY <1>14, <1>0, <2>1, <2>2 DEF Control, Mined
<1>4. CASE WalkPage
  <2> DEFINE high == IF before = 0 THEN Len(chain) ELSE before - 1
  <2>1. /\ UNCHANGED <<chain, cursor, mode, batch, step, unmigrated, halfWiped>>
        /\ mode \in {"backfill", "migrate"} /\ batch = {} /\ next > last /\ TakePage(0, high)
        /\ newestSig' = IF before = 0 THEN high ELSE newestSig
        /\ before' = next'
    BY <1>4 DEF WalkPage, PageDone, redis, history
  <2>2. high \in Nat /\ 0 <= high /\ high <= Len(chain)
    BY <1>14, <1>0, <2>1 DEF Control
  <2>3. /\ next' \in Nat \ {0} /\ last' = high /\ short' \in BOOLEAN /\ next' <= high + 1
        /\ short' => next' = 1
    BY <2>1, <2>2, PageFits
  <2>4. CASE before = 0
    BY <1>14, <1>0, <2>1, <2>3, <2>4 DEF Control, Mined
  <2>5. CASE before # 0
    BY <1>14, <1>0, <2>1, <2>3, <2>5 DEF Control, Mined
  <2> QED BY <2>4, <2>5
<1>5. ASSUME NEW hour, BackfillDone(hour) PROVE Control'
  <2>1. /\ UNCHANGED <<chain, newestSig, batch, step>> /\ mode' = "check"
        /\ cursor' \in {newestSig, cursor} /\ batch = {}
        /\ before' = 0 /\ next' = 1 /\ last' = 0 /\ short' \in BOOLEAN /\ ~short'
        /\ unmigrated' = 0 /\ halfWiped' = halfWiped
    BY <1>5 DEF BackfillDone, LeavePage, PageDone
  <2> QED BY <1>14, <1>0, <2>1 DEF Control, Mined
<1>6. ASSUME NEW failed, Check(failed) PROVE Control'
  <2>1. /\ UNCHANGED <<chain, cursor, newestSig, before, next, last, short, batch, step,
                       unmigrated, halfWiped>>
        /\ mode = "check" /\ mode' \in {"migrate", "idle"}
    BY <1>6 DEF Check, redis, walk, history
  <2> QED BY <1>14, <2>1 DEF Control, Mined
<1>7. CASE MigrateDone
  <2>1. /\ UNCHANGED <<chain, cursor, newestSig, batch, step>> /\ mode' = "idle" /\ batch = {}
        /\ before' = 0 /\ next' = 1 /\ last' = 0 /\ short' \in BOOLEAN /\ ~short'
        /\ unmigrated' = 0 /\ halfWiped' = halfWiped
    BY <1>7 DEF MigrateDone, LeavePage, PageDone, redis
  <2> QED BY <1>14, <1>0, <2>1 DEF Control, Mined
<1>8. ASSUME NEW fails \in BOOLEAN, UpdateState(fails) \/ TickEnds(fails) PROVE Control'
  <2>1. /\ UNCHANGED <<chain, cursor, newestSig, before, next, last, short, batch, step,
                       unmigrated, halfWiped>>
        /\ mode \in {"idle", "poll"} /\ mode' \in {"idle", "poll"}
    BY <1>8 DEF UpdateState, TickEnds, redis, walk, history
  <2> QED BY <1>14, <2>1 DEF Control, Mined
<1>9. ASSUME NEW fails \in BOOLEAN, Tick(fails) PROVE Control'
  <2> DEFINE until == IF fails THEN 0 ELSE cursor
  <2>1. /\ UNCHANGED <<chain, cursor, newestSig, before, batch, step, unmigrated, halfWiped>>
        /\ mode = "poll" /\ mode' = "tick"
        /\ until < Len(chain) /\ TakePage(until, Len(chain))
    BY <1>9 DEF Tick, redis, history
  <2>2. /\ next' \in Nat \ {0} /\ last' = Len(chain) /\ short' \in BOOLEAN /\ next' <= Len(chain) + 1
    BY <1>14, <1>0, <2>1, PageFits
  <2> QED BY <1>14, <1>0, <2>1, <2>2 DEF Control, Mined
<1>10. ASSUME NEW hour, TickDone(hour) \/ TickDoneFails PROVE Control'
  <2>1. /\ UNCHANGED <<chain, newestSig, batch, step, unmigrated, halfWiped>>
        /\ mode' = "idle" /\ batch = {} /\ cursor' \in {last, cursor}
        /\ before' = 0 /\ next' = 1 /\ last' = 0 /\ short' \in BOOLEAN /\ ~short'
    BY <1>10 DEF TickDone, TickDoneFails, LeavePage, PageDone, redis, history
  <2> QED BY <1>14, <1>0, <2>1 DEF Control, Mined
<1>11. ASSUME NEW lost, ParseBatch(lost) PROVE Control'
  <2> DEFINE through == IF next + BATCH_SIZE - 1 > last THEN last ELSE next + BATCH_SIZE - 1
  <2>1. /\ UNCHANGED <<chain, cursor, mode, newestSig, before, last, short, unmigrated, halfWiped>>
        /\ next <= last
        /\ batch' = {i \in next .. through : Mined(i)} \ lost /\ next' = through + 1 /\ step' = 1
    BY <1>11 DEF ParseBatch, redis, history
  <2>2. through \in Nat /\ next <= through /\ through <= last
    BY <1>14, <1>0, <2>1
  <2> HIDE DEF through
  <2>3. mode \in {"tick", "backfill", "migrate"} /\ before <= next
    BY <1>14, <1>0, <2>1 DEF Control
  <2>4. \A i \in batch' : i \in 1 .. Len(chain) /\ Mined(i) /\ before <= i /\ i < next'
    BY <1>14, <1>0, <2>1, <2>2, <2>3 DEF Control
  <2> QED BY <1>14, <1>0, <2>1, <2>2, <2>3, <2>4 DEF Control, Mined
<1>12. CASE WriteNext \/ MigrateWrite \/ \E applied \in BOOLEAN : WriteFails(applied)
  <2>1. /\ UNCHANGED <<chain, cursor, mode, newestSig, before, next, last, short,
                       unmigrated, halfWiped>>
        /\ batch # {} /\ batch' \subseteq batch /\ step' \in Commands
    BY <1>12, WritingSteps
  <2> QED BY <1>14, <2>1 DEF Control, Mined
<1>13. CASE Crash
  <2>1. /\ UNCHANGED <<chain, cursor>> /\ mode' = "down" /\ newestSig' = 0 /\ batch' = {} /\ step' = 1
        /\ before' = 0 /\ next' = 1 /\ last' = 0 /\ short' \in BOOLEAN /\ ~short'
        /\ UNCHANGED <<unmigrated, halfWiped>>
    BY <1>13 DEF Crash, LeavePage, redis, history
  <2> QED BY <1>14, <1>0, <2>1 DEF Control
<1>15. CASE WipeDies
  <2>1. /\ UNCHANGED <<chain, newestSig, before, next, last, short, batch, step, mode, unmigrated>>
        /\ mode = "down" /\ cursor' \in {0, cursor}
    BY <1>15 DEF WipeDies, process, walk, WipeAggregator
  <2>2. halfWiped' \in BOOLEAN
    BY <1>0, <1>15, WipeIsBoolean DEF WipeDies
  <2> QED BY <1>14, <1>0, <2>1, <2>2 DEF Control, Mined
<1> QED
  BY <1>1, <1>2, <1>3, <1>4, <1>5, <1>6, <1>7, <1>8, <1>9, <1>10, <1>11, <1>12, <1>13, <1>15
  DEF Next, Run

LEMMA PacingInductive ==
  ASSUME Paced, Control, Pacing, [Next]_vars, Control'
  PROVE  Pacing'
<1>0. /\ Len(chain) \in Nat /\ PAGE \in Nat \ {0} /\ Len(chain') \in Nat
      /\ cursor \in Nat /\ newestSig \in Nat /\ last \in Nat /\ before \in Nat
      /\ cursor <= Len(chain) /\ newestSig <= Len(chain) /\ last <= Len(chain)
  BY IndexerAssumption DEF Control
<1>1. CASE UNCHANGED <<chain, cursor, newestSig, before, mode>>
  BY <1>1 DEF Pacing
<1>2. ASSUME NEW w \in Miners \cup {NoBlock}, Append1(w) PROVE Pacing'
  <2>1. Len(chain') = Len(chain) + 1 /\ Len(chain) < Anchor + PAGE
        /\ UNCHANGED <<cursor, newestSig, before, mode>>
    BY <1>2 DEF Append1, Control, redis, process, walk
  <2>2. cursor # 0 => Len(chain') <= cursor + PAGE
    BY <1>0, <2>1 DEF Anchor
  <2>3. cursor = 0 /\ mode \notin {"down", "backfill"} => Len(chain') <= PAGE
    BY <1>0, <2>1 DEF Anchor
  <2>4. cursor = 0 /\ mode = "backfill" /\ before # 0 => Len(chain') <= newestSig + PAGE
    BY <1>0, <2>1 DEF Anchor
  <2>5. mode = "backfill" /\ before # 0 => cursor <= newestSig
    BY DEF Control
  <2> QED BY <1>0, <2>1, <2>2, <2>3, <2>4, <2>5 DEF Pacing
<1>3. ASSUME NEW wipe \in BOOLEAN, NEW fails \in BOOLEAN, Start(wipe, fails) PROVE Pacing'
  <2>1. /\ UNCHANGED <<chain, newestSig, before>> /\ mode = "down"
        /\ cursor' \in {0, cursor} /\ mode' \in {"backfill", "check"}
        /\ mode' = "check" => cursor' # 0
    BY <1>3 DEF Start, walk, WipeAggregator, redis
  <2>2. before = 0
    BY <2>1 DEF Control
  <2> QED BY <1>0, <2>1, <2>2 DEF Pacing
<1>4. CASE WalkPage
  <2>1. /\ UNCHANGED <<chain, cursor, mode>> /\ mode \in {"backfill", "migrate"}
        /\ newestSig' = IF before = 0 THEN Len(chain) ELSE newestSig
    BY <1>4 DEF WalkPage, redis
  <2> QED BY <1>0, <2>1 DEF Pacing
<1>5. ASSUME NEW hour, BackfillDone(hour) PROVE Pacing'
  <2>1. /\ UNCHANGED chain /\ mode = "backfill" /\ mode' = "check" /\ short
        /\ cursor' = IF newestSig # 0 THEN newestSig ELSE cursor
    BY <1>5 DEF BackfillDone
  <2>2. before = 1 /\ cursor <= newestSig /\ Len(chain) <= newestSig + PAGE
    BY <2>1 DEF Control, Pacing
  <2> QED BY <1>0, <2>1, <2>2 DEF Pacing
<1>6. ASSUME NEW fails, \/ Check(fails) \/ UpdateState(fails) \/ TickEnds(fails)
                        \/ Tick(fails) \/ MigrateDone
      PROVE  Pacing'
  <2>1. UNCHANGED <<chain, cursor>> /\ {mode, mode'} \subseteq Modes \ {"down", "backfill"}
    BY <1>6 DEF Check, UpdateState, TickEnds, Tick, MigrateDone, redis, Modes
  <2> QED BY <2>1 DEF Pacing
<1>7. ASSUME NEW hour, TickDone(hour) \/ TickDoneFails PROVE Pacing'
  <2>1. UNCHANGED chain /\ mode = "tick" /\ mode' = "idle" /\ cursor' \in {last, cursor}
    BY <1>7 DEF TickDone, TickDoneFails, redis
  <2>2. cursor <= last
    BY <2>1 DEF Control
  <2> QED BY <1>0, <2>1, <2>2 DEF Pacing
<1>8. ASSUME NEW lost, ParseBatch(lost) PROVE Pacing'
  BY <1>1, <1>8 DEF ParseBatch, redis
<1>9. CASE WriteNext \/ MigrateWrite \/ \E applied \in BOOLEAN : WriteFails(applied)
  BY <1>1, <1>9, WritingSteps
<1>10. CASE Crash
  <2>1. UNCHANGED <<chain, cursor>> /\ mode' = "down"
    BY <1>10 DEF Crash, redis
  <2> QED BY <2>1 DEF Pacing
<1>11. CASE UNCHANGED vars
  BY <1>1, <1>11 DEF vars, redis, process, walk
<1>12. CASE WipeDies
  <2>1. UNCHANGED <<chain, newestSig, before, mode>> /\ mode = "down" /\ cursor' \in {0, cursor}
    BY <1>12 DEF WipeDies, process, walk, WipeAggregator
  <2> QED BY <1>0, <2>1 DEF Pacing
<1> QED
  BY <1>2, <1>3, <1>4, <1>5, <1>6, <1>7, <1>8, <1>9, <1>10, <1>11, <1>12 DEF Next, Run

-----------------------------------------------------------------------------
\* What the steps that write no block do to Written.

AtRest(top, c) == [k \in Commands |-> [m \in Miners |-> {i \in 1 .. top : c[i] = m}]]

LEMMA WrittenAtRest ==
  batch = {} /\ Past = {} => Written = AtRest(cursor, chain)
BY DEF Written, Through, InHand, AtRest

LEMMA WrittenAtRestNext ==
  batch' = {} /\ Past' = {} => Written' = AtRest(cursor', chain')
<1>1. (batch = {} /\ Past = {} => Written = AtRest(cursor, chain))'
  BY WrittenAtRest, PTL
<1> QED BY <1>1

LEMMA WrittenIsWritten ==
  ASSUME Control, NEW k \in Commands, NEW m \in Miners
  PROVE  /\ Written[k][m] = {i \in Through \cup InHand(k) : chain[i] = m}
         /\ Through \cup InHand(k) \subseteq 1 .. Len(chain)
<1>1. Written[k][m] = {i \in Through \cup InHand(k) : chain[i] = m}
  BY DEF Written
<1>2. InHand(k) \subseteq 1 .. Len(chain)
  BY OldestOfBatch DEF InHand, Control
<1>3. Through \subseteq 1 .. Len(chain)
  BY DEF Through, Past, Control
<1> QED BY <1>1, <1>2, <1>3

\* Steps of a process that reads no page, before or after.
LEMMA QuietSteps ==
  ASSUME batch = {}, batch' = {}, Past = {}, Past' = {}, chain' = chain,
         Control, cursor' \in Nat, cursor' <= cursor
  PROVE  /\ \A k \in Commands, m \in Miners : Written'[k][m] \subseteq Written[k][m]
         /\ cursor' = cursor => Written' = Written
<1>1. Written = AtRest(cursor, chain) /\ Written' = AtRest(cursor', chain)
  BY WrittenAtRest, WrittenAtRestNext
<1>2. 1 .. cursor' \subseteq 1 .. cursor
  BY DEF Control
<1> QED BY <1>1, <1>2 DEF AtRest

\* With nothing in hand, the commands do not differ.
Alike(S, c) == [k \in Commands |-> [m \in Miners |-> {i \in S : c[i] = m}]]

LEMMA NothingInHand == (\A k \in Commands : InHand(k) = {}) => Written = Alike(Through, chain)
BY DEF Written, Alike

LEMMA SameWritten ==
  ASSUME \A k \in Commands : InHand(k) = {}, (\A k \in Commands : InHand(k) = {})', chain' = chain,
         \A i \in Through' \ Through : ~Mined(i), \A i \in Through \ Through' : ~Mined(i)
  PROVE  Written' = Written
<1>1. (\A k \in Commands : InHand(k) = {})' => Written' = Alike(Through', chain')
  <2>1. ((\A k \in Commands : InHand(k) = {}) => Written = Alike(Through, chain))'
    BY NothingInHand, PTL
  <2> QED BY <2>1
<1>2. Written = Alike(Through, chain) /\ Written' = Alike(Through', chain)
  BY <1>1, NothingInHand
<1>3. \A m \in Miners : {i \in Through' : chain[i] = m} = {i \in Through : chain[i] = m}
  BY IndexerAssumption DEF Mined
<1> QED BY <1>2, <1>3 DEF Alike

LEMMA AppendPasses ==
  ASSUME Control, NEW w \in Miners \cup {NoBlock}, Append1(w)
  PROVE  Written' = Written
<1>1. \A i \in 1 .. Len(chain) : chain'[i] = chain[i]
  BY DEF Append1, Control
<1>2. UNCHANGED <<cursor, newestSig, before, next, last, mode, batch, step>>
  BY DEF Append1, redis, process, walk
<1>3. Through' = Through
  BY <1>2 DEF Through, Past
<1>4. ASSUME NEW k \in Commands, NEW m \in Miners
      PROVE  {i \in Through \cup InHand(k) : chain'[i] = m} = {i \in Through \cup InHand(k) : chain[i] = m}
  BY <1>1, WrittenIsWritten
<1>5. Written' = [k \in Commands |-> [m \in Miners |-> {i \in Through \cup InHand(k) : chain'[i] = m}]]
  BY <1>2, <1>3 DEF Written, InHand
<1> QED BY <1>4, <1>5 DEF Written

LEMMA WalkPagePasses ==
  ASSUME Control, WalkPage
  PROVE  Written' = Written
<1> DEFINE high == IF before = 0 THEN Len(chain) ELSE before - 1
<1>0. /\ Len(chain) \in Nat /\ cursor \in Nat /\ newestSig \in Nat /\ last \in Nat
      /\ next \in Nat /\ before \in Nat /\ newestSig <= Len(chain)
  BY DEF Control
<1>1. /\ UNCHANGED <<chain, cursor, mode, batch, step>> /\ mode \in {"backfill", "migrate"}
      /\ batch = {} /\ next > last /\ TakePage(0, high)
      /\ newestSig' = IF before = 0 THEN high ELSE newestSig
      /\ before' = next'
  BY DEF WalkPage, PageDone, redis
<1>2. high \in Nat /\ 0 <= high /\ high <= Len(chain)
  BY <1>0, <1>1 DEF Control
<1>3. next' \in Nat \ {0} /\ last' = high /\ next' <= high + 1
  BY <1>1, <1>2, PageFits
<1>4. Past' = Past
  <2>1. CASE mode = "migrate"
    BY <1>1, <2>1 DEF Past
  <2>2. CASE mode = "backfill" /\ before = 0
    <3>1. Past = {} /\ Past' = (before' .. newestSig') \ (next' .. last')
      BY <1>1, <1>3, <2>2 DEF Past
    <3> QED BY <1>1, <1>3, <2>2, <3>1
  <2>3. CASE mode = "backfill" /\ before # 0
    <3>1. Past = (before .. newestSig) \ (next .. last) /\ Past' = (before' .. newestSig') \ (next' .. last')
      BY <1>1, <1>3, <2>3 DEF Past
    <3>2. before <= newestSig + 1 /\ next' <= before /\ last' = before - 1 /\ newestSig' = newestSig
      BY <1>0, <1>1, <1>3, <2>3 DEF Control
    <3>3. next .. last = {}
      BY <1>0, <1>1
    <3> QED BY <1>0, <1>1, <1>3, <3>1, <3>2, <3>3
  <2> QED BY <1>1, <2>1, <2>2, <2>3
<1>5. Through' = Through /\ \A k \in Commands : InHand(k) = {}
  BY <1>1, <1>4 DEF Through, InHand
<1>6. (\A k \in Commands : InHand(k) = {})'
  BY <1>1 DEF InHand
<1> QED BY <1>1, <1>5, <1>6, SameWritten

\* A walk or a tick is over: the cursor takes over what it passed.
LEMMA EndPasses ==
  ASSUME Control, NEW hour, BackfillDone(hour) \/ TickDone(hour)
  PROVE  Written' = Written
<1>0. /\ cursor \in Nat /\ newestSig \in Nat /\ last \in Nat /\ next \in Nat
  BY DEF Control
<1>1. /\ chain' = chain /\ batch = {} /\ batch' = {} /\ next > last
      /\ mode' \in {"check", "idle"}
  BY DEF BackfillDone, TickDone, PageDone
<1>2. Through' = 1 .. cursor'
  BY <1>1 DEF Through, Past
<1>3. Through = 1 .. cursor'
  <2>1. CASE BackfillDone(hour)
    <3>1. mode = "backfill" /\ short /\ cursor' = IF newestSig # 0 THEN newestSig ELSE cursor
      BY <2>1 DEF BackfillDone
    <3>2. before = 1 /\ cursor <= newestSig
      BY <3>1 DEF Control
    <3>3. next .. last = {}
      BY <1>0, <1>1
    <3>4. Past = 1 .. newestSig
      BY <3>1, <3>2, <3>3 DEF Past
    <3> QED BY <1>0, <1>1, <3>1, <3>2, <3>4 DEF Through
  <2>2. CASE TickDone(hour)
    <3>1. mode = "tick" /\ cursor' = last
      BY <2>2 DEF TickDone
    <3>2. next = last + 1 /\ cursor <= last
      BY <1>0, <1>1, <3>1 DEF Control
    <3>3. Past = 1 .. last
      BY <1>0, <3>1, <3>2 DEF Past
    <3> QED BY <1>0, <1>1, <3>1, <3>2, <3>3 DEF Through
  <2> QED BY <2>1, <2>2
<1>4. (\A k \in Commands : InHand(k) = {}) /\ (\A k \in Commands : InHand(k) = {})'
  BY <1>1 DEF InHand
<1> QED BY <1>1, <1>2, <1>3, <1>4, SameWritten

LEMMA PageFollows ==
  ASSUME NEW low \in Nat, NEW high \in Nat, NEW top \in Nat, NEW n \in Nat \ {0}, PAGE \in Nat \ {0},
         low <= top, n = low + 1 \/ n + PAGE = high + 1, high <= top + PAGE
  PROVE  1 .. n - 1 \subseteq 1 .. top
OBVIOUS

\* A tick that begins leaves nothing between the cursor and its page.
LEMMA TickPasses ==
  ASSUME Control, Pacing, NEW fails \in BOOLEAN, Tick(fails)
  PROVE  Written' = Written /\ (~fails => cursor < next')
<1> DEFINE until == IF fails THEN 0 ELSE cursor
<1>0. /\ Len(chain) \in Nat /\ cursor \in Nat /\ PAGE \in Nat \ {0}
  BY IndexerAssumption DEF Control
<1>1. /\ UNCHANGED <<chain, cursor, before, batch, step>> /\ mode = "poll" /\ mode' = "tick"
      /\ until < Len(chain) /\ TakePage(until, Len(chain))
  BY DEF Tick, redis
<1>2. batch = {} /\ batch' = {}
  BY <1>1 DEF Control
<1>3. /\ next' \in Nat \ {0} /\ until < next'
      /\ next' = until + 1 \/ next' + PAGE = Len(chain) + 1
  BY <1>0, <1>1, PageFits
<1>4. Len(chain) <= cursor + PAGE
  BY <1>1 DEF Pacing
<1>5. 1 .. next' - 1 \subseteq 1 .. cursor
  <2>1. until \in Nat /\ until <= cursor
    BY <1>0
  <2> HIDE DEF until
  <2> QED BY <1>0, <1>3, <1>4, <2>1, PageFollows
<1>6. Through = 1 .. cursor /\ Through' = 1 .. cursor
  <2>1. Past = {} /\ Past' = 1 .. next' - 1
    BY <1>1 DEF Past
  <2> QED BY <1>1, <1>2, <1>5, <2>1 DEF Through
<1>7. (\A k \in Commands : InHand(k) = {}) /\ (\A k \in Commands : InHand(k) = {})'
  BY <1>2 DEF InHand
<1> QED BY <1>1, <1>3, <1>6, <1>7, SameWritten

\* The blocks of a batch are put in hand, and what mined nothing is passed.
LEMMA ParsePasses ==
  ASSUME Control, NEW lost, ParseBatch(lost), lost = {}
  PROVE  Written' = Written
<1> DEFINE through == IF next + BATCH_SIZE - 1 > last THEN last ELSE next + BATCH_SIZE - 1
<1>0. /\ cursor \in Nat /\ newestSig \in Nat /\ last \in Nat /\ next \in Nat \ {0} /\ before \in Nat
      /\ BATCH_SIZE \in Nat \ {0}
  BY IndexerAssumption DEF Control
<1>1. /\ UNCHANGED <<chain, cursor, mode, newestSig, before, last>> /\ next <= last /\ batch = {}
      /\ batch' = {i \in next .. through : Mined(i)} /\ next' = through + 1 /\ step' = 1
  BY DEF ParseBatch, redis
<1>2. through \in Nat /\ next <= through /\ through <= last
  BY <1>0, <1>1
<1> HIDE DEF through
<1>3. \/ Past' = Past \cup (next .. through) /\ Past \cap (next .. through) = {}
      \/ Past' = {} /\ Past = {}
  <2>1. CASE mode = "tick"
    BY <1>0, <1>1, <1>2, <2>1 DEF Past
  <2>2. CASE mode = "backfill"
    <3>1. before # 0 /\ before <= next /\ last <= newestSig
      BY <1>0, <1>1, <2>2 DEF Control
    <3>2. Past = (before .. newestSig) \ (next .. last)
          /\ Past' = (before .. newestSig) \ (through + 1 .. last)
      BY <1>1, <2>2, <3>1 DEF Past
    <3> QED BY <1>0, <1>1, <1>2, <3>1, <3>2
  <2>3. CASE mode \notin {"tick", "backfill"}
    BY <1>1, <2>3 DEF Past
  <2> QED BY <2>1, <2>2, <2>3
<1>4. Through = 1 .. cursor \cup Past /\ Through' = 1 .. cursor \cup (Past' \ batch')
  BY <1>1 DEF Through
<1>5. (\A i \in Through' \ Through : ~Mined(i)) /\ (\A i \in Through \ Through' : ~Mined(i))
  BY <1>1, <1>3, <1>4
<1>6. (\A k \in Commands : InHand(k) = {}) /\ (\A k \in Commands : InHand(k) = {})'
  BY <1>1 DEF InHand, Commands
<1> QED BY <1>1, <1>5, <1>6, SameWritten

LEMMA MigratePasses ==
  ASSUME Control, MigrateWrite
  PROVE  Written' = Written
<1>1. UNCHANGED <<chain, cursor, mode>> /\ mode = "migrate"
  BY DEF MigrateWrite, Apply
<1>2. Through = 1 .. cursor /\ Through' = 1 .. cursor
  BY <1>1 DEF Through, Past
<1>3. (\A k \in Commands : InHand(k) = {}) /\ (\A k \in Commands : InHand(k) = {})'
  BY <1>1 DEF InHand
<1> QED BY <1>1, <1>2, <1>3, SameWritten

-----------------------------------------------------------------------------
\* A Redis command adds the block in hand to what its key has been told.

LEMMA CommandNames ==
  \A k \in Commands :
    /\ Writes[k] = "miners" <=> k = 1
    /\ Writes[k] = "rewards" <=> k = 2
    /\ Writes[k] = "lastSeen" <=> k = 3
    /\ Writes[k] = "lastHeight" <=> k = 4
    /\ Writes[k] = "rank" <=> k = 5
    /\ Writes[k] = "recent" <=> k = 6
    /\ Writes[k] = "blocksByHeight" <=> k = 7
BY DEF Commands, Writes

LEMMA WriteNextRedis ==
  ASSUME Control, WriteNext, NEW i, i = Min(batch), NEW m, m = chain[i]
  PROVE  /\ step \in Commands /\ i \in 1 .. Len(chain) /\ m \in Miners /\ batch # {}
         /\ UNCHANGED <<chain, snapshot, cursor, faults>>
         /\ miners' = IF step = 1 THEN [miners EXCEPT ![m] = @ + 1] ELSE miners
         /\ rewards' = IF step = 2 THEN [rewards EXCEPT ![m] = @ + i] ELSE rewards
         /\ lastSeen' = IF step = 3 THEN [lastSeen EXCEPT ![m] = i] ELSE lastSeen
         /\ lastHeight' = IF step = 4 THEN [lastHeight EXCEPT ![m] = i] ELSE lastHeight
         /\ rank' = IF step = 5 THEN [rank EXCEPT ![m] = @ + 1] ELSE rank
         /\ recent' = IF step = 6 THEN recent \cup {i} ELSE recent
         /\ blocksByHeight' = IF step = 7 THEN blocksByHeight \cup {i} ELSE blocksByHeight
<1>1. step \in Commands /\ batch # {} /\ UNCHANGED <<chain, faults>> /\ Apply(Writes[step], i)
  BY DEF WriteNext, Control
<1>2. i \in batch
  BY <1>1, OldestOfBatch
<1>3. i \in 1 .. Len(chain) /\ m \in Miners
  <2>1. i \in 1 .. Len(chain) /\ chain[i] # NoBlock
    BY <1>2 DEF Control, Mined
  <2>2. \A j \in 1 .. Len(chain) : chain[j] \in Miners \cup {NoBlock}
    BY DEF Control
  <2> QED BY <2>1, <2>2
<1> QED BY <1>1, <1>3, CommandNames DEF Apply

LEMMA WriteNextWritten ==
  ASSUME Control, WriteNext, NEW i, i = Min(batch)
  PROVE  /\ \A k \in Commands, m \in Miners :
              Written'[k][m] = IF k = step /\ chain[i] = m THEN Written[k][m] \cup {i} ELSE Written[k][m]
         /\ \A k \in Commands : Through' \cup InHand(k)' =
              (Through \cup InHand(k)) \cup (IF k = step THEN {i} ELSE {})
<1>0. /\ cursor \in Nat /\ newestSig \in Nat /\ last \in Nat /\ next \in Nat \ {0} /\ before \in Nat
      /\ step \in 1 .. 7
  BY DEF Control, Commands
<1>1. /\ UNCHANGED <<chain, cursor, mode, newestSig, before, next, last>> /\ mode # "migrate"
      /\ batch # {} /\ i \in batch /\ \A j \in batch : i <= j
  BY OldestOfBatch DEF WriteNext, Apply, walk
<1>2. i \in Nat \ {0} /\ before <= i /\ i < next
  BY <1>1 DEF Control
<1>3. i \in Past
  <2>1. CASE mode = "tick"
    BY <1>0, <1>2, <2>1 DEF Past
  <2>2. CASE mode = "backfill"
    <3>1. before # 0 /\ next <= last + 1 /\ last <= newestSig
      BY <1>1, <2>2 DEF Control
    <3> QED BY <1>0, <1>2, <2>2, <3>1 DEF Past
  <2> QED BY <1>1, <2>1, <2>2 DEF Control, Modes
<1>4. Past' = Past
  BY <1>1 DEF Past
<1>5. \A k \in Commands : Through' \cup InHand(k)' =
        (Through \cup InHand(k)) \cup (IF k = step THEN {i} ELSE {})
  <2>1. CASE step # 7
    <3>1. step' = step + 1 /\ batch' = batch
      BY <2>1 DEF WriteNext, Writes
    <3>2. Through' = Through
      BY <1>1, <1>4, <3>1 DEF Through
    <3>3. \A k \in Commands : InHand(k)' = IF step + 1 > k THEN {i} ELSE {}
      BY <1>1, <3>1 DEF InHand
    <3>4. \A k \in Commands : InHand(k) = IF step > k THEN {i} ELSE {}
      BY <1>1 DEF InHand
    <3> QED BY <1>0, <3>2, <3>3, <3>4 DEF Commands
  <2>2. CASE step = 7
    <3>1. step' = 1 /\ batch' = batch \ {i}
      BY <2>2 DEF WriteNext, Writes, NextBlock
    <3>2. Through' = Through \cup {i}
      BY <1>1, <1>3, <1>4, <3>1 DEF Through
    <3>3. \A k \in Commands : InHand(k)' = {}
      BY <3>1 DEF InHand, Commands
    <3>4. \A k \in Commands : InHand(k) = IF k = 7 THEN {} ELSE {i}
      BY <1>1, <2>2 DEF InHand, Commands
    <3> QED BY <2>2, <3>2, <3>3, <3>4
  <2> QED BY <2>1, <2>2
<1>6. \A k \in Commands, m \in Miners :
        /\ Written[k][m] = {j \in Through \cup InHand(k) : chain[j] = m}
        /\ Written'[k][m] = {j \in Through' \cup InHand(k)' : chain[j] = m}
  BY <1>1 DEF Written
<1>7. ASSUME NEW k \in Commands, NEW m \in Miners
      PROVE  Written'[k][m] = IF k = step /\ chain[i] = m THEN Written[k][m] \cup {i} ELSE Written[k][m]
  <2> DEFINE S == Through \cup InHand(k)
             T == Through' \cup InHand(k)'
  <2>1. T = S \cup (IF k = step THEN {i} ELSE {})
    BY <1>5
  <2>2. Written[k][m] = {j \in S : chain[j] = m} /\ Written'[k][m] = {j \in T : chain[j] = m}
    BY <1>6
  <2> HIDE DEF S, T
  <2> QED BY <2>1, <2>2
<1> QED BY <1>5, <1>7

LEMMA WrittenIsFinite ==
  ASSUME Control, NEW k \in Commands, NEW m \in Miners
  PROVE  /\ Len(chain) \in Nat /\ Written[k][m] \in SUBSET (1 .. Len(chain))
         /\ Cardinality(Written[k][m]) \in Nat /\ SumSet(Written[k][m]) \in Nat
<1>1. Len(chain) \in Nat /\ Written[k][m] \in SUBSET (1 .. Len(chain))
  BY WrittenIsWritten DEF Control
<1> QED BY <1>1, SumFacts, CountFacts

\* Passing on, or forgetting, leaves what is owed to Redis in place.
LEMMA AtLeastKept ==
  ASSUME Control, AtLeast,
         \A k \in Commands, m \in Miners : Written'[k][m] \subseteq Written[k][m],
         UNCHANGED <<miners, rewards, lastSeen, lastHeight, rank>>
  PROVE  AtLeast'
<1>1. ASSUME NEW k \in Commands, NEW m \in Miners
      PROVE  /\ Cardinality(Written'[k][m]) <= Cardinality(Written[k][m])
             /\ SumSet(Written'[k][m]) <= SumSet(Written[k][m])
             /\ Cardinality(Written[k][m]) \in Nat /\ SumSet(Written[k][m]) \in Nat
             /\ Cardinality(Written'[k][m]) \in Nat /\ SumSet(Written'[k][m]) \in Nat
  <2>1. /\ Len(chain) \in Nat /\ Written[k][m] \in SUBSET (1 .. Len(chain))
        /\ Written'[k][m] \in SUBSET Written[k][m] /\ Written'[k][m] \in SUBSET (1 .. Len(chain))
    BY WrittenIsFinite
  <2> QED BY <2>1, SumFacts, CountFacts
<1>2. \A k \in {1, 2, 3, 4, 5} : k \in Commands
  BY DEF Commands
<1> QED BY <1>1, <1>2 DEF AtLeast, Keys

LEMMA KeysWritten ==
  ASSUME Control, Keys, WriteNext
  PROVE  Keys'
<1> DEFINE i == Min(batch)
           o == chain[i]
<1>1. /\ i \in 1 .. Len(chain) /\ o \in Miners
      /\ miners' = IF step = 1 THEN [miners EXCEPT ![o] = @ + 1] ELSE miners
      /\ rewards' = IF step = 2 THEN [rewards EXCEPT ![o] = @ + i] ELSE rewards
      /\ lastSeen' = IF step = 3 THEN [lastSeen EXCEPT ![o] = i] ELSE lastSeen
      /\ lastHeight' = IF step = 4 THEN [lastHeight EXCEPT ![o] = i] ELSE lastHeight
      /\ rank' = IF step = 5 THEN [rank EXCEPT ![o] = @ + 1] ELSE rank
  BY WriteNextRedis
<1> HIDE DEF i, o
<1>2. i \in Nat
  BY <1>1
<1>3. ASSUME NEW f \in [Miners -> Nat]
      PROVE  /\ [f EXCEPT ![o] = @ + 1] \in [Miners -> Nat]
             /\ [f EXCEPT ![o] = @ + i] \in [Miners -> Nat]
             /\ [f EXCEPT ![o] = i] \in [Miners -> Nat]
  <2>1. \A v \in Nat : [f EXCEPT ![o] = v] \in [Miners -> Nat]
    OBVIOUS
  <2>2. f[o] + 1 \in Nat /\ f[o] + i \in Nat
    BY SMTT(30), <1>1, <1>2
  <2> QED BY <1>2, <2>1, <2>2
<1>4. miners' \in [Miners -> Nat] /\ rewards' \in [Miners -> Nat] /\ rank' \in [Miners -> Nat]
  BY <1>1, <1>3 DEF Keys
<1>5. lastSeen' \in [Miners -> Nat] /\ lastHeight' \in [Miners -> Nat]
  BY <1>1, <1>3 DEF Keys
<1> QED BY <1>4, <1>5 DEF Keys

LEMMA AtLeastWritten ==
  ASSUME Control, AtLeast, WriteNext
  PROVE  AtLeast'
<1> DEFINE i == Min(batch)
           o == chain[i]
<1>1. /\ step \in Commands /\ i \in 1 .. Len(chain) /\ o \in Miners /\ UNCHANGED chain
      /\ miners' = IF step = 1 THEN [miners EXCEPT ![o] = @ + 1] ELSE miners
      /\ rewards' = IF step = 2 THEN [rewards EXCEPT ![o] = @ + i] ELSE rewards
      /\ lastSeen' = IF step = 3 THEN [lastSeen EXCEPT ![o] = i] ELSE lastSeen
      /\ lastHeight' = IF step = 4 THEN [lastHeight EXCEPT ![o] = i] ELSE lastHeight
      /\ rank' = IF step = 5 THEN [rank EXCEPT ![o] = @ + 1] ELSE rank
  BY WriteNextRedis
<1>2. \A k \in Commands, m \in Miners :
        Written'[k][m] = IF k = step /\ m = o THEN Written[k][m] \cup {i} ELSE Written[k][m]
  BY WriteNextWritten
<1> HIDE DEF i, o
<1>3. ASSUME NEW k \in Commands, NEW m \in Miners
      PROVE  /\ Cardinality(Written[k][m]) \in Nat /\ SumSet(Written[k][m]) \in Nat
             /\ Cardinality(Written'[k][m]) \in Nat /\ SumSet(Written'[k][m]) \in Nat
             /\ k = step /\ m = o =>
                  /\ Cardinality(Written'[k][m]) <= Cardinality(Written[k][m]) + 1
                  /\ SumSet(Written'[k][m]) <= SumSet(Written[k][m]) + i
             /\ ~(k = step /\ m = o) => Written'[k][m] = Written[k][m]
  <2>1. /\ Len(chain) \in Nat /\ Written[k][m] \in SUBSET (1 .. Len(chain)) /\ i \in Nat
        /\ Cardinality(Written[k][m]) \in Nat /\ SumSet(Written[k][m]) \in Nat
    BY <1>1, WrittenIsFinite
  <2>2. CASE k = step /\ m = o /\ i \notin Written[k][m]
    <3>1. /\ Cardinality(Written[k][m] \cup {i}) = Cardinality(Written[k][m]) + 1
          /\ SumSet(Written[k][m] \cup {i}) = SumSet(Written[k][m]) + i
      BY ZenonT(30), <1>1, <2>1, <2>2, SumFacts, CountFacts
    <3>2. Written'[k][m] = Written[k][m] \cup {i}
      BY <1>2, <2>2
    <3>3. /\ Cardinality(Written'[k][m]) = Cardinality(Written[k][m]) + 1
          /\ SumSet(Written'[k][m]) = SumSet(Written[k][m]) + i
      BY <3>1, <3>2
    <3> QED BY <2>1, <2>2, <3>3
  <2>3. CASE ~(k = step /\ m = o /\ i \notin Written[k][m])
    <3>1. Written'[k][m] = Written[k][m]
      BY <1>2, <2>3
    <3> QED BY <2>1, <3>1
  <2> QED BY <2>2, <2>3
<1>4. {miners, rewards, lastSeen, lastHeight, rank} \subseteq [Miners -> Nat] /\ i \in Nat \ {0}
  BY <1>1 DEF AtLeast, Keys
<1>5. Keys'
  BY KeysWritten DEF AtLeast
<1>6. ASSUME NEW m \in Miners
      PROVE  /\ miners'[m] >= Cardinality(Written'[1][m])
             /\ rewards'[m] >= SumSet(Written'[2][m])
             /\ Written'[3][m] # {} => lastSeen'[m] # 0
             /\ Written'[4][m] # {} => lastHeight'[m] # 0
             /\ rank'[m] >= Cardinality(Written'[5][m])
  <2>1. \A k \in {1, 2, 3, 4, 5} : k \in Commands
    BY DEF Commands
  <2>2. /\ miners[m] \in Nat /\ rewards[m] \in Nat /\ rank[m] \in Nat
        /\ miners[m] >= Cardinality(Written[1][m])
        /\ rewards[m] >= SumSet(Written[2][m])
        /\ Written[3][m] # {} => lastSeen[m] # 0
        /\ Written[4][m] # {} => lastHeight[m] # 0
        /\ rank[m] >= Cardinality(Written[5][m])
    BY <1>4 DEF AtLeast
  <2>3. miners'[m] >= Cardinality(Written'[1][m])
    <3>1. CASE step = 1 /\ m = o
      <4>1. Cardinality(Written'[1][m]) <= Cardinality(Written[1][m]) + 1 /\ miners'[m] = miners[m] + 1
        BY <1>1, <1>3, <1>4, <2>1, <3>1
      <4>2. Cardinality(Written'[1][m]) \in Nat /\ Cardinality(Written[1][m]) \in Nat
        BY <1>3, <2>1
      <4> QED BY <1>4, <2>2, <4>1, <4>2
    <3>2. CASE ~(step = 1 /\ m = o)
      <4>1. Cardinality(Written'[1][m]) = Cardinality(Written[1][m]) /\ miners'[m] = miners[m]
        BY <1>1, <1>3, <1>4, <2>1, <3>2
      <4> QED BY <2>2, <4>1
    <3> QED BY <3>1, <3>2
  <2>4. rewards'[m] >= SumSet(Written'[2][m])
    <3>1. CASE step = 2 /\ m = o
      <4>1. SumSet(Written'[2][m]) <= SumSet(Written[2][m]) + i /\ rewards'[m] = rewards[m] + i
        BY <1>1, <1>3, <1>4, <2>1, <3>1
      <4>2. SumSet(Written'[2][m]) \in Nat /\ SumSet(Written[2][m]) \in Nat
        BY <1>3, <2>1
      <4> QED BY <1>4, <2>2, <4>1, <4>2
    <3>2. CASE ~(step = 2 /\ m = o)
      <4>1. SumSet(Written'[2][m]) = SumSet(Written[2][m]) /\ rewards'[m] = rewards[m]
        BY <1>1, <1>3, <1>4, <2>1, <3>2
      <4> QED BY <2>2, <4>1
    <3> QED BY <3>1, <3>2
  <2>5. (Written'[3][m] # {} => lastSeen'[m] # 0) /\ (Written'[4][m] # {} => lastHeight'[m] # 0)
    BY <1>1, <1>2, <1>4, <2>1, <2>2
  <2>6. rank'[m] >= Cardinality(Written'[5][m])
    <3>1. CASE step = 5 /\ m = o
      <4>1. Cardinality(Written'[5][m]) <= Cardinality(Written[5][m]) + 1 /\ rank'[m] = rank[m] + 1
        BY <1>1, <1>3, <1>4, <2>1, <3>1
      <4>2. Cardinality(Written'[5][m]) \in Nat /\ Cardinality(Written[5][m]) \in Nat
        BY <1>3, <2>1
      <4> QED BY <1>4, <2>2, <4>1, <4>2
    <3>2. CASE ~(step = 5 /\ m = o)
      <4>1. Cardinality(Written'[5][m]) = Cardinality(Written[5][m]) /\ rank'[m] = rank[m]
        BY <1>1, <1>3, <1>4, <2>1, <3>2
      <4> QED BY <2>2, <4>1
    <3> QED BY <3>1, <3>2
  <2> QED BY <2>3, <2>4, <2>5, <2>6
<1> QED BY <1>5, <1>6 DEF AtLeast

LEMMA AtLeastOfNothing ==
  Keys /\ (\A k \in Commands, m \in Miners : Written[k][m] = {}) => AtLeast
<1> SUFFICES ASSUME Keys, \A k \in Commands, m \in Miners : Written[k][m] = {} PROVE AtLeast
  OBVIOUS
<1>1. Cardinality({}) = 0 /\ SumSet({}) = 0
  BY FS_EmptySet, SumOfNone
<1>2. ASSUME NEW m \in Miners
      PROVE  /\ miners[m] >= Cardinality(Written[1][m]) /\ rewards[m] >= SumSet(Written[2][m])
             /\ Written[3][m] = {} /\ Written[4][m] = {}
             /\ rank[m] >= Cardinality(Written[5][m])
  <2>1. miners[m] \in Nat /\ rewards[m] \in Nat /\ rank[m] \in Nat
    BY DEF Keys
  <2>2. /\ Written[1][m] = {} /\ Written[2][m] = {} /\ Written[3][m] = {}
        /\ Written[4][m] = {} /\ Written[5][m] = {}
    BY DEF Commands
  <2>3. /\ Cardinality(Written[1][m]) = 0 /\ SumSet(Written[2][m]) = 0
        /\ Cardinality(Written[5][m]) = 0
    BY <1>1, <2>2
  <2> QED BY <2>1, <2>2, <2>3
<1> QED BY <1>2 DEF AtLeast

\* A wipe that removes the cursor leaves nothing that Redis owes.
LEMMA WipePasses ==
  ASSUME Control, Keys, mode = "down", NEW keys, WipeAggregator(keys), chain' = chain,
         batch' = batch, before' = before, mode' \in {"down", "backfill", "check"}
  PROVE  /\ Keys' /\ cursor' \in {0, cursor} /\ blocksByHeight' = blocksByHeight
         /\ ~halfWiped' => cursor' = 0 \/ (~halfWiped /\ UNCHANGED <<miners, rewards, lastSeen, lastHeight, rank, cursor>>)
         /\ batch = {} /\ batch' = {} /\ Past = {} /\ Past' = {}
         /\ cursor' = 0 => AtLeast'
<1>1. Nobody \in [Miners -> Nat]
  BY DEF Nobody
<1>2. Keys' /\ cursor' \in {0, cursor} /\ blocksByHeight' = blocksByHeight
  BY <1>1 DEF WipeAggregator, Keys
<1>3. batch = {} /\ batch' = {} /\ Past = {} /\ Past' = {}
  BY DEF Control, Past
<1>4. ASSUME ~halfWiped', cursor' # 0
      PROVE  ~halfWiped /\ UNCHANGED <<miners, rewards, lastSeen, lastHeight, rank, cursor>>
  <2>1. halfWiped' = (halfWiped \/ keys \ {"recent"} # {})
    BY <1>4 DEF WipeAggregator
  <2>2. ~halfWiped /\ keys \subseteq {"recent"}
    BY <1>4, <2>1
  <2> QED BY <2>2 DEF WipeAggregator
<1>5. ASSUME cursor' = 0 PROVE AtLeast'
  <2>1. Written' = AtRest(0, chain)
    BY <1>3, <1>5, WrittenAtRestNext
  <2>2. \A k \in Commands, m \in Miners : Written'[k][m] = {}
    BY <2>1 DEF AtRest
  <2>3. (Keys /\ (\A k \in Commands, m \in Miners : Written[k][m] = {}) => AtLeast)'
    BY AtLeastOfNothing, PTL
  <2> QED BY <1>2, <2>2, <2>3
<1> QED BY <1>2, <1>3, <1>4, <1>5

LEMMA KeysInductive ==
  ASSUME Control, Keys, [Next]_vars, ~Swallowed'
  PROVE  Keys'
<1>1. \A kind : Fault(kind) => (kind \in {"write", "parse"} => Swallowed')
  BY FaultsAdd DEF Control
<1>2. ASSUME UNCHANGED <<miners, rewards, lastSeen, lastHeight, rank>> PROVE Keys'
  BY <1>2 DEF Keys
<1>3. ASSUME NEW keys, WipeAggregator(keys) PROVE Keys'
  <2>1. Nobody \in [Miners -> Nat]
    BY DEF Nobody
  <2> QED BY <1>3, <2>1 DEF WipeAggregator, Keys
<1>4. ASSUME NEW wipe \in BOOLEAN, NEW fails \in BOOLEAN, Start(wipe, fails) PROVE Keys'
  <2>1. CASE wipe
    BY <1>3, <1>4, <2>1 DEF Start
  <2>2. CASE ~wipe
    BY <1>2, <1>4, <2>2 DEF Start, redis, aggregate
  <2> QED BY <2>1, <2>2
<1>5. CASE WriteNext
  BY <1>5, KeysWritten
<1>6. CASE WipeDies
  BY <1>3, <1>6 DEF WipeDies
<1>7. ~TickDoneFails /\ ~\E applied \in BOOLEAN : WriteFails(applied)
  BY <1>1 DEF TickDoneFails, WriteFails
<1>8. ASSUME UNCHANGED vars \/ WalkPage \/ MigrateDone \/ MigrateWrite \/ Crash PROVE Keys'
  BY <1>2, <1>8 DEF vars, redis, aggregate, WalkPage, MigrateDone, MigrateWrite, Crash, Apply
<1>9. ASSUME NEW x, \/ Append1(x) \/ BackfillDone(x) \/ TickDone(x) \/ Check(x)
                    \/ UpdateState(x) \/ Tick(x) \/ TickEnds(x) \/ ParseBatch(x)
      PROVE  Keys'
  BY <1>2, <1>9 DEF Append1, BackfillDone, TickDone, Check, UpdateState, Tick, TickEnds,
                    ParseBatch, redis, aggregate, recordKeys
<1> QED BY <1>4, <1>5, <1>6, <1>7, <1>8, <1>9 DEF Next, Run

LEMMA AtLeastInductive ==
  ASSUME Paced, Control, Pacing, Keys, halfWiped \/ AtLeast, [Next]_vars, Control',
         ~Swallowed', ~halfWiped'
  PROVE  AtLeast'
<1>1. \A kind : Fault(kind) => (kind \in {"write", "parse"} => Swallowed')
  BY FaultsAdd DEF Control
<1> DEFINE kept == UNCHANGED <<miners, rewards, lastSeen, lastHeight, rank>>
<1>2. ASSUME kept, ~halfWiped, \A k \in Commands, m \in Miners : Written'[k][m] \subseteq Written[k][m]
      PROVE  AtLeast'
  BY <1>2, AtLeastKept
<1>3. ASSUME kept, ~halfWiped, Written' = Written PROVE AtLeast'
  BY <1>2, <1>3
<1>4. CASE UNCHANGED vars
  <2>1. Written' = Written
    BY <1>4 DEF vars, redis, process, walk, Written, Through, InHand, Past
  <2> QED BY <1>3, <1>4, <2>1 DEF vars, redis, aggregate, history
<1>5. ASSUME NEW w \in Miners \cup {NoBlock}, Append1(w) PROVE AtLeast'
  BY <1>3, <1>5, AppendPasses DEF Append1, redis, aggregate, history
<1>6. ASSUME mode = "down", UNCHANGED <<chain, before, batch>>, mode' \in {"down", "backfill", "check"},
             \/ \E keys : WipeAggregator(keys)
             \/ UNCHANGED redis /\ UNCHANGED halfWiped
      PROVE  AtLeast'
  <2>1. CASE UNCHANGED redis /\ UNCHANGED halfWiped
    <3>1. batch = {} /\ batch' = {} /\ Past = {} /\ Past' = {}
      BY <1>6 DEF Control, Past
    <3>2. Written' = Written
      BY <1>6, <2>1, <3>1, QuietSteps DEF redis, Control
    <3> QED BY <1>3, <2>1, <3>2 DEF redis, aggregate
  <2>2. ASSUME NEW keys, WipeAggregator(keys) PROVE AtLeast'
    <3>1. /\ cursor' = 0 \/ (~halfWiped /\ kept /\ cursor' = cursor)
          /\ batch = {} /\ batch' = {} /\ Past = {} /\ Past' = {}
          /\ cursor' = 0 => AtLeast'
      BY <1>6, <2>2, WipePasses
    <3>2. ASSUME ~halfWiped, kept, cursor' = cursor PROVE AtLeast'
      <4>1. Written' = Written
        BY <1>6, <3>1, <3>2, QuietSteps DEF Control
      <4> QED BY <1>3, <3>2, <4>1
    <3> QED BY <3>1, <3>2
  <2> QED BY <1>6, <2>1, <2>2
<1>7. ASSUME NEW wipe \in BOOLEAN, NEW fails \in BOOLEAN, Start(wipe, fails) PROVE AtLeast'
  BY <1>6, <1>7 DEF Start, walk
<1>8. CASE WipeDies
  BY <1>6, <1>8 DEF WipeDies, process, walk
<1>9. CASE WalkPage
  BY <1>3, <1>9, WalkPagePasses DEF WalkPage, redis, aggregate, history
<1>10. ASSUME NEW hour, BackfillDone(hour) \/ TickDone(hour) PROVE AtLeast'
  <2>1. kept /\ ~halfWiped
    BY <1>10 DEF BackfillDone, TickDone, recordKeys, history
  <2> QED BY <1>3, <1>10, <2>1, EndPasses
<1>11. ASSUME NEW fails, Check(fails) \/ UpdateState(fails) \/ TickEnds(fails) \/ MigrateDone
       PROVE  AtLeast'
  <2>1. /\ chain' = chain /\ cursor' = cursor /\ batch' = batch /\ batch = {}
        /\ mode \in {"check", "idle", "poll", "migrate"} /\ mode' \in {"migrate", "idle", "poll"}
    BY <1>11 DEF Check, UpdateState, TickEnds, MigrateDone, PageDone, redis, Control
  <2>2. kept /\ ~halfWiped
    BY <1>11 DEF Check, UpdateState, TickEnds, MigrateDone, redis, aggregate, history
  <2>3. Past = {} /\ Past' = {}
    BY <2>1 DEF Past
  <2>4. Written' = Written
    BY <2>1, <2>3, QuietSteps DEF Control
  <2> QED BY <1>3, <2>2, <2>4
<1>12. ASSUME NEW fails \in BOOLEAN, Tick(fails) PROVE AtLeast'
  BY <1>3, <1>12, TickPasses DEF Tick, redis, aggregate, history
<1>13. ASSUME NEW lost, ParseBatch(lost) PROVE AtLeast'
  <2>1. lost = {}
    BY <1>1, <1>13 DEF ParseBatch, FaultIf
  <2> QED BY <1>3, <1>13, <2>1, ParsePasses DEF ParseBatch, redis, aggregate, history
<1>14. CASE WriteNext
  <2>1. ~halfWiped
    BY <1>14 DEF WriteNext, history
  <2> QED BY <1>14, <2>1, AtLeastWritten
<1>15. CASE MigrateWrite
  <2>1. kept /\ ~halfWiped
    BY <1>15 DEF MigrateWrite, Apply, history
  <2> QED BY <1>3, <1>15, <2>1, MigratePasses
<1>16. CASE Crash
  <2>1. /\ UNCHANGED <<chain, cursor>> /\ mode' = "down" /\ batch' = {} /\ kept /\ ~halfWiped
    BY <1>16 DEF Crash, redis, aggregate, history
  <2>2. Written' = AtRest(cursor, chain)
    BY <2>1, WrittenAtRestNext DEF Past
  <2>3. ASSUME NEW k \in Commands, NEW m \in Miners PROVE Written'[k][m] \subseteq Written[k][m]
    <3>1. Written[k][m] = {i \in Through \cup InHand(k) : chain[i] = m}
      BY WrittenIsWritten
    <3> QED BY <2>2, <3>1 DEF AtRest, Through
  <2> QED BY <1>2, <2>1, <2>3
<1>17. ~TickDoneFails /\ ~\E applied \in BOOLEAN : WriteFails(applied)
  BY <1>1 DEF TickDoneFails, WriteFails
<1> QED
  BY <1>4, <1>5, <1>7, <1>8, <1>9, <1>10, <1>11, <1>12, <1>13, <1>14, <1>15, <1>16, <1>17
  DEF Next, Run

-----------------------------------------------------------------------------
\* The block records.

LEMMA WrittenAlways ==
  Control => \A k \in Commands, m \in Miners :
               /\ Written[k][m] = {j \in Through \cup InHand(k) : chain[j] = m}
               /\ Through \cup InHand(k) \subseteq 1 .. Len(chain)
BY WrittenIsWritten

\* What leaves Written alone leaves the blocks alone that the process is through with.
LEMMA ThroughKept ==
  ASSUME Control, Control', Written' = Written
  PROVE  \A i \in Through' : Mined(i)' => i \in Through /\ Mined(i)
<1> SUFFICES ASSUME NEW i \in Through', Mined(i)' PROVE i \in Through /\ Mined(i)
  OBVIOUS
<1>1. 7 \in Commands /\ InHand(7) = {} /\ InHand(7)' = {}
  BY DEF InHand, Control, Commands
<1>2. (\A k \in Commands, m \in Miners :
         /\ Written[k][m] = {j \in Through \cup InHand(k) : chain[j] = m}
         /\ Through \cup InHand(k) \subseteq 1 .. Len(chain))'
  <2>1. (Control => \A k \in Commands, m \in Miners :
                     /\ Written[k][m] = {j \in Through \cup InHand(k) : chain[j] = m}
                     /\ Through \cup InHand(k) \subseteq 1 .. Len(chain))'
    BY WrittenAlways, PTL
  <2> QED BY <2>1
<1>3. i \in 1 .. Len(chain')
  <2>1. Miners # {} => i \in 1 .. Len(chain')
    BY <1>1, <1>2
  <2>2. Through' \subseteq 1 .. Len(chain')
    BY DEF Through, Past, Control
  <2> QED BY <2>2
<1>4. chain'[i] \in Miners
  <2>1. chain' \in Seq(Miners \cup {NoBlock}) /\ chain'[i] # NoBlock
    BY DEF Control, Mined
  <2> QED BY <1>3, <2>1
<1>5. i \in Written'[7][chain'[i]]
  BY <1>1, <1>2, <1>4
<1>6. i \in Written[7][chain'[i]]
  BY <1>5
<1>7. Written[7][chain'[i]] = {j \in Through \cup InHand(7) : chain[j] = chain'[i]}
  BY <1>1, <1>4, WrittenIsWritten
<1>8. i \in Through /\ chain[i] = chain'[i]
  BY <1>1, <1>6, <1>7
<1> QED BY <1>4, <1>8, IndexerAssumption DEF Mined

LEMMA RecordedKept ==
  ASSUME Recorded, blocksByHeight \subseteq blocksByHeight',
         \A i \in RecordDue' : Mined(i)' => (i \in RecordDue /\ Mined(i)) \/ i \in blocksByHeight'
  PROVE  Recorded'
BY DEF Recorded

\* Of a walk that is over, every page is recorded.
LEMMA WalkedThrough ==
  ASSUME Control, mode \in {"backfill", "migrate"}, PageDone, short
  PROVE  Walked = 1 .. newestSig /\ unmigrated <= newestSig
<1>1. before = 1 /\ batch = {} /\ next > last /\ next \in Nat /\ last \in Nat /\ unmigrated <= newestSig
  BY DEF Control, PageDone
<1>2. next .. last = {}
  BY <1>1
<1> QED BY <1>1, <1>2 DEF Walked

\* A page that a walk begins is still to be recorded.
LEMMA WalkedOn ==
  ASSUME Control, WalkPage
  PROVE  Walked' = Walked
<1> DEFINE high == IF before = 0 THEN Len(chain) ELSE before - 1
<1>0. /\ Len(chain) \in Nat /\ newestSig \in Nat /\ last \in Nat /\ next \in Nat /\ before \in Nat
  BY DEF Control
<1>1. /\ UNCHANGED <<mode, batch>> /\ mode \in {"backfill", "migrate"}
      /\ batch = {} /\ next > last /\ TakePage(0, high)
      /\ newestSig' = IF before = 0 THEN high ELSE newestSig
      /\ before' = next'
  BY DEF WalkPage, PageDone
<1>2. high \in Nat /\ 0 <= high
  BY <1>0, <1>1 DEF Control
<1>3. next' \in Nat \ {0} /\ last' = high /\ next' <= high + 1
  BY <1>1, <1>2, PageFits
<1>4. Walked' = (before' .. newestSig') \ (next' .. last')
  BY <1>1, <1>3 DEF Walked
<1>5. CASE before = 0
  <2>1. Walked = {}
    BY <1>5 DEF Walked
  <2> QED BY <1>1, <1>3, <1>4, <1>5, <2>1
<1>6. CASE before # 0
  <2>1. Walked = (before .. newestSig) \ (next .. last)
    BY <1>1, <1>6 DEF Walked
  <2>2. before <= newestSig + 1 /\ next' <= before /\ last' = before - 1 /\ newestSig' = newestSig
    BY <1>0, <1>1, <1>3, <1>6 DEF Control
  <2>3. next .. last = {}
    BY <1>0, <1>1
  <2> QED BY <1>0, <1>1, <1>3, <1>4, <2>1, <2>2, <2>3
<1> QED BY <1>5, <1>6

LEMMA WalkedParses ==
  ASSUME Control, NEW lost, ParseBatch(lost), lost = {}
  PROVE  \A i \in Walked' : Mined(i)' => i \in Walked /\ Mined(i)
<1> DEFINE through == IF next + BATCH_SIZE - 1 > last THEN last ELSE next + BATCH_SIZE - 1
<1>0. /\ newestSig \in Nat /\ last \in Nat /\ next \in Nat \ {0} /\ before \in Nat
      /\ BATCH_SIZE \in Nat \ {0}
  BY IndexerAssumption DEF Control
<1>1. /\ UNCHANGED <<chain, mode, newestSig, before, last>> /\ next <= last /\ batch = {}
      /\ batch' = {i \in next .. through : Mined(i)} /\ next' = through + 1
  BY DEF ParseBatch
<1>2. through \in Nat /\ next <= through /\ through <= last
  BY <1>0, <1>1
<1> HIDE DEF through
<1> SUFFICES ASSUME NEW i \in Walked', Mined(i)' PROVE i \in Walked /\ Mined(i)
  OBVIOUS
<1>3. /\ mode \in {"backfill", "migrate"} /\ before # 0
      /\ i \in before .. newestSig /\ i \notin through + 1 .. last /\ i \notin batch' /\ Mined(i)
  BY <1>1 DEF Walked, Mined
<1>4. i \notin next .. last
  BY <1>0, <1>1, <1>2, <1>3
<1> QED BY <1>1, <1>3, <1>4 DEF Walked

LEMMA WalkedWrites ==
  ASSUME Control, UNCHANGED <<mode, newestSig, before, next, last>>,
         batch' \in {batch, batch \ {Min(batch)}}
  PROVE  \A i \in Walked' : i \in Walked \/ (batch' # batch /\ i = Min(batch))
BY DEF Walked

LEMMA RecordedInductive ==
  ASSUME Paced, Control, Pacing, Recorded, [Next]_vars, Control', ~Swallowed'
  PROVE  Recorded'
<1>1. \A kind : Fault(kind) => (kind \in {"write", "parse"} => Swallowed')
  BY FaultsAdd DEF Control
<1> DEFINE grows == blocksByHeight \subseteq blocksByHeight'
<1>2. ASSUME grows, unmigrated' = unmigrated,
             \A i \in Through' : Mined(i)' => (i \in Through /\ Mined(i)) \/ i \in blocksByHeight',
             \A i \in Walked' : Mined(i)' => (i \in Walked /\ Mined(i)) \/ i \in blocksByHeight'
      PROVE  Recorded'
  BY <1>2, RecordedKept DEF RecordDue
<1>3. ASSUME grows, unmigrated' = unmigrated, Written' = Written,
             \A i \in Walked' : Mined(i)' => i \in Walked /\ Mined(i)
      PROVE  Recorded'
  BY <1>2, <1>3, ThroughKept
<1>4. CASE UNCHANGED vars
  BY <1>2, <1>4 DEF vars, redis, process, walk, history, Through, Past, Walked, Mined
<1>5. ASSUME NEW w \in Miners \cup {NoBlock}, Append1(w) PROVE Recorded'
  <2>1. \A i \in 1 .. Len(chain) : chain'[i] = chain[i]
    BY <1>5 DEF Append1, Control
  <2>2. /\ UNCHANGED <<newestSig, before, next, last, mode, batch, unmigrated>> /\ grows
    BY <1>5 DEF Append1, redis, process, walk, history
  <2>3. Walked' = Walked
    BY <2>2 DEF Walked
  <2>4. Walked \subseteq 1 .. Len(chain)
    BY DEF Walked, Control
  <2>5. \A i \in Walked' : Mined(i)' => i \in Walked /\ Mined(i)
    BY <2>1, <2>3, <2>4 DEF Mined
  <2> QED BY <1>3, <1>5, <2>2, <2>5, AppendPasses
<1>6. ASSUME mode = "down", UNCHANGED <<chain, before, batch, unmigrated>>,
             mode' \in {"down", "backfill", "check"}, grows, cursor' \in {0, cursor}
      PROVE  Recorded'
  <2>1. batch = {} /\ batch' = {} /\ Past = {} /\ Past' = {} /\ Walked' = {}
    BY <1>6 DEF Control, Past, Walked
  <2>2. Through' \subseteq Through
    BY <1>6, <2>1 DEF Through, Control
  <2> QED BY <1>2, <1>6, <2>1, <2>2 DEF Mined
<1>7. ASSUME NEW wipe \in BOOLEAN, NEW fails \in BOOLEAN, Start(wipe, fails) PROVE Recorded'
  <2>1. grows /\ cursor' \in {0, cursor}
    BY <1>7 DEF Start, WipeAggregator, redis
  <2> QED BY <1>6, <1>7, <2>1 DEF Start, walk
<1>8. CASE WipeDies
  BY <1>6, <1>8 DEF WipeDies, WipeAggregator, process, walk
<1>9. CASE WalkPage
  <2>1. UNCHANGED <<chain, unmigrated>> /\ grows
    BY <1>9 DEF WalkPage, redis, history
  <2>2. \A i \in Walked' : Mined(i)' => i \in Walked /\ Mined(i)
    BY <1>9, <2>1, WalkedOn DEF Mined
  <2> QED BY <1>3, <1>9, <2>1, <2>2, WalkPagePasses
<1>10. ASSUME NEW hour, BackfillDone(hour) PROVE Recorded'
  <2>1. /\ UNCHANGED <<chain, batch, newestSig>> /\ grows /\ PageDone /\ short
        /\ mode = "backfill" /\ mode' = "check" /\ batch = {}
        /\ cursor' = IF newestSig # 0 THEN newestSig ELSE cursor
    BY <1>10 DEF BackfillDone, PageDone, recordKeys
  <2>2. Walked = 1 .. newestSig
    BY <2>1, WalkedThrough
  <2>3. cursor' = newestSig
    BY <2>1 DEF Control
  <2>4. Through' = 1 .. newestSig /\ Walked' = {}
    BY <2>1, <2>3 DEF Through, Past, Walked
  <2>5. \A i \in RecordDue' : i \in RecordDue
    BY <2>2, <2>4 DEF RecordDue
  <2> QED BY <2>1, <2>5, RecordedKept DEF Mined
<1>11. CASE MigrateDone
  <2>1. /\ UNCHANGED <<chain, cursor, batch>> /\ grows /\ PageDone /\ short
        /\ mode = "migrate" /\ mode' = "idle" /\ batch = {}
    BY <1>11 DEF MigrateDone, PageDone, redis
  <2>2. Walked = 1 .. newestSig /\ unmigrated <= newestSig
    BY <2>1, WalkedThrough
  <2>3. Through = 1 .. cursor /\ Through' = 1 .. cursor /\ Walked' = {}
    BY <2>1 DEF Through, Past, Walked
  <2>4. unmigrated \in Nat /\ newestSig \in Nat /\ cursor \in Nat
    BY DEF Control
  <2>5. \A i \in RecordDue' : i \in RecordDue
    BY <2>2, <2>3, <2>4 DEF RecordDue
  <2> QED BY <2>1, <2>5, RecordedKept DEF Mined
<1>12. ASSUME NEW fails, Check(fails) \/ UpdateState(fails) \/ TickEnds(fails) PROVE Recorded'
  <2>1. /\ UNCHANGED <<chain, cursor, batch, before, unmigrated>> /\ grows
        /\ mode \in {"check", "idle", "poll"} /\ mode' \in {"migrate", "idle", "poll"}
    BY <1>12 DEF Check, UpdateState, TickEnds, redis, walk, history
  <2>2. before = 0
    BY <2>1 DEF Control
  <2>3. Through' = Through /\ Walked' = {}
    BY <2>1, <2>2 DEF Through, Past, Walked
  <2> QED BY <1>2, <2>1, <2>3 DEF Mined
<1>13. ASSUME NEW fails \in BOOLEAN, Tick(fails) PROVE Recorded'
  <2>1. UNCHANGED <<chain, unmigrated>> /\ grows /\ mode' = "tick"
    BY <1>13 DEF Tick, redis, history
  <2>2. Walked' = {}
    BY <2>1 DEF Walked
  <2> QED BY <1>3, <1>13, <2>1, <2>2, TickPasses
<1>14. ASSUME NEW hour, TickDone(hour) PROVE Recorded'
  <2>1. UNCHANGED <<chain, unmigrated>> /\ grows /\ mode' = "idle"
    BY <1>14 DEF TickDone, recordKeys, history
  <2>2. Walked' = {}
    BY <2>1 DEF Walked
  <2> QED BY <1>3, <1>14, <2>1, <2>2, EndPasses
<1>15. ASSUME NEW lost, ParseBatch(lost) PROVE Recorded'
  <2>1. lost = {} /\ UNCHANGED <<chain, unmigrated>> /\ grows
    BY <1>1, <1>15 DEF ParseBatch, FaultIf, redis, history
  <2>2. \A i \in Walked' : Mined(i)' => i \in Walked /\ Mined(i)
    BY <1>15, <2>1, WalkedParses
  <2> QED BY <1>3, <1>15, <2>1, <2>2, ParsePasses
<1>16. CASE WriteNext
  <2> DEFINE i == Min(batch)
  <2>1. /\ UNCHANGED <<chain, cursor, mode, newestSig, before, next, last, unmigrated>>
        /\ batch' \in {batch, batch \ {Min(batch)}}
    BY <1>16, WritingSteps
  <2>2. grows /\ step \in Commands /\ (step = 7 => i \in blocksByHeight')
    BY <1>16, WriteNextRedis
  <2>3. step # 7 => batch' = batch
    BY <1>16 DEF WriteNext, Writes
  <2>4. \A j \in Through' : j \in Through \/ (batch' # batch /\ j = i)
    BY <2>1 DEF Through, Past
  <2>5. \A j \in Walked' : j \in Walked \/ (batch' # batch /\ j = i)
    BY <2>1, WalkedWrites
  <2> HIDE DEF i
  <2> QED BY <1>2, <2>1, <2>2, <2>3, <2>4, <2>5 DEF Mined
<1>17. CASE MigrateWrite
  <2> DEFINE i == Min(batch)
  <2>1. /\ UNCHANGED <<chain, cursor, mode, newestSig, before, next, last, unmigrated>>
        /\ batch' \in {batch, batch \ {Min(batch)}}
    BY <1>17, WritingSteps
  <2>2. grows /\ i \in blocksByHeight'
    BY <1>17 DEF MigrateWrite, Apply
  <2>3. \A j \in Through' : j \in Through \/ j = i
    BY <2>1 DEF Through, Past
  <2>4. \A j \in Walked' : j \in Walked \/ j = i
    BY <2>1, WalkedWrites
  <2> HIDE DEF i
  <2> QED BY <1>2, <2>1, <2>2, <2>3, <2>4 DEF Mined
<1>18. CASE Crash
  <2>1. /\ UNCHANGED <<chain, cursor, unmigrated>> /\ mode' = "down" /\ batch' = {} /\ grows
    BY <1>18 DEF Crash, redis, history
  <2>2. Through' \subseteq Through /\ Walked' = {}
    BY <2>1 DEF Through, Past, Walked
  <2> QED BY <1>2, <2>1, <2>2 DEF Mined
<1>19. ~TickDoneFails /\ ~\E applied \in BOOLEAN : WriteFails(applied)
  BY <1>1 DEF TickDoneFails, WriteFails
<1> QED
  BY <1>4, <1>5, <1>7, <1>8, <1>9, <1>10, <1>11, <1>12, <1>13, <1>14, <1>15, <1>16, <1>17,
     <1>18, <1>19 DEF Next, Run

LEMMA SkipInvInductive ==
  ASSUME Paced, SkipInv, [Next]_vars
  PROVE  SkipInv'
<1>1. Control /\ Pacing /\ Control'
  BY ControlInductive DEF SkipInv
<1>2. Pacing'
  BY <1>1, PacingInductive
<1>3. Swallowed => Swallowed'
  BY <1>1, FaultsAdd DEF Control
<1> SUFFICES ASSUME ~Swallowed' PROVE Keys' /\ Recorded' /\ (halfWiped' \/ AtLeast')
  BY <1>1, <1>2 DEF SkipInv
<1>4. Keys /\ Recorded /\ (halfWiped \/ AtLeast)
  BY <1>3 DEF SkipInv
<1>5. Keys' /\ Recorded'
  BY <1>1, <1>4, KeysInductive, RecordedInductive
<1>6. ASSUME ~halfWiped' PROVE AtLeast'
  BY <1>1, <1>4, <1>6, AtLeastInductive
<1> QED BY <1>5, <1>6

-----------------------------------------------------------------------------
\* What a version without block records has left behind.

LEMMA GreatestNatural ==
  ASSUME NEW n \in Nat, NEW T \in SUBSET (1 .. n), T # {}
  PROVE  Max(T) \in T /\ \A m \in T : m <= Max(T)
<1> DEFINE U == {k \in Nat : \E m \in T : m = n - k}
<1>1. U \in SUBSET Nat /\ U # {}
  <2>1. PICK m \in T : TRUE
    OBVIOUS
  <2>2. m \in 1 .. n
    BY <2>1
  <2>3. n - m \in U
    BY <2>2
  <2> QED BY <2>3
<1>2. PICK k \in U : \A j \in U : k <= j
  <2> HIDE DEF U
  <2> QED BY <1>1, LeastNatural
<1>3. PICK m \in T : m = n - k
  BY <1>2
<1>4. ASSUME NEW t \in T PROVE t <= m
  <2>1. t \in 1 .. n /\ m \in 1 .. n /\ n - t \in Nat
    OBVIOUS
  <2>2. n - t \in U
    BY <2>1
  <2>3. k <= n - t
    BY <1>2, <2>2
  <2> QED BY <1>2, <1>3, <2>1, <2>3
<1>5. \E x \in T : \A y \in T : x >= y
  <2>1. \A y \in T : m >= y
    BY <1>4
  <2> QED BY <2>1
<1>6. Max(T) \in T /\ \A y \in T : Max(T) >= y
  BY <1>5 DEF Max
<1> QED BY <1>6

LEMMA InitHistory ==
  ASSUME Init
  PROVE  /\ Control /\ Keys /\ Written = AtRest(cursor, chain)
         /\ \A m \in Miners : LET own == BlocksOf(m, cursor) IN
              /\ \A k \in Commands : Written[k][m] = own
              /\ own \in SUBSET (1 .. Len(chain))
              /\ miners[m] = Cardinality(own) /\ rewards[m] = SumSet(own) /\ rank[m] = Cardinality(own)
              /\ lastSeen[m] = lastHeight[m]
              /\ own # {} => lastHeight[m] \in own
              /\ \A i \in own : i <= lastHeight[m]
<1>1. chain \in Seq(Miners \cup {NoBlock}) /\ Len(chain) \in Nat /\ cursor \in 0 .. Len(chain)
  BY InitChain DEF Init
<1>2. Control
  <2>1. /\ newestSig = 0 /\ last = 0 /\ before = 0 /\ next = 1 /\ step = 1
        /\ mode = "down" /\ batch = {} /\ short \in BOOLEAN /\ ~short
        /\ unmigrated = cursor /\ halfWiped \in BOOLEAN
    BY DEF Init
  <2>2. faults \in [FaultKinds -> Nat]
    BY DEF Init
  <2> QED BY <1>1, <2>1, <2>2 DEF Control, Modes, Commands
<1>3. Written = AtRest(cursor, chain)
  BY WrittenAtRest DEF Init, Past
<1>4. ASSUME NEW m \in Miners
      PROVE  /\ \A k \in Commands : Written[k][m] = BlocksOf(m, cursor)
             /\ BlocksOf(m, cursor) \in SUBSET (1 .. Len(chain))
             /\ Cardinality(BlocksOf(m, cursor)) \in Nat /\ RewardsOf(m, cursor) \in Nat
             /\ NewestOf(BlocksOf(m, cursor)) \in Nat
             /\ BlocksOf(m, cursor) # {} => NewestOf(BlocksOf(m, cursor)) \in BlocksOf(m, cursor)
             /\ \A i \in BlocksOf(m, cursor) : i <= NewestOf(BlocksOf(m, cursor))
  <2> DEFINE own == BlocksOf(m, cursor)
  <2>1. \A k \in Commands : Written[k][m] = own
    BY <1>3 DEF AtRest, BlocksOf
  <2>2. own \in SUBSET (1 .. Len(chain))
    BY <1>1 DEF BlocksOf
  <2>3. RewardsOf(m, cursor) = SumSet(own)
    BY DEF RewardsOf
  <2> HIDE DEF own
  <2>4. Cardinality(own) \in Nat /\ SumSet(own) \in Nat
    BY <1>1, <2>2, CountFacts, SumFacts
  <2>5. CASE own = {}
    BY <2>1, <2>2, <2>3, <2>4, <2>5 DEF own, NewestOf
  <2>6. CASE own # {}
    <3>1. NewestOf(own) = Max(own)
      BY <2>6 DEF NewestOf
    <3>2. Max(own) \in own /\ \A i \in own : i <= Max(own)
      BY <1>1, <2>2, <2>6, GreatestNatural
    <3>3. Max(own) \in Nat
      <4>1. \A i \in own : i \in Nat
        BY <1>1, <2>2
      <4> QED BY <3>2, <4>1, Zenon
    <3>4. /\ NewestOf(own) \in Nat /\ NewestOf(own) \in own
          /\ \A i \in own : i <= NewestOf(own)
      BY <3>1, <3>2, <3>3
    <3> QED BY <2>1, <2>2, <2>3, <2>4, <3>4 DEF own
  <2> QED BY <2>5, <2>6
<1>5. /\ miners = [m \in Miners |-> Cardinality(BlocksOf(m, cursor))] /\ rank = miners
      /\ rewards = [m \in Miners |-> RewardsOf(m, cursor)]
      /\ lastSeen = [m \in Miners |-> NewestOf(BlocksOf(m, cursor))] /\ lastHeight = lastSeen
  BY DEF Init
<1>6. Keys
  <2>1. miners \in [Miners -> Nat] /\ rewards \in [Miners -> Nat]
    BY <1>4, <1>5
  <2>2. lastSeen \in [Miners -> Nat]
    BY <1>4, <1>5
  <2> QED BY <1>5, <2>1, <2>2 DEF Keys
<1>7. \A m \in Miners : RewardsOf(m, cursor) = SumSet(BlocksOf(m, cursor))
  BY DEF RewardsOf
<1>8. ASSUME NEW m \in Miners
      PROVE  /\ miners[m] = Cardinality(BlocksOf(m, cursor)) /\ rank[m] = Cardinality(BlocksOf(m, cursor))
             /\ rewards[m] = SumSet(BlocksOf(m, cursor))
             /\ lastSeen[m] = NewestOf(BlocksOf(m, cursor)) /\ lastHeight[m] = lastSeen[m]
  BY <1>5, <1>7
<1> QED BY <1>2, <1>3, <1>4, <1>6, <1>8

LEMMA InitSkipInv == Paced /\ Init => SkipInv
<1> SUFFICES ASSUME Paced, Init PROVE SkipInv
  OBVIOUS
<1>1. Control /\ Keys
  BY InitHistory
<1>2. Pacing
  <2>1. mode = "down" /\ (cursor # 0 => Len(chain) <= cursor + PAGE)
    BY DEF Init
  <2> QED BY <2>1 DEF Pacing
<1>3. AtLeast
  <2>1. ASSUME NEW m \in Miners
        PROVE  /\ miners[m] >= Cardinality(Written[1][m])
               /\ rewards[m] >= SumSet(Written[2][m])
               /\ Written[3][m] # {} => lastSeen[m] # 0
               /\ Written[4][m] # {} => lastHeight[m] # 0
               /\ rank[m] >= Cardinality(Written[5][m])
    <3> DEFINE own == BlocksOf(m, cursor)
    <3>1. /\ \A k \in Commands : Written[k][m] = own
          /\ own \in SUBSET (1 .. Len(chain))
          /\ miners[m] = Cardinality(own) /\ rewards[m] = SumSet(own) /\ rank[m] = Cardinality(own)
          /\ lastSeen[m] = lastHeight[m]
          /\ own # {} => lastHeight[m] \in own
      BY InitHistory
    <3> HIDE DEF own
    <3>2. /\ Written[1][m] = own /\ Written[2][m] = own /\ Written[3][m] = own
          /\ Written[4][m] = own /\ Written[5][m] = own
      BY <3>1 DEF Commands
    <3>3. miners[m] \in Nat /\ rewards[m] \in Nat /\ rank[m] \in Nat
      BY <1>1 DEF Keys
    <3> QED BY <3>1, <3>2, <3>3
  <2> QED BY <1>1, <2>1 DEF AtLeast
<1>4. Recorded
  <2>1. Through = 1 .. cursor /\ Walked = {} /\ unmigrated = cursor
    BY DEF Init, Through, Past, Walked
  <2>2. cursor \in Nat
    BY <1>1 DEF Control
  <2> QED BY <2>1, <2>2 DEF Recorded, RecordDue
<1> QED BY <1>1, <1>2, <1>3, <1>4 DEF SkipInv

LEMMA SkipInvariance == Paced => (Spec => []SkipInv)
<1> SUFFICES ASSUME Paced PROVE Spec => []SkipInv
  OBVIOUS
<1>1. Init => SkipInv
  BY InitSkipInv
<1>2. SkipInv /\ [Next]_vars => SkipInv'
  BY SkipInvInductive
<1> QED BY <1>1, <1>2, PTL DEF Spec

\* As long as no more than a page of signatures comes in between two ticks, the
\* cursor never passes a block that is not fully written, however the process
\* crashes, and whatever reads fail; but for the calls whose failure is only logged,
\* for counts that a half-done wipe removed, and for the records that a migration
\* which was cut short has left out.
THEOREM NothingIsSkipped == Paced => (Spec => []NothingSkipped)
<1> SUFFICES ASSUME Paced PROVE Spec => []NothingSkipped
  OBVIOUS
<1>1. SkipInv => NothingSkipped
  <2> SUFFICES ASSUME SkipInv, mode = "idle", ~Swallowed
               PROVE  (~halfWiped => FullyCounted) /\ FullyRecorded
    BY DEF NothingSkipped
  <2>1. Control /\ Recorded /\ (halfWiped \/ AtLeast)
    BY DEF SkipInv
  <2>2. Written = AtRest(cursor, chain)
    BY <2>1, WrittenAtRest DEF Control, Past
  <2>3. ASSUME ~halfWiped, NEW m \in Miners
        PROVE  /\ miners[m] >= Cardinality(BlocksOf(m, cursor))
               /\ rewards[m] >= SumSet(BlocksOf(m, cursor))
               /\ rank[m] >= Cardinality(BlocksOf(m, cursor))
               /\ BlocksOf(m, cursor) # {} => lastHeight[m] # 0 /\ lastSeen[m] # 0
    <3>1. \A k \in Commands : Written[k][m] = BlocksOf(m, cursor)
      BY <2>2 DEF AtRest, BlocksOf
    <3>2. /\ Written[1][m] = BlocksOf(m, cursor) /\ Written[2][m] = BlocksOf(m, cursor)
          /\ Written[3][m] = BlocksOf(m, cursor) /\ Written[4][m] = BlocksOf(m, cursor)
          /\ Written[5][m] = BlocksOf(m, cursor)
      BY <3>1 DEF Commands
    <3> QED BY <2>1, <2>3, <3>2 DEF AtLeast
  <2>4. ~halfWiped => FullyCounted
    BY <2>3 DEF FullyCounted, RewardsOf
  <2>5. FullyRecorded
    <3>1. Through = 1 .. cursor
      BY <2>1 DEF Through, Past, Control
    <3>2. cursor \in Nat /\ unmigrated \in Nat
      BY <2>1 DEF Control
    <3> QED BY <2>1, <3>1, <3>2 DEF FullyRecorded, Recorded, RecordDue
  <2> QED BY <2>4, <2>5
<1> QED BY <1>1, SkipInvariance, PTL

-----------------------------------------------------------------------------
\* Without faults, what is written is exactly what is due.

\* The steps of a run without faults.
CleanStep ==
  \/ \E w \in Miners \cup {NoBlock} : Append1(w)
  \/ \E wipe \in BOOLEAN : Start(wipe, FALSE)
  \/ WalkPage \/ ParseBatch({}) \/ WriteNext \/ MigrateWrite \/ MigrateDone
  \/ \E hour : BackfillDone(hour) \/ TickDone(hour)
  \/ Check({}) \/ UpdateState(FALSE) \/ Tick(FALSE) \/ TickEnds(FALSE)
  \/ UNCHANGED vars

LEMMA CleanSteps ==
  ASSUME Control, [Next]_vars, Faultless'
  PROVE  CleanStep
<1>1. \A kind : ~Fault(kind)
  BY FaultsAdd DEF Control
<1>2. \A fails, kind : FaultIf(fails, kind) => ~fails
  BY <1>1 DEF FaultIf
<1>3. \A wipe, fails \in BOOLEAN : Start(wipe, fails) => Start(wipe, FALSE)
  <2> SUFFICES ASSUME NEW wipe \in BOOLEAN, NEW fails \in BOOLEAN, Start(wipe, fails)
               PROVE  Start(wipe, FALSE)
    OBVIOUS
  <2>1. ~fails
    BY <1>2 DEF Start
  <2>2. fails = FALSE
    BY <2>1
  <2> QED BY <2>2
<1>4. ASSUME NEW fails \in BOOLEAN, UpdateState(fails) \/ Tick(fails) \/ TickEnds(fails)
      PROVE  UpdateState(FALSE) \/ Tick(FALSE) \/ TickEnds(FALSE)
  <2>1. ~fails
    BY <1>1, <1>2, <1>4 DEF UpdateState, Tick, TickEnds
  <2>2. fails = FALSE
    BY <2>1
  <2> QED BY <1>4, <2>2
<1>5. ASSUME NEW lost, ParseBatch(lost) PROVE ParseBatch({})
  <2>1. lost = {}
    BY <1>2, <1>5 DEF ParseBatch
  <2> QED BY <1>5, <2>1
<1>6. ASSUME NEW failed, Check(failed) PROVE Check({})
  <2>1. failed = {}
    BY <1>2, <1>6 DEF Check
  <2> QED BY <1>6, <2>1
<1>7. ~TickDoneFails /\ ~Crash /\ ~WipeDies /\ \A applied : ~WriteFails(applied)
  BY <1>1 DEF TickDoneFails, Crash, WipeDies, WriteFails
<1> QED BY <1>3, <1>4, <1>5, <1>6, <1>7 DEF Next, Run, CleanStep

LEMMA OnceInductive ==
  ASSUME SkipInv, Once, Exactly, CleanStep, [Next]_vars
  PROVE  Once'
<1>0. /\ Control /\ Pacing /\ Len(chain) \in Nat /\ cursor \in Nat /\ last \in Nat
      /\ next \in Nat \ {0} /\ snapshot \in Nat /\ snapshot <= Len(chain) /\ cursor <= Len(chain)
      /\ last <= Len(chain) /\ mode \in Modes /\ unmigrated \in Nat /\ unmigrated <= Len(chain)
      /\ \A i \in batch : i \in Nat \ {0} /\ i <= Len(chain) /\ i < next
  BY DEF SkipInv, Control, Once
<1>1. CASE UNCHANGED vars
  BY <1>1 DEF vars, redis, process, walk, history, Once, Mined
<1>2. ASSUME NEW w \in Miners \cup {NoBlock}, Append1(w) PROVE Once'
  <2>1. /\ Len(chain') = Len(chain) + 1 /\ \A i \in 1 .. Len(chain) : chain'[i] = chain[i]
        /\ UNCHANGED <<snapshot, cursor, blocksByHeight, mode, reindex, step, next, last, batch,
                       unmigrated>>
    BY <1>0, <1>2 DEF Append1, redis, process, walk, history, Control
  <2>2. batch # {} => next - 1 <= Len(chain)
    BY <1>0 DEF Control, Modes
  <2>3. \A b \in batch, i \in 1 .. next - 1 : i > b /\ Mined(i)' => i \in batch
    BY <1>0, <2>1, <2>2 DEF Once, Mined
  <2>4. \A i \in 1 .. unmigrated : Mined(i)' => Mined(i)
    BY <1>0, <2>1 DEF Mined
  <2> QED BY <1>0, <2>1, <2>3, <2>4 DEF Once
<1>3. ASSUME NEW wipe \in BOOLEAN, Start(wipe, FALSE) PROVE Once'
  <2>1. mode = "down" /\ blocksByHeight = {} /\ unmigrated <= cursor /\ snapshot = 0 /\ batch = {}
    BY <1>0, <1>3 DEF Start, Once, Control
  <2>2. /\ UNCHANGED <<chain, snapshot, blocksByHeight, batch, unmigrated>> /\ reindex' = wipe
        /\ mode' = IF cursor' = 0 THEN "backfill" ELSE "check"
        /\ cursor' = IF wipe THEN 0 ELSE cursor
    BY <1>3 DEF Start, WipeAggregator, AggregatorKeys, redis
  <2> QED BY <1>0, <2>1, <2>2 DEF Once
<1>4. CASE WalkPage
  <2>1. batch' = {} /\ UNCHANGED <<chain, snapshot, cursor, mode, step>> /\ mode \in {"backfill", "migrate"}
    BY <1>4 DEF WalkPage, PageDone, redis
  <2> QED BY <1>0, <2>1 DEF Once
<1>5. ASSUME NEW hour, BackfillDone(hour) PROVE Once'
  <2>1. batch' = {} /\ UNCHANGED <<chain, snapshot>> /\ mode = "backfill" /\ mode' = "check"
        /\ unmigrated' = 0
    BY <1>5 DEF BackfillDone, PageDone, recordKeys
  <2> QED BY <1>0, <2>1 DEF Once
<1>6. ASSUME NEW hour, TickDone(hour) PROVE Once'
  <2>1. /\ batch' = {} /\ UNCHANGED <<chain, snapshot, unmigrated>> /\ mode = "tick" /\ mode' = "idle"
        /\ cursor' = last
    BY <1>6 DEF TickDone, PageDone, recordKeys, history
  <2> QED BY <1>0, <2>1 DEF Once, Mined
<1>7. CASE Check({})
  <2>1. /\ mode = "check" /\ batch = {} /\ UNCHANGED <<chain, snapshot, cursor, batch, step, unmigrated>>
        /\ mode' \in {"migrate", "idle"}
    BY <1>0, <1>7 DEF Check, redis, history, Control
  <2>2. ASSUME mode' = "idle" PROVE \A i \in 1 .. unmigrated : ~Mined(i)
    <3> SUFFICES ASSUME unmigrated # 0 PROVE \A i \in 1 .. unmigrated : ~Mined(i)
      OBVIOUS
    <3>1. blocksByHeight = {} /\ ~reindex /\ unmigrated <= cursor
      BY <2>1 DEF Once
    <3>2. \A m \in Miners : ~(miners[m] > 0)
      BY <1>7, <2>2, <3>1 DEF Check
    <3>3. ASSUME NEW m \in Miners PROVE Written[1][m] = {}
      <4>1. 1 \in Commands
        BY DEF Commands
      <4>2. /\ Len(chain) \in Nat /\ Written[1][m] \in SUBSET (1 .. Len(chain))
            /\ Cardinality(Written[1][m]) \in Nat
        BY <1>0, <4>1, WrittenIsFinite
      <4>3. miners[m] = Cardinality(Written[1][m])
        BY Zenon DEF Exactly
      <4>4. ~(miners[m] > 0)
        BY <3>2
      <4>5. Cardinality(Written[1][m]) = 0
        BY <4>2, <4>3, <4>4
      <4>6. IsFiniteSet(1 .. Len(chain))
        BY <4>2, FS_Interval
      <4>7. IsFiniteSet(Written[1][m])
        BY <4>2, <4>6, FS_Subset
      <4> QED BY <4>5, <4>7, FS_EmptySet
    <3>4. 1 \in Commands /\ Written = AtRest(cursor, chain)
      BY <1>0, <2>1, WrittenAtRest DEF Past, Commands
    <3>5. \A m \in Miners : {i \in 1 .. cursor : chain[i] = m} = {}
      BY <3>3, <3>4 DEF AtRest
    <3>6. \A i \in 1 .. cursor : chain[i] \in Miners \cup {NoBlock}
      BY <1>0 DEF Control
    <3>7. \A i \in 1 .. cursor : ~Mined(i)
      BY <3>5, <3>6 DEF Mined
    <3> QED BY <1>0, <3>1, <3>7
  <2> QED BY <1>0, <2>1, <2>2 DEF Once, Mined
<1>8. CASE UpdateState(FALSE)
  <2>1. /\ snapshot' = Len(chain) /\ mode = "idle" /\ mode' = "poll"
        /\ UNCHANGED <<chain, cursor, batch, next, last, unmigrated>>
    BY <1>8 DEF UpdateState, walk, history
  <2> QED BY <1>0, <2>1 DEF Once, Mined
<1>9. CASE TickEnds(FALSE)
  <2>1. /\ UNCHANGED <<chain, snapshot, cursor, batch, next, last, unmigrated>> /\ cursor = Len(chain)
        /\ mode = "poll" /\ mode' = "idle"
    BY <1>9 DEF TickEnds, redis, walk, history
  <2> QED BY <1>0, <2>1 DEF Once, Mined
<1>10. CASE Tick(FALSE)
  <2>1. /\ UNCHANGED <<chain, snapshot, cursor, batch, unmigrated>> /\ mode = "poll" /\ mode' = "tick"
        /\ last' = Len(chain) /\ batch = {}
    BY <1>0, <1>10 DEF Tick, TakePage, redis, history, Control
  <2>2. cursor < next'
    BY <1>0, <1>10, TickPasses
  <2> QED BY <1>0, <2>1, <2>2 DEF Once, Mined
<1>11. CASE ParseBatch({})
  <2> DEFINE through == IF next + BATCH_SIZE - 1 > last THEN last ELSE next + BATCH_SIZE - 1
  <2>1. /\ UNCHANGED <<chain, snapshot, cursor, mode, last, unmigrated>> /\ next <= last /\ step' = 1
        /\ batch' = {i \in next .. through : Mined(i)} /\ next' = through + 1
    BY <1>11 DEF ParseBatch, redis, history
  <2>2. through \in Nat /\ next <= through
    BY <1>0, <2>1, IndexerAssumption
  <2> HIDE DEF through
  <2>3. mode \in {"tick", "backfill", "migrate"}
    BY <1>0, <2>1 DEF Control, Modes
  <2>4. mode # "migrate" => cursor < next
    BY <1>0, <2>3 DEF Once
  <2>5. mode # "migrate" => \A b \in batch' : b > cursor
    BY <1>0, <2>1, <2>4
  <2>6. \A b \in batch', i \in 1 .. next' - 1 : i > b /\ Mined(i) => i \in batch'
    BY <1>0, <2>1, <2>2
  <2>7. mode # "migrate" => cursor < next'
    BY <1>0, <2>1, <2>2, <2>4
  <2> QED BY <1>0, <2>1, <2>3, <2>5, <2>6, <2>7 DEF Once, Mined
<1>12. CASE WriteNext \/ MigrateWrite
  <2>1. /\ UNCHANGED <<chain, snapshot, cursor, mode, next, last, unmigrated>> /\ batch # {}
        /\ batch' \in {batch, batch \ {Min(batch)}} /\ \A i \in batch : Min(batch) <= i
        /\ Min(batch) \in batch
    <3>1. /\ UNCHANGED <<chain, snapshot, cursor, mode, next, last, unmigrated>> /\ batch # {}
          /\ batch' \in {batch, batch \ {Min(batch)}}
      BY <1>0, <1>12, WritingSteps
    <3> QED BY <1>0, <3>1, OldestOfBatch
  <2>2. \A b \in batch', i \in 1 .. next - 1 : i > b /\ Mined(i) => i \in batch'
    BY <1>0, <2>1 DEF Once
  <2>3. mode \in {"tick", "backfill", "migrate"} /\ (mode = "migrate" => step' = 1)
    BY <1>0, <1>12, <2>1 DEF Control, Modes, WriteNext, MigrateWrite, NextBlock
  <2> QED BY <2>1, <2>2, <2>3 DEF Once, Mined
<1>13. CASE MigrateDone
  <2>1. batch' = {} /\ UNCHANGED <<chain, snapshot, cursor>> /\ mode = "migrate" /\ mode' = "idle"
        /\ unmigrated' = 0
    BY <1>13 DEF MigrateDone, PageDone, redis
  <2> QED BY <1>0, <2>1 DEF Once
<1> QED
  BY <1>1, <1>2, <1>3, <1>4, <1>5, <1>6, <1>7, <1>8, <1>9, <1>10, <1>11, <1>12, <1>13 DEF CleanStep

\* Nothing is counted, and what is due stays the same.
LEMMA ExactlyKept ==
  ASSUME Control, Exactly, Written' = Written,
         UNCHANGED <<miners, rewards, lastSeen, lastHeight, rank>>,
         recent' \subseteq recent, blocksByHeight \subseteq blocksByHeight',
         \A i \in blocksByHeight' : i \in 1 .. Len(chain) /\ Mined(i),
         unmigrated' = unmigrated \/ \A i \in 1 .. unmigrated : Mined(i) => i \in blocksByHeight,
         Len(chain') \in Nat, Len(chain) <= Len(chain'),
         \A i \in 1 .. Len(chain) : chain'[i] = chain[i],
         \/ UNCHANGED <<batch, step>>
         \/ (batch = {} \/ step = 1) /\ (batch' = {} \/ step' = 1),
         newestSig' \in Nat,
         newestSig' >= newestSig \/ \A m \in Miners : Written[4][m] = {}
  PROVE  Exactly'
<1>1. /\ Len(chain) \in Nat /\ newestSig \in Nat
      /\ \A i \in blocksByHeight' \cup recent' : i \in 1 .. Len(chain) /\ Mined(i)
  BY DEF Control, Exactly
<1>2. \A i \in blocksByHeight' \cup recent' : i \in 1 .. Len(chain') /\ Mined(i)'
  BY <1>1 DEF Mined
<1>3. batch # {} => Min(batch) \in 1 .. Len(chain)
  BY OldestOfBatch DEF Control
<1>4. ASSUME NEW i \in recent'
      PROVE  \/ i \in blocksByHeight' \/ i \in 1 .. unmigrated'
             \/ (batch' # {} /\ step' = 7 /\ i = Min(batch'))
  <2>1. \/ i \in blocksByHeight \/ i \in 1 .. unmigrated
        \/ (batch # {} /\ step = 7 /\ i = Min(batch))
    BY <1>4 DEF Exactly
  <2>2. i \in 1 .. unmigrated => i \in blocksByHeight' \/ i \in 1 .. unmigrated'
    BY <1>1, <1>4
  <2> QED BY <2>1, <2>2
<1>5. ASSUME NEW m \in Miners
      PROVE  lastSeen'[m] = IF batch' # {} /\ step' = 4 /\ chain'[Min(batch')] = m
                            THEN Min(batch') ELSE lastHeight'[m]
  <2>1. CASE UNCHANGED <<batch, step>>
    <3>1. batch # {} => chain'[Min(batch)] = chain[Min(batch)]
      BY <1>3
    <3> QED BY <2>1, <3>1 DEF Exactly
  <2>2. CASE (batch = {} \/ step = 1) /\ (batch' = {} \/ step' = 1)
    BY <2>2 DEF Exactly
  <2> QED BY <2>1, <2>2
<1>6. ASSUME NEW m \in Miners
      PROVE  \A i \in Written'[4][m] : i > newestSig' => i <= lastHeight'[m]
  <2>1. CASE newestSig' >= newestSig
    <3>1. ASSUME NEW i \in Written[4][m], i > newestSig' PROVE i > newestSig
      <4>1. 4 \in Commands
        BY DEF Commands
      <4>2. i \in 1 .. Len(chain) /\ newestSig \in Nat
        BY <1>1, <4>1, WrittenIsWritten
      <4> QED BY <2>1, <3>1, <4>2
    <3> QED BY <3>1 DEF Exactly
  <2>2. CASE \A n \in Miners : Written[4][n] = {}
    BY <2>2
  <2> QED BY <2>1, <2>2
<1> QED BY <1>2, <1>4, <1>5, <1>6 DEF Exactly

\* A command adds the block in hand to a key that did not have it.
LEMMA ExactlyWritten ==
  ASSUME Control, Keys, Once, Exactly, WriteNext
  PROVE  Exactly'
<1> DEFINE i == Min(batch)
           o == chain[i]
<1>0. Control /\ batch # {} /\ i \in batch /\ \A j \in batch : i <= j
  BY OldestOfBatch DEF WriteNext
<1>1. /\ step \in Commands /\ i \in 1 .. Len(chain) /\ o \in Miners /\ UNCHANGED <<chain, cursor>>
      /\ miners' = IF step = 1 THEN [miners EXCEPT ![o] = @ + 1] ELSE miners
      /\ rewards' = IF step = 2 THEN [rewards EXCEPT ![o] = @ + i] ELSE rewards
      /\ lastSeen' = IF step = 3 THEN [lastSeen EXCEPT ![o] = i] ELSE lastSeen
      /\ lastHeight' = IF step = 4 THEN [lastHeight EXCEPT ![o] = i] ELSE lastHeight
      /\ rank' = IF step = 5 THEN [rank EXCEPT ![o] = @ + 1] ELSE rank
      /\ recent' = IF step = 6 THEN recent \cup {i} ELSE recent
      /\ blocksByHeight' = IF step = 7 THEN blocksByHeight \cup {i} ELSE blocksByHeight
  BY <1>0, WriteNextRedis
<1>2. \A k \in Commands, m \in Miners :
        Written'[k][m] = IF k = step /\ o = m THEN Written[k][m] \cup {i} ELSE Written[k][m]
  BY <1>0, WriteNextWritten
<1>3. IF step = 7 THEN batch' = batch \ {i} /\ step' = 1 ELSE batch' = batch /\ step' = step + 1
  BY DEF WriteNext, Writes, NextBlock
<1>4. newestSig' = newestSig /\ unmigrated' = unmigrated /\ mode # "migrate"
  BY DEF WriteNext, walk, history
<1>5. i \notin Written[step][o]
  <2>1. Written[step][o] \subseteq Through \cup InHand(step)
    BY <1>0, <1>1, WrittenIsWritten
  <2>2. InHand(step) = {}
    BY <1>1 DEF InHand, Commands
  <2>3. i > cursor /\ cursor \in Nat
    BY <1>0, <1>4 DEF Once, Control
  <2> QED BY <1>0, <2>1, <2>2, <2>3 DEF Through
<1>6. \A j \in Written[4][o] : step = 4 /\ j > newestSig => j <= i
  <2> SUFFICES ASSUME NEW j \in Written[4][o], step = 4, j > newestSig, i < j PROVE FALSE
    <3>1. 4 \in Commands
      BY DEF Commands
    <3>2. Written[4][o] \in SUBSET (1 .. Len(chain))
      BY <1>0, <1>1, <3>1, WrittenIsFinite
    <3> QED BY <1>1, <3>2
  <2>1. j \in Through /\ chain[j] = o /\ j \in 1 .. Len(chain)
    <3>1. 4 \in Commands /\ InHand(4) = {}
      BY DEF InHand, Commands
    <3> QED BY <1>0, <1>1, <3>1, WrittenIsWritten
  <2>2. j > cursor
    BY <1>0, <1>1, <1>4, <2>1 DEF Once, Control
  <2>3. j \in Past /\ j \notin batch
    BY <1>0, <2>1, <2>2 DEF Through, Control
  <2>4. mode = "tick"
    BY <1>0, <2>1, <2>3 DEF Past, Control
  <2>5. j \in 1 .. next - 1
    BY <2>3, <2>4 DEF Past
  <2>6. Mined(j)
    BY <1>1, <2>1, IndexerAssumption DEF Mined
  <2> QED BY <1>0, <2>3, <2>5, <2>6 DEF Once
<1>7. {miners, rewards, lastSeen, lastHeight, rank} \subseteq [Miners -> Nat] /\ i \in Nat \ {0}
  BY SMTT(30), <1>1 DEF Keys
<1>8. \A k \in {1, 2, 3, 4, 5} : k \in Commands
  BY DEF Commands
<1>9. ASSUME NEW k \in Commands, NEW m \in Miners, k = step, m = o
      PROVE  /\ Cardinality(Written'[k][m]) = Cardinality(Written[k][m]) + 1
             /\ SumSet(Written'[k][m]) = SumSet(Written[k][m]) + i
  <2>1. Len(chain) \in Nat /\ Written[k][m] \in SUBSET (1 .. Len(chain))
    BY <1>0, WrittenIsFinite
  <2>2. i \in 1 .. Len(chain) /\ i \notin Written[k][m] /\ Written'[k][m] = Written[k][m] \cup {i}
    BY <1>1, <1>2, <1>5, <1>9
  <2> HIDE DEF i, o
  <2> QED BY SMTT(30), <2>1, <2>2, SumFacts, CountFacts
<1> HIDE DEF i, o
<1>10. ASSUME NEW m \in Miners
       PROVE  /\ miners'[m] = Cardinality(Written'[1][m])
              /\ rewards'[m] = SumSet(Written'[2][m])
              /\ rank'[m] = Cardinality(Written'[5][m])
  <2>1. /\ miners[m] = Cardinality(Written[1][m])
        /\ rewards[m] = SumSet(Written[2][m])
        /\ rank[m] = Cardinality(Written[5][m])
    BY DEF Exactly
  <2>2. miners'[m] = Cardinality(Written'[1][m])
    <3>1. CASE step = 1 /\ m = o
      BY <1>1, <1>7, <1>8, <1>9, <2>1, <3>1
    <3>2. CASE ~(step = 1 /\ m = o)
      BY <1>1, <1>2, <1>7, <1>8, <2>1, <3>2
    <3> QED BY <3>1, <3>2
  <2>3. rewards'[m] = SumSet(Written'[2][m])
    <3>1. CASE step = 2 /\ m = o
      BY <1>1, <1>7, <1>8, <1>9, <2>1, <3>1
    <3>2. CASE ~(step = 2 /\ m = o)
      BY <1>1, <1>2, <1>7, <1>8, <2>1, <3>2
    <3> QED BY <3>1, <3>2
  <2>4. rank'[m] = Cardinality(Written'[5][m])
    <3>1. CASE step = 5 /\ m = o
      BY <1>1, <1>7, <1>8, <1>9, <2>1, <3>1
    <3>2. CASE ~(step = 5 /\ m = o)
      BY <1>1, <1>2, <1>7, <1>8, <2>1, <3>2
    <3> QED BY <3>1, <3>2
  <2> QED BY <2>2, <2>3, <2>4
<1>11. \A k \in blocksByHeight' \cup recent' : k \in 1 .. Len(chain') /\ Mined(k)'
  <2>1. i \in 1 .. Len(chain) /\ Mined(i)
    BY <1>1, IndexerAssumption DEF Mined, o
  <2>2. \A k \in blocksByHeight \cup recent : k \in 1 .. Len(chain) /\ Mined(k)
    BY DEF Exactly
  <2> QED BY <1>1, <2>1, <2>2 DEF Mined
<1>12. ASSUME NEW k \in recent'
       PROVE  \/ k \in blocksByHeight' \/ k \in 1 .. unmigrated'
              \/ (batch' # {} /\ step' = 7 /\ k = Min(batch'))
  <2>1. \A j \in recent : j \in blocksByHeight \/ j \in 1 .. unmigrated \/ (step = 7 /\ j = i)
    BY <1>0 DEF Exactly, i
  <2>2. CASE step = 6
    <3>1. batch' = batch /\ step' = 7 /\ Min(batch) = i
      BY <1>3, <2>2 DEF i
    <3> QED BY <1>0, <1>1, <1>4, <1>12, <2>1, <2>2, <3>1
  <2>3. CASE step # 6
    BY <1>1, <1>4, <1>12, <2>1, <2>3
  <2> QED BY <2>2, <2>3
<1>13. ASSUME NEW m \in Miners
       PROVE  lastSeen'[m] = IF batch' # {} /\ step' = 4 /\ chain'[Min(batch')] = m
                             THEN Min(batch') ELSE lastHeight'[m]
  <2>1. lastSeen[m] = IF step = 4 /\ o = m THEN i ELSE lastHeight[m]
    BY <1>0 DEF Exactly, i, o
  <2>2. CASE step = 3
    <3>1. batch' = batch /\ step' = 4 /\ Min(batch) = i /\ chain'[i] = o
      BY <1>1, <1>3, <2>2 DEF i, o
    <3> QED BY <1>0, <1>1, <1>7, <2>1, <2>2, <3>1
  <2>3. CASE step = 4
    BY <1>1, <1>3, <1>7, <2>1, <2>3
  <2>4. CASE step \notin {3, 4}
    BY <1>1, <1>3, <2>1, <2>4 DEF Commands
  <2> QED BY <2>2, <2>3, <2>4
<1>14. ASSUME NEW m \in Miners
       PROVE  /\ Written'[4][m] # {} => lastHeight'[m] \in Written'[4][m]
              /\ \A j \in Written'[4][m] : j > newestSig' => j <= lastHeight'[m]
  <2>1. /\ Written[4][m] # {} => lastHeight[m] \in Written[4][m]
        /\ \A j \in Written[4][m] : j > newestSig => j <= lastHeight[m]
    BY DEF Exactly
  <2>2. CASE step = 4 /\ m = o
    <3>1. Written'[4][m] = Written[4][m] \cup {i} /\ lastHeight'[m] = i
      BY <1>1, <1>2, <1>7, <1>8, <2>2
    <3> QED BY <1>4, <1>6, <1>7, <2>2, <3>1
  <2>3. CASE ~(step = 4 /\ m = o)
    <3>1. Written'[4][m] = Written[4][m] /\ lastHeight'[m] = lastHeight[m]
      BY <1>1, <1>2, <1>7, <1>8, <2>3
    <3> QED BY <1>4, <2>1, <3>1
  <2> QED BY <2>2, <2>3
<1> QED BY <1>10, <1>11, <1>12, <1>13, <1>14 DEF Exactly

\* A wipe leaves nothing that is due.
LEMMA ExactlyNothing ==
  ASSUME Control, Exactly, Keys, mode = "down", WipeAggregator(AggregatorKeys), chain' = chain,
         unmigrated' = unmigrated, batch' = batch, before' = before,
         mode' \in {"down", "backfill", "check"}, Len(chain) \in Nat
  PROVE  Exactly'
<1>1. /\ miners' = Nobody /\ rewards' = Nobody /\ lastSeen' = Nobody /\ lastHeight' = Nobody
      /\ rank' = Nobody /\ recent' = {} /\ cursor' = 0 /\ blocksByHeight' = blocksByHeight
  BY DEF WipeAggregator, AggregatorKeys
<1>2. batch' = {} /\ Past' = {}
  BY DEF Control, Past
<1>3. \A k \in Commands, m \in Miners : Written'[k][m] = {}
  <2>1. Written' = AtRest(0, chain)
    BY <1>1, <1>2, WrittenAtRestNext
  <2> QED BY <2>1 DEF AtRest
<1>4. Cardinality({}) = 0 /\ SumSet({}) = 0
  BY FS_EmptySet, SumOfNone
<1>5. ASSUME NEW m \in Miners
      PROVE  /\ miners'[m] = Cardinality(Written'[1][m])
             /\ rewards'[m] = SumSet(Written'[2][m])
             /\ rank'[m] = Cardinality(Written'[5][m])
             /\ lastSeen'[m] = lastHeight'[m]
             /\ Written'[4][m] = {}
  <2>1. miners'[m] = 0 /\ rewards'[m] = 0 /\ rank'[m] = 0 /\ lastSeen'[m] = lastHeight'[m]
    BY <1>1 DEF Nobody
  <2>2. Written'[1][m] = {} /\ Written'[2][m] = {} /\ Written'[4][m] = {} /\ Written'[5][m] = {}
    BY <1>3 DEF Commands
  <2> QED BY <1>4, <2>1, <2>2
<1>6. \A i \in blocksByHeight' \cup recent' : i \in 1 .. Len(chain') /\ Mined(i)'
  BY <1>1 DEF Exactly, Mined
<1> QED BY <1>1, <1>2, <1>5, <1>6 DEF Exactly

LEMMA ExactlyInductive ==
  ASSUME Control, Pacing, Keys, Recorded, Once, Exactly, CleanStep, Control'
  PROVE  Exactly'
<1>0. /\ Len(chain) \in Nat /\ newestSig \in Nat /\ newestSig' \in Nat /\ newestSig <= Len(chain)
      /\ \A i \in blocksByHeight : i \in 1 .. Len(chain) /\ Mined(i)
  BY DEF Control, Exactly
<1> DEFINE quiet == /\ UNCHANGED <<chain, miners, rewards, lastSeen, lastHeight, rank, blocksByHeight>>
                    /\ recent' \subseteq recent
<1>1. ASSUME quiet, Written' = Written, UNCHANGED newestSig,
             unmigrated' = unmigrated \/ \A i \in 1 .. unmigrated : Mined(i) => i \in blocksByHeight,
             UNCHANGED <<batch, step>> \/ (batch = {} /\ (batch' = {} \/ step' = 1))
      PROVE  Exactly'
  BY <1>0, <1>1, ExactlyKept
<1>2. CASE UNCHANGED vars
  <2>1. Written' = Written
    BY <1>2 DEF vars, redis, process, walk, Written, Through, InHand, Past
  <2> QED BY <1>1, <1>2, <2>1 DEF vars, redis, aggregate, process, walk, history
<1>3. ASSUME NEW w \in Miners \cup {NoBlock}, Append1(w) PROVE Exactly'
  <2>1. /\ Len(chain') = Len(chain) + 1 /\ \A i \in 1 .. Len(chain) : chain'[i] = chain[i]
        /\ UNCHANGED <<miners, rewards, lastSeen, lastHeight, rank, recent, blocksByHeight>>
        /\ UNCHANGED <<newestSig, batch, step, unmigrated>>
    BY <1>3 DEF Append1, redis, aggregate, process, walk, history, Control
  <2>2. Written' = Written
    BY <1>3, AppendPasses
  <2>3. Len(chain') \in Nat /\ Len(chain) <= Len(chain')
    BY <1>0, <2>1
  <2> QED BY <1>0, <2>1, <2>2, <2>3, ExactlyKept
<1>4. ASSUME NEW wipe \in BOOLEAN, Start(wipe, FALSE) PROVE Exactly'
  <2>1. /\ mode = "down" /\ mode' \in {"backfill", "check"}
        /\ UNCHANGED <<chain, newestSig, before, batch, step, unmigrated>>
    BY <1>4 DEF Start, walk
  <2>2. CASE ~wipe
    <3>1. quiet /\ cursor' = cursor
      BY <1>4, <2>2 DEF Start, redis, aggregate
    <3>2. batch = {} /\ batch' = {} /\ Past = {} /\ Past' = {}
      BY <2>1 DEF Control, Past
    <3>3. Written' = Written
      BY <2>1, <3>1, <3>2, QuietSteps DEF Control
    <3> QED BY <1>1, <2>1, <3>1, <3>3
  <2>3. CASE wipe
    <3>1. WipeAggregator(AggregatorKeys)
      BY <1>4, <2>3 DEF Start
    <3> QED BY <1>0, <2>1, <3>1, ExactlyNothing
  <2> QED BY <2>2, <2>3
<1>5. CASE WalkPage
  <2>1. UNCHANGED <<chain, redis, batch, step, unmigrated>> /\ batch = {}
    BY <1>5 DEF WalkPage, PageDone, history
  <2>2. newestSig' >= newestSig
    BY <1>0, <1>5 DEF WalkPage
  <2>3. Written' = Written
    BY <1>5, WalkPagePasses
  <2> QED BY <1>0, <2>1, <2>2, <2>3, ExactlyKept DEF redis, aggregate
<1>6. ASSUME NEW hour, BackfillDone(hour) PROVE Exactly'
  <2>1. quiet /\ UNCHANGED <<newestSig, batch, step>> /\ mode = "backfill" /\ PageDone /\ short
    BY <1>6 DEF BackfillDone, recordKeys, TrimRecent
  <2>2. \A i \in 1 .. unmigrated : Mined(i) => i \in blocksByHeight
    BY <1>0, <2>1, WalkedThrough DEF Recorded, RecordDue, Control
  <2> QED BY <1>1, <1>6, <2>1, <2>2, EndPasses
<1>7. ASSUME NEW hour, TickDone(hour) PROVE Exactly'
  <2>1. quiet /\ UNCHANGED <<newestSig, batch, step, unmigrated>>
    BY <1>7 DEF TickDone, recordKeys, TrimRecent, history
  <2> QED BY <1>1, <1>7, <2>1, EndPasses
<1>8. CASE Check({}) \/ UpdateState(FALSE) \/ TickEnds(FALSE) \/ MigrateDone
  <2>1. /\ chain' = chain /\ cursor' = cursor /\ batch' = batch /\ batch = {}
        /\ mode \in {"check", "idle", "poll", "migrate"} /\ mode' \in {"migrate", "idle", "poll"}
    BY <1>8 DEF Check, UpdateState, TickEnds, MigrateDone, PageDone, redis, Control
  <2>2. quiet /\ UNCHANGED <<newestSig, batch, step>>
    BY <1>8 DEF Check, UpdateState, TickEnds, MigrateDone, redis, aggregate, walk
  <2>3. Past = {} /\ Past' = {}
    BY <2>1 DEF Past
  <2>4. Written' = Written
    BY <2>1, <2>3, QuietSteps DEF Control
  <2>5. unmigrated' = unmigrated \/ \A i \in 1 .. unmigrated : Mined(i) => i \in blocksByHeight
    <3>1. CASE MigrateDone
      <4>1. mode = "migrate" /\ PageDone /\ short
        BY <3>1 DEF MigrateDone
      <4> QED BY <1>0, <4>1, WalkedThrough DEF Recorded, RecordDue, Control
    <3>2. CASE ~MigrateDone
      BY <1>8, <3>2 DEF Check, UpdateState, TickEnds, history
    <3> QED BY <3>1, <3>2
  <2> QED BY <1>1, <2>2, <2>4, <2>5
<1>9. CASE Tick(FALSE)
  <2>1. quiet /\ UNCHANGED <<newestSig, batch, step, unmigrated>>
    BY <1>9 DEF Tick, redis, aggregate, history
  <2> QED BY <1>1, <1>9, <2>1, TickPasses
<1>10. CASE ParseBatch({})
  <2>1. quiet /\ UNCHANGED <<newestSig, unmigrated>> /\ batch = {} /\ step' = 1
    BY <1>10 DEF ParseBatch, redis, aggregate, history
  <2> QED BY <1>1, <1>10, <2>1, ParsePasses
<1>11. CASE WriteNext
  BY <1>11, ExactlyWritten
<1>12. CASE MigrateWrite
  <2> DEFINE i == Min(batch)
  <2>1. /\ UNCHANGED <<chain, miners, rewards, lastSeen, lastHeight, rank, recent, newestSig, unmigrated>>
        /\ blocksByHeight' = blocksByHeight \cup {i} /\ mode = "migrate" /\ batch # {} /\ step' = 1
    BY <1>12 DEF MigrateWrite, Apply, NextBlock, walk, history
  <2>2. i \in 1 .. Len(chain) /\ Mined(i)
    BY <2>1, OldestOfBatch DEF Control
  <2> HIDE DEF i
  <2>3. \A j \in blocksByHeight' : j \in 1 .. Len(chain) /\ Mined(j)
    BY <1>0, <2>1, <2>2
  <2>4. step = 1
    BY <2>1 DEF Once
  <2>5. Written' = Written
    BY <1>12, MigratePasses
  <2> QED BY <1>0, <2>1, <2>3, <2>4, <2>5, ExactlyKept
<1> QED BY <1>2, <1>3, <1>4, <1>5, <1>6, <1>7, <1>8, <1>9, <1>10, <1>11, <1>12 DEF CleanStep

\* As long as nothing fails, the process does not die, and no more than a page of
\* signatures comes in between two ticks, the leaderboard counts each block up to the
\* cursor exactly once.
THEOREM CountsAreExact == Paced => (Spec => []CountedExactlyOnce)
<1> SUFFICES ASSUME Paced PROVE Spec => []CountedExactlyOnce
  OBVIOUS
<1>1. Init => CountInv
  <2> SUFFICES ASSUME Init PROVE CountInv
    OBVIOUS
  <2>1. SkipInv
    BY InitSkipInv
  <2>2. Control
    BY <2>1 DEF SkipInv
  <2>3. Once
    BY <2>2 DEF Init, Once, Control
  <2>4. Exactly
    <3>1. /\ recent = {i \in 1 .. cursor : Mined(i)} /\ blocksByHeight = {} /\ batch = {}
          /\ unmigrated = cursor /\ newestSig = 0
      BY DEF Init
    <3>2. ASSUME NEW m \in Miners
          PROVE  /\ miners[m] = Cardinality(Written[1][m])
                 /\ rewards[m] = SumSet(Written[2][m])
                 /\ lastSeen[m] = lastHeight[m]
                 /\ Written[4][m] # {} => lastHeight[m] \in Written[4][m]
                 /\ \A i \in Written[4][m] : i <= lastHeight[m]
                 /\ rank[m] = Cardinality(Written[5][m])
      <4> DEFINE own == BlocksOf(m, cursor)
      <4>1. /\ \A k \in Commands : Written[k][m] = own
            /\ miners[m] = Cardinality(own) /\ rewards[m] = SumSet(own) /\ rank[m] = Cardinality(own)
            /\ lastSeen[m] = lastHeight[m]
            /\ own # {} => lastHeight[m] \in own
            /\ \A i \in own : i <= lastHeight[m]
        BY InitHistory
      <4> HIDE DEF own
      <4>2. Written[1][m] = own /\ Written[2][m] = own /\ Written[4][m] = own /\ Written[5][m] = own
        BY <4>1 DEF Commands
      <4> QED BY <4>1, <4>2
    <3>3. \A i \in blocksByHeight \cup recent : i \in 1 .. Len(chain) /\ Mined(i)
      BY <2>2, <3>1 DEF Control
    <3> QED BY <3>1, <3>2, <3>3 DEF Exactly
  <2> QED BY <2>1, <2>3, <2>4 DEF CountInv
<1>2. CountInv /\ [Next]_vars => CountInv'
  <2> SUFFICES ASSUME CountInv, [Next]_vars PROVE CountInv'
    OBVIOUS
  <2>1. SkipInv /\ SkipInv'
    BY SkipInvInductive DEF CountInv
  <2>2. Control /\ Pacing /\ Control'
    BY <2>1 DEF SkipInv
  <2> SUFFICES ASSUME Faultless' PROVE Once' /\ Exactly'
    BY <2>1 DEF CountInv
  <2>3. Faultless /\ ~Swallowed
    BY <2>2, FaultsAdd DEF Control
  <2>4. Keys /\ Recorded /\ Once /\ Exactly
    BY <2>1, <2>3 DEF CountInv, SkipInv
  <2>5. CleanStep
    BY <2>2, CleanSteps
  <2> QED BY <2>1, <2>2, <2>4, <2>5, OnceInductive, ExactlyInductive
<1>3. CountInv => CountedExactlyOnce
  <2> SUFFICES ASSUME CountInv, mode = "idle", \A kind \in FaultKinds : faults[kind] = 0
               PROVE  /\ \A m \in Miners :
                           LET own == BlocksOf(m, cursor) IN
                           /\ miners[m] = Cardinality(own)
                           /\ rewards[m] = RewardsOf(m, cursor)
                           /\ rank[m] = miners[m]
                           /\ own = {i \in blocksByHeight : i <= cursor /\ chain[i] = m}
                           /\ own # {} => lastHeight[m] \in own
                           /\ \A i \in own : i > lastHeight[m] => i <= newestSig
                           /\ lastSeen[m] = lastHeight[m]
                      /\ recent \subseteq blocksByHeight
                      /\ snapshot <= cursor
    BY DEF CountedExactlyOnce
  <2>1. Control /\ Once /\ Exactly /\ batch = {}
    BY DEF CountInv, SkipInv, Faultless, Control
  <2>2. Written = AtRest(cursor, chain)
    BY <2>1, WrittenAtRest DEF Past
  <2>3. cursor \in Nat /\ unmigrated \in Nat /\ \A i \in 1 .. unmigrated : ~Mined(i)
    BY <2>1 DEF Once, Control
  <2>4. \A i \in 1 .. cursor : Mined(i) => i \in blocksByHeight
    <3>1. ~Swallowed
      BY DEF Swallowed, FaultKinds
    <3>2. Recorded
      BY <3>1 DEF CountInv, SkipInv
    <3>3. Through = 1 .. cursor
      BY <2>1 DEF Through, Past
    <3> QED BY <2>3, <3>2, <3>3 DEF Recorded, RecordDue
  <2>5. ASSUME NEW m \in Miners
        PROVE  LET own == BlocksOf(m, cursor) IN
               /\ miners[m] = Cardinality(own)
               /\ rewards[m] = RewardsOf(m, cursor)
               /\ rank[m] = miners[m]
               /\ own = {i \in blocksByHeight : i <= cursor /\ chain[i] = m}
               /\ own # {} => lastHeight[m] \in own
               /\ \A i \in own : i > lastHeight[m] => i <= newestSig
               /\ lastSeen[m] = lastHeight[m]
    <3> DEFINE own == BlocksOf(m, cursor)
    <3>1. \A k \in Commands : Written[k][m] = own
      BY <2>2 DEF AtRest, BlocksOf
    <3>2. Written[1][m] = own /\ Written[2][m] = own /\ Written[4][m] = own /\ Written[5][m] = own
      BY <3>1 DEF Commands
    <3>3. RewardsOf(m, cursor) = SumSet(own)
      BY DEF RewardsOf
    <3>4. /\ miners[m] = Cardinality(own) /\ rewards[m] = SumSet(own) /\ rank[m] = Cardinality(own)
          /\ own # {} => lastHeight[m] \in own
          /\ \A i \in own : i > newestSig => i <= lastHeight[m]
          /\ lastSeen[m] = lastHeight[m]
      BY <2>1, <3>2 DEF Exactly
    <3>5. own \subseteq Nat /\ newestSig \in Nat /\ (own # {} => lastHeight[m] \in Nat)
      <4>1. own \subseteq Nat
        BY DEF BlocksOf
      <4> QED BY <2>1, <3>4, <4>1 DEF Control
    <3>6. own = {i \in blocksByHeight : i <= cursor /\ chain[i] = m}
      <4>1. \A i \in blocksByHeight : i \in Nat \ {0}
        BY <2>1 DEF Exactly, Control
      <4>2. \A i \in own : i \in 1 .. cursor /\ i <= cursor /\ chain[i] = m /\ Mined(i)
        BY <2>3, IndexerAssumption DEF BlocksOf, Mined
      <4>3. own \subseteq {i \in blocksByHeight : i <= cursor /\ chain[i] = m}
        BY <2>4, <4>2
      <4>4. {i \in blocksByHeight : i <= cursor /\ chain[i] = m} \subseteq own
        BY <2>3, <4>1 DEF BlocksOf
      <4> QED BY <4>3, <4>4
    <3> HIDE DEF own
    <3> QED BY <3>3, <3>4, <3>5, <3>6 DEF own
  <2>6. recent \subseteq blocksByHeight
    BY <2>1, <2>3 DEF Exactly
  <2>7. snapshot <= cursor
    BY <2>1 DEF Once
  <2> QED BY <2>5, <2>6, <2>7
<1> QED BY <1>1, <1>2, <1>3, PTL DEF Spec
=============================================================================
