---------------------------- MODULE TargetLimbs ----------------------------
(***************************************************************************)
(* crates/equihash-core/src/target.rs as it computes: a 256-bit target is  *)
(* four big-endian limbs, multiplied by a one-limb numerator with carries  *)
(* into a fifth limb and divided by long division; two values are compared *)
(* from the most significant digit down.  The width of a limb is a         *)
(* parameter: the code's 64 bits give 2^64 values, and no step of the      *)
(* algorithm depends on the width except through BASE.                     *)
(*                                                                         *)
(* An accumulator is a u128: ACC_MAX bounds what it can hold, so that the  *)
(* absence of overflow is something to check.                              *)
(***************************************************************************)
EXTENDS Integers, Sequences, Functions

CONSTANT BASE   \* number of values of a limb, 2^64 in the code

ASSUME TargetLimbsAssumption == BASE \in Nat \ {0, 1}

Limb == 0 .. BASE - 1
Limbs == 1 .. 4
ACC_MAX == BASE * BASE - 1
AllOnes == [i \in Limbs |-> BASE - 1]

\* The value of a big-endian sequence of digits.
Value(digits) ==
  LET upTo[i \in 0 .. Len(digits)] ==
        IF i = 0 THEN 0 ELSE BASE * upTo[i - 1] + digits[i]
  IN  upTo[Len(digits)]

\* The first accumulator: every product split into its high half and its low
\* half, which lines up with the next product's high half.
AlignedProducts(limb, num) ==
  LET product == [i \in Limbs |-> limb[i] * num]
      high(i) == IF i \in Limbs THEN product[i] \div BASE ELSE 0
      low(i)  == IF i \in Limbs THEN product[i] % BASE ELSE 0
  IN  [i \in 1 .. 5 |-> low(i - 1) + high(i)]

\* Carries from the least significant limb up: from[i] is the carry out of
\* limb i.  The most significant limb keeps all it gets.
PropagateCarries(acc) ==
  LET from[i \in 2 .. 6] ==
        IF i = 6 THEN 0 ELSE (acc[i] + from[i + 1]) \div BASE
  IN  [i \in 1 .. 5 |-> IF i = 1 THEN acc[1] + from[2]
                                 ELSE (acc[i] + from[i + 1]) % BASE]

\* The dividend of each long-division step: the remainder of the step before,
\* shifted up by a limb, over the next limb.
Dividends(acc, den) ==
  LET cur[i \in 1 .. 5] ==
        IF i = 1 THEN acc[1] ELSE BASE * (cur[i - 1] % den) + acc[i]
  IN  cur

\* `as u64` keeps the low limb of each quotient.
Quotients(acc, den) ==
  LET cur == Dividends(acc, den) IN [i \in 1 .. 5 |-> (cur[i] \div den) % BASE]

\* Mutant: only the early cap, which the carry limb can never reach.
ScaleTargetEarlyCap(old, num, den) ==
  IF num = den THEN old
  ELSE LET acc == PropagateCarries(AlignedProducts(old, num))
           q == Quotients(acc, den)
       IN  IF acc[1] >= den * BASE THEN AllOnes
           ELSE [i \in Limbs |-> q[i + 1]]

\* scale_target
ScaleTarget(old, num, den) ==
  IF num = den THEN old
  ELSE LET acc == PropagateCarries(AlignedProducts(old, num))
           q == Quotients(acc, den)
       IN  IF acc[1] >= den * BASE \/ q[1] # 0 THEN AllOnes
           ELSE [i \in Limbs |-> q[i + 1]]

\* hash_under_target: the first digit that differs decides.
HashUnderTarget(hash, target) ==
  \E i \in DOMAIN hash :
    hash[i] < target[i] /\ \A j \in 1 .. i - 1 : hash[j] = target[j]
=============================================================================
