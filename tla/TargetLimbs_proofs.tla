------------------------- MODULE TargetLimbs_proofs -------------------------
(***************************************************************************)
(* The limb arithmetic of scale_target and hash_under_target, for limbs of *)
(* any width: each recursive function is unrolled over its five digits,    *)
(* and the schoolbook multiplication and division are followed digit by    *)
(* digit.                                                                  *)
(***************************************************************************)
EXTENDS TargetLimbs, TLAPS

\* Division with remainder.
LEMMA Division ==
  ASSUME NEW n \in Nat, NEW d \in Nat \ {0}
  PROVE  /\ n \div d \in Nat /\ n % d \in 0 .. d - 1
         /\ n = d * (n \div d) + (n % d)
OBVIOUS

\* A quotient is bounded by what the dividend is bounded by.
LEMMA QuotientBound ==
  ASSUME NEW n \in Nat, NEW d \in Nat \ {0}, NEW k \in Nat, n < d * k
  PROVE  n \div d < k
<1>1. n \div d \in Nat /\ n % d \in 0 .. d - 1 /\ n = d * (n \div d) + (n % d)
  BY Division
<1> DEFINE q == n \div d
<1>2. q \in Nat /\ d * q < d * k
  BY <1>1
<1> HIDE DEF q
<1>3. SUFFICES ASSUME q >= k PROVE FALSE
  BY <1>2 DEF q
<1>4. q - k \in Nat /\ d * (q - k) = d * q - d * k
  BY <1>2, <1>3
<1>5. d * (q - k) >= 0
  BY <1>4
<1> QED BY <1>2, <1>4, <1>5

\* Quotient and remainder are the only pair with these properties.
LEMMA QuotientUnique ==
  ASSUME NEW n \in Nat, NEW d \in Nat \ {0}, NEW q \in Nat, NEW r \in 0 .. d - 1,
         n = d * q + r
  PROVE  n \div d = q
<1>1. d * (q + 1) = d * q + d
  OBVIOUS
<1>2. n \div d < q + 1
  <2>1. n < d * (q + 1)
    BY <1>1
  <2> QED BY <2>1, QuotientBound
<1>3. n \div d \in Nat /\ n % d \in 0 .. d - 1 /\ n = d * (n \div d) + (n % d)
  BY Division
<1> DEFINE p == n \div d
<1>4. p \in Nat /\ d * q < d * (p + 1)
  <2>1. d * (p + 1) = d * p + d
    BY <1>3
  <2> QED BY <1>3, <2>1
<1> HIDE DEF p
<1>5. q < p + 1
  <2> SUFFICES ASSUME q >= p + 1 PROVE FALSE
    BY <1>4
  <2>1. q - (p + 1) \in Nat /\ d * (q - (p + 1)) = d * q - d * (p + 1)
    BY <1>4
  <2>2. d * (q - (p + 1)) >= 0
    BY <2>1
  <2> QED BY <1>4, <2>1, <2>2
<1> QED BY <1>2, <1>4, <1>5 DEF p

-----------------------------------------------------------------------------
\* The value of four digits, and of five.
LEMMA ValueOfFour ==
  ASSUME NEW t \in [Limbs -> Limb]
  PROVE  Value(t) = BASE * (BASE * (BASE * t[1] + t[2]) + t[3]) + t[4]
<1> DEFINE
  A == [i \in Nat |-> CASE i = 0 -> 0
                        [] i = 1 -> t[1]
                        [] i = 2 -> BASE * t[1] + t[2]
                        [] i = 3 -> BASE * (BASE * t[1] + t[2]) + t[3]
                        [] OTHER -> BASE * (BASE * (BASE * t[1] + t[2]) + t[3]) + t[4]]
  Rec(f) == [i \in 0 .. 4 |-> IF i = 0 THEN 0 ELSE BASE * f[i - 1] + t[i]]
  W == [i \in 0 .. 4 |-> A[i]]
  up == CHOOSE f : f = Rec(f)
<1>1. Len(t) = 4 /\ \A i \in Limbs : t[i] \in Nat
  BY TargetLimbsAssumption DEF Limbs, Limb
<1>2. W = Rec(W)
  <2>1. \A i \in 0 .. 4 : A[i] = IF i = 0 THEN 0 ELSE BASE * W[i - 1] + t[i]
    <3> TAKE i \in 0 .. 4
    <3>1. i \in {0, 1, 2, 3, 4}
      OBVIOUS
    <3> QED BY <3>1, <1>1, TargetLimbsAssumption DEF Limbs
  <2> QED BY <2>1
<1>3. up = Rec(up)
  BY <1>2
<1> HIDE DEF up
<1>4. up[4] = BASE * (BASE * (BASE * t[1] + t[2]) + t[3]) + t[4]
  <2>1. up[0] = 0
    BY <1>3
  <2>2. up[1] = t[1]
    <3>1. up[1] = BASE * up[0] + t[1]
      BY <1>3
    <3> QED BY <3>1, <2>1, <1>1, TargetLimbsAssumption DEF Limbs
  <2>3. up[2] = BASE * up[1] + t[2]
    BY <1>3
  <2>4. up[3] = BASE * up[2] + t[3]
    BY <1>3
  <2>5. up[4] = BASE * up[3] + t[4]
    BY <1>3
  <2> QED BY <2>2, <2>3, <2>4, <2>5
<1>5. Value(t) = up[4]
  BY <1>1 DEF Value, up
<1> QED BY <1>4, <1>5

\* Five digits, most significant first.
Horner(a1, a2, a3, a4, a5) == BASE * (BASE * (BASE * (BASE * a1 + a2) + a3) + a4) + a5

-----------------------------------------------------------------------------
\* hash_under_target: the first digit that differs decides which number is less.
LEMMA LastDigitDecides ==
  ASSUME NEW x \in Nat, NEW y \in Nat, NEW c \in Limb, NEW d \in Limb
  PROVE  BASE * x + c < BASE * y + d <=> x < y \/ (x = y /\ c < d)
<1> USE TargetLimbsAssumption DEF Limb
<1>1. ASSUME x < y PROVE BASE * x + c < BASE * y + d
  <2>1. y - x - 1 \in Nat /\ BASE * (y - x - 1) >= 0
    BY <1>1
  <2>2. BASE * (y - x - 1) = BASE * y - BASE * x - BASE
    OBVIOUS
  <2> QED BY <2>1, <2>2
<1>2. ASSUME y < x PROVE ~(BASE * x + c < BASE * y + d)
  <2>1. x - y - 1 \in Nat /\ BASE * (x - y - 1) >= 0
    BY <1>2
  <2>2. BASE * (x - y - 1) = BASE * x - BASE * y - BASE
    OBVIOUS
  <2> QED BY <2>1, <2>2
<1>3. CASE x = y
  BY <1>3
<1> QED BY <1>1, <1>2, <1>3

\* hash_under_target is the order of the values.
LEMMA DigitsCompare ==
  ASSUME NEW a \in [Limbs -> Limb], NEW b \in [Limbs -> Limb]
  PROVE  HashUnderTarget(a, b) <=> Value(a) < Value(b)
<1> DEFINE
  a2 == BASE * a[1] + a[2]
  a3 == BASE * a2 + a[3]
  b2 == BASE * b[1] + b[2]
  b3 == BASE * b2 + b[3]
<1>1. \A i \in Limbs : a[i] \in Limb /\ b[i] \in Limb /\ a[i] \in Nat /\ b[i] \in Nat
  BY TargetLimbsAssumption DEF Limb
<1>2. a2 \in Nat /\ a3 \in Nat /\ b2 \in Nat /\ b3 \in Nat
  <2>1. a2 \in Nat /\ b2 \in Nat
    BY <1>1, TargetLimbsAssumption DEF Limbs
  <2> HIDE DEF a2, b2
  <2> QED BY <1>1, <2>1, TargetLimbsAssumption DEF Limbs
<1>3. a2 < b2 <=> a[1] < b[1] \/ (a[1] = b[1] /\ a[2] < b[2])
  BY <1>1, LastDigitDecides DEF Limbs
<1>4. a2 = b2 <=> a[1] = b[1] /\ a[2] = b[2]
  <2>1. b2 < a2 <=> b[1] < a[1] \/ (b[1] = a[1] /\ b[2] < a[2])
    BY <1>1, LastDigitDecides DEF Limbs
  <2> QED BY <1>1, <1>2, <1>3, <2>1 DEF Limbs
<1> HIDE DEF a2, b2
<1>5. a3 < b3 <=> a2 < b2 \/ (a2 = b2 /\ a[3] < b[3])
  BY <1>1, <1>2, LastDigitDecides DEF Limbs
<1>6. a3 = b3 <=> a2 = b2 /\ a[3] = b[3]
  <2>1. b3 < a3 <=> b2 < a2 \/ (b2 = a2 /\ b[3] < a[3])
    BY <1>1, <1>2, LastDigitDecides DEF Limbs
  <2> QED BY <1>1, <1>2, <1>5, <2>1 DEF Limbs
<1>7. Value(a) = BASE * a3 + a[4] /\ Value(b) = BASE * b3 + b[4]
  BY ValueOfFour DEF a2, b2
<1> HIDE DEF a3, b3
<1>8. Value(a) < Value(b) <=> a3 < b3 \/ (a3 = b3 /\ a[4] < b[4])
  BY <1>1, <1>2, <1>7, LastDigitDecides DEF Limbs
<1>9. HashUnderTarget(a, b) <=>
        \/ a[1] < b[1]
        \/ a[2] < b[2] /\ a[1] = b[1]
        \/ a[3] < b[3] /\ a[1] = b[1] /\ a[2] = b[2]
        \/ a[4] < b[4] /\ a[1] = b[1] /\ a[2] = b[2] /\ a[3] = b[3]
  <2>1. DOMAIN a = 1 .. 4 /\ 1 .. 1 - 1 = {} /\ 1 .. 2 - 1 = {1}
        /\ 1 .. 3 - 1 = {1, 2} /\ 1 .. 4 - 1 = {1, 2, 3} /\ 1 .. 4 = {1, 2, 3, 4}
    BY DEF Limbs
  <2> QED BY <2>1 DEF HashUnderTarget
<1> QED BY <1>3, <1>4, <1>5, <1>6, <1>8, <1>9

-----------------------------------------------------------------------------
\* The products of scale_target: each splits into a high half, at most BASE - 2,
\* and a low half, and the halves line up without a collision of two high ones.
LEMMA ProductHalves ==
  ASSUME NEW x \in Limb, NEW num \in Limb
  PROVE  LET h == (x * num) \div BASE
             l == (x * num) % BASE
         IN  h \in 0 .. BASE - 2 /\ l \in Limb /\ BASE * h + l = x * num
<1> USE TargetLimbsAssumption DEF Limb
<1> DEFINE p == x * num
<1>1. p \in Nat /\ p < BASE * (BASE - 1)
  <2>1. p \in Nat
    OBVIOUS
  <2>2. (BASE - 1 - x) * num >= 0 /\ (BASE - 1) * (BASE - 1 - num) >= 0
    OBVIOUS
  <2>3. (BASE - 1 - x) * num = (BASE - 1) * num - p
    OBVIOUS
  <2>4. (BASE - 1) * (BASE - 1 - num) = (BASE - 1) * (BASE - 1) - (BASE - 1) * num
    OBVIOUS
  <2>5. (BASE - 1) * (BASE - 1) = BASE * (BASE - 1) - (BASE - 1)
    OBVIOUS
  <2> HIDE DEF p
  <2> QED BY <2>1, <2>2, <2>3, <2>4, <2>5
<1> HIDE DEF p
<1>2. p \div BASE < BASE - 1
  BY <1>1, QuotientBound
<1>3. p \div BASE \in Nat /\ p % BASE \in 0 .. BASE - 1 /\ p = BASE * (p \div BASE) + (p % BASE)
  BY <1>1, Division
<1> QED BY <1>2, <1>3 DEF p

LEMMA Distribute ==
  ASSUME NEW n \in Nat, NEW b \in Nat, NEW v \in Nat, NEW x \in Nat
  PROVE  n * (b * v + x) = b * (n * v) + x * n
OBVIOUS

\* The first accumulator, digit by digit: no entry overflows, and its value is
\* the exact product.
LEMMA AlignedProductsExact ==
  ASSUME NEW t \in [Limbs -> Limb], NEW num \in Limb
  PROVE  LET acc == AlignedProducts(t, num) IN
         /\ acc \in [1 .. 5 -> Nat]
         /\ acc[1] <= BASE - 2 /\ \A i \in 2 .. 4 : acc[i] <= 2 * BASE - 3
         /\ acc[5] <= BASE - 1
         /\ Horner(acc[1], acc[2], acc[3], acc[4], acc[5]) = num * Value(t)
<1> USE TargetLimbsAssumption
<1> DEFINE
  acc == AlignedProducts(t, num)
  h(i) == (t[i] * num) \div BASE
  l(i) == (t[i] * num) % BASE
<1>1. \A i \in Limbs : h(i) \in 0 .. BASE - 2 /\ l(i) \in Limb /\ BASE * h(i) + l(i) = t[i] * num
  BY ProductHalves
<1>2. /\ acc = [i \in 1 .. 5 |-> acc[i]]
      /\ acc[1] = 0 + h(1) /\ acc[2] = l(1) + h(2) /\ acc[3] = l(2) + h(3)
      /\ acc[4] = l(3) + h(4) /\ acc[5] = l(4) + 0
  <2>1. acc = [i \in 1 .. 5 |-> (IF i - 1 \in Limbs THEN l(i - 1) ELSE 0)
                               + (IF i \in Limbs THEN h(i) ELSE 0)]
    BY DEF AlignedProducts, Limbs
  <2> HIDE DEF acc, h, l
  <2> QED BY <2>1 DEF Limbs
<1> HIDE DEF acc, h, l
<1>3. /\ h(1) \in 0 .. BASE - 2 /\ h(2) \in 0 .. BASE - 2
      /\ h(3) \in 0 .. BASE - 2 /\ h(4) \in 0 .. BASE - 2
      /\ l(1) \in Limb /\ l(2) \in Limb /\ l(3) \in Limb /\ l(4) \in Limb
      /\ t[1] \in Limb /\ t[2] \in Limb /\ t[3] \in Limb /\ t[4] \in Limb
  BY <1>1 DEF Limbs
<1>4. acc \in [1 .. 5 -> Nat]
  <2>1. \A i \in 1 .. 5 : acc[i] \in Nat
    BY <1>2, <1>3 DEF Limb
  <2> QED BY <1>2, <2>1
<1>5. /\ acc[1] <= BASE - 2 /\ \A i \in 2 .. 4 : acc[i] <= 2 * BASE - 3
      /\ acc[5] <= BASE - 1
  <2>1. acc[1] <= BASE - 2 /\ acc[5] <= BASE - 1
    BY <1>2, <1>3 DEF Limb
  <2>2. acc[2] <= 2 * BASE - 3 /\ acc[3] <= 2 * BASE - 3 /\ acc[4] <= 2 * BASE - 3
    BY <1>2, <1>3 DEF Limb
  <2> QED BY <2>1, <2>2
<1>6. Horner(acc[1], acc[2], acc[3], acc[4], acc[5]) = num * Value(t)
  <2> DEFINE
    p1 == t[1] * num
    p2 == BASE * p1 + t[2] * num
    p3 == BASE * p2 + t[3] * num
    p4 == BASE * p3 + t[4] * num
  <2>1. /\ BASE * h(1) + l(1) = p1
        /\ BASE * h(2) + l(2) = t[2] * num
        /\ BASE * h(3) + l(3) = t[3] * num
        /\ BASE * h(4) + l(4) = t[4] * num
    BY <1>1 DEF Limbs
  <2>2. p1 \in Nat /\ p2 \in Nat /\ p3 \in Nat /\ p4 \in Nat
    <3>1. \A i \in Limbs : t[i] * num \in Nat
      BY DEF Limb
    <3>2. p1 \in Nat /\ t[2] * num \in Nat /\ t[3] * num \in Nat /\ t[4] * num \in Nat
      BY <3>1 DEF Limbs
    <3> HIDE DEF p1
    <3>3. p2 \in Nat
      BY <3>2
    <3> HIDE DEF p2
    <3>4. p3 \in Nat
      BY <3>2, <3>3
    <3> HIDE DEF p3
    <3> QED BY <3>2, <3>3, <3>4
  <2>3. Value(t) \in Nat /\ num * Value(t) = p4
    <3>1. t[1] \in Nat /\ t[2] \in Nat /\ t[3] \in Nat /\ t[4] \in Nat /\ num \in Nat
      BY <1>3 DEF Limb
    <3> DEFINE v2 == BASE * t[1] + t[2]
               v3 == BASE * v2 + t[3]
               v4 == BASE * v3 + t[4]
    <3>2. v2 \in Nat /\ p2 = num * v2
      BY <3>1, Distribute
    <3> HIDE DEF v2, p2, p3
    <3>3. v3 \in Nat /\ p3 = num * v3
      BY <3>1, <3>2, Distribute DEF p3
    <3> HIDE DEF v3, p3, p4
    <3>4. v4 \in Nat /\ p4 = num * v4
      BY <3>1, <3>3, Distribute DEF p4
    <3>5. Value(t) = v4
      BY ValueOfFour DEF v2, v3
    <3> QED BY <3>4, <3>5
  <2>4. BASE * acc[1] + acc[2] = p1 + h(2)
    BY <1>2, <1>3, <2>1 DEF Limb
  <2>5. BASE * (p1 + h(2)) + acc[3] = p2 + h(3)
    <3>1. BASE * (p1 + h(2)) = BASE * p1 + BASE * h(2)
      BY <1>3, <2>2
    <3> QED BY <1>2, <1>3, <2>1, <2>2, <3>1 DEF Limb
  <2>6. BASE * (p2 + h(3)) + acc[4] = p3 + h(4)
    <3>1. BASE * (p2 + h(3)) = BASE * p2 + BASE * h(3)
      BY <1>3, <2>2
    <3> HIDE DEF p1, p2
    <3> QED BY <1>2, <1>3, <2>1, <2>2, <3>1 DEF Limb
  <2>7. BASE * (p3 + h(4)) + acc[5] = p4
    <3>1. BASE * (p3 + h(4)) = BASE * p3 + BASE * h(4)
      BY <1>3, <2>2
    <3> HIDE DEF p1, p2, p3
    <3> QED BY <1>2, <1>3, <2>1, <2>2, <3>1 DEF Limb
  <2> HIDE DEF p1, p2, p3, p4
  <2> QED BY <2>3, <2>4, <2>5, <2>6, <2>7 DEF Horner
<1> QED BY <1>4, <1>5, <1>6 DEF acc

-----------------------------------------------------------------------------
\* One step of a carry chain: the digit kept and the carry passed on are the sum.
LEMMA CarryStep ==
  ASSUME NEW a \in Nat, NEW c \in {0, 1}, a <= 2 * BASE - 3
  PROVE  /\ (a + c) % BASE \in Limb /\ (a + c) \div BASE \in {0, 1}
         /\ BASE * ((a + c) \div BASE) + ((a + c) % BASE) = a + c
<1> USE TargetLimbsAssumption DEF Limb
<1> DEFINE s == a + c
<1>1. s \in Nat /\ s < BASE * 2
  OBVIOUS
<1> HIDE DEF s
<1>2. s \div BASE < 2
  BY <1>1, QuotientBound
<1>3. s \div BASE \in Nat /\ s % BASE \in 0 .. BASE - 1 /\ s = BASE * (s \div BASE) + (s % BASE)
  BY <1>1, Division
<1> QED BY <1>2, <1>3 DEF s

\* Moving a carry from a digit into the number before it changes nothing.
LEMMA CarryMoved ==
  ASSUME NEW b \in Nat, NEW x \in Nat, NEW c \in Nat, NEW a \in Nat, NEW d \in Nat,
         NEW e \in Nat, b * c + d = a + e
  PROVE  b * (x + c) + d = (b * x + a) + e
OBVIOUS

\* Propagating the carries keeps the value and leaves every limb in its width:
\* the most significant one, which keeps all it gets, among them.
LEMMA CarriesExact ==
  ASSUME NEW acc \in [1 .. 5 -> Nat],
         acc[1] <= BASE - 2, \A i \in 2 .. 4 : acc[i] <= 2 * BASE - 3, acc[5] <= BASE - 1
  PROVE  LET out == PropagateCarries(acc) IN
         /\ out \in [1 .. 5 -> Limb]
         /\ Horner(out[1], out[2], out[3], out[4], out[5])
              = Horner(acc[1], acc[2], acc[3], acc[4], acc[5])
<1> USE TargetLimbsAssumption
<1> DEFINE
  Rec(f) == [i \in 2 .. 6 |-> IF i = 6 THEN 0 ELSE (acc[i] + f[i + 1]) \div BASE]
  f6 == 0
  f5 == (acc[5] + f6) \div BASE
  f4 == (acc[4] + f5) \div BASE
  f3 == (acc[3] + f4) \div BASE
  f2 == (acc[2] + f3) \div BASE
  W == [i \in 2 .. 6 |-> IF i = 6 THEN f6 ELSE IF i = 5 THEN f5 ELSE IF i = 4 THEN f4
                         ELSE IF i = 3 THEN f3 ELSE f2]
  from == CHOOSE f : f = Rec(f)
  out == PropagateCarries(acc)
<1>1. from = Rec(from)
  <2>1. \A i \in 2 .. 6 : W[i] = IF i = 6 THEN 0 ELSE (acc[i] + W[i + 1]) \div BASE
    <3> TAKE i \in 2 .. 6
    <3>1. i \in {2, 3, 4, 5, 6}
      OBVIOUS
    <3> HIDE DEF f5, f4, f3, f2
    <3>2. W[2] = f2 /\ W[3] = f3 /\ W[4] = f4 /\ W[5] = f5 /\ W[6] = 0
      OBVIOUS
    <3> HIDE DEF W
    <3> QED BY <3>1, <3>2 DEF f5, f4, f3, f2
  <2>2. W = Rec(W)
    <3> HIDE DEF f5, f4, f3, f2
    <3> QED BY <2>1
  <2> QED BY <2>2
<1>2. out = [i \in 1 .. 5 |-> IF i = 1 THEN acc[1] + from[2] ELSE (acc[i] + from[i + 1]) % BASE]
  BY DEF PropagateCarries
<1> HIDE DEF from, out
<1>3. /\ from[6] = 0
      /\ from[5] = (acc[5] + from[6]) \div BASE
      /\ from[4] = (acc[4] + from[5]) \div BASE
      /\ from[3] = (acc[3] + from[4]) \div BASE
      /\ from[2] = (acc[2] + from[3]) \div BASE
  <2>1. from[6] = 0
    BY <1>1
  <2>2. ASSUME NEW i \in {2, 3, 4, 5} PROVE from[i] = (acc[i] + from[i + 1]) \div BASE
    <3>1. i \in 2 .. 6 /\ i # 6
      OBVIOUS
    <3> QED BY <1>1, <3>1
  <2>3. from[5] = (acc[5] + from[5 + 1]) \div BASE /\ from[4] = (acc[4] + from[4 + 1]) \div BASE
        /\ from[3] = (acc[3] + from[3 + 1]) \div BASE /\ from[2] = (acc[2] + from[2 + 1]) \div BASE
    BY <2>2
  <2> QED BY <2>1, <2>3
<1>4. /\ out[1] = acc[1] + from[2]
      /\ out[2] = (acc[2] + from[3]) % BASE /\ out[3] = (acc[3] + from[4]) % BASE
      /\ out[4] = (acc[4] + from[5]) % BASE /\ out[5] = (acc[5] + from[6]) % BASE
  BY <1>2
<1>5. from[5] = 0 /\ out[5] = acc[5]
  <2>1. acc[5] \in Nat /\ acc[5] + from[6] = acc[5] /\ acc[5] < BASE * 1
    BY <1>3
  <2>2. acc[5] \div BASE < 1
    BY <2>1, QuotientBound
  <2>3. /\ acc[5] \div BASE \in Nat /\ acc[5] % BASE \in 0 .. BASE - 1
        /\ acc[5] = BASE * (acc[5] \div BASE) + (acc[5] % BASE)
    BY <2>1, Division
  <2>4. acc[5] \div BASE = 0
    BY <2>2, <2>3
  <2> QED BY <1>3, <1>4, <2>1, <2>3, <2>4
<1>0. acc[2] \in Nat /\ acc[2] <= 2 * BASE - 3 /\ acc[3] \in Nat /\ acc[3] <= 2 * BASE - 3
     /\ acc[4] \in Nat /\ acc[4] <= 2 * BASE - 3 /\ acc[1] \in Nat /\ acc[5] \in Nat
  OBVIOUS
<1>6. out[4] \in Limb /\ from[4] \in {0, 1} /\ BASE * from[4] + out[4] = acc[4] + from[5]
  <2>1. /\ (acc[4] + from[5]) % BASE \in Limb /\ (acc[4] + from[5]) \div BASE \in {0, 1}
        /\ BASE * ((acc[4] + from[5]) \div BASE) + ((acc[4] + from[5]) % BASE)
             = acc[4] + from[5]
    BY <1>5, <1>0, CarryStep
  <2> QED BY <1>3, <1>4, <2>1
<1>7. out[3] \in Limb /\ from[3] \in {0, 1} /\ BASE * from[3] + out[3] = acc[3] + from[4]
  <2>1. /\ (acc[3] + from[4]) % BASE \in Limb /\ (acc[3] + from[4]) \div BASE \in {0, 1}
        /\ BASE * ((acc[3] + from[4]) \div BASE) + ((acc[3] + from[4]) % BASE)
             = acc[3] + from[4]
    BY <1>6, <1>0, CarryStep
  <2> QED BY <1>3, <1>4, <2>1
<1>8. out[2] \in Limb /\ from[2] \in {0, 1} /\ BASE * from[2] + out[2] = acc[2] + from[3]
  <2>1. /\ (acc[2] + from[3]) % BASE \in Limb /\ (acc[2] + from[3]) \div BASE \in {0, 1}
        /\ BASE * ((acc[2] + from[3]) \div BASE) + ((acc[2] + from[3]) % BASE)
             = acc[2] + from[3]
    BY <1>7, <1>0, CarryStep
  <2> QED BY <1>3, <1>4, <2>1
<1>9. out[1] \in Limb /\ out[5] \in Limb
  BY <1>4, <1>5, <1>8 DEF Limb
<1>10. out \in [1 .. 5 -> Limb]
  <2>1. \A i \in 1 .. 5 : out[i] \in Limb
    BY <1>6, <1>7, <1>8, <1>9
  <2>2. out = [i \in 1 .. 5 |-> out[i]]
    BY <1>2
  <2> QED BY <2>1, <2>2
<1>11. Horner(out[1], out[2], out[3], out[4], out[5])
         = Horner(acc[1], acc[2], acc[3], acc[4], acc[5])
  <2> DEFINE
    x2 == BASE * acc[1] + acc[2]
    x3 == BASE * x2 + acc[3]
    x4 == BASE * x3 + acc[4]
  <2>1. x2 \in Nat /\ x3 \in Nat /\ x4 \in Nat
    <3>1. x2 \in Nat
      OBVIOUS
    <3> HIDE DEF x2
    <3>2. x3 \in Nat
      BY <3>1
    <3> HIDE DEF x3
    <3> QED BY <3>1, <3>2
  <2>2. BASE \in Nat /\ out[2] \in Nat /\ out[3] \in Nat /\ out[4] \in Nat
        /\ from[2] \in Nat /\ from[3] \in Nat /\ from[4] \in Nat /\ from[5] \in Nat
    <3>1. out[2] \in Limb /\ out[3] \in Limb /\ out[4] \in Limb
      BY <1>6, <1>7, <1>8
    <3>2. from[2] \in {0, 1} /\ from[3] \in {0, 1} /\ from[4] \in {0, 1} /\ from[5] = 0
      BY <1>5, <1>6, <1>7, <1>8
    <3> QED BY <3>1, <3>2 DEF Limb
  <2>6. BASE * out[1] + out[2] = x2 + from[3]
    <3>1. BASE * (acc[1] + from[2]) + out[2] = x2 + from[3]
      <4>1. BASE * from[2] + out[2] = acc[2] + from[3] /\ acc[1] \in Nat /\ acc[2] \in Nat
        BY <1>8, <1>0
      <4> QED BY SMTT(30), <2>2, <4>1, CarryMoved
    <3> QED BY <3>1, <1>4
  <2> HIDE DEF x2
  <2>3. BASE * (x2 + from[3]) + out[3] = x3 + from[4]
    <3>1. BASE * from[3] + out[3] = acc[3] + from[4] /\ acc[3] \in Nat
      BY <1>7, <1>0
    <3> QED BY <2>1, <2>2, <3>1, CarryMoved
  <2> HIDE DEF x3
  <2>4. BASE * (x3 + from[4]) + out[4] = x4 + from[5]
    <3>1. BASE * from[4] + out[4] = acc[4] + from[5] /\ acc[4] \in Nat
      BY <1>6, <1>0
    <3>2. x3 \in Nat
      BY <2>1
    <3>3. BASE * (x3 + from[4]) + out[4] = (BASE * x3 + acc[4]) + from[5]
      BY <2>2, <3>1, <3>2, CarryMoved
    <3> QED BY <3>3
  <2>5. BASE * (x4 + from[5]) + out[5] = BASE * x4 + acc[5]
    BY <1>5, <2>1
  <2> QED BY <2>6, <2>3, <2>4, <2>5 DEF Horner, x2, x3, x4
<1> QED BY <1>10, <1>11 DEF out

-----------------------------------------------------------------------------
\* One step of the long division: what is divided so far is den times the
\* quotient so far, and a remainder less than den.
LEMMA DivisionStep ==
  ASSUME NEW den \in Limb \ {0}, NEW h \in Nat, NEW q \in Nat, NEW r \in 0 .. den - 1,
         NEW a \in Limb, h = den * q + r, NEW c, c = BASE * r + a
  PROVE  /\ c \in 0 .. ACC_MAX /\ c \div den \in Limb /\ c % den \in 0 .. den - 1
         /\ BASE * h + a = den * (BASE * q + (c \div den)) + (c % den)
<1> USE TargetLimbsAssumption DEF Limb
<1>1. c \in Nat /\ c < den * BASE
  <2>1. c \in Nat
    OBVIOUS
  <2>2. BASE * (den - 1 - r) >= 0 /\ BASE * (den - 1 - r) = den * BASE - BASE - BASE * r
    OBVIOUS
  <2> QED BY <2>1, <2>2
<1>2. BASE * h + a = den * (BASE * q) + c
  <2>1. BASE * h = BASE * (den * q) + BASE * r /\ BASE * (den * q) = den * (BASE * q)
    OBVIOUS
  <2> QED BY <2>1
<1>3. c <= ACC_MAX
  <2>1. BASE * (BASE - den) >= 0 /\ BASE * (BASE - den) = BASE * BASE - den * BASE
    OBVIOUS
  <2> QED BY <1>1, <2>1 DEF ACC_MAX
<1>4. c \div den \in Nat /\ c % den \in 0 .. den - 1 /\ c = den * (c \div den) + (c % den)
  <2>1. den \in Nat \ {0}
    OBVIOUS
  <2> QED BY <1>1, <2>1, Division
<1>5. c \div den < BASE
  BY <1>1, QuotientBound
<1>6. BASE * h + a = den * (BASE * q + (c \div den)) + (c % den)
  <2> DEFINE k == c \div den
             z == BASE * q
  <2>1. k \in Nat /\ z \in Nat
    BY <1>4
  <2>2. den * (z + k) = den * z + den * k
    <3> HIDE DEF z, k
    <3> QED BY <2>1
  <2> HIDE DEF k
  <2>3. den * z + c = den * (z + k) + (c % den)
    <3> HIDE DEF z
    <3>1. c = den * k + (c % den)
      BY <1>4 DEF k
    <3> QED BY <1>1, <1>4, <2>1, <2>2, <3>1
  <2> QED BY <1>2, <2>3 DEF k
<1> QED BY <1>1, <1>3, <1>4, <1>5, <1>6

\* The long division: each dividend fits its accumulator, `as u64` truncates no
\* quotient, and the quotient's value is the floor of the value divided.
LEMMA LongDivisionExact ==
  ASSUME NEW acc \in [1 .. 5 -> Limb], NEW den \in Limb \ {0}
  PROVE  LET cur == Dividends(acc, den)
             q == Quotients(acc, den)
         IN  /\ \A i \in 1 .. 5 : cur[i] <= ACC_MAX /\ cur[i] \div den \in Limb
             /\ q \in [1 .. 5 -> Limb]
             /\ Horner(q[1], q[2], q[3], q[4], q[5])
                  = Horner(acc[1], acc[2], acc[3], acc[4], acc[5]) \div den
<1> USE TargetLimbsAssumption
<1> DEFINE
  Rec(f) == [i \in 1 .. 5 |-> IF i = 1 THEN acc[1] ELSE BASE * (f[i - 1] % den) + acc[i]]
  c1 == acc[1]
  c2 == BASE * (c1 % den) + acc[2]
  c3 == BASE * (c2 % den) + acc[3]
  c4 == BASE * (c3 % den) + acc[4]
  c5 == BASE * (c4 % den) + acc[5]
  W == [i \in 1 .. 5 |-> IF i = 1 THEN c1 ELSE IF i = 2 THEN c2 ELSE IF i = 3 THEN c3
                         ELSE IF i = 4 THEN c4 ELSE c5]
  CUR == CHOOSE f : f = Rec(f)
  q == Quotients(acc, den)
<1>1. CUR = Rec(CUR)
  <2>1. \A i \in 1 .. 5 : W[i] = IF i = 1 THEN acc[1] ELSE BASE * (W[i - 1] % den) + acc[i]
    <3> TAKE i \in 1 .. 5
    <3>1. i \in {1, 2, 3, 4, 5}
      OBVIOUS
    <3> HIDE DEF c1, c2, c3, c4, c5
    <3>2. W[1] = c1 /\ W[2] = c2 /\ W[3] = c3 /\ W[4] = c4 /\ W[5] = c5
      OBVIOUS
    <3> HIDE DEF W
    <3> QED BY <3>1, <3>2 DEF c1, c2, c3, c4, c5
  <2>2. W = Rec(W)
    <3> HIDE DEF c1, c2, c3, c4, c5
    <3> QED BY <2>1
  <2> QED BY <2>2
<1>2. Dividends(acc, den) = CUR
  BY DEF Dividends
<1>3. q = [i \in 1 .. 5 |-> (CUR[i] \div den) % BASE]
  BY <1>2 DEF Quotients
<1> HIDE DEF CUR, q
<1>4. /\ CUR[1] = acc[1] /\ CUR[2] = BASE * (CUR[1] % den) + acc[2]
      /\ CUR[3] = BASE * (CUR[2] % den) + acc[3]
      /\ CUR[4] = BASE * (CUR[3] % den) + acc[4]
      /\ CUR[5] = BASE * (CUR[4] % den) + acc[5]
  <2>1. CUR[1] = acc[1]
    BY <1>1
  <2>2. ASSUME NEW i \in {2, 3, 4, 5} PROVE CUR[i] = BASE * (CUR[i - 1] % den) + acc[i]
    <3>1. i \in 1 .. 5 /\ i # 1
      OBVIOUS
    <3> QED BY <1>1, <3>1
  <2>3. /\ CUR[2] = BASE * (CUR[2 - 1] % den) + acc[2]
        /\ CUR[3] = BASE * (CUR[3 - 1] % den) + acc[3]
        /\ CUR[4] = BASE * (CUR[4 - 1] % den) + acc[4]
        /\ CUR[5] = BASE * (CUR[5 - 1] % den) + acc[5]
    BY <2>2
  <2> QED BY <2>1, <2>3
<1> DEFINE
  k1 == CUR[1] \div den
  k2 == CUR[2] \div den
  k3 == CUR[3] \div den
  k4 == CUR[4] \div den
  k5 == CUR[5] \div den
  h2 == BASE * acc[1] + acc[2]
  h3 == BASE * h2 + acc[3]
  h4 == BASE * h3 + acc[4]
  h5 == BASE * h4 + acc[5]
  q2 == BASE * k1 + k2
  q3 == BASE * q2 + k3
  q4 == BASE * q3 + k4
  q5 == BASE * q4 + k5
<1>5. /\ acc[1] \in Limb /\ acc[2] \in Limb /\ acc[3] \in Limb /\ acc[4] \in Limb
      /\ acc[5] \in Limb /\ 0 \in Nat /\ 0 \in 0 .. den - 1
  BY DEF Limb
<1> HIDE DEF k1, k2, k3, k4, k5
<1>6. /\ CUR[1] \in 0 .. ACC_MAX /\ k1 \in Limb /\ CUR[1] % den \in 0 .. den - 1
      /\ acc[1] \in Nat /\ acc[1] = den * k1 + (CUR[1] % den)
  <2>1. CUR[1] = BASE * 0 + acc[1] /\ CUR[1] = acc[1] /\ 0 = den * 0 + 0 /\ acc[1] \in Nat
    BY <1>4, <1>5 DEF Limb
  <2>2. /\ CUR[1] \in 0 .. ACC_MAX /\ k1 \in Limb /\ CUR[1] % den \in 0 .. den - 1
        /\ BASE * 0 + acc[1] = den * (BASE * 0 + k1) + (CUR[1] % den)
    BY <1>5, <2>1, DivisionStep DEF k1
  <2>3. BASE * 0 + k1 = k1
    BY <2>2 DEF Limb
  <2> QED BY <2>1, <2>2, <2>3
<1>7. /\ CUR[2] \in 0 .. ACC_MAX /\ k2 \in Limb /\ CUR[2] % den \in 0 .. den - 1
      /\ h2 \in Nat /\ q2 \in Nat /\ h2 = den * q2 + (CUR[2] % den)
  <2>1. k1 \in Nat
    BY <1>6 DEF Limb
  <2>2. /\ CUR[2] \in 0 .. ACC_MAX /\ k2 \in Limb /\ CUR[2] % den \in 0 .. den - 1
        /\ h2 = den * q2 + (CUR[2] % den)
    <3>1. /\ acc[1] \in Nat /\ acc[2] \in Limb /\ acc[1] = den * k1 + (CUR[1] % den)
          /\ CUR[1] % den \in 0 .. den - 1 /\ CUR[2] = BASE * (CUR[1] % den) + acc[2]
      BY <1>4, <1>5, <1>6
    <3>2. /\ CUR[2] \in 0 .. ACC_MAX /\ CUR[2] \div den \in Limb /\ CUR[2] % den \in 0 .. den - 1
          /\ BASE * acc[1] + acc[2] = den * (BASE * k1 + (CUR[2] \div den)) + (CUR[2] % den)
      BY <2>1, <3>1, DivisionStep
    <3> QED BY <3>2 DEF k2
  <2>3. h2 \in Nat /\ q2 \in Nat
    BY <1>5, <2>1, <2>2 DEF Limb
  <2> QED BY <2>2, <2>3
<1> HIDE DEF h2, q2
<1>8. /\ CUR[3] \in 0 .. ACC_MAX /\ k3 \in Limb /\ CUR[3] % den \in 0 .. den - 1
      /\ h3 \in Nat /\ q3 \in Nat /\ h3 = den * q3 + (CUR[3] % den)
  <2>1. /\ CUR[3] \in 0 .. ACC_MAX /\ k3 \in Limb /\ CUR[3] % den \in 0 .. den - 1
        /\ h3 = den * q3 + (CUR[3] % den)
    BY <1>4, <1>5, <1>7, DivisionStep DEF k3
  <2>2. h3 \in Nat /\ q3 \in Nat
    BY <1>5, <1>7, <2>1 DEF Limb
  <2> QED BY <2>1, <2>2
<1> HIDE DEF h3, q3
<1>9. /\ CUR[4] \in 0 .. ACC_MAX /\ k4 \in Limb /\ CUR[4] % den \in 0 .. den - 1
      /\ h4 \in Nat /\ q4 \in Nat /\ h4 = den * q4 + (CUR[4] % den)
  <2>1. /\ CUR[4] \in 0 .. ACC_MAX /\ k4 \in Limb /\ CUR[4] % den \in 0 .. den - 1
        /\ h4 = den * q4 + (CUR[4] % den)
    BY SMTT(30), <1>4, <1>5, <1>8, DivisionStep DEF k4
  <2>2. h4 \in Nat /\ q4 \in Nat
    BY <1>5, <1>8, <2>1 DEF Limb
  <2> QED BY <2>1, <2>2
<1> HIDE DEF h4, q4
<1>10. /\ CUR[5] \in 0 .. ACC_MAX /\ k5 \in Limb /\ CUR[5] % den \in 0 .. den - 1
       /\ h5 \in Nat /\ q5 \in Nat /\ h5 = den * q5 + (CUR[5] % den)
  <2>1. /\ CUR[5] \in 0 .. ACC_MAX /\ k5 \in Limb /\ CUR[5] % den \in 0 .. den - 1
        /\ h5 = den * q5 + (CUR[5] % den)
    <3>1. /\ acc[5] \in Limb /\ h4 \in Nat /\ q4 \in Nat /\ h4 = den * q4 + (CUR[4] % den)
          /\ CUR[4] % den \in 0 .. den - 1 /\ CUR[5] = BASE * (CUR[4] % den) + acc[5]
      BY <1>4, <1>5, <1>9
    <3>2. /\ CUR[5] \in 0 .. ACC_MAX /\ CUR[5] \div den \in Limb /\ CUR[5] % den \in 0 .. den - 1
          /\ BASE * h4 + acc[5] = den * (BASE * q4 + (CUR[5] \div den)) + (CUR[5] % den)
      BY <3>1, DivisionStep
    <3> QED BY <3>2 DEF k5
  <2>2. h5 \in Nat /\ q5 \in Nat
    BY <1>5, <1>9, <2>1 DEF Limb
  <2> QED BY <2>1, <2>2
<1>11. q5 = h5 \div den
  <2> HIDE DEF h5, q5
  <2> QED BY <1>10, QuotientUnique DEF Limb
<1>12. \A i \in 1 .. 5 : CUR[i] <= ACC_MAX /\ CUR[i] \div den \in Limb
  <2>1. \A i \in {1, 2, 3, 4, 5} : CUR[i] \in 0 .. ACC_MAX /\ CUR[i] \div den \in Limb
    BY <1>6, <1>7, <1>8, <1>9, <1>10 DEF k1, k2, k3, k4, k5
  <2>2. 1 .. 5 = {1, 2, 3, 4, 5} /\ ACC_MAX \in Nat
    BY DEF ACC_MAX
  <2> QED BY <2>1, <2>2
<1>13. \A i \in 1 .. 5 : q[i] = CUR[i] \div den
  <2> TAKE i \in 1 .. 5
  <2> DEFINE k == CUR[i] \div den
  <2>1. k \in Limb /\ q[i] = k % BASE
    BY <1>3, <1>12
  <2> HIDE DEF k
  <2>2. k % BASE = k
    BY <2>1 DEF Limb
  <2> QED BY <2>1, <2>2 DEF k
<1>14. q \in [1 .. 5 -> Limb]
  <2>1. \A i \in 1 .. 5 : q[i] \in Limb
    BY <1>12, <1>13
  <2>2. q = [i \in 1 .. 5 |-> q[i]]
    BY <1>3
  <2> QED BY <2>1, <2>2
<1>15. q[1] = k1 /\ q[2] = k2 /\ q[3] = k3 /\ q[4] = k4 /\ q[5] = k5
  BY <1>13 DEF k1, k2, k3, k4, k5
<1> QED BY <1>2, <1>11, <1>12, <1>14, <1>15 DEF q, Horner, h2, h3, h4, q2, q3, q4

-----------------------------------------------------------------------------
\* AllOnes is the largest value of four limbs.
LEMMA AllOnesIsLargest ==
  ASSUME NEW t \in [Limbs -> Limb]
  PROVE  /\ AllOnes \in [Limbs -> Limb]
         /\ Value(t) \in Nat /\ Value(AllOnes) \in Nat /\ Value(t) <= Value(AllOnes)
<1> USE TargetLimbsAssumption
<1>1. AllOnes \in [Limbs -> Limb]
  BY DEF AllOnes, Limb
<1>2. ASSUME NEW u \in [Limbs -> Limb] PROVE Value(u) \in Nat
  <2>1. u[1] \in Nat /\ u[2] \in Nat /\ u[3] \in Nat /\ u[4] \in Nat
    BY DEF Limbs, Limb
  <2> DEFINE v2 == BASE * u[1] + u[2]
             v3 == BASE * v2 + u[3]
  <2>2. v2 \in Nat
    BY <2>1
  <2> HIDE DEF v2
  <2>3. v3 \in Nat
    BY <2>1, <2>2
  <2> HIDE DEF v3
  <2>4. BASE * v3 + u[4] \in Nat
    BY <2>1, <2>3
  <2> QED BY <2>4, ValueOfFour DEF v2, v3
<1>3. ~HashUnderTarget(AllOnes, t)
  <2>1. ASSUME NEW i \in Limbs PROVE ~(AllOnes[i] < t[i])
    BY DEF AllOnes, Limb
  <2>2. DOMAIN AllOnes = Limbs
    BY <1>1
  <2> QED BY <2>1, <2>2 DEF HashUnderTarget
<1>4. ~(Value(AllOnes) < Value(t))
  BY <1>1, <1>3, DigitsCompare
<1> QED BY <1>1, <1>2, <1>4

\* A quotient that has a fifth digit is beyond AllOnes; one that has none is the
\* value of the other four.
LEMMA FifthDigit ==
  ASSUME NEW q \in [1 .. 5 -> Limb]
  PROVE  LET v == Horner(q[1], q[2], q[3], q[4], q[5])
             low == [i \in Limbs |-> q[i + 1]]
         IN  /\ q[1] # 0 => v > Value(AllOnes)
             /\ q[1] = 0 => low \in [Limbs -> Limb] /\ v = Value(low)
<1> USE TargetLimbsAssumption
<1> DEFINE
  v == Horner(q[1], q[2], q[3], q[4], q[5])
  low == [i \in Limbs |-> q[i + 1]]
  x == BASE - 1
  a2 == BASE * x + x
  a3 == BASE * a2 + x
  b2 == BASE * q[1] + q[2]
  b3 == BASE * b2 + q[3]
  b4 == BASE * b3 + q[4]
<1>1. /\ q[1] \in Limb /\ q[2] \in Limb /\ q[3] \in Limb /\ q[4] \in Limb /\ q[5] \in Limb
      /\ x \in Limb /\ 0 \in Nat /\ x \in Nat
      /\ q[1] \in Nat /\ q[2] \in Nat /\ q[3] \in Nat /\ q[4] \in Nat /\ q[5] \in Nat
  BY DEF Limb
<1> HIDE DEF x
<1>2. a2 \in Nat /\ b2 \in Nat
  BY <1>1
<1> HIDE DEF a2, b2
<1>3. a3 \in Nat /\ b3 \in Nat
  BY <1>1, <1>2
<1> HIDE DEF a3, b3
<1>4. b4 \in Nat
  BY <1>1, <1>3
<1> HIDE DEF b4
<1>5. v = BASE * b4 + q[5]
  BY DEF Horner, b4, b3, b2
<1>6. Value(AllOnes) = BASE * a3 + x
  <2>1. AllOnes \in [Limbs -> Limb]
    BY DEF AllOnes, Limb
  <2>2. AllOnes[1] = x /\ AllOnes[2] = x /\ AllOnes[3] = x /\ AllOnes[4] = x
    BY DEF AllOnes, Limbs, x
  <2> QED BY <2>1, <2>2, ValueOfFour DEF a3, a2
<1>7. ASSUME q[1] # 0 PROVE v > Value(AllOnes)
  <2>1. 0 < q[1]
    BY <1>1, <1>7
  <2>2. BASE * 0 + x < b2
    BY <1>1, <2>1, LastDigitDecides DEF b2
  <2>3. x < b2
    <3>1. BASE * 0 + x = x
      BY <1>1
    <3> QED BY <2>2, <3>1
  <2>4. BASE * x + x < BASE * b2 + q[3]
    BY <1>1, <1>2, <2>3, LastDigitDecides
  <2>5. a2 < b3
    BY <2>4 DEF a2, b3
  <2>6. BASE * a2 + x < BASE * b3 + q[4]
    BY <1>1, <1>2, <1>3, <2>5, LastDigitDecides
  <2>7. a3 < b4
    BY <2>6 DEF a3, b4
  <2>8. BASE * a3 + x < BASE * b4 + q[5]
    BY <1>1, <1>3, <1>4, <2>7, LastDigitDecides
  <2>9. BASE * a3 + x \in Nat /\ BASE * b4 + q[5] \in Nat
    BY <1>1, <1>3, <1>4
  <2> QED BY <1>5, <1>6, <2>8, <2>9
<1>8. ASSUME q[1] = 0 PROVE low \in [Limbs -> Limb] /\ v = Value(low)
  <2>1. low \in [Limbs -> Limb]
    BY DEF Limbs
  <2>2. low[1] = q[2] /\ low[2] = q[3] /\ low[3] = q[4] /\ low[4] = q[5]
    BY DEF Limbs
  <2> HIDE DEF low
  <2>3. b2 = q[2]
    BY <1>1, <1>8 DEF b2
  <2> QED BY <1>5, <2>1, <2>2, <2>3, ValueOfFour DEF b3, b4
<1> QED BY <1>7, <1>8

\* scale_target: the floor of the exact product's quotient, saturated at the
\* largest target, for every target and every ratio of limbs.
THEOREM ScaleTargetExact ==
  ASSUME NEW t \in [Limbs -> Limb], NEW num \in Limb, NEW den \in Limb \ {0}
  PROVE  LET scaled == (Value(t) * num) \div den IN
         /\ ScaleTarget(t, num, den) \in [Limbs -> Limb]
         /\ Value(ScaleTarget(t, num, den))
              = IF scaled > Value(AllOnes) THEN Value(AllOnes) ELSE scaled
<1> USE TargetLimbsAssumption
<1> DEFINE
  scaled == (Value(t) * num) \div den
  first == AlignedProducts(t, num)
  acc == PropagateCarries(first)
  q == Quotients(acc, den)
<1>1. /\ Value(t) \in Nat /\ Value(AllOnes) \in Nat /\ Value(t) <= Value(AllOnes)
      /\ AllOnes \in [Limbs -> Limb]
  BY AllOnesIsLargest
<1>2. CASE num = den
  <2>1. num \in Nat \ {0}
    BY <1>2 DEF Limb
  <2>2. Value(t) * num = den * Value(t) + 0 /\ Value(t) * num \in Nat /\ 0 \in 0 .. den - 1
        /\ den \in Nat \ {0}
    BY <1>1, <1>2, <2>1
  <2>3. scaled = Value(t)
    BY <1>1, <2>2, QuotientUnique
  <2> HIDE DEF scaled
  <2>4. ScaleTarget(t, num, den) = t
    BY <1>2 DEF ScaleTarget
  <2> QED BY <1>1, <2>3, <2>4 DEF scaled
<1>3. CASE num # den
  <2>1. /\ first \in [1 .. 5 -> Nat]
        /\ first[1] <= BASE - 2 /\ \A i \in 2 .. 4 : first[i] <= 2 * BASE - 3
        /\ first[5] <= BASE - 1
        /\ Horner(first[1], first[2], first[3], first[4], first[5]) = num * Value(t)
    BY AlignedProductsExact
  <2> HIDE DEF first
  <2>2. acc \in [1 .. 5 -> Limb]
        /\ Horner(acc[1], acc[2], acc[3], acc[4], acc[5]) = num * Value(t)
    BY <2>1, CarriesExact
  <2> HIDE DEF acc
  <2>3. q \in [1 .. 5 -> Limb]
        /\ Horner(q[1], q[2], q[3], q[4], q[5]) = (num * Value(t)) \div den
    BY <2>2, LongDivisionExact
  <2> HIDE DEF q
  <2>4. num * Value(t) = Value(t) * num
    BY <1>1 DEF Limb
  <2>5. Horner(q[1], q[2], q[3], q[4], q[5]) = scaled
    BY <2>3, <2>4
  <2>6. ~(acc[1] >= den * BASE)
    <3>1. acc[1] \in Limb /\ BASE * (den - 1) >= 0 /\ BASE * (den - 1) = den * BASE - BASE
      BY <2>2 DEF Limb
    <3> QED BY <3>1 DEF Limb
  <2>7. ScaleTarget(t, num, den) = IF q[1] # 0 THEN AllOnes ELSE [i \in Limbs |-> q[i + 1]]
    BY <1>3, <2>6 DEF ScaleTarget, q, acc, first
  <2>8. scaled \in Nat
    <3>1. Value(t) * num \in Nat /\ den \in Nat \ {0}
      BY <1>1 DEF Limb
    <3> QED BY <3>1, Division
  <2> HIDE DEF scaled
  <2>9. /\ q[1] # 0 => scaled > Value(AllOnes)
        /\ q[1] = 0 => /\ [i \in Limbs |-> q[i + 1]] \in [Limbs -> Limb]
                       /\ scaled = Value([i \in Limbs |-> q[i + 1]])
    BY <2>3, <2>5, FifthDigit
  <2>10. q[1] = 0 => scaled <= Value(AllOnes)
    BY <2>9, AllOnesIsLargest
  <2> QED BY <1>1, <2>7, <2>8, <2>9, <2>10 DEF scaled
<1> QED BY <1>2, <1>3

\* scale_target on the way: the carries leave limbs, the dividends fit a u128 and
\* `as u64` truncates no quotient.
THEOREM ScaleTargetFits ==
  ASSUME NEW t \in [Limbs -> Limb], NEW num \in Limb, NEW den \in Limb \ {0}
  PROVE  LET acc == PropagateCarries(AlignedProducts(t, num))
             cur == Dividends(acc, den)
         IN  \A i \in 1 .. 5 :
               acc[i] \in Limb /\ cur[i] <= ACC_MAX /\ cur[i] \div den \in Limb
<1> DEFINE
  first == AlignedProducts(t, num)
  acc == PropagateCarries(first)
<1>1. /\ first \in [1 .. 5 -> Nat]
      /\ first[1] <= BASE - 2 /\ \A i \in 2 .. 4 : first[i] <= 2 * BASE - 3
      /\ first[5] <= BASE - 1
  BY AlignedProductsExact
<1> HIDE DEF first
<1>2. acc \in [1 .. 5 -> Limb]
  BY <1>1, CarriesExact
<1> HIDE DEF acc
<1>3. \A i \in 1 .. 5 : Dividends(acc, den)[i] <= ACC_MAX /\ Dividends(acc, den)[i] \div den \in Limb
  BY <1>2, LongDivisionExact
<1> QED BY <1>2, <1>3 DEF acc, first
=============================================================================
