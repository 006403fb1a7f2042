---------------------------- MODULE Equium_proofs ----------------------------
(***************************************************************************)
(* Proofs about the on-chain program for every schedule, every timeout,    *)
(* every set of miners and challenges, and every behaviour of the clock.   *)
(***************************************************************************)
EXTENDS EquiumPromises, InductionLemmas, TLAPS

USE DEF roundVars, scheduleVars, adminVars, tokenVars, clockVars, logVars

\* Division of a natural by a positive natural is a natural.
LEMMA DivIsNat ==
  ASSUME NEW a \in Nat, NEW b \in Nat \ {0}
  PROVE  a \div b \in Nat
  OBVIOUS

\* Division with remainder.
LEMMA DivisionWithRemainder ==
  ASSUME NEW a \in Nat, NEW b \in Nat \ {0}
  PROVE  a = b * (a \div b) + (a % b)
  OBVIOUS

\* Halving twice what is left of a number never exceeds the number.
LEMMA HalfTwice ==
  ASSUME NEW r \in Nat
  PROVE  /\ r \div 2 \in Nat
         /\ 2 * (r \div 2) <= r
  OBVIOUS

\* scale_target returns a target.
LEMMA ScaleTargetType ==
  ASSUME NEW t \in Target, NEW n \in Nat, NEW d \in Nat \ {0}
  PROVE  ScaleTarget(t, n, d) \in Target
<1>1. t \in Nat /\ TARGET_MAX \in Nat
  BY ScheduleAssumption DEF Target
<1>2. t * n \in Nat
  BY <1>1
<1>3. (t * n) \div d \in Nat
  BY <1>2, DivIsNat
<1> QED
  BY <1>1, <1>3 DEF ScaleTarget, Target

\* next_target returns a target.
LEMMA NextTargetType ==
  ASSUME NEW t \in Target, NEW s \in Nat
  PROVE  NextTarget(t, s) \in Target
  BY ScaleTargetType, ScheduleAssumption
  DEF NextTarget, RETARGET_MIN_NUM, RETARGET_MIN_DEN, RETARGET_MAX_NUM, RETARGET_MAX_DEN

-----------------------------------------------------------------------------
(* Type correctness *)

\* advance_round keeps the types of everything it writes.
LEMMA AdvanceRoundType ==
  ASSUME TypeOK, NEW w \in Miners \cup {NoWinner}, NEW e \in Entropy,
         AdvanceRound(w, e)
  PROVE  /\ block_height' \in Nat
         /\ current_challenge' \in Challenge
         /\ current_target' \in Target
         /\ current_round_open_slot' \in Nat
         /\ last_winner' \in Miners \cup {NoWinner}
         /\ current_epoch_reward' \in Nat
         /\ next_halving_block' \in Nat
         /\ next_retarget_block' \in Nat
         /\ last_retarget_unix_ts' \in Int
         /\ empty_rounds' \in Nat
<1> USE DEF TypeOK
<1>1. /\ block_height' \in Nat
      /\ current_challenge' \in Challenge
      /\ current_round_open_slot' \in Nat
      /\ last_winner' \in Miners \cup {NoWinner}
      /\ empty_rounds' \in Nat
  BY EquiumAssumption DEF AdvanceRound
<1>2. /\ current_target' \in Target
      /\ last_retarget_unix_ts' \in Int
      /\ next_retarget_block' \in Nat
  <2>1. Retarget(block_height + 1)
    BY DEF AdvanceRound
  <2>2. CASE IsRetargetBoundary(block_height + 1)
    <3> DEFINE passed == unix_timestamp - last_retarget_unix_ts
               actual == IF passed < 0 THEN 0 ELSE passed
    <3>1. actual \in Nat
      OBVIOUS
    <3>2. NextTarget(current_target, actual) \in Target
      BY <3>1, NextTargetType
    <3>3. current_target' = NextTarget(current_target, actual)
      BY <2>1, <2>2 DEF Retarget
    <3> QED
      BY <2>1, <2>2, <3>2, <3>3, ScheduleAssumption DEF Retarget
  <2>3. CASE ~IsRetargetBoundary(block_height + 1)
    BY <2>1, <2>3 DEF Retarget
  <2> QED
    BY <2>2, <2>3
<1>3. current_epoch_reward' \in Nat /\ next_halving_block' \in Nat
  BY HalfTwice, ScheduleAssumption DEF AdvanceRound, Halve
<1> QED
  BY <1>1, <1>2, <1>3

\* Every state of the program is well typed.
THEOREM TypeCorrect == Spec => []TypeOK
<1>1. Init => TypeOK
  <2> SUFFICES ASSUME Init PROVE TypeOK
    OBVIOUS
  <2>1. INITIAL_BLOCK_REWARD_BASE \in Nat /\ HALVING_INTERVAL_BLOCKS \in Nat
        /\ RETARGET_INTERVAL_BLOCKS \in Nat /\ TOTAL_SUPPLY_BASE \in Nat
    BY ScheduleAssumption, EquiumAssumption
  <2>2. miner_ata \in [Miners -> Nat]
        /\ pending \in SUBSET Solution /\ mined \in SUBSET Block
        /\ mining_open \in BOOLEAN /\ admin_renounced \in BOOLEAN
    BY DEF Init
  <2>3. slot \in Nat /\ unix_timestamp \in Int
    BY DEF Init
  <2> QED
    BY <2>1, <2>2, <2>3 DEF Init, TypeOK, Target
<1>2. TypeOK /\ [Next]_vars => TypeOK'
  <2> SUFFICES ASSUME TypeOK, [Next]_vars PROVE TypeOK'
    OBVIOUS
  <2>1. CASE FundVault
    BY <2>1, EquiumAssumption DEF FundVault, TypeOK
  <2>2. ASSUME NEW m \in Miners, NEW s \in pending, NEW e \in Entropy, Mine(m, s, e)
        PROVE  TypeOK'
    <3>1. AdvanceRound(m, e)
      BY <2>2 DEF Mine
    <3>2. /\ mineable_vault' \in Nat
          /\ miner_ata' \in [Miners -> Nat]
          /\ cumulative_mined' \in Nat
      BY <2>2 DEF Mine, MineVerdict, TypeOK
    <3>3. mined' \in SUBSET Block
      BY <2>2 DEF Mine, TypeOK, Block
    <3> QED
      BY <2>2, <3>1, <3>2, <3>3, AdvanceRoundType DEF Mine, TypeOK
  <2>3. ASSUME NEW e \in Entropy, AdvanceEmptyRound(e)
        PROVE  TypeOK'
    <3>1. AdvanceRound(NoWinner, e)
      BY <2>3 DEF AdvanceEmptyRound
    <3> QED
      BY <2>3, <3>1, AdvanceRoundType DEF AdvanceEmptyRound, TypeOK
  <2>4. ASSUME NEW t \in Target, SetTarget(t)
        PROVE  TypeOK'
    BY <2>4 DEF SetTarget, TypeOK
  <2>5. CASE RenounceAdmin
    BY <2>5 DEF RenounceAdmin, TypeOK
  <2>6. ASSUME NEW d \in TS_STEPS, Tick(d)
        PROVE  TypeOK'
    BY <2>6, EquiumAssumption DEF Tick, TypeOK
  <2>7. ASSUME NEW m \in Miners, NEW h \in Hash, Solve(m, h)
        PROVE  TypeOK'
    BY <2>7 DEF Solve, TypeOK, Solution
  <2>8. ASSUME NEW s \in pending, Drop(s)
        PROVE  TypeOK'
    BY <2>8 DEF Drop, TypeOK
  <2>9. CASE UNCHANGED vars
    BY <2>9 DEF vars, TypeOK
  <2> QED
    BY <2>1, <2>2, <2>3, <2>4, <2>5, <2>6, <2>7, <2>8, <2>9 DEF Next, Target
<1> QED
  BY <1>1, <1>2, PTL DEF Spec

-----------------------------------------------------------------------------
(* Multiples of an interval *)

\* Multiplication by a natural is monotonic.
LEMMA TimesMonotonic ==
  ASSUME NEW a \in Nat, NEW b \in Nat, NEW c \in Nat, a <= b
  PROVE  a * c <= b * c
  OBVIOUS

\* A number with remainder zero is a multiple.
LEMMA ZeroRemainder ==
  ASSUME NEW n \in Nat, NEW k \in Nat \ {0}, n % k = 0
  PROVE  \E q \in Nat : n = q * k
  OBVIOUS

\* A multiple has remainder zero.
LEMMA MultipleRemainder ==
  ASSUME NEW q \in Nat, NEW k \in Nat \ {0}
  PROVE  (q * k) % k = 0
  OBVIOUS

\* Two multiples less than one interval apart are the same.
LEMMA SameMultiple ==
  ASSUME NEW k \in Nat \ {0}, NEW p \in Nat, NEW q \in Nat,
         q * k <= p * k, p * k < q * k + k
  PROVE  p = q
<1>1. ~(p > q)
  <2> SUFFICES ASSUME p >= q + 1 PROVE FALSE
    OBVIOUS
  <2>1. (q + 1) * k <= p * k
    BY TimesMonotonic
  <2>2. (q + 1) * k = q * k + k
    OBVIOUS
  <2> QED
    BY <2>1, <2>2
<1>2. ~(p < q)
  <2> SUFFICES ASSUME p + 1 <= q PROVE FALSE
    OBVIOUS
  <2>1. (p + 1) * k <= q * k
    BY TimesMonotonic
  <2>2. (p + 1) * k = p * k + k
    OBVIOUS
  <2> QED
    BY <2>1, <2>2
<1> QED
  BY <1>1, <1>2

\* With the next boundary `n` ahead of height `h` by at most one interval,
\* the new height is on a boundary exactly when it is `n`.
LEMMA BoundaryReached ==
  ASSUME NEW k \in Nat \ {0}, NEW h \in Nat, NEW n \in Nat,
         h < n, n <= h + k, n % k = 0
  PROVE  (h + 1) % k = 0 <=> h + 1 = n
<1>1. PICK p \in Nat : n = p * k
  BY ZeroRemainder
<1>2. ASSUME (h + 1) % k = 0 PROVE h + 1 = n
  <2>1. PICK q \in Nat : h + 1 = q * k
    BY <1>2, ZeroRemainder
  <2>2. q * k <= p * k /\ p * k < q * k + k
    BY <1>1, <2>1
  <2>3. p = q
    BY <2>2, SameMultiple
  <2> QED
    BY <1>1, <2>1, <2>3
<1> QED
  BY <1>2

\* One interval further is the next multiple.
LEMMA NextMultiple ==
  ASSUME NEW k \in Nat \ {0}, NEW n \in Nat, n % k = 0
  PROVE  (n + k) % k = 0
<1>1. PICK p \in Nat : n = p * k
  BY ZeroRemainder
<1>2. n + k = (p + 1) * k
  BY <1>1
<1>3. p + 1 \in Nat
  OBVIOUS
<1>4. ((p + 1) * k) % k = 0
  BY <1>3, MultipleRemainder, Zenon
<1> QED
  BY <1>2, <1>4, Zenon

-----------------------------------------------------------------------------
(* The supply *)

\* What advance_round does to the boundaries and the reward, as an exact case
\* split: either the new height is the halving boundary or it is below it.
LEMMA AdvanceRoundBoundaries ==
  ASSUME TypeOK, BoundariesAhead, NEW w \in Miners \cup {NoWinner},
         NEW e \in Entropy, AdvanceRound(w, e)
  PROVE  /\ BoundariesAhead'
         /\ block_height' = block_height + 1
         /\ \/ /\ next_halving_block = block_height + 1
               /\ next_halving_block' = next_halving_block + HALVING_INTERVAL_BLOCKS
               /\ current_epoch_reward' = current_epoch_reward \div 2
            \/ /\ block_height + 1 < next_halving_block
               /\ next_halving_block' = next_halving_block
               /\ current_epoch_reward' = current_epoch_reward
<1> DEFINE h == block_height
           H == HALVING_INTERVAL_BLOCKS
           R == RETARGET_INTERVAL_BLOCKS
<1>0. /\ h \in Nat /\ next_halving_block \in Nat /\ next_retarget_block \in Nat
      /\ H \in Nat \ {0} /\ R \in Nat \ {0}
  BY ScheduleAssumption DEF TypeOK
<1>1. block_height' = h + 1
  BY DEF AdvanceRound
<1>2. /\ (h + 1) % H = 0 <=> h + 1 = next_halving_block
      /\ (h + 1) % R = 0 <=> h + 1 = next_retarget_block
  BY <1>0, BoundaryReached DEF BoundariesAhead
<1>3. /\ IsHalvingBoundary(h + 1) <=> h + 1 = next_halving_block
      /\ IsRetargetBoundary(h + 1) <=> h + 1 = next_retarget_block
  BY <1>0, <1>2 DEF IsHalvingBoundary, IsRetargetBoundary
<1>4. \/ /\ next_halving_block = h + 1
         /\ next_halving_block' = next_halving_block + H
         /\ current_epoch_reward' = current_epoch_reward \div 2
      \/ /\ h + 1 < next_halving_block
         /\ next_halving_block' = next_halving_block
         /\ current_epoch_reward' = current_epoch_reward
  BY <1>0, <1>3 DEF AdvanceRound, Halve, BoundariesAhead
<1>5. \/ /\ next_retarget_block = h + 1
         /\ next_retarget_block' = next_retarget_block + R
      \/ /\ h + 1 < next_retarget_block
         /\ next_retarget_block' = next_retarget_block
  BY <1>0, <1>3 DEF AdvanceRound, Retarget, BoundariesAhead
<1>6. /\ next_halving_block' % H = 0
      /\ next_retarget_block' % R = 0
  BY <1>0, <1>4, <1>5, NextMultiple DEF BoundariesAhead
<1>7. BoundariesAhead'
  BY <1>0, <1>1, <1>4, <1>5, <1>6 DEF BoundariesAhead
<1> QED
  BY <1>1, <1>4, <1>7

\* One round of the schedule: paying at most the reward of the round and
\* moving on never raises the amount the schedule has claimed.
LEMMA RoundWithinSchedule ==
  ASSUME NEW c \in Nat, NEW p \in Nat, NEW r \in Nat, NEW q \in Nat,
         NEW h \in Nat, NEW n \in Nat, NEW m \in Nat, NEW k \in Nat \ {0},
         NEW bound \in Nat,
         h < n, p <= r,
         c + (n - h) * r + k * r <= bound,
         \/ n = h + 1 /\ m = n + k /\ q = r \div 2
         \/ h + 1 < n /\ m = n /\ q = r
  PROVE  (c + p) + (m - (h + 1)) * q + k * q <= bound
<1>1. CASE n = h + 1 /\ m = n + k /\ q = r \div 2
  <2>1. m - (h + 1) = k /\ n - h = 1
    BY <1>1
  <2>2. 2 * q <= r
    BY <1>1, HalfTwice
  <2>3. (2 * q) * k <= r * k
    BY <2>2, TimesMonotonic
  <2>4. k * q + k * q = (2 * q) * k /\ r * k = k * r
    OBVIOUS
  <2>5. (n - h) * r = r
    BY <2>1
  <2>6. k * r \in Nat /\ k * q \in Nat
    OBVIOUS
  <2>7. (m - (h + 1)) * q = k * q
    BY <2>1
  <2> QED
    BY <2>3, <2>4, <2>5, <2>6, <2>7
<1>2. CASE h + 1 < n /\ m = n /\ q = r
  <2>1. (n - h) * r = (n - (h + 1)) * r + r
    OBVIOUS
  <2>2. (n - (h + 1)) * r \in Int /\ k * r \in Int
    OBVIOUS
  <2> QED
    BY <1>2, <2>1, <2>2
<1> QED
  BY <1>1, <1>2

\* advance_round keeps the schedule within the pool when the instruction
\* that called it paid at most this round's reward.
LEMMA AdvanceRoundSupply ==
  ASSUME TypeOK, BoundariesAhead, SupplyCoversSchedule,
         NEW w \in Miners \cup {NoWinner}, NEW e \in Entropy, AdvanceRound(w, e),
         NEW paid \in Nat, paid <= current_epoch_reward,
         cumulative_mined' = cumulative_mined + paid
  PROVE  BoundariesAhead' /\ SupplyCoversSchedule'
<1> DEFINE q == current_epoch_reward'
           m == next_halving_block'
           k == HALVING_INTERVAL_BLOCKS
<1>1. /\ k \in Nat \ {0} /\ MINEABLE_BASE \in Nat
      /\ block_height \in Nat /\ next_halving_block \in Nat
      /\ current_epoch_reward \in Nat /\ cumulative_mined \in Nat
  BY ScheduleAssumption, EquiumAssumption DEF TypeOK
<1>2. /\ BoundariesAhead'
      /\ block_height' = block_height + 1
      /\ \/ next_halving_block = block_height + 1 /\ m = next_halving_block + k
            /\ q = current_epoch_reward \div 2
         \/ block_height + 1 < next_halving_block /\ m = next_halving_block
            /\ q = current_epoch_reward
      /\ q \in Nat /\ m \in Nat
  BY AdvanceRoundType, AdvanceRoundBoundaries
<1>3. /\ block_height < next_halving_block
      /\ cumulative_mined + (next_halving_block - block_height) * current_epoch_reward
           + k * current_epoch_reward <= MINEABLE_BASE
  BY DEF SupplyCoversSchedule, BoundariesAhead
<1>4. (cumulative_mined + paid) + (m - (block_height + 1)) * q + k * q <= MINEABLE_BASE
  <2> HIDE DEF q, m
  <2> QED
    BY <1>1, <1>2, <1>3, RoundWithinSchedule
<1> QED
  BY <1>2, <1>4 DEF SupplyCoversSchedule

\* The supply invariant is inductive.
LEMMA SupplyInductive == TypeOK /\ SupplyInv /\ [Next]_vars => SupplyInv'
<1> SUFFICES ASSUME TypeOK, SupplyInv, [Next]_vars PROVE SupplyInv'
  OBVIOUS
<1> USE DEF SupplyInv
<1>0. /\ HALVING_INTERVAL_BLOCKS \in Nat \ {0} /\ MINEABLE_BASE \in Nat
      /\ block_height \in Nat /\ next_halving_block \in Nat
      /\ current_epoch_reward \in Nat /\ cumulative_mined \in Nat
      /\ mineable_vault \in Nat
  BY ScheduleAssumption, EquiumAssumption DEF TypeOK
<1>1. CASE FundVault
  <2>1. BoundariesAhead' /\ SupplyCoversSchedule'
    BY <1>1 DEF FundVault, BoundariesAhead, SupplyCoversSchedule
  <2>2. VaultHoldsTheRest'
    BY <1>0, <1>1 DEF FundVault, VaultHoldsTheRest
  <2> QED
    BY <2>1, <2>2
<1>2. ASSUME NEW m \in Miners, NEW s \in pending, NEW e \in Entropy, Mine(m, s, e)
      PROVE  SupplyInv'
  <2>1. AdvanceRound(m, e) /\ mining_open /\ mining_open'
    BY <1>2 DEF Mine, MineVerdict
  <2>2. cumulative_mined' = cumulative_mined + current_epoch_reward
    BY <1>2 DEF Mine
  <2>3. BoundariesAhead' /\ SupplyCoversSchedule'
    BY <1>0, <2>1, <2>2, AdvanceRoundSupply
  <2>4. VaultHoldsTheRest'
    BY <1>0, <1>2, <2>1 DEF Mine, VaultHoldsTheRest
  <2> QED
    BY <2>3, <2>4
<1>3. ASSUME NEW e \in Entropy, AdvanceEmptyRound(e)
      PROVE  SupplyInv'
  <2>1. AdvanceRound(NoWinner, e) /\ mining_open
    BY <1>3 DEF AdvanceEmptyRound
  <2>2. cumulative_mined' = cumulative_mined + 0
    BY <1>0, <1>3 DEF AdvanceEmptyRound
  <2>3. BoundariesAhead' /\ SupplyCoversSchedule'
    BY <1>0, <2>1, <2>2, AdvanceRoundSupply
  <2>4. VaultHoldsTheRest'
    BY <1>3, <2>1 DEF AdvanceEmptyRound, VaultHoldsTheRest
  <2> QED
    BY <2>3, <2>4
<1>4. ASSUME UNCHANGED <<block_height, next_halving_block, next_retarget_block,
                         current_epoch_reward, cumulative_mined, mineable_vault,
                         mining_open>>
      PROVE  SupplyInv'
  BY <1>4 DEF BoundariesAhead, SupplyCoversSchedule, VaultHoldsTheRest
<1>5. ASSUME NEW t \in Target, SetTarget(t)
      PROVE  SupplyInv'
  BY <1>4, <1>5 DEF SetTarget
<1>6. CASE RenounceAdmin
  BY <1>4, <1>6 DEF RenounceAdmin
<1>7. ASSUME NEW d \in TS_STEPS, Tick(d)
      PROVE  SupplyInv'
  BY <1>4, <1>7 DEF Tick
<1>8. ASSUME NEW m \in Miners, NEW h \in Hash, Solve(m, h)
      PROVE  SupplyInv'
  BY <1>4, <1>8 DEF Solve
<1>9. ASSUME NEW s \in pending, Drop(s)
      PROVE  SupplyInv'
  BY <1>4, <1>9 DEF Drop
<1>10. CASE UNCHANGED vars
  BY <1>4, <1>10 DEF vars
<1> QED
  BY <1>1, <1>2, <1>3, <1>5, <1>6, <1>7, <1>8, <1>9, <1>10 DEF Next, Target

\* The initial schedule claims exactly the upper bound of the halving series.
LEMMA SupplyInit == Init => SupplyInv
<1> SUFFICES ASSUME Init PROVE SupplyInv
  OBVIOUS
<1> DEFINE H == HALVING_INTERVAL_BLOCKS
           R0 == INITIAL_BLOCK_REWARD_BASE
<1>1. /\ H \in Nat \ {0} /\ R0 \in Nat /\ RETARGET_INTERVAL_BLOCKS \in Nat \ {0}
      /\ MINEABLE_BASE \in Nat
  BY ScheduleAssumption, EquiumAssumption
<1>2. BoundariesAhead
  <2>1. H % H = 0 /\ RETARGET_INTERVAL_BLOCKS % RETARGET_INTERVAL_BLOCKS = 0
    BY <1>1
  <2> QED
    BY <1>1, <2>1 DEF Init, BoundariesAhead
<1>3. SupplyCoversSchedule
  <2>1. H * R0 \in Nat /\ 2 * (H * R0) <= MINEABLE_BASE
    BY <1>1, SupplyAssumption
  <2>2. 0 + (H - 0) * R0 + H * R0 = 2 * (H * R0)
    BY <1>1
  <2> QED
    BY <2>1, <2>2 DEF Init, SupplyCoversSchedule
<1>4. VaultHoldsTheRest
  BY DEF Init, VaultHoldsTheRest
<1> QED
  BY <1>2, <1>3, <1>4 DEF SupplyInv

\* Boundaries, supply and vault: the emission schedule of the program can
\* never ask for more than the vault was funded with.
THEOREM SupplySafe == Spec => []SupplyInv
<1>1. Init => SupplyInv
  BY SupplyInit
<1>2. TypeOK /\ SupplyInv /\ [Next]_vars => SupplyInv'
  BY SupplyInductive
<1> QED
  BY <1>1, <1>2, TypeCorrect, PTL DEF Spec

\* Hence the errors for an empty pool are unreachable: a solution that solves
\* the open round is never refused for lack of funds.
THEOREM NeverRefused == Spec => []NeverExhausted
<1>1. TypeOK /\ SupplyInv => NeverExhausted
  <2> SUFFICES ASSUME TypeOK, SupplyInv, mining_open
               PROVE  /\ cumulative_mined + current_epoch_reward <= MINEABLE_BASE
                      /\ current_epoch_reward <= mineable_vault
                      /\ cumulative_mined + current_epoch_reward <= U64_MAX
    BY SupplyAssumption, EquiumAssumption DEF NeverExhausted, MineVerdict, TypeOK
  <2> DEFINE left == next_halving_block - block_height
             r == current_epoch_reward
  <2>1. /\ left \in Nat /\ 1 <= left /\ r \in Nat
        /\ HALVING_INTERVAL_BLOCKS * r \in Nat
    BY ScheduleAssumption DEF TypeOK, SupplyInv, BoundariesAhead
  <2>2. 1 * r <= left * r
    BY <2>1, TimesMonotonic
  <2>3. left * r \in Nat /\ 1 * r = r
    BY <2>1
  <2>4. cumulative_mined + left * r + HALVING_INTERVAL_BLOCKS * r <= MINEABLE_BASE
    BY DEF SupplyInv, SupplyCoversSchedule
  <2>5. cumulative_mined + r <= MINEABLE_BASE
    <3> HIDE DEF left
    <3> QED
      BY <2>1, <2>2, <2>3, <2>4, EquiumAssumption DEF TypeOK
  <2>6. mineable_vault + cumulative_mined = MINEABLE_BASE
    BY DEF SupplyInv, VaultHoldsTheRest
  <2> QED
    BY <2>1, <2>5, <2>6, SupplyAssumption, EquiumAssumption DEF TypeOK
<1> QED
  BY <1>1, TypeCorrect, SupplySafe, PTL

-----------------------------------------------------------------------------
(* Rounds *)

\* No round is won twice, and none is won with a solution that was not found
\* for that round by its winner.
THEOREM RoundsWonOnce == Spec => []OneWinnerPerRound
<1>1. Init => OneWinnerPerRound
  BY DEF Init, OneWinnerPerRound
<1>2. TypeOK /\ OneWinnerPerRound /\ [Next]_vars => OneWinnerPerRound'
  <2> SUFFICES ASSUME TypeOK, OneWinnerPerRound, [Next]_vars PROVE OneWinnerPerRound'
    OBVIOUS
  <2>1. ASSUME NEW m \in Miners, NEW s \in pending, NEW e \in Entropy, Mine(m, s, e)
        PROVE  OneWinnerPerRound'
    <3> DEFINE won == [height |-> block_height, winner |-> m,
                       reward |-> current_epoch_reward, solution |-> s]
    <3>1. block_height \in Nat /\ block_height' = block_height + 1 /\ mined' = mined \cup {won}
      BY <2>1 DEF Mine, AdvanceRound, TypeOK
    <3>2. /\ s.height = block_height /\ s.miner = m
          /\ current_epoch_reward \in Nat /\ current_epoch_reward > 0
      BY <2>1 DEF Mine, MineVerdict, SolvesInput, BuildInput, TypeOK
    <3>3. \A b \in mined : b.height \in Nat /\ b.height < block_height
      BY DEF OneWinnerPerRound, TypeOK, Block
    <3>4. /\ won.height = block_height /\ won.winner = m
          /\ won.reward = current_epoch_reward /\ won.solution = s
      OBVIOUS
    <3> HIDE DEF won
    <3> QED
      BY <3>1, <3>2, <3>3, <3>4 DEF OneWinnerPerRound
  <2>2. ASSUME NEW e \in Entropy, AdvanceEmptyRound(e)
        PROVE  OneWinnerPerRound'
    <3>1. block_height \in Nat /\ block_height' = block_height + 1 /\ mined' = mined
      BY <2>2 DEF AdvanceEmptyRound, AdvanceRound, TypeOK
    <3>2. \A b \in mined : b.height \in Nat
      BY DEF TypeOK, Block
    <3> QED
      BY <3>1, <3>2 DEF OneWinnerPerRound
  <2>3. ASSUME UNCHANGED <<block_height, mined>>
        PROVE  OneWinnerPerRound'
    BY <2>3 DEF OneWinnerPerRound
  <2> QED
    BY <2>1, <2>2, <2>3
    DEF Next, vars, FundVault, SetTarget, RenounceAdmin, Tick, Solve, Drop
<1> QED
  BY <1>1, <1>2, TypeCorrect, PTL DEF Spec

\* Empty rounds cannot come faster than one per timeout.
THEOREM EmptyRoundsPaced == Spec => []EmptyRoundsArePaced
<1>1. Init => PacingInv
  BY DEF Init, PacingInv, EmptyRoundsArePaced
<1>2. TypeOK /\ PacingInv /\ [Next]_vars => PacingInv'
  <2> SUFFICES ASSUME TypeOK, PacingInv, [Next]_vars PROVE PacingInv'
    OBVIOUS
  <2>0. /\ empty_rounds \in Nat /\ slot \in Nat /\ current_round_open_slot \in Nat
        /\ opened_slot \in Nat /\ ROUND_TIMEOUT_SLOTS \in Nat
    BY EquiumAssumption DEF TypeOK
  <2>1. ASSUME NEW m \in Miners, NEW s \in pending, NEW e \in Entropy, Mine(m, s, e)
        PROVE  PacingInv'
    <3>1. /\ mining_open /\ mining_open' /\ empty_rounds' = empty_rounds
          /\ current_round_open_slot' = slot /\ slot' = slot
          /\ opened_slot' = opened_slot
      BY <2>1, EquiumAssumption DEF Mine, MineVerdict, AdvanceRound
    <3>2. empty_rounds * ROUND_TIMEOUT_SLOTS \in Nat
      BY <2>0
    <3> QED
      BY <2>0, <3>1, <3>2 DEF PacingInv, EmptyRoundsArePaced
  <2>2. ASSUME NEW e \in Entropy, AdvanceEmptyRound(e)
        PROVE  PacingInv'
    <3>1. /\ mining_open /\ mining_open' /\ empty_rounds' = empty_rounds + 1
          /\ slot - current_round_open_slot >= ROUND_TIMEOUT_SLOTS
          /\ current_round_open_slot' = slot /\ slot' = slot
          /\ opened_slot' = opened_slot
      BY <2>2 DEF AdvanceEmptyRound, RoundTimedOut, AdvanceRound
    <3>2. /\ empty_rounds * ROUND_TIMEOUT_SLOTS \in Nat
          /\ (empty_rounds + 1) * ROUND_TIMEOUT_SLOTS
               = empty_rounds * ROUND_TIMEOUT_SLOTS + ROUND_TIMEOUT_SLOTS
      BY <2>0
    <3> QED
      BY <2>0, <3>1, <3>2 DEF PacingInv, EmptyRoundsArePaced
  <2>3. CASE FundVault
    <3>1. /\ empty_rounds = 0 /\ empty_rounds' = 0 /\ mining_open'
          /\ opened_slot' = slot /\ current_round_open_slot' = slot /\ slot' = slot
      BY <2>3 DEF FundVault, PacingInv
    <3> QED
      BY <2>0, <3>1, EquiumAssumption DEF PacingInv, EmptyRoundsArePaced
  <2>4. ASSUME NEW d \in TS_STEPS, Tick(d)
        PROVE  PacingInv'
    BY <2>0, <2>4 DEF Tick, PacingInv, EmptyRoundsArePaced
  <2>5. ASSUME UNCHANGED <<mining_open, empty_rounds, current_round_open_slot,
                           opened_slot, slot>>
        PROVE  PacingInv'
    BY <2>5 DEF PacingInv, EmptyRoundsArePaced
  <2> QED
    BY <2>1, <2>2, <2>3, <2>4, <2>5 DEF Next, vars, SetTarget, RenounceAdmin, Solve, Drop
<1> QED
  BY <1>1, <1>2, TypeCorrect, PTL DEF Spec, PacingInv

-----------------------------------------------------------------------------
(* The target after the renouncement *)

\* A scaling by n/d between one half and two moves the target by a factor
\* between one half and two, saturation included.
LEMMA ScaleTargetClamp ==
  ASSUME NEW t \in Target, NEW n \in Nat, NEW d \in Nat \ {0},
         d <= 2 * n, n <= 2 * d
  PROVE  /\ t \div 2 <= ScaleTarget(t, n, d)
         /\ ScaleTarget(t, n, d) <= 2 * t
<1> DEFINE u == (t * n) \div d
           half == t \div 2
<1>1. t \in Nat /\ TARGET_MAX \in Nat /\ t <= TARGET_MAX
  BY ScheduleAssumption DEF Target
<1>2. half \in Nat /\ 2 * half <= t /\ t <= 2 * half + 1
  BY <1>1
<1>3. t * n \in Nat
  BY <1>1
<1>4. u \in Nat
  BY <1>3, DivIsNat
<1>5. PICK rem \in Nat : t * n = d * u + rem /\ rem < d
  <2>1. (t * n) % d \in Nat /\ (t * n) % d < d
    BY <1>3
  <2>2. t * n = d * u + ((t * n) % d)
    BY <1>3, DivisionWithRemainder, Zenon
  <2> QED
    BY <2>1, <2>2
<1> HIDE DEF u, half
<1>6. half <= u
  <2> SUFFICES ASSUME u + 1 <= half PROVE FALSE
    BY <1>2, <1>4
  <2>1. (u + 1) * (2 * d) <= half * (2 * d)
    BY <1>2, <1>4, TimesMonotonic
  <2>2. half * (2 * d) = (2 * half) * d
    BY <1>2
  <2>3. (2 * half) * d <= t * d
    BY <1>1, <1>2, TimesMonotonic
  <2>4. d * t <= (2 * n) * t
    BY <1>1, TimesMonotonic
  <2>5. (2 * n) * t = 2 * (t * n) /\ t * d = d * t
    BY <1>1
  <2>6. (u + 1) * (2 * d) = 2 * (d * u) + 2 * d /\ d * u \in Nat
    BY <1>4
  <2>7. (u + 1) * (2 * d) <= 2 * (t * n)
    <3>1. /\ (u + 1) * (2 * d) \in Nat /\ half * (2 * d) \in Nat
          /\ t * d \in Nat /\ 2 * (t * n) \in Nat
      BY <1>1, <1>2, <1>3, <1>4
    <3>2. half * (2 * d) <= t * d
      BY <2>2, <2>3
    <3>3. t * d <= 2 * (t * n)
      BY <2>4, <2>5
    <3> QED
      BY <2>1, <3>1, <3>2, <3>3
  <2> DEFINE du == d * u
             tn == t * n
  <2>8. /\ du \in Nat /\ tn = du + rem
        /\ 2 * du + 2 * d <= 2 * tn
    BY <1>5, <2>6, <2>7
  <2> HIDE DEF du, tn
  <2> QED
    BY <1>5, <2>8
<1>7. u <= 2 * t
  <2> SUFFICES ASSUME 2 * t + 1 <= u PROVE FALSE
    BY <1>1, <1>4
  <2>1. (2 * t + 1) * d <= u * d
    BY <1>1, <1>4, TimesMonotonic
  <2>2. (2 * t + 1) * d = (2 * d) * t + d
    BY <1>1
  <2>3. n * t <= (2 * d) * t
    BY <1>1, TimesMonotonic
  <2>4. n * t = t * n /\ u * d = d * u /\ (2 * d) * t \in Nat /\ d * u \in Nat
    BY <1>1, <1>4
  <2> QED
    BY <1>3, <1>5, <2>1, <2>2, <2>3, <2>4
<1>8. ScaleTarget(t, n, d) = IF u > TARGET_MAX THEN TARGET_MAX ELSE u
  BY DEF ScaleTarget, u
<1>9. half <= ScaleTarget(t, n, d) /\ ScaleTarget(t, n, d) <= 2 * t
  BY <1>1, <1>2, <1>4, <1>6, <1>7, <1>8
<1> QED
  BY <1>9 DEF half

\* next_target moves the target by a factor between one half and two, and
\* zero stays zero.
LEMMA NextTargetClamp ==
  ASSUME NEW t \in Target, NEW s \in Nat
  PROVE  /\ t \div 2 <= NextTarget(t, s)
         /\ NextTarget(t, s) <= 2 * t
<1>1. RETARGET_TARGET_SECONDS \in Nat \ {0}
  BY ScheduleAssumption
<1>2. CASE s = 0 \/ s * 2 < RETARGET_TARGET_SECONDS * 1
  <2>1. NextTarget(t, s) = ScaleTarget(t, 1, 2)
    BY <1>2 DEF NextTarget, RETARGET_MIN_NUM, RETARGET_MIN_DEN
  <2> QED
    BY <2>1, ScaleTargetClamp
<1>3. CASE ~(s = 0 \/ s * 2 < RETARGET_TARGET_SECONDS * 1) /\ s * 1 > RETARGET_TARGET_SECONDS * 2
  <2>1. NextTarget(t, s) = ScaleTarget(t, 2, 1)
    BY <1>3 DEF NextTarget, RETARGET_MIN_NUM, RETARGET_MIN_DEN, RETARGET_MAX_NUM, RETARGET_MAX_DEN
  <2> QED
    BY <2>1, ScaleTargetClamp
<1>4. CASE ~(s = 0 \/ s * 2 < RETARGET_TARGET_SECONDS * 1) /\ ~(s * 1 > RETARGET_TARGET_SECONDS * 2)
  <2>1. NextTarget(t, s) = ScaleTarget(t, s, RETARGET_TARGET_SECONDS)
    BY <1>4 DEF NextTarget, RETARGET_MIN_NUM, RETARGET_MIN_DEN, RETARGET_MAX_NUM, RETARGET_MAX_DEN
  <2>2. RETARGET_TARGET_SECONDS <= 2 * s /\ s <= 2 * RETARGET_TARGET_SECONDS
    BY <1>1, <1>4
  <2> QED
    BY <1>1, <2>1, <2>2, ScaleTargetClamp
<1> QED
  BY <1>2, <1>3, <1>4

\* What a round transition does to the target.
LEMMA RetargetEffect ==
  ASSUME TypeOK, NEW w \in Miners \cup {NoWinner}, NEW e \in Entropy, AdvanceRound(w, e)
  PROVE  /\ block_height' = block_height + 1
         /\ current_target' # current_target => IsRetargetBoundary(block_height')
         /\ current_target' # current_target => RetargetWithinClamp
         /\ current_target = 0 => current_target' = 0
<1>1. block_height' = block_height + 1 /\ Retarget(block_height + 1)
  BY DEF AdvanceRound
<1>2. CASE ~IsRetargetBoundary(block_height + 1)
  BY <1>1, <1>2 DEF Retarget
<1>3. CASE IsRetargetBoundary(block_height + 1)
  <2> DEFINE passed == unix_timestamp - last_retarget_unix_ts
             actual == IF passed < 0 THEN 0 ELSE passed
  <2>1. actual \in Nat /\ current_target \in Target /\ current_target \in Nat
    BY ScheduleAssumption DEF TypeOK, Target
  <2>2. current_target' = NextTarget(current_target, actual)
    BY <1>1, <1>3 DEF Retarget
  <2> HIDE DEF actual
  <2>3. /\ current_target \div 2 <= current_target'
        /\ current_target' <= 2 * current_target
    BY <2>1, <2>2, NextTargetClamp
  <2>4. current_target' \in Nat
    BY <2>1, <2>2, NextTargetType, ScheduleAssumption DEF Target
  <2> QED
    BY <1>1, <1>3, <2>1, <2>3, <2>4 DEF RetargetWithinClamp
<1> QED
  BY <1>2, <1>3

\* Once the admin has renounced, the admin's powers are gone: the target only
\* moves at retarget boundaries and within the clamp, mining never opens, and a
\* target of zero pays nobody ever again.
THEOREM RenouncementIsFinal == Spec => RenouncedIsFinal
<1>1. TypeOK /\ [Next]_vars =>
        [admin_renounced =>
           /\ admin_renounced'
           /\ mining_open' = mining_open
           /\ current_target' # current_target =>
                /\ block_height' = block_height + 1
                /\ IsRetargetBoundary(block_height')
                /\ RetargetWithinClamp]_vars
  <2> SUFFICES ASSUME TypeOK, Next, admin_renounced
               PROVE  /\ admin_renounced'
                      /\ mining_open' = mining_open
                      /\ current_target' # current_target =>
                           /\ block_height' = block_height + 1
                           /\ IsRetargetBoundary(block_height')
                           /\ RetargetWithinClamp
    OBVIOUS
  <2>1. ASSUME NEW m \in Miners, NEW s \in pending, NEW e \in Entropy, Mine(m, s, e)
        PROVE  /\ admin_renounced' /\ mining_open' = mining_open
               /\ AdvanceRound(m, e)
    BY <2>1 DEF Mine
  <2>2. ASSUME NEW e \in Entropy, AdvanceEmptyRound(e)
        PROVE  /\ admin_renounced' /\ mining_open' = mining_open
               /\ AdvanceRound(NoWinner, e)
    BY <2>2 DEF AdvanceEmptyRound
  <2>3. \/ \E m \in Miners, s \in pending, e \in Entropy : Mine(m, s, e)
        \/ \E e \in Entropy : AdvanceEmptyRound(e)
        \/ UNCHANGED <<admin_renounced, mining_open, current_target>>
    BY DEF Next, FundVault, SetTarget, RenounceAdmin, AdminSigned, Tick, Solve, Drop
  <2> QED
    BY <2>1, <2>2, <2>3, RetargetEffect
<1>2. TypeOK /\ [Next]_vars =>
        [admin_renounced /\ current_target = 0 =>
           /\ current_target' = 0
           /\ cumulative_mined' = cumulative_mined]_vars
  <2> SUFFICES ASSUME TypeOK, Next, admin_renounced, current_target = 0
               PROVE  current_target' = 0 /\ cumulative_mined' = cumulative_mined
    OBVIOUS
  <2>1. ASSUME NEW m \in Miners, NEW s \in pending, NEW e \in Entropy, Mine(m, s, e)
        PROVE  FALSE
    <3>1. HashUnderTarget(s.hash, current_target)
      BY <2>1 DEF Mine, MineVerdict
    <3>2. s.hash \in Nat
      BY EquiumAssumption DEF TypeOK, Solution
    <3> QED
      BY <3>1, <3>2 DEF HashUnderTarget
  <2>2. ASSUME NEW e \in Entropy, AdvanceEmptyRound(e)
        PROVE  AdvanceRound(NoWinner, e) /\ cumulative_mined' = cumulative_mined
    BY <2>2 DEF AdvanceEmptyRound
  <2>3. \/ \E m \in Miners, s \in pending, e \in Entropy : Mine(m, s, e)
        \/ \E e \in Entropy : AdvanceEmptyRound(e)
        \/ UNCHANGED <<cumulative_mined, current_target>>
    BY DEF Next, FundVault, SetTarget, RenounceAdmin, AdminSigned, Tick, Solve, Drop
  <2> QED
    BY <2>1, <2>2, <2>3, RetargetEffect
<1> QED
  BY <1>1, <1>2, TypeCorrect, PTL DEF Spec, RenouncedIsFinal

-----------------------------------------------------------------------------
(* The chain of rounds that the clients see *)

\* Rounds close one after the other, a client wins only the round that is open,
\* and what it won stays won: `mine` and `advance_empty_round` are steps of the
\* chain the clients' modules are composed with, every other instruction leaves
\* it as it is.
THEOREM RoundsImplemented == Spec => ImplementsRounds
<1> DEFINE ours == {b.solution.height : b \in {c \in mined : c.winner = m1}}
<1>1. Init => Rounds!ChainInit
  BY DEF Init, Rounds!ChainInit
<1>2. [Next]_vars => [Rounds!ChainNext]_(Rounds!chainVars)
  <2> SUFFICES ASSUME [Next]_vars
               PROVE  \/ block_height' = block_height + 1 /\ ours' = ours
                      \/ block_height' = block_height + 1 /\ ours' = ours \cup {block_height}
                      \/ block_height' = block_height /\ ours' = ours
    BY DEF Rounds!ChainNext, Rounds!OthersClose, Rounds!Win, Rounds!chainVars
  <2>1. ASSUME NEW m \in Miners, NEW s \in pending, NEW e \in Entropy, Mine(m, s, e)
        PROVE  /\ block_height' = block_height + 1
               /\ ours' = IF m = m1 THEN ours \cup {block_height} ELSE ours
    <3> DEFINE won == [height |-> block_height, winner |-> m,
                       reward |-> current_epoch_reward, solution |-> s]
    <3>1. block_height' = block_height + 1 /\ mined' = mined \cup {won}
      BY <2>1 DEF Mine, AdvanceRound
    <3>2. won.winner = m /\ won.solution.height = block_height
      BY <2>1 DEF Mine, MineVerdict, SolvesInput, BuildInput
    <3> HIDE DEF won
    <3> QED
      BY <3>1, <3>2
  <2>2. ASSUME NEW e \in Entropy, AdvanceEmptyRound(e)
        PROVE  block_height' = block_height + 1 /\ ours' = ours
    BY <2>2 DEF AdvanceEmptyRound, AdvanceRound
  <2>3. \/ \E m \in Miners, s \in pending, e \in Entropy : Mine(m, s, e)
        \/ \E e \in Entropy : AdvanceEmptyRound(e)
        \/ UNCHANGED <<block_height, mined>>
    BY DEF Next, vars, FundVault, SetTarget, RenounceAdmin, Tick, Solve, Drop
  <2> QED
    BY <2>1, <2>2, <2>3
<1> QED
  BY <1>1, <1>2, PTL DEF Spec, ImplementsRounds, Rounds!ChainSpec

-----------------------------------------------------------------------------
(* The closed form of the reward *)

\* The powers of two are what their definition says.
LEMMA PowersOfTwo ==
  /\ PowerOfTwo[0] = 1
  /\ \A n \in Nat : PowerOfTwo[n] \in Nat \ {0} /\ PowerOfTwo[n + 1] = 2 * PowerOfTwo[n]
<1> DEFINE Def(g) == g = [n \in Nat |-> IF n = 0 THEN 1 ELSE 2 * g[n - 1]]
           Pos == Nat \ {0}
           double == [k \in Pos |-> 2 * k]
<1>1. PICK f \in [Nat -> Pos] : f[0] = 1 /\ \A n \in Nat : f[n + 1] = double[f[n]]
  <2> DEFINE one == 1
  <2>1. double \in [Pos -> Pos] /\ one \in Pos
    OBVIOUS
  <2>2. \E f \in [Nat -> Pos] : f[0] = one /\ \A n \in Nat : f[n + 1] = double[f[n]]
    <3> HIDE DEF double, Pos, one
    <3> QED
      BY <2>1, PrimitiveRecursion
  <2> QED
    BY <2>2
<1>2. \A n \in Nat : f[n] = IF n = 0 THEN 1 ELSE 2 * f[n - 1]
  <2> SUFFICES ASSUME NEW n \in Nat, n # 0 PROVE f[n] = 2 * f[n - 1]
    BY <1>1
  <2>1. n - 1 \in Nat /\ f[(n - 1) + 1] = double[f[n - 1]]
    BY <1>1
  <2> QED
    BY <2>1
<1>3. Def(f)
  BY <1>2
<1>4. Def(PowerOfTwo)
  <2>1. PowerOfTwo = CHOOSE g : Def(g)
    BY DEF PowerOfTwo
  <2> HIDE DEF Def
  <2> QED
    BY <2>1, <1>3
<1>5. PowerOfTwo[0] = 1 /\ \A n \in Nat : PowerOfTwo[n + 1] = 2 * PowerOfTwo[n]
  <2>1. ASSUME NEW n \in Nat PROVE PowerOfTwo[n] = IF n = 0 THEN 1 ELSE 2 * PowerOfTwo[n - 1]
    BY <1>4
  <2> QED
    BY <2>1
<1>6. \A n \in Nat : PowerOfTwo[n] \in Pos
  <2> DEFINE T == {n \in Nat : PowerOfTwo[n] \in Pos}
  <2>1. 0 \in T /\ \A n \in T : n + 1 \in T
    BY <1>5
  <2>2. T \in SUBSET Nat
    OBVIOUS
  <2> HIDE DEF T
  <2>3. T = Nat
    BY <2>1, <2>2, Induction
  <2> QED
    BY <2>3 DEF T
<1> QED
  BY <1>5, <1>6

\* The quotient of a multiple and a remainder.
LEMMA QuotientOfSum ==
  ASSUME NEW c \in Nat \ {0}, NEW h \in Nat, NEW s \in 0 .. c - 1
  PROVE  (c * h + s) \div c = h
<1> DEFINE a == c * h + s
           q == a \div c
           r == a % c
<1>1. a \in Nat
  OBVIOUS
<1>2. q \in Nat /\ r \in 0 .. c - 1 /\ a = c * q + r
  <2> HIDE DEF a
  <2> QED
    BY <1>1, DivisionWithRemainder, DivIsNat
<1> HIDE DEF q, r
<1>3. ~(q <= h - 1)
  <2> SUFFICES ASSUME q + 1 <= h PROVE FALSE
    BY <1>2
  <2>1. (q + 1) * c <= h * c
    BY <1>2, TimesMonotonic
  <2>2. (q + 1) * c = c * q + c /\ h * c = c * h
    BY <1>2
  <2>3. c * q \in Nat /\ c * h \in Nat
    BY <1>2
  <2> QED
    BY <1>2, <2>1, <2>2, <2>3
<1>4. ~(h <= q - 1)
  <2> SUFFICES ASSUME h + 1 <= q PROVE FALSE
    BY <1>2
  <2>1. (h + 1) * c <= q * c
    BY <1>2, TimesMonotonic
  <2>2. (h + 1) * c = c * h + c /\ q * c = c * q
    BY <1>2
  <2>3. c * q \in Nat /\ c * h \in Nat
    BY <1>2
  <2> QED
    BY <1>2, <2>1, <2>2, <2>3
<1>5. q = h
  BY <1>2, <1>3, <1>4
<1> QED
  BY <1>5 DEF q

\* Dividing by b and then by two is dividing by 2 * b.
LEMMA HalvedQuotient ==
  ASSUME NEW a \in Nat, NEW b \in Nat \ {0}
  PROVE  (a \div b) \div 2 = a \div (2 * b)
<1> DEFINE q == a \div b
           r == a % b
           h == q \div 2
           i == q % 2
<1>1. q \in Nat /\ r \in 0 .. b - 1 /\ a = b * q + r
  BY DivisionWithRemainder, DivIsNat
<1>2. h \in Nat /\ i \in 0 .. 1 /\ q = 2 * h + i
  <2> HIDE DEF q
  <2> QED
    BY <1>1
<1>3. a = (2 * b) * h + (b * i + r) /\ b * i + r \in 0 .. (2 * b) - 1
  <2> HIDE DEF q, r, h, i
  <2>1. b * q = b * (2 * h) + b * i
    BY <1>1, <1>2
  <2>2. b * (2 * h) = (2 * b) * h
    BY <1>2
  <2>3. b * i \in 0 .. b
    BY <1>2
  <2> DEFINE bi == b * i
             bq == b * q
             ch == (2 * b) * h
  <2>4. bi \in 0 .. b /\ bq \in Nat /\ ch \in Nat /\ bq = ch + bi /\ a = bq + r
    BY <1>1, <1>2, <2>1, <2>2, <2>3
  <2> HIDE DEF bi, bq, ch
  <2>5. a = ch + (bi + r) /\ bi + r \in 0 .. (2 * b) - 1
    BY <1>1, <2>4
  <2> QED
    BY <2>5 DEF bi, ch
<1>4. h = a \div (2 * b)
  <2> DEFINE c == 2 * b
             s == b * i + r
  <2>1. c \in Nat \ {0} /\ s \in 0 .. c - 1 /\ a = c * h + s
    BY <1>3
  <2> HIDE DEF q, r, h, i, c, s
  <2>2. (c * h + s) \div c = h
    BY <1>2, <2>1, QuotientOfSum
  <2> QED
    BY <2>1, <2>2 DEF c
<1> QED
  BY <1>4

\* The next height is in the next epoch exactly when it is a halving boundary.
LEMMA NextEpoch ==
  ASSUME NEW k \in Nat \ {0}, NEW h \in Nat
  PROVE  (h + 1) \div k = IF (h + 1) % k = 0 THEN (h \div k) + 1 ELSE h \div k
<1> DEFINE q == h \div k
           r == h % k
<1>1. q \in Nat /\ r \in 0 .. k - 1 /\ h = k * q + r
  BY DivisionWithRemainder, DivIsNat
<1> HIDE DEF q, r
<1>2. CASE r = k - 1
  <2>1. h + 1 = k * (q + 1) + 0 /\ k * (q + 1) = (q + 1) * k
    BY <1>1, <1>2
  <2>2. (h + 1) \div k = q + 1
    BY <1>1, <2>1, QuotientOfSum
  <2>3. ((q + 1) * k) % k = 0
    BY <1>1, MultipleRemainder
  <2>4. (h + 1) % k = 0
    <3>1. (q + 1) * k \in Nat /\ h + 1 = (q + 1) * k
      BY <1>1, <2>1
    <3> QED
      BY <2>3, <3>1, Zenon
  <2> QED
    BY <2>2, <2>4 DEF q
<1>3. CASE r # k - 1
  <2>1. h + 1 = k * q + (r + 1) /\ r + 1 \in 0 .. k - 1
    BY <1>1, <1>3
  <2>2. (h + 1) \div k = q
    BY <1>1, <2>1, QuotientOfSum
  <2>3. h + 1 = k * ((h + 1) \div k) + ((h + 1) % k)
    BY DivisionWithRemainder
  <2>4. (h + 1) % k = r + 1
    <3> DEFINE z == (h + 1) % k
    <3>1. z \in Int /\ k * q \in Int /\ h + 1 = k * q + z
      BY <1>1, <2>2, <2>3
    <3> HIDE DEF z
    <3>2. z = r + 1
      BY <1>1, <2>1, <3>1
    <3> QED
      BY <3>2 DEF z
  <2> QED
    BY <1>1, <2>2, <2>4 DEF q
<1> QED
  BY <1>2, <1>3

\* The reward kept in the config is the closed form for the round.
RewardInv == current_epoch_reward = RewardAtHeight(block_height)

\* The step-by-step halving of advance_round keeps to the closed form.
LEMMA AdvanceRoundReward ==
  ASSUME TypeOK, RewardInv, NEW w, NEW e, AdvanceRound(w, e)
  PROVE  RewardInv'
<1> DEFINE H == HALVING_INTERVAL_BLOCKS
           R == INITIAL_BLOCK_REWARD_BASE
           n == block_height \div H
<1>1. H \in Nat \ {0} /\ R \in Nat /\ block_height \in Nat
  BY ScheduleAssumption DEF TypeOK
<1>2. n \in Nat
  BY <1>1, DivIsNat
<1>3. block_height' = block_height + 1 /\ Halve(block_height + 1)
  BY DEF AdvanceRound
<1>4. (block_height + 1) \div H = IF (block_height + 1) % H = 0 THEN n + 1 ELSE n
  BY <1>1, NextEpoch
<1>5. CASE (block_height + 1) % H = 0
  <2>1. current_epoch_reward' = (R \div PowerOfTwo[n]) \div 2
    BY <1>1, <1>3, <1>5 DEF Halve, IsHalvingBoundary, RewardInv, RewardAtHeight
  <2>2. PowerOfTwo[n] \in Nat \ {0} /\ PowerOfTwo[n + 1] = 2 * PowerOfTwo[n]
    BY <1>2, PowersOfTwo
  <2>3. (R \div PowerOfTwo[n]) \div 2 = R \div (2 * PowerOfTwo[n])
    BY <1>1, <2>2, HalvedQuotient
  <2> HIDE DEF n
  <2> QED
    BY <1>3, <1>4, <1>5, <2>1, <2>2, <2>3 DEF RewardInv, RewardAtHeight
<1>6. CASE (block_height + 1) % H # 0
  <2>1. current_epoch_reward' = current_epoch_reward
    BY <1>3, <1>6 DEF Halve, IsHalvingBoundary
  <2>2. (block_height + 1) \div H = n
    BY <1>4, <1>6
  <2> QED
    BY <1>3, <2>1, <2>2 DEF RewardInv, RewardAtHeight
<1> QED
  BY <1>5, <1>6

\* In every round, mined or empty, the reward is the scheduled one.
LEMMA RewardIsScheduled == Spec => []RewardInv
<1>1. Init => RewardInv
  <2> SUFFICES ASSUME Init PROVE RewardInv
    OBVIOUS
  <2>1. 0 \div HALVING_INTERVAL_BLOCKS = 0
    BY ScheduleAssumption
  <2>2. INITIAL_BLOCK_REWARD_BASE \div 1 = INITIAL_BLOCK_REWARD_BASE
    BY ScheduleAssumption
  <2>3. RewardAtHeight(0) = INITIAL_BLOCK_REWARD_BASE
    BY <2>1, <2>2, PowersOfTwo DEF RewardAtHeight
  <2>4. block_height = 0 /\ current_epoch_reward = INITIAL_BLOCK_REWARD_BASE
    BY DEF Init
  <2> QED
    BY <2>3, <2>4 DEF RewardInv
<1>2. TypeOK /\ RewardInv /\ [Next]_vars => RewardInv'
  <2> SUFFICES ASSUME TypeOK, RewardInv, [Next]_vars PROVE RewardInv'
    OBVIOUS
  <2>1. \/ \E w, e : AdvanceRound(w, e)
        \/ UNCHANGED <<block_height, current_epoch_reward>>
    BY DEF Next, vars, Mine, AdvanceEmptyRound, FundVault, SetTarget, RenounceAdmin,
           Tick, Solve, Drop
  <2> QED
    BY <2>1, AdvanceRoundReward DEF RewardInv, RewardAtHeight
<1> QED
  BY <1>1, <1>2, TypeCorrect, PTL DEF Spec

\* The program implements the emission its holders rely on: a pool that is opened
\* once, from which each round pays its closed-form reward to one miner or
\* nothing, with no check for exhaustion left.
THEOREM EmissionImplemented == Spec => ImplementsEmission
<1>1. Init => Supply!Init
  BY DEF Init, Supply!Init
<1>2. TypeOK /\ SupplyInv /\ RewardInv /\ [Next]_vars => [Supply!Next]_(Supply!vars)
  <2> SUFFICES ASSUME TypeOK, SupplyInv, RewardInv, [Next]_vars
               PROVE  Supply!Next \/ UNCHANGED Supply!vars
    OBVIOUS
  <2>1. CASE FundVault
    <3>1. mineable_vault = 0 /\ MINEABLE_BASE \in Nat
      BY <2>1, EquiumAssumption DEF FundVault, SupplyInv, VaultHoldsTheRest
    <3>2. Supply!Open
      BY <2>1, <3>1 DEF FundVault, Supply!Open
    <3> QED
      BY <3>2 DEF Supply!Next
  <2>2. ASSUME NEW m \in Miners, NEW s \in pending, NEW e \in Entropy, Mine(m, s, e)
        PROVE  Supply!Next
    <3>1. current_epoch_reward \in Nat /\ current_epoch_reward # 0 /\ mining_open
      BY <2>2 DEF Mine, MineVerdict, TypeOK
    <3>2. current_epoch_reward = RewardAtHeight(block_height)
      BY DEF RewardInv
    <3>3. Supply!Win(m)
      BY <2>2, <3>1, <3>2 DEF Mine, AdvanceRound, Supply!Win
    <3> QED
      BY <3>3 DEF Supply!Next
  <2>3. ASSUME NEW e \in Entropy, AdvanceEmptyRound(e)
        PROVE  Supply!Next
    BY <2>3 DEF AdvanceEmptyRound, AdvanceRound, Supply!Next, Supply!Skip
  <2>4. \/ FundVault
        \/ \E m \in Miners, s \in pending, e \in Entropy : Mine(m, s, e)
        \/ \E e \in Entropy : AdvanceEmptyRound(e)
        \/ UNCHANGED <<mining_open, block_height, mineable_vault, miner_ata>>
    BY DEF Next, vars, SetTarget, RenounceAdmin, Tick, Solve, Drop
  <2> QED
    BY <2>1, <2>2, <2>3, <2>4 DEF Supply!vars
<1> QED
  BY <1>1, <1>2, TypeCorrect, SupplySafe, RewardIsScheduled, PTL
  DEF Spec, ImplementsEmission, Supply!Spec
=============================================================================
