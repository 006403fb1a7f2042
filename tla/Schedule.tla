------------------------------ MODULE Schedule ------------------------------
(***************************************************************************)
(* The pure functions of programs/equium/src/schedule.rs: the block reward *)
(* at a height, the halving and retarget boundaries, and the retarget      *)
(* rule.  A target is the 256-bit big-endian number its bytes denote, so   *)
(* the order of hash_under_target is the order of the naturals; the limb   *)
(* arithmetic behind ScaleTarget is modelled in module TargetLimbs.        *)
(***************************************************************************)
EXTENDS Integers

CONSTANTS
  INITIAL_BLOCK_REWARD_BASE,  \* reward of epoch 0 (25 EQM in base units)
  HALVING_INTERVAL_BLOCKS,    \* rounds per reward epoch (378,000)
  RETARGET_INTERVAL_BLOCKS,   \* rounds per retarget window (60)
  RETARGET_TARGET_SECONDS,    \* seconds a window should take (3,600)
  TARGET_MAX                  \* largest target, 2^256 - 1 in the code

ASSUME ScheduleAssumption ==
  /\ INITIAL_BLOCK_REWARD_BASE \in Nat
  /\ HALVING_INTERVAL_BLOCKS \in Nat \ {0}
  /\ RETARGET_INTERVAL_BLOCKS \in Nat \ {0}
  /\ RETARGET_TARGET_SECONDS \in Nat \ {0}
  /\ TARGET_MAX \in Nat

RETARGET_MIN_NUM == 1
RETARGET_MIN_DEN == 2
RETARGET_MAX_NUM == 2
RETARGET_MAX_DEN == 1

Target == 0 .. TARGET_MAX

PowerOfTwo[n \in Nat] == IF n = 0 THEN 1 ELSE 2 * PowerOfTwo[n - 1]

\* The reward, shifted right by the number of halvings.
RewardAtHeight(height) ==
  INITIAL_BLOCK_REWARD_BASE \div PowerOfTwo[height \div HALVING_INTERVAL_BLOCKS]

IsHalvingBoundary(height) == height > 0 /\ height % HALVING_INTERVAL_BLOCKS = 0

IsRetargetBoundary(height) == height > 0 /\ height % RETARGET_INTERVAL_BLOCKS = 0

\* floor(target * num / den), saturating at the largest target.
ScaleTarget(target, num, den) ==
  LET scaled == (target * num) \div den
  IN  IF scaled > TARGET_MAX THEN TARGET_MAX ELSE scaled

\* Mutant: the ratio is not clamped.
NextTargetUnclamped(old, actual) == ScaleTarget(old, actual, RETARGET_TARGET_SECONDS)

\* A window of zero seconds, or of less than half the expected time, halves
\* the target; one of more than twice the expected time doubles it.
NextTarget(old, actual) ==
  IF actual = 0 \/ actual * RETARGET_MIN_DEN < RETARGET_TARGET_SECONDS * RETARGET_MIN_NUM
  THEN ScaleTarget(old, RETARGET_MIN_NUM, RETARGET_MIN_DEN)
  ELSE IF actual * RETARGET_MAX_DEN > RETARGET_TARGET_SECONDS * RETARGET_MAX_NUM
  THEN ScaleTarget(old, RETARGET_MAX_NUM, RETARGET_MAX_DEN)
  ELSE ScaleTarget(old, actual, RETARGET_TARGET_SECONDS)

\* Mutant: a hash equal to the target wins.
HashAtMostTarget(hash, target) == hash <= target

HashUnderTarget(hash, target) == hash < target
=============================================================================
