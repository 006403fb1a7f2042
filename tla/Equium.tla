------------------------------- MODULE Equium -------------------------------
(***************************************************************************)
(* The on-chain Equium program (programs/equium/src): the config account,  *)
(* the mineable vault, and one action per instruction, together with the   *)
(* cluster's clock, the miners that solve puzzles off-chain and the        *)
(* network that carries their transactions.                                *)
(*                                                                         *)
(* An instruction is atomic and reverts as a whole when a check fails, so  *)
(* a failing instruction leaves no step.  What is concurrent is everything *)
(* around it: a miner solves against the config it read, and by the time   *)
(* its transaction lands the round may have been won, skipped, or          *)
(* retargeted.  `pending` holds every found solution that may still reach  *)
(* the program: it may land late, be resubmitted after it landed, be sent  *)
(* by another signer, or never land.                                       *)
(***************************************************************************)
EXTENDS Schedule, FiniteSets

CONSTANTS
  MINEABLE_BASE,       \* what fund_vault deposits (18.9M EQM in base units)
  ROUND_TIMEOUT_SLOTS, \* slots before a round may be closed empty (150)
  U64_MAX,             \* largest u64; checked arithmetic fails beyond it
  TOTAL_SUPPLY_BASE,   \* what the admin's source account holds at genesis
  Miners,              \* signers that can call `mine`
  NoWinner,            \* Pubkey::default()
  Challenge,           \* values of a 32-byte challenge
  Entropy,             \* slot hashes the SlotHashes sysvar may show
  Hash,                \* values of a solution hash
  DeriveNextChallenge(_, _, _), \* sha256(prev || winner || slot hash)
  MAX_SLOT,            \* bound of the model: the last slot
  TS_STEPS,            \* bound: what the unix clock may gain or lose per slot
  MAX_PENDING          \* bound: solutions in flight at once

ASSUME EquiumAssumption ==
  /\ MINEABLE_BASE \in Nat
  /\ ROUND_TIMEOUT_SLOTS \in Nat
  /\ TOTAL_SUPPLY_BASE \in Nat
  /\ U64_MAX \in Nat
  /\ NoWinner \notin Miners
  /\ Hash \subseteq Nat
  /\ \A c \in Challenge, w \in Miners \cup {NoWinner}, e \in Entropy :
        DeriveNextChallenge(c, w, e) \in Challenge
  /\ MAX_SLOT \in Nat
  /\ TS_STEPS \subseteq Int

\* state.rs fixes the pool to the sum of the halving series' upper bound:
\* 18.9e12 = 2 * 378,000 * 25e6.
ASSUME SupplyAssumption ==
  /\ 2 * (HALVING_INTERVAL_BLOCKS * INITIAL_BLOCK_REWARD_BASE) <= MINEABLE_BASE
  /\ MINEABLE_BASE <= U64_MAX

VARIABLES
  \* -- the config account (state.rs) --
  block_height, current_challenge, current_target,
  current_round_open_slot, last_winner,
  current_epoch_reward, next_halving_block, next_retarget_block,
  last_retarget_unix_ts, cumulative_mined, empty_rounds,
  mining_open, admin_renounced,
  \* -- token accounts; mineable_vault leaves out what others may send to it --
  source, mineable_vault, miner_ata,
  \* -- the Clock sysvar --
  slot, unix_timestamp,
  \* -- solutions found off-chain that may still reach the program --
  pending,
  \* -- the program's log: its BlockMined and MiningOpened events --
  mined, opened_slot

roundVars == <<block_height, current_challenge, current_round_open_slot,
               last_winner, empty_rounds>>
scheduleVars == <<current_epoch_reward, next_halving_block,
                  next_retarget_block, last_retarget_unix_ts>>
adminVars == <<mining_open, admin_renounced>>
tokenVars == <<source, mineable_vault, miner_ata, cumulative_mined>>
clockVars == <<slot, unix_timestamp>>
logVars == <<mined, opened_slot>>
vars == <<roundVars, scheduleVars, current_target, adminVars, tokenVars,
          clockVars, pending, logVars>>

\* An Equihash solution is valid for exactly one input block I, the triple
\* <<challenge, miner, height>>, and has one solution hash.
Solution == [challenge : Challenge, miner : Miners, height : Nat, hash : Hash]

\* A BlockMined event: the round, its winner and reward, and the solution
\* that won it.
Block == [height : Nat, winner : Miners, reward : Nat, solution : Solution]

TypeOK ==
  /\ block_height \in Nat
  /\ current_challenge \in Challenge
  /\ current_target \in Target
  /\ current_round_open_slot \in Nat
  /\ last_winner \in Miners \cup {NoWinner}
  /\ current_epoch_reward \in Nat
  /\ next_halving_block \in Nat
  /\ next_retarget_block \in Nat
  /\ last_retarget_unix_ts \in Int
  /\ cumulative_mined \in Nat
  /\ empty_rounds \in Nat
  /\ mining_open \in BOOLEAN
  /\ admin_renounced \in BOOLEAN
  /\ source \in Nat
  /\ mineable_vault \in Nat
  /\ miner_ata \in [Miners -> Nat]
  /\ slot \in Nat
  /\ unix_timestamp \in Int
  /\ pending \in SUBSET Solution
  /\ mined \in SUBSET Block
  /\ opened_slot \in Nat

-----------------------------------------------------------------------------
\* `initialize`: the config and the vault are created once, by the expected
\* admin, with any initial target; mining stays closed.
Init ==
  /\ block_height = 0
  /\ current_challenge \in Challenge
  /\ current_target \in 0 .. TARGET_MAX
  /\ slot = 0
  /\ unix_timestamp = 0
  /\ current_round_open_slot = slot
  /\ last_winner = NoWinner
  /\ current_epoch_reward = INITIAL_BLOCK_REWARD_BASE
  /\ next_halving_block = HALVING_INTERVAL_BLOCKS
  /\ next_retarget_block = RETARGET_INTERVAL_BLOCKS
  /\ last_retarget_unix_ts = unix_timestamp
  /\ cumulative_mined = 0
  /\ empty_rounds = 0
  /\ mining_open = FALSE
  /\ admin_renounced = FALSE
  /\ source = TOTAL_SUPPLY_BASE
  /\ mineable_vault = 0
  /\ miner_ata = [m \in Miners |-> 0]
  /\ pending = {}
  /\ mined = {}
  /\ opened_slot = 0

\* `has_one = admin`: after the renouncement config.admin is the default key,
\* which nobody can sign for.
AdminSigned == ~admin_renounced

\* `fund_vault`: moves the pool from the admin's account into the vault,
\* re-anchors the round and the retarget window to now, opens mining.
FundVault ==
  /\ AdminSigned
  /\ ~mining_open
  /\ source >= MINEABLE_BASE
  /\ source' = source - MINEABLE_BASE
  /\ mineable_vault' = mineable_vault + MINEABLE_BASE
  /\ current_round_open_slot' = slot
  /\ last_retarget_unix_ts' = unix_timestamp
  /\ mining_open' = TRUE
  /\ opened_slot' = slot
  /\ UNCHANGED <<block_height, current_challenge, last_winner, empty_rounds,
                 current_epoch_reward, next_halving_block, next_retarget_block,
                 current_target, admin_renounced, miner_ata, cumulative_mined,
                 clockVars, pending, mined>>

\* `advance_round` at a retarget boundary: scale the target by the time the
\* window took (a clock that went back counts as zero) and open the next one.
Retarget(new_height) ==
  IF IsRetargetBoundary(new_height)
  THEN LET passed == unix_timestamp - last_retarget_unix_ts
           actual_seconds == IF passed < 0 THEN 0 ELSE passed
       IN  /\ current_target' = NextTarget(current_target, actual_seconds)
           /\ last_retarget_unix_ts' = unix_timestamp
           /\ new_height + RETARGET_INTERVAL_BLOCKS <= U64_MAX
           /\ next_retarget_block' = new_height + RETARGET_INTERVAL_BLOCKS
  ELSE UNCHANGED <<current_target, last_retarget_unix_ts, next_retarget_block>>

\* Mutant: the boundary moves on but the reward does not halve.
HalveForgotten(new_height) ==
  IF IsHalvingBoundary(new_height)
  THEN /\ UNCHANGED current_epoch_reward
       /\ new_height + HALVING_INTERVAL_BLOCKS <= U64_MAX
       /\ next_halving_block' = new_height + HALVING_INTERVAL_BLOCKS
  ELSE UNCHANGED <<current_epoch_reward, next_halving_block>>

\* `advance_round` at a halving boundary: takes effect for the next round.
Halve(new_height) ==
  IF IsHalvingBoundary(new_height)
  THEN /\ current_epoch_reward' = current_epoch_reward \div 2
       /\ new_height + HALVING_INTERVAL_BLOCKS <= U64_MAX
       /\ next_halving_block' = new_height + HALVING_INTERVAL_BLOCKS
  ELSE UNCHANGED <<current_epoch_reward, next_halving_block>>

\* `advance_round`: `winner` is NoWinner for RoundTransition::Empty.
AdvanceRound(winner, entropy) ==
  /\ block_height < U64_MAX
  /\ block_height' = block_height + 1
  /\ current_challenge' = DeriveNextChallenge(current_challenge, winner, entropy)
  /\ current_round_open_slot' = slot
  /\ IF winner = NoWinner
     THEN /\ empty_rounds < U64_MAX
          /\ empty_rounds' = empty_rounds + 1
          /\ UNCHANGED last_winner
     ELSE /\ last_winner' = winner
          /\ UNCHANGED empty_rounds
  /\ Retarget(block_height + 1)
  /\ Halve(block_height + 1)

\* build_input(current_challenge, miner, block_height), and whether the
\* Equihash verifier accepts the solution for it.
BuildInput(miner) == <<current_challenge, miner, block_height>>

\* Mutant: the height is not part of the input block.
SolvesChallengeOnly(s, input) == <<s.challenge, s.miner>> = <<input[1], input[2]>>

SolvesInput(s, input) == <<s.challenge, s.miner, s.height>> = input

\* The checks of `mine` in their order: the first that fails is the error
\* the transaction reverts with.
MineVerdict(miner, s) ==
  IF ~mining_open THEN "MiningNotOpen"
  ELSE IF ~SolvesInput(s, BuildInput(miner)) THEN "InvalidEquihash"
  ELSE IF ~HashUnderTarget(s.hash, current_target) THEN "AboveTarget"
  ELSE IF current_epoch_reward = 0 THEN "RewardZeroed"
  ELSE IF cumulative_mined + current_epoch_reward > U64_MAX THEN "ScheduleOverflow"
  ELSE IF cumulative_mined + current_epoch_reward > MINEABLE_BASE THEN "SupplyExhausted"
  ELSE IF current_epoch_reward > mineable_vault THEN "InsufficientFunds"
  ELSE "Ok"

\* Mutant: the reward is read after the round was advanced.
MinePaysNextReward(miner, s, entropy) ==
  /\ MineVerdict(miner, s) = "Ok"
  /\ AdvanceRound(miner, entropy)
  /\ mineable_vault' = mineable_vault - current_epoch_reward'
  /\ miner_ata' = [miner_ata EXCEPT ![miner] = @ + current_epoch_reward']
  /\ cumulative_mined' = cumulative_mined + current_epoch_reward
  /\ mined' = mined \cup {[height |-> block_height, winner |-> miner,
                           reward |-> current_epoch_reward, solution |-> s]}
  /\ UNCHANGED <<source, adminVars, clockVars, pending, opened_slot>>

\* `mine`, signed by `miner`, carrying the solution `s`.
Mine(miner, s, entropy) ==
  /\ MineVerdict(miner, s) = "Ok"
  /\ mineable_vault' = mineable_vault - current_epoch_reward
  /\ miner_ata' = [miner_ata EXCEPT ![miner] = @ + current_epoch_reward]
  /\ cumulative_mined' = cumulative_mined + current_epoch_reward
  /\ AdvanceRound(miner, entropy)
  /\ mined' = mined \cup {[height |-> block_height, winner |-> miner,
                           reward |-> current_epoch_reward, solution |-> s]}
  /\ UNCHANGED <<source, adminVars, clockVars, pending, opened_slot>>

\* Mutants: the timeout is measured from genesis; a round without a reward
\* cannot be closed.
TimedOutSinceGenesis == slot >= ROUND_TIMEOUT_SLOTS
TimedOutAndPaying ==
  /\ slot - current_round_open_slot >= ROUND_TIMEOUT_SLOTS
  /\ current_epoch_reward > 0

RoundTimedOut == slot - current_round_open_slot >= ROUND_TIMEOUT_SLOTS

\* `advance_empty_round`: anyone may close a round that has been open for
\* the timeout; nothing is transferred.
AdvanceEmptyRound(entropy) ==
  /\ mining_open
  /\ RoundTimedOut
  /\ AdvanceRound(NoWinner, entropy)
  /\ UNCHANGED <<tokenVars, adminVars, clockVars, pending, logVars>>

\* `set_target`: the admin overrides the target until the renouncement.
SetTarget(new_target) ==
  /\ AdminSigned
  /\ current_target' = new_target
  /\ UNCHANGED <<roundVars, scheduleVars, adminVars, tokenVars, clockVars,
                 pending, logVars>>

\* `renounce_admin`: one-way.
RenounceAdmin ==
  /\ AdminSigned
  /\ admin_renounced' = TRUE
  /\ UNCHANGED <<roundVars, scheduleVars, current_target, mining_open,
                 tokenVars, clockVars, pending, logVars>>

-----------------------------------------------------------------------------
\* The environment.  A slot passes; the cluster's unix clock is an estimate
\* that may stand still or step back.
Tick(step) ==
  /\ slot < MAX_SLOT
  /\ slot' = slot + 1
  /\ unix_timestamp' = unix_timestamp + step
  /\ UNCHANGED <<roundVars, scheduleVars, current_target, adminVars,
                 tokenVars, pending, logVars>>

\* A miner that has read the config finds a solution for its own key.  It
\* may be submitted at any later time, which also covers a miner that read
\* the config earlier.
Solve(miner, hash) ==
  /\ Cardinality(pending) < MAX_PENDING
  /\ pending' = pending \cup {[challenge |-> current_challenge, miner |-> miner,
                               height |-> block_height, hash |-> hash]}
  /\ UNCHANGED <<roundVars, scheduleVars, current_target, adminVars,
                 tokenVars, clockVars, logVars>>

\* The solution is never sent again: its miner dropped it, or the network did.
Drop(s) ==
  /\ pending' = pending \ {s}
  /\ UNCHANGED <<roundVars, scheduleVars, current_target, adminVars,
                 tokenVars, clockVars, logVars>>

Next ==
  \/ FundVault
  \/ \E m \in Miners, s \in pending, e \in Entropy : Mine(m, s, e)
  \/ \E e \in Entropy : AdvanceEmptyRound(e)
  \/ \E t \in 0 .. TARGET_MAX : SetTarget(t)
  \/ RenounceAdmin
  \/ \E d \in TS_STEPS : Tick(d)
  \/ \E m \in Miners, h \in Hash : Solve(m, h)
  \/ \E s \in pending : Drop(s)

Spec == Init /\ [][Next]_vars

\* The cluster keeps producing slots and somebody keeps calling the
\* permissionless advance_empty_round; no miner need ever find a solution.
Fairness ==
  /\ WF_vars(\E d \in TS_STEPS : Tick(d))
  /\ WF_vars(\E e \in Entropy : AdvanceEmptyRound(e))

FairSpec == Spec /\ Fairness
-----------------------------------------------------------------------------
(* Properties of the program. *)

\* The boundaries kept in the config are the next multiples of their
\* intervals, whatever mix of mined and empty rounds led to this height; a
\* skipped or repeated boundary in advance_round would break it.
BoundariesAhead ==
  /\ block_height < next_halving_block
  /\ next_halving_block <= block_height + HALVING_INTERVAL_BLOCKS
  /\ next_halving_block % HALVING_INTERVAL_BLOCKS = 0
  /\ block_height < next_retarget_block
  /\ next_retarget_block <= block_height + RETARGET_INTERVAL_BLOCKS
  /\ next_retarget_block % RETARGET_INTERVAL_BLOCKS = 0

\* What has been paid, plus the rest of this epoch at its reward, plus all
\* the epochs still to come (less than one epoch at this reward), fits in
\* the pool.  This is why the halving in advance_round makes the pool last.
SupplyCoversSchedule ==
  cumulative_mined + (next_halving_block - block_height) * current_epoch_reward
    + HALVING_INTERVAL_BLOCKS * current_epoch_reward <= MINEABLE_BASE

\* Once mining is open the vault holds exactly the part of the pool that
\* has not been paid, and before it opens nothing has been paid.
VaultHoldsTheRest ==
  /\ mining_open => mineable_vault + cumulative_mined = MINEABLE_BASE
  /\ ~mining_open => mineable_vault = 0 /\ cumulative_mined = 0 /\ block_height = 0

\* The inductive core of the supply argument.
SupplyInv == BoundariesAhead /\ SupplyCoversSchedule /\ VaultHoldsTheRest

\* No solution that solves the open round is ever refused for lack of funds:
\* the SupplyExhausted and ScheduleOverflow errors of `mine`, and the token
\* program's own, cannot be reached.
NeverExhausted ==
  \A m \in Miners, s \in pending :
    MineVerdict(m, s) \notin {"ScheduleOverflow", "SupplyExhausted", "InsufficientFunds"}

\* A round is won at most once, by the miner that solved that very round,
\* with that round's solution: neither a copied transaction, nor one that
\* lands late or twice, nor a challenge that repeats, earns a reward.
OneWinnerPerRound ==
  /\ \A b \in mined :
       /\ b.height < block_height
       /\ b.solution.height = b.height
       /\ b.solution.miner = b.winner
       /\ b.reward > 0
  /\ \A b, c \in mined : b.height = c.height => b = c

\* Empty rounds are paced: each one consumes a full timeout since mining
\* opened, so the emission schedule cannot be run down by calling
\* advance_empty_round back to back.
EmptyRoundsArePaced ==
  mining_open =>
    /\ opened_slot + empty_rounds * ROUND_TIMEOUT_SLOTS <= current_round_open_slot
    /\ current_round_open_slot <= slot

\* The inductive form: nothing is skipped before mining opens.
PacingInv == EmptyRoundsArePaced /\ (~mining_open => empty_rounds = 0)

\* Retargeting moves the target by a factor between one half and two.
RetargetWithinClamp ==
  LET t == current_target
      u == current_target'
  IN  /\ t \div 2 <= u
      /\ u <= 2 * t
=============================================================================
