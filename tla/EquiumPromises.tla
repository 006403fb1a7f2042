---------------------------- MODULE EquiumPromises ---------------------------
(***************************************************************************)
(* What the Equium program promises over time: to everyone, the limits of  *)
(* the admin and rounds that close; to its holders, a fixed emission; to   *)
(* its clients, a chain of rounds.  The last two are abstract              *)
(* specifications that the program implements.                             *)
(***************************************************************************)
EXTENDS Equium

CONSTANT m1  \* the client whose chain of rounds it is

\* After the renouncement the admin's powers are gone for good: a target
\* moves only when a round ends on a retarget boundary, and then by a factor
\* between one half and two; mining that is not open never opens.  A target of
\* zero is then the end of mining: no hash is below it, scaling keeps it zero.
RenouncedIsFinal ==
  [][admin_renounced =>
       /\ admin_renounced'
       /\ mining_open' = mining_open
       /\ current_target' # current_target =>
            /\ block_height' = block_height + 1
            /\ IsRetargetBoundary(block_height')
            /\ RetargetWithinClamp
       /\ current_target = 0 =>
            /\ current_target' = 0
            /\ cumulative_mined' = cumulative_mined]_vars

\* Rounds keep closing, whoever mines or does not, whatever the target and the
\* reward have become: no round stays open for more than the timeout, as long as
\* slots and heights of the model remain.
RoundsKeepClosing ==
  mining_open ~>
    \/ current_round_open_slot + ROUND_TIMEOUT_SLOTS > MAX_SLOT
    \/ block_height + HALVING_INTERVAL_BLOCKS + RETARGET_INTERVAL_BLOCKS > U64_MAX

\* The program implements the fixed-pool emission: each account only ever
\* receives its rounds' closed-form rewards (`mine`, advance_round).
Supply == INSTANCE Emission WITH
  Pool <- MINEABLE_BASE, Reward <- RewardAtHeight,
  open <- mining_open, round <- block_height,
  pool <- mineable_vault, balance <- miner_ata

ImplementsEmission == Supply!Spec

\* What miner m1 sees of the program: a round is ours when a solution of that
\* round was paid to us.
Rounds == INSTANCE RoundChain WITH
  height <- block_height,
  ours <- {b.solution.height : b \in {c \in mined : c.winner = m1}}

\* The program implements the chain that the clients' modules are composed
\* with: a client wins only the round that is open, and a round once won is
\* never taken back (`mine`, `advance_empty_round`).
ImplementsRounds == Rounds!ChainSpec
=============================================================================
