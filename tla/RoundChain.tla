----------------------------- MODULE RoundChain -----------------------------
(***************************************************************************)
(* What the on-chain program promises to one of its clients: rounds are    *)
(* numbered, they close one after the other, and a round this client won   *)
(* stays won.  The clients' modules compose with it, and EquiumPromises    *)
(* states that the program (Equium) implements it.                         *)
(***************************************************************************)
EXTENDS Naturals

VARIABLES
  height,  \* the round that is open (config.block_height)
  ours     \* the rounds our miner won

chainVars == <<height, ours>>

ChainInit == height = 0 /\ ours = {}

\* Someone else's solution, or advance_empty_round, closes the round.
OthersClose ==
  /\ height' = height + 1
  /\ UNCHANGED ours

\* Our `mine` transaction with a solution of round h executes and succeeds:
\* only while that round is open, for the challenge is the round's.
Win(h) ==
  /\ h = height
  /\ ours' = ours \cup {h}
  /\ height' = height + 1

\* fetchConfig: the config describes the round that is open when it is read.
ConfigRead == height

ChainNext == OthersClose \/ Win(height)

ChainSpec == ChainInit /\ [][ChainNext]_chainVars
=============================================================================
