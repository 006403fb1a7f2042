------------------------------ MODULE Emission ------------------------------
(***************************************************************************)
(* What the program promises about the supply, with no hashes, clocks or   *)
(* admin: a fixed pool, opened once, from which every round either pays    *)
(* the scheduled reward of that round to one miner or pays nothing.  The   *)
(* specification has no exhaustion check: an implementation that may only  *)
(* spend what it has must never be asked for more.                         *)
(***************************************************************************)
EXTENDS Integers

CONSTANTS Miners, Pool,
          Reward(_)   \* the closed-form schedule: reward of a round

VARIABLES open, round, pool, balance

vars == <<open, round, pool, balance>>

Init ==
  /\ open = FALSE
  /\ round = 0
  /\ pool = 0
  /\ balance = [m \in Miners |-> 0]

Open ==
  /\ ~open
  /\ open' = TRUE
  /\ pool' = Pool
  /\ UNCHANGED <<round, balance>>

Win(m) ==
  /\ open
  /\ Reward(round) > 0
  /\ pool' = pool - Reward(round)
  /\ balance' = [balance EXCEPT ![m] = @ + Reward(round)]
  /\ round' = round + 1
  /\ UNCHANGED open

Skip ==
  /\ open
  /\ round' = round + 1
  /\ UNCHANGED <<open, pool, balance>>

Next == Open \/ Skip \/ \E m \in Miners : Win(m)

Spec == Init /\ [][Next]_vars
=============================================================================
