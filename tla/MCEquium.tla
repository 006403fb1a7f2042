------------------------------ MODULE MCEquium ------------------------------
(***************************************************************************)
(* Equium on a small instance, from two sides, because all of it at once   *)
(* has too many states.  "rounds": two miners compete over all the         *)
(* halvings of the pool, while the admin sets targets and the clock is     *)
(* steady.  "governed": one miner with one solution at a time, an admin    *)
(* that may renounce, and a clock that runs ahead or steps back.  A        *)
(* behaviour is of one of the two.                                         *)
(***************************************************************************)
EXTENDS EquiumPromises

CONSTANTS m2, nobody

VARIABLE part  \* which of the two

mcVars == <<part, vars>>

MCMiners == {m1, m2}
MCOneChallenge == {0}
MCOneEntropy == {1}
MCConstantChallenge(c, w, e) == c
MCClock == {-1, 1, 2}

Gain == unix_timestamp' - unix_timestamp

RoundsOnly ==
  /\ ~admin_renounced'
  /\ slot' # slot => Gain = 1
  /\ \A s \in pending' : s.hash = 0

GovernedOnly ==
  /\ slot' # slot => Gain # 1
  /\ Cardinality(pending') <= 1
  /\ \A s \in pending' : s.miner = m1

MCInit ==
  /\ part \in {"rounds", "governed"}
  /\ Init
  /\ part = "rounds" => current_target = TARGET_MAX

MCNext ==
  /\ Next
  /\ IF part = "rounds" THEN RoundsOnly ELSE GovernedOnly
  /\ UNCHANGED part

MCSpec == MCInit /\ [][MCNext]_mcVars /\ Fairness
=============================================================================
