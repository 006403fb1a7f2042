---------------------------- MODULE NativeMiners ----------------------------
(***************************************************************************)
(* A fleet of native miners on one chain: the main loops of the CLI miner  *)
(* (clients/cli-miner) and of the GPU miner (clients/gpu-miner).  A loop   *)
(* reads the config, races for a solution (SolutionRace), and submits it   *)
(* with send_and_confirm_transaction; the CLI miner's first looks whether  *)
(* the round has stalled and closes it with advance_empty_round.           *)
(*                                                                         *)
(* Slots, which the chain counts, and seconds, which the watchdog counts,  *)
(* pass independently; times are ages, up to where they stop mattering.    *)
(* Mining is open, and stays so.                                           *)
(***************************************************************************)
EXTENDS Naturals, FiniteSets, FiniteSetsExt

CONSTANTS
  CliMiners,            \* the miners with a watchdog
  GpuMiners,            \* those without
  ROUND_TIMEOUT_SLOTS,  \* age at which advance_empty_round closes a round
  ROUND_STALL,          \* ROUND_STALL_SECS
  ADVANCE_COOLDOWN,     \* ADVANCE_COOLDOWN_SECS
  MAX_BLOCKS,           \* --max-blocks: a miner ends after so many; 0: never
  MAX_HEIGHT            \* bound of the model: rounds that close

NativeAssumption ==
  /\ CliMiners \cap GpuMiners = {}
  /\ {ROUND_TIMEOUT_SLOTS, ROUND_STALL, ADVANCE_COOLDOWN} \subseteq Nat \ {0}
  /\ MAX_BLOCKS \in Nat /\ MAX_HEIGHT \in Nat

Miners == CliMiners \cup GpuMiners
Heights == 0 .. MAX_HEIGHT
NoHeight == MAX_HEIGHT + 1  \* current_height's u64::MAX

VARIABLES
  height,          \* the round that is open
  age,             \* slots since it opened
  won,             \* <<miner, round>> whose solution the program accepted
  adrift,          \* transactions given up: they may still execute
  at,              \* miner -> where its loop is, "down" when it has ended or hangs
  current_height,  \* miner -> round of the config it works with
  unchanged,       \* CLI miner -> seconds since last_height_change_at
  attempted,       \* CLI miner -> since last_advance_attempt_at; None is long ago
  fate,            \* miner -> its transaction: unknown, ok, err
  blocks_mined     \* miner -> its counter

chain == <<height, age, won>>
watchdog == <<unchanged, attempted>>
vars == <<chain, adrift, at, current_height, watchdog, fate, blocks_mined>>

TypeOK ==
  /\ height \in Heights /\ age \in 0 .. ROUND_TIMEOUT_SLOTS
  /\ won \subseteq Miners \X Heights /\ adrift \subseteq Miners \X Heights
  /\ at \in [Miners -> {"fetch", "advance", "race", "confirm", "down"}]
  /\ current_height \in [Miners -> Heights \cup {NoHeight}]
  /\ unchanged \in [CliMiners -> 0 .. ROUND_STALL]
  /\ attempted \in [CliMiners -> 0 .. ADVANCE_COOLDOWN]
  /\ fate \in [Miners -> {"unknown", "ok", "err"}]
  /\ blocks_mined \in [Miners -> Nat]

Init ==
  /\ height = 0 /\ age = 0 /\ won = {} /\ adrift = {}
  /\ at = [m \in Miners |-> "fetch"]
  /\ current_height = [m \in Miners |-> NoHeight]
  /\ unchanged = [m \in CliMiners |-> 0]
  /\ attempted = [m \in CliMiners |-> ADVANCE_COOLDOWN]
  /\ fate = [m \in Miners |-> "unknown"]
  /\ blocks_mined = [m \in Miners |-> 0]

-----------------------------------------------------------------------------
\* The next round opens.
OpenNext == height < MAX_HEIGHT /\ height' = height + 1 /\ age' = 0

\* A solution of round h is executed: only while that round is open.
Win(m, h) ==
  /\ h = height /\ OpenNext
  /\ won' = won \cup {<<m, h>>}

\* Somebody outside the fleet solves the round or closes it empty.
OthersClose ==
  /\ OpenNext
  /\ UNCHANGED <<won, adrift, at, current_height, watchdog, fate, blocks_mined>>

Older(a, limit) == IF a < limit THEN a + 1 ELSE a

Slot ==
  /\ age' = Older(age, ROUND_TIMEOUT_SLOTS)
  /\ UNCHANGED <<height, won, adrift, at, current_height, watchdog, fate, blocks_mined>>

Second ==
  /\ unchanged' = [m \in CliMiners |-> Older(unchanged[m], ROUND_STALL)]
  /\ attempted' = [m \in CliMiners |-> Older(attempted[m], ADVANCE_COOLDOWN)]
  /\ UNCHANGED <<chain, adrift, at, current_height, fate, blocks_mined>>

-----------------------------------------------------------------------------
Goto(m, place) == at' = [at EXCEPT ![m] = place]

IsNew(m) == current_height[m] # height

\* Mutant: every config read restarts the watchdog.
SinceChangeRestarted(m) == 0

\* The two clocks of a CLI miner after it has read the config: a round other
\* than before restarts them.
SinceChange(m) == IF IsNew(m) THEN 0 ELSE unchanged[m]
SinceAttempt(m) == IF IsNew(m) THEN ADVANCE_COOLDOWN ELSE attempted[m]

\* fetch_config; the CLI miner goes on to close a round that has stalled, unless
\* it tried just now.
FetchConfig(m) ==
  /\ at[m] = "fetch"
  /\ current_height' = [current_height EXCEPT ![m] = height]
  /\ \/ /\ m \in GpuMiners
        /\ Goto(m, "race")
        /\ UNCHANGED watchdog
     \/ /\ m \in CliMiners
        /\ LET stalled == SinceChange(m) >= ROUND_STALL /\ SinceAttempt(m) >= ADVANCE_COOLDOWN
           IN  /\ Goto(m, IF stalled THEN "advance" ELSE "race")
               /\ unchanged' = [unchanged EXCEPT ![m] = SinceChange(m)]
               /\ attempted' = [attempted EXCEPT ![m] = IF stalled THEN 0 ELSE SinceAttempt(m)]
  /\ UNCHANGED <<chain, adrift, fate, blocks_mined>>

\* A read that fails ends the program.
FetchFails(m) ==
  /\ at[m] = "fetch"
  /\ Goto(m, "down")
  /\ UNCHANGED <<chain, adrift, current_height, watchdog, fate, blocks_mined>>

\* submit_advance_empty_round is executed: whatever round is open is closed, or
\* the call is refused with RoundStillActive.
AdvanceLands(m) ==
  /\ at[m] = "advance"
  /\ Goto(m, "fetch")
  /\ IF age >= ROUND_TIMEOUT_SLOTS THEN OpenNext ELSE UNCHANGED <<height, age>>
  /\ UNCHANGED <<won, adrift, current_height, watchdog, fate, blocks_mined>>

\* It is not executed, or too late to be ours: then it is one of the others'.
AdvanceLost(m) ==
  /\ at[m] = "advance"
  /\ Goto(m, "fetch")
  /\ UNCHANGED <<chain, adrift, current_height, watchdog, fate, blocks_mined>>

\* race_for_solution and submit_mine: a solution below the target is sent; or
\* there is none within the budget, or it cannot be sent.  The race may block for
\* good (SolutionRace), and a GPU that fails may end its program.
Race(m) ==
  /\ at[m] = "race"
  /\ \E place \in {"confirm", "fetch", "down"} : Goto(m, place)
  /\ UNCHANGED <<chain, adrift, current_height, watchdog, fate, blocks_mined>>

Forget(m) == fate' = [fate EXCEPT ![m] = "unknown"]

\* Mutant: a transaction that failed counts as well.
ConfirmedAny(m) ==
  /\ at[m] = "confirm" /\ fate[m] # "unknown"
  /\ blocks_mined' = [blocks_mined EXCEPT ![m] = @ + 1]
  /\ Goto(m, IF blocks_mined'[m] = MAX_BLOCKS THEN "down" ELSE "fetch")
  /\ Forget(m)
  /\ UNCHANGED <<chain, adrift, current_height, watchdog>>

\* send_and_confirm_transaction returns what became of the transaction.
Confirmed(m) ==
  /\ at[m] = "confirm" /\ fate[m] # "unknown"
  /\ blocks_mined' = [blocks_mined EXCEPT ![m] = IF fate[m] = "ok" THEN @ + 1 ELSE @]
  /\ Goto(m, IF fate[m] = "ok" /\ MAX_BLOCKS > 0 /\ blocks_mined'[m] >= MAX_BLOCKS
             THEN "down" ELSE "fetch")
  /\ Forget(m)
  /\ UNCHANGED <<chain, adrift, current_height, watchdog>>

\* It gives up, or an RPC call of its own fails.
GiveUp(m) ==
  /\ at[m] = "confirm"
  /\ adrift' = IF fate[m] = "err" THEN adrift ELSE adrift \cup {<<m, current_height[m]>>}
  /\ Goto(m, "fetch") /\ Forget(m)
  /\ UNCHANGED <<chain, current_height, watchdog, blocks_mined>>

\* The cluster executes a transaction that is waited for, or one given up.
Execute(m) ==
  /\ at[m] = "confirm" /\ fate[m] = "unknown"
  /\ \/ Win(m, current_height[m]) /\ fate' = [fate EXCEPT ![m] = "ok"]
     \/ UNCHANGED chain /\ fate' = [fate EXCEPT ![m] = "err"]
  /\ UNCHANGED <<adrift, at, current_height, watchdog, blocks_mined>>

ExecuteAdrift ==
  /\ \E t \in adrift : Win(t[1], t[2])
  /\ UNCHANGED <<adrift, at, current_height, watchdog, fate, blocks_mined>>

LoopStep(m) ==
  \/ FetchConfig(m) \/ AdvanceLands(m) \/ AdvanceLost(m)
  \/ Race(m) \/ Confirmed(m) \/ GiveUp(m)

Next ==
  \/ \E m \in Miners : LoopStep(m) \/ FetchFails(m) \/ Execute(m)
  \/ ExecuteAdrift \/ OthersClose \/ Slot \/ Second

Spec == Init /\ [][Next]_vars

\* Time passes, programs run and their calls return, and a miner that keeps
\* calling advance_empty_round is heard in the end.
FairSpec ==
  /\ Spec
  /\ WF_vars(Slot) /\ WF_vars(Second)
  /\ \A m \in Miners : WF_vars(LoopStep(m))
  /\ \A m \in CliMiners : SF_vars(AdvanceLands(m))

-----------------------------------------------------------------------------
\* No round stays open for ever while a CLI miner is running, whatever the
\* others do: its watchdog outlasts its own races, its cool-down and the
\* attempts of the others. A fleet of GPU miners has no such miner.
StalledRoundsClose ==
  \A h \in 0 .. MAX_HEIGHT - 1 :
    height = h ~> height # h \/ \A m \in CliMiners : at[m] = "down"

\* A miner counts no round that it did not win, none twice, and misses none but
\* those it has not heard of yet or had given up a transaction of.
Unheard(m) == IF at[m] = "confirm" /\ fate[m] = "ok" THEN {<<m, current_height[m]>>} ELSE {}

WinsAreCounted ==
  \A m \in Miners :
    LET heard == {t \in won : t[1] = m} \ Unheard(m)
    IN  /\ blocks_mined[m] <= Cardinality(heard)
        /\ blocks_mined[m] >= Cardinality(heard \ adrift)
=============================================================================
