------------------------------ MODULE MCMiners ------------------------------
(***************************************************************************)
(* The miners and what they compute with, side by side: the race of the    *)
(* native miners' threads, a fleet of their main loops, the loop of the    *)
(* web miner, the GPU solver of the browser, and the limb arithmetic of    *)
(* the targets.  They share no state; a behaviour moves one of them, in    *)
(* the states it has alone, while the others rest in an initial state.     *)
(***************************************************************************)
EXTENDS SolutionRace, TargetLimbs, TLC

CONSTANTS
  w1, w2, w3, c1, g1,
  MAX_SESSIONS, MAX_HEIGHT,                             \* WebMiner
  CliMiners, GpuMiners,
  ROUND_TIMEOUT_SLOTS, ROUND_STALL, ADVANCE_COOLDOWN, MAX_BLOCKS, MAX_ROUNDS, \* NativeMiners
  Leaf, K, Bit, MAX_PER_BUCKET, MAX_ROWS, MAX_SOLUTIONS \* GpuWagner

VARIABLES
  part,                                         \* which of them moves
  height, ours, started, running, handle, stopped, loop, worker, cfg, fate,
  adrift, reported,                             \* WebMiner
  open, age, fleetWon, floating, at, current_height, unchanged, attempted, outcome,
  blocks_mined,                                 \* NativeMiners
  leaves, place, round, rows, slots, full, out, \* GpuWagner
  old, num, den, target                         \* TargetLimbs: a target, the ratio, the scaled target

ThreeWorkers == {w1, w2, w3}
OneCliMiner == {c1}
OneGpuMiner == {g1}

webVars == <<height, ours, started, running, handle, stopped, loop, worker, cfg, fate,
             adrift, reported>>
fleetVars == <<open, age, fleetWon, floating, at, current_height, unchanged, attempted, outcome,
               blocks_mined>>
gpuVars == <<leaves, place, round, rows, slots, full, out>>
limbVars == <<old, num, den, target>>
mcVars == <<part, vars, webVars, fleetVars, gpuVars, limbVars>>

Web == INSTANCE WebMiner WITH pc <- loop
Fleet == INSTANCE NativeMiners WITH
  MAX_HEIGHT <- MAX_ROUNDS,
  height <- open, won <- fleetWon, adrift <- floating, fate <- outcome
Gpu == INSTANCE GpuWagner

ASSUME MinersAssumption ==
  Web!WebAssumption /\ Fleet!NativeAssumption /\ Gpu!WagnerAssumption

-----------------------------------------------------------------------------
\* Tables of eight leaves of four digits. In turn: three and more solutions among
\* rows that share indices; full buckets in one round, in two, and more rows than
\* a buffer holds.
Tables == {
  <<<<0,1,2,0>>, <<3,2,2,3>>, <<0,2,1,1>>, <<3,3,0,2>>, <<3,3,0,1>>, <<3,3,2,0>>, <<0,0,2,0>>, <<0,2,1,1>>>>,
  <<<<2,1,2,1>>, <<0,3,0,3>>, <<1,3,3,0>>, <<3,3,0,1>>, <<3,0,1,2>>, <<1,0,2,2>>, <<2,2,0,2>>, <<0,0,2,1>>>>,
  <<<<1,1,3,1>>, <<0,1,0,3>>, <<3,3,0,2>>, <<2,1,3,3>>, <<0,1,1,3>>, <<3,3,1,3>>, <<2,1,2,2>>, <<1,1,2,1>>>>,
  <<<<1,2,1,2>>, <<0,3,0,3>>, <<1,2,3,0>>, <<2,1,3,0>>, <<1,1,0,1>>, <<1,1,1,2>>, <<0,3,1,1>>, <<2,1,1,3>>>>,
  <<<<2,3,1,2>>, <<0,2,2,1>>, <<1,1,3,3>>, <<0,0,1,3>>, <<0,2,0,3>>, <<0,1,3,0>>, <<3,2,1,3>>, <<0,1,3,3>>>>,
  <<<<0,0,2,0>>, <<0,3,0,2>>, <<3,2,0,1>>, <<3,2,3,0>>, <<0,2,0,3>>, <<0,2,1,1>>, <<0,3,0,1>>, <<0,0,0,0>>>>}

BitsOf(n) == {b \in Bit : (n \div b) % 2 = 1}
LeavesOf(table) == [i \in Leaf |-> [d \in 1 .. K + 1 |-> BitsOf(table[i + 1][d])]]

-----------------------------------------------------------------------------
\* Targets of every value; a behaviour is a chain of retargets.
LimbsInit == /\ old \in [Limbs -> Limb] /\ num = 1 /\ den = 1 /\ target = old

Scale(n, d) ==
  /\ num' = n /\ den' = d
  /\ old' = target
  /\ target' = ScaleTarget(target, n, d)

-----------------------------------------------------------------------------
MCInit ==
  /\ part \in {"race", "web", "fleet", "gpu", "limbs"}
  /\ Init
  /\ Web!Init /\ Fleet!Init
  /\ \E table \in IF part = "gpu" THEN Tables ELSE {CHOOSE table \in Tables : TRUE} :
       Gpu!InitWith(LeavesOf(table))
  /\ LimbsInit /\ (part # "limbs" => old = AllOnes)

MCNext ==
  /\ UNCHANGED part
  /\ \/ part = "race" /\ Next /\ UNCHANGED <<webVars, fleetVars, gpuVars, limbVars>>
     \/ part = "web" /\ Web!Next /\ UNCHANGED <<vars, fleetVars, gpuVars, limbVars>>
     \/ part = "fleet" /\ Fleet!Next /\ UNCHANGED <<vars, webVars, gpuVars, limbVars>>
     \/ part = "gpu" /\ Gpu!Next /\ UNCHANGED <<vars, webVars, fleetVars, limbVars>>
     \/ /\ part = "limbs" /\ UNCHANGED <<vars, webVars, fleetVars, gpuVars>>
        /\ \E n \in Limb, d \in Limb \ {0} : Scale(n, d)

\* The fairness of the part that moves.
MCFairness ==
  /\ WF_vars(part = "race" /\ CallerStep)
  /\ \A w \in Workers : WF_vars(part = "race" /\ WorkerStep(w))
  /\ \A s \in Web!Sessions : WF_webVars(part = "web" /\ Web!LoopStep(s))
  /\ WF_fleetVars(part = "fleet" /\ Fleet!Slot) /\ WF_fleetVars(part = "fleet" /\ Fleet!Second)
  /\ \A m \in Fleet!Miners : WF_fleetVars(part = "fleet" /\ Fleet!LoopStep(m))
  /\ \A m \in CliMiners : SF_fleetVars(part = "fleet" /\ Fleet!AdvanceLands(m))

MCSpec == MCInit /\ [][MCNext]_mcVars /\ MCFairness

-----------------------------------------------------------------------------
\* The race ends (SolutionRace).
CallReturns == part = "race" => RaceReturns

\* A round a miner won is reported, or counted, unless its transaction is still
\* being confirmed or was given up (WebMiner, NativeMiners).
WinIsReported == Web!WinIsReported /\ Fleet!WinsAreCounted

\* A stopped loop ends, or hangs at its terminated worker (WebMiner).
WindsDown == Web!WindsDown

\* No round stays open while a CLI miner is running (NativeMiners).
StalledRoundsClose == part = "fleet" => Fleet!StalledRoundsClose

-----------------------------------------------------------------------------
\* Every way to arrange leaves in a tree of r levels whose left halves start lower.
TreesOf[r \in Nat] ==
  IF r = 0 THEN {<<i>> : i \in Leaf}
  ELSE {p[1] \o p[2] : p \in {p \in TreesOf[r - 1] \X TreesOf[r - 1] :
          /\ p[1][1] < p[2][1]
          /\ \A j \in DOMAIN p[1], k \in DOMAIN p[2] : p[1][j] # p[2][k]}}
Trees == TreesOf[K]

\* The GPU finds what the verifier accepts: nothing else, whatever it lost to full
\* buckets; and all of it, up to its limit, when no bucket was full, so the nonce
\* the CPU solver would solve the GPU solves (runNonce, rounds.wgsl).
SolvesLikeTheVerifier ==
  /\ Gpu!CandidatesAreValid
  /\ place = "returned" /\ ~full =>
       LET solutions == {tree \in Trees : Gpu!IsValidSolution(tree)} IN
       \/ out = solutions
       \/ Cardinality(solutions) > MAX_SOLUTIONS /\ Cardinality(out) = MAX_SOLUTIONS

-----------------------------------------------------------------------------
\* What module Schedule takes ScaleTarget to be.
S == INSTANCE Schedule WITH
  INITIAL_BLOCK_REWARD_BASE <- 0, HALVING_INTERVAL_BLOCKS <- 1,
  RETARGET_INTERVAL_BLOCKS <- 1, RETARGET_TARGET_SECONDS <- 1,
  TARGET_MAX <- Value(AllOnes)

\* scale_target returns the saturated floor of target * num / den, as its comment
\* promises and as module Schedule models it, for every ratio, and on the way no
\* step leaves its machine type: no carry is lost, the dividends fit a u128,
\* `rem << 64 | limb` is a sum because the limb fits its width, and `as u64`
\* truncates no quotient.  The digit-wise comparison of hash_under_target, here of
\* the targets before and after, is the order of the numbers.
ScalesExactly ==
  LET acc == PropagateCarries(AlignedProducts(old, num))
      cur == Dividends(acc, den)
  IN  part = "limbs" =>
      /\ Value(target) = S!ScaleTarget(Value(old), num, den)
      /\ \A i \in 1 .. 5 :
           acc[i] \in Limb /\ cur[i] <= ACC_MAX /\ cur[i] \div den \in Limb
      /\ HashUnderTarget(old, target) <=> Value(old) < Value(target)
      /\ HashUnderTarget(target, old) <=> Value(target) < Value(old)
=============================================================================
