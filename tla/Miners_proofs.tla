---------------------------- MODULE Miners_proofs ----------------------------
(***************************************************************************)
(* Theorems about the miners of module MCMiners, for any number of         *)
(* workers, sessions, miners and rounds, and limbs of any width.           *)
(***************************************************************************)
EXTENDS MCMiners, TargetLimbs_proofs, InductionLemmas, FiniteSetTheorems, FunctionTheorems, SequenceTheorems

-----------------------------------------------------------------------------
\* What each worker and the caller know about a solution that was found: the
\* worker has reached its send, and once past the send the solution is in the
\* buffer unless somebody's solution was received or the receiver gave up.
RaceInv ==
  /\ \A w \in Workers :
       found[w] =>
         /\ pc[w] \in {"send", "raise", "count", "exited"}
         /\ pc[w] # "send" => channel # <<>> \/ winner # None \/ late
  /\ caller = "recv" => winner = None /\ ~late
  /\ caller # "recv" /\ winner = None /\ ~late =>
       \A w \in Workers : ~found[w] /\ pc[w] = "exited"

\* A worker that is about to try a nonce has one left in its budget.
BudgetLeft == \A w \in Workers : pc[w] = "solve" => tried[w] < MaxPerThread

\* Every reachable state of the race is well-typed: in particular the channel
\* never holds more than its capacity, and no worker exceeds its budget.
THEOREM RaceTypeCorrect == Spec => []TypeOK
<1>1. Init => TypeOK /\ BudgetLeft
  <2> SUFFICES ASSUME Init PROVE TypeOK /\ BudgetLeft
    OBVIOUS
  <2>1. channel \in Seq(Workers) /\ Len(channel) <= ChannelCapacity
    BY DEF Init, ChannelCapacity
  <2>2. total \in Nat
    BY DEF Init
  <2>3. tried \in [Workers -> 0 .. MaxPerThread]
    BY RaceAssumption DEF Init
  <2>4. pc \in [Workers -> {"test", "solve", "send", "raise", "count", "exited"}]
    BY DEF Init
  <2>5. BudgetLeft
    BY DEF Init, BudgetLeft
  <2> QED
    BY <2>1, <2>2, <2>3, <2>4, <2>5 DEF Init, TypeOK
<1>2. TypeOK /\ BudgetLeft /\ [Next]_vars => (TypeOK /\ BudgetLeft)'
  <2> SUFFICES ASSUME TypeOK, BudgetLeft, [Next]_vars PROVE (TypeOK /\ BudgetLeft)'
    OBVIOUS
  <2> USE RaceAssumption DEF TypeOK, BudgetLeft, ChannelCapacity, Goto
  <2>1. CASE UNCHANGED vars
    BY <2>1 DEF vars
  <2>2. ASSUME NEW w \in Workers, WorkerStep(w) PROVE (TypeOK /\ BudgetLeft)'
    <3>1. CASE Test(w)
      BY <3>1 DEF Test, callerVars
    <3>2. ASSUME NEW below \in BOOLEAN, Solve(w, below) PROVE (TypeOK /\ BudgetLeft)'
      BY <3>2 DEF Solve, callerVars
    <3>3. CASE Send(w)
      BY <3>3 DEF Send, callerVars
    <3>4. CASE Raise(w)
      BY <3>4 DEF Raise, callerVars
    <3>5. CASE Count(w)
      BY <3>5 DEF Count, callerVars
    <3> QED BY <2>2, <3>1, <3>2, <3>3, <3>4, <3>5 DEF WorkerStep
  <2>3. CASE CallerStep
    <3>1. CASE Recv
      BY <3>1 DEF Recv, workerVars
    <3>2. CASE RecvDisconnected
      BY <3>2 DEF RecvDisconnected, workerVars
    <3>3. CASE RecvTimeout
      BY <3>3 DEF RecvTimeout, workerVars
    <3>4. CASE RaiseStop
      BY <3>4 DEF RaiseStop, workerVars
    <3>5. CASE Join
      BY <3>5 DEF Join, workerVars
    <3> QED BY <2>3, <3>1, <3>2, <3>3, <3>4, <3>5 DEF CallerStep
  <2>4. CASE Returned
    BY <2>4 DEF Returned, vars
  <2> QED BY <2>1, <2>2, <2>3, <2>4 DEF Next
<1> QED BY <1>1, <1>2, PTL DEF Spec

\* A call that returns without a winner, and whose receiver did not give up on
\* the clock, was made in vain: no worker had found a solution.  The proof is
\* that a solution past its send is in the buffer or was received.
THEOREM SolutionsNotLost == Spec => []NoSolutionLost
<1>1. Init => RaceInv
  BY DEF Init, RaceInv
<1>2. TypeOK /\ RaceInv /\ [Next]_vars => RaceInv'
  <2> SUFFICES ASSUME TypeOK, RaceInv, [Next]_vars PROVE RaceInv'
    OBVIOUS
  <2> USE RaceAssumption DEF TypeOK, RaceInv, Goto
  <2>1. CASE UNCHANGED vars
    BY <2>1 DEF vars
  <2>2. ASSUME NEW w \in Workers, WorkerStep(w) PROVE RaceInv'
    <3>1. CASE Test(w)
      BY <3>1 DEF Test, callerVars
    <3>2. ASSUME NEW below \in BOOLEAN, Solve(w, below) PROVE RaceInv'
      BY <3>2 DEF Solve, callerVars
    <3>3. CASE Send(w)
      <4>1. channel' # <<>>
        BY <3>3 DEF Send
      <4> QED BY <3>3, <4>1 DEF Send, callerVars
    <3>4. CASE Raise(w)
      BY <3>4 DEF Raise, callerVars
    <3>5. CASE Count(w)
      BY <3>5 DEF Count, callerVars
    <3> QED BY <2>2, <3>1, <3>2, <3>3, <3>4, <3>5 DEF WorkerStep
  <2>3. CASE CallerStep
    <3>1. CASE Recv
      <4>1. winner' \in Workers /\ winner' # None
        BY <3>1 DEF Recv
      <4> QED BY <3>1, <4>1 DEF Recv, workerVars
    <3>2. CASE RecvDisconnected
      BY <3>2 DEF RecvDisconnected, AllExited, workerVars
    <3>3. CASE RecvTimeout
      BY <3>3 DEF RecvTimeout, workerVars
    <3>4. CASE RaiseStop
      BY <3>4 DEF RaiseStop, workerVars
    <3>5. CASE Join
      BY <3>5 DEF Join, workerVars
    <3> QED BY <2>3, <3>1, <3>2, <3>3, <3>4, <3>5 DEF CallerStep
  <2>4. CASE Returned
    BY <2>4 DEF Returned, vars
  <2> QED BY <2>1, <2>2, <2>3, <2>4 DEF Next
<1>3. RaceInv => NoSolutionLost
  BY DEF RaceInv, NoSolutionLost
<1> QED BY <1>1, <1>2, <1>3, RaceTypeCorrect, PTL DEF Spec

-----------------------------------------------------------------------------
\* A chain of retargets: the target is the old one scaled by the ratio.
LimbsInv ==
  /\ old \in [Limbs -> Limb] /\ num \in Limb /\ den \in Limb \ {0}
  /\ target = ScaleTarget(old, num, den)

\* scale_target is exact, saturates, and never leaves its machine types, and the
\* digit-wise comparison is the order of the numbers, whatever the width of a limb
\* and however many retargets went before.
THEOREM LimbsScaleExactly == MCSpec => []ScalesExactly
<1>1. MCInit => LimbsInv
  <2> SUFFICES ASSUME MCInit PROVE LimbsInv
    OBVIOUS
  <2>1. old \in [Limbs -> Limb] /\ num = 1 /\ den = 1 /\ target = old
    BY DEF MCInit, LimbsInit
  <2>2. num \in Limb /\ den \in Limb \ {0}
    BY <2>1, TargetLimbsAssumption DEF Limb
  <2>3. ScaleTarget(old, num, den) = old
    BY <2>1 DEF ScaleTarget
  <2> QED BY <2>1, <2>2, <2>3 DEF LimbsInv
<1>2. LimbsInv /\ [MCNext]_mcVars => LimbsInv'
  <2> SUFFICES ASSUME LimbsInv, [MCNext]_mcVars PROVE LimbsInv'
    OBVIOUS
  <2>1. CASE UNCHANGED limbVars
    BY <2>1 DEF LimbsInv, limbVars
  <2>2. ASSUME NEW n \in Limb, NEW d \in Limb \ {0}, Scale(n, d) PROVE LimbsInv'
    <3>1. target \in [Limbs -> Limb]
      BY ScaleTargetExact DEF LimbsInv
    <3> QED BY <2>2, <3>1 DEF Scale, LimbsInv
  <2> QED BY <2>1, <2>2 DEF MCNext, mcVars
<1>3. LimbsInv => ScalesExactly
  <2> SUFFICES ASSUME LimbsInv PROVE ScalesExactly
    OBVIOUS
  <2>1. target \in [Limbs -> Limb]
    BY ScaleTargetExact DEF LimbsInv
  <2>2. Value(target) = S!ScaleTarget(Value(old), num, den)
    BY ScaleTargetExact DEF LimbsInv, S!ScaleTarget
  <2>3. /\ HashUnderTarget(old, target) <=> Value(old) < Value(target)
        /\ HashUnderTarget(target, old) <=> Value(target) < Value(old)
    BY <2>1, DigitsCompare DEF LimbsInv
  <2>4. LET acc == PropagateCarries(AlignedProducts(old, num))
            cur == Dividends(acc, den)
        IN  \A i \in 1 .. 5 : acc[i] \in Limb /\ cur[i] <= ACC_MAX /\ cur[i] \div den \in Limb
    BY ScaleTargetFits DEF LimbsInv
  <2> QED BY <2>2, <2>3, <2>4 DEF ScalesExactly
<1> QED BY <1>1, <1>2, <1>3, PTL DEF MCSpec


-----------------------------------------------------------------------------
\* Every part of MCMiners behaves as its own module says, whoever moves.
LEMMA WebBehaves == MCSpec => Web!Spec
<1>1. MCInit => Web!Init
  BY DEF MCInit
<1>2. [MCNext]_mcVars => [Web!Next]_Web!vars
  <2> SUFFICES ASSUME [MCNext]_mcVars PROVE [Web!Next]_Web!vars
    OBVIOUS
  <2>1. Web!Next \/ UNCHANGED webVars
    BY DEF MCNext, mcVars
  <2> QED BY <2>1 DEF webVars, Web!vars, Web!chainVars, Web!appVars, Web!loopVars, Web!txVars
<1> QED BY <1>1, <1>2, PTL DEF MCSpec, Web!Spec

LEMMA FleetBehaves == MCSpec => Fleet!Spec
<1>1. MCInit => Fleet!Init
  BY DEF MCInit
<1>2. [MCNext]_mcVars => [Fleet!Next]_Fleet!vars
  <2> SUFFICES ASSUME [MCNext]_mcVars PROVE [Fleet!Next]_Fleet!vars
    OBVIOUS
  <2>1. Fleet!Next \/ UNCHANGED fleetVars
    BY DEF MCNext, mcVars
  <2> QED BY <2>1 DEF fleetVars, Fleet!vars, Fleet!chain, Fleet!watchdog
<1> QED BY <1>1, <1>2, PTL DEF MCSpec, Fleet!Spec

-----------------------------------------------------------------------------
\* The web miner: a session not yet started has no loop, so starting one forgets
\* no transaction in flight.
WebInv ==
  /\ started \in Nat
  /\ loop \in [Web!Sessions -> {"none", "head", "fetch", "solving", "checking",
                                "preparing", "confirming", "done"}]
  /\ fate \in [Web!Sessions -> {"unknown", "ok", "err"}]
  /\ DOMAIN cfg = Web!Sessions
  /\ \A s \in Web!Sessions : s > started => loop[s] = "none"
  /\ Web!WinIsReported

LEMMA WebInvInductive == WebInv /\ [Web!Next]_Web!vars => WebInv'
<1> SUFFICES ASSUME WebInv, [Web!Next]_Web!vars PROVE WebInv'
  OBVIOUS
<1> USE DEF WebInv, Web!WinIsReported, Web!chainVars, Web!appVars, Web!loopVars, Web!txVars
<1>0. MAX_SESSIONS \in Nat /\ Web!Sessions = 1 .. MAX_SESSIONS
  BY MinersAssumption DEF Web!WebAssumption, Web!Sessions
<1>1. CASE UNCHANGED Web!vars
  BY <1>1 DEF Web!vars
<1>2. CASE Web!StartMining
  <2>1. started + 1 \in Web!Sessions /\ started' = started + 1
    BY <1>0, <1>2 DEF Web!StartMining
  <2>2. loop[started + 1] = "none"
    BY <2>1
  <2>3. loop' = [loop EXCEPT ![started + 1] = "head"]
    BY <1>2, <2>1 DEF Web!StartMining
  <2>4. \A s \in Web!Sessions : s > started' => loop'[s] = "none"
    BY <1>0, <2>1, <2>3
  <2> QED BY <1>2, <2>1, <2>2, <2>3, <2>4 DEF Web!StartMining
<1>3. CASE Web!StopMining
  BY <1>3 DEF Web!StopMining
<1>4. ASSUME NEW s \in Web!Sessions, Web!LoopStep(s) PROVE WebInv'
  <2> USE DEF Web!Goto, Web!Forget
  <2>1. CASE Web!LoopHead(s)
    BY <2>1 DEF Web!LoopHead
  <2>2. CASE Web!FetchConfig(s)
    BY <2>2 DEF Web!FetchConfig
  <2>3. CASE Web!SolveOnWorker(s)
    BY <2>3 DEF Web!SolveOnWorker
  <2>4. CASE Web!CheckTarget(s)
    BY <2>4 DEF Web!CheckTarget
  <2>5. CASE Web!Submit(s)
    BY <2>5 DEF Web!Submit
  <2>6. CASE Web!Confirmed(s)
    BY <2>6 DEF Web!Confirmed
  <2>7. CASE Web!Expired(s)
    BY <2>7 DEF Web!Expired
  <2> QED BY <1>4, <2>1, <2>2, <2>3, <2>4, <2>5, <2>6, <2>7 DEF Web!LoopStep
<1>5. ASSUME NEW s \in Web!Sessions, Web!Execute(s) PROVE WebInv'
  BY <1>5 DEF Web!Execute, Web!Win
<1>6. ASSUME NEW h \in adrift, Web!ExecuteAdrift(h) PROVE WebInv'
  BY <1>6 DEF Web!ExecuteAdrift, Web!Win
<1>7. CASE Web!RoundCloses
  BY <1>7 DEF Web!RoundCloses, Web!OthersClose
<1> QED BY <1>1, <1>2, <1>3, <1>4, <1>5, <1>6, <1>7 DEF Web!Next

LEMMA WebWinsReported == Web!Spec => []Web!WinIsReported
<1>1. Web!Init => WebInv
  BY DEF Web!Init, Web!ChainInit, WebInv, Web!WinIsReported
<1>2. WebInv => Web!WinIsReported
  BY DEF WebInv
<1> QED BY <1>1, <1>2, WebInvInductive, PTL DEF Web!Spec

-----------------------------------------------------------------------------
\* The native fleet.  What a miner won and heard of, and the wins among them it
\* had not given up.
Heard(m) == {t \in fleetWon : t[1] = m} \ Fleet!Unheard(m)

\* A round is won once, before the round that is open, and a transaction that
\* succeeded has won its round.
FleetInv ==
  /\ open \in Nat
  /\ fleetWon \subseteq Fleet!Miners \X Nat /\ IsFiniteSet(fleetWon)
  /\ \A t \in fleetWon : t[2] < open
  /\ DOMAIN at = Fleet!Miners /\ current_height \in [Fleet!Miners -> Nat]
  /\ floating \subseteq Fleet!Miners \X Nat
  /\ outcome \in [Fleet!Miners -> {"unknown", "ok", "err"}]
  /\ blocks_mined \in [Fleet!Miners -> Nat]
  /\ \A m \in Fleet!Miners :
       outcome[m] = "ok" => at[m] = "confirm" /\ <<m, current_height[m]>> \in fleetWon
  /\ Fleet!WinsAreCounted

\* The instance's Cardinality is the library's.
LEMMA FleetCardinality == \A X : Fleet!Cardinality(X) = Cardinality(X)
BY DEF Cardinality, Fleet!Cardinality

\* A miner that heard of nothing new has nothing new to count.
LEMMA CountStands ==
  ASSUME NEW m \in Fleet!Miners, FleetInv, IsFiniteSet(fleetWon'),
         blocks_mined'[m] = blocks_mined[m],
         Heard(m) \subseteq Heard(m)', Heard(m)' \ floating' \subseteq Heard(m) \ floating
  PROVE  /\ blocks_mined'[m] <= Cardinality(Heard(m)')
         /\ blocks_mined'[m] >= Cardinality(Heard(m)' \ floating')
<1>1. IsFiniteSet(Heard(m)) /\ IsFiniteSet(Heard(m)') /\ IsFiniteSet(Heard(m) \ floating)
      /\ IsFiniteSet(Heard(m)' \ floating')
  BY FS_Subset DEF FleetInv, Heard
<1>2. Cardinality(Heard(m)) <= Cardinality(Heard(m)')
      /\ Cardinality(Heard(m)' \ floating') <= Cardinality(Heard(m) \ floating)
  BY <1>1, FS_Subset
<1>3. /\ Cardinality(Heard(m)) \in Nat /\ Cardinality(Heard(m)') \in Nat
      /\ Cardinality(Heard(m) \ floating) \in Nat /\ Cardinality(Heard(m)' \ floating') \in Nat
  BY <1>1, FS_CardinalityType
<1>4. blocks_mined[m] \in Nat /\ blocks_mined[m] <= Cardinality(Heard(m))
      /\ blocks_mined[m] >= Cardinality(Heard(m) \ floating)
  <2>1. blocks_mined[m] \in Nat
    BY DEF FleetInv
  <2>2. blocks_mined[m] <= Cardinality(Heard(m)) /\ blocks_mined[m] >= Cardinality(Heard(m) \ floating)
    BY FleetCardinality DEF FleetInv, Fleet!WinsAreCounted, Heard
  <2> QED BY <2>1, <2>2
<1> QED BY <1>2, <1>3, <1>4

\* A round won by transaction t of a miner's: what every miner has heard of and not
\* given up is as before, if it is waiting for t or had given it up.
LEMMA FleetWins ==
  ASSUME FleetInv, NEW m \in Fleet!Miners, Fleet!Win(m, open),
         UNCHANGED <<at, current_height, blocks_mined, floating>>,
         \/ /\ UNCHANGED outcome /\ <<m, open>> \in floating
         \/ /\ at[m] = "confirm" /\ outcome[m] = "unknown" /\ current_height[m] = open
            /\ outcome' = [outcome EXCEPT ![m] = "ok"]
  PROVE  FleetInv'
<1> DEFINE t == <<m, open>>
<1>1. open' = open + 1 /\ fleetWon' = fleetWon \cup {t}
  BY DEF Fleet!Win, Fleet!OpenNext
<1>2. t \in Fleet!Miners \X Nat /\ t \notin fleetWon /\ t[1] = m /\ t[2] = open
  BY DEF FleetInv
<1> HIDE DEF t
<1>3. IsFiniteSet(fleetWon')
  BY <1>1, FS_AddElement DEF FleetInv
<1>4. /\ open' \in Nat /\ fleetWon' \subseteq Fleet!Miners \X Nat
      /\ \A u \in fleetWon' : u[2] < open'
  BY <1>1, <1>2 DEF FleetInv
<1>5. outcome' \in [Fleet!Miners -> {"unknown", "ok", "err"}]
  BY DEF FleetInv
<1>6. \A n \in Fleet!Miners :
        outcome'[n] = "ok" => at'[n] = "confirm" /\ <<n, current_height'[n]>> \in fleetWon'
  BY <1>1 DEF FleetInv, t
<1>7. ASSUME NEW n \in Fleet!Miners
      PROVE  Heard(n) \subseteq Heard(n)' /\ Heard(n)' \ floating' \subseteq Heard(n) \ floating
  <2>1. CASE outcome' = outcome /\ t \in floating
    <3>1. Fleet!Unheard(n)' = Fleet!Unheard(n)
      BY <2>1 DEF Fleet!Unheard
    <3> QED BY <1>1, <2>1, <3>1 DEF Heard
  <2>2. CASE /\ at[m] = "confirm" /\ outcome[m] = "unknown" /\ current_height[m] = open
             /\ outcome' = [outcome EXCEPT ![m] = "ok"]
    <3>1. CASE n = m
      <4>1. Fleet!Unheard(n) = {} /\ Fleet!Unheard(n)' = {t}
        BY <2>2, <3>1 DEF Fleet!Unheard, FleetInv, t
      <4> QED BY <1>1, <1>2, <4>1 DEF Heard
    <3>2. CASE n # m
      <4>1. Fleet!Unheard(n)' = Fleet!Unheard(n)
        BY <2>2, <3>2 DEF Fleet!Unheard, FleetInv
      <4> QED BY <1>1, <1>2, <3>2, <4>1 DEF Heard
    <3> QED BY <3>1, <3>2
  <2> QED BY <2>1, <2>2 DEF t
<1>8. ASSUME NEW n \in Fleet!Miners
      PROVE  /\ blocks_mined'[n] <= Cardinality(Heard(n)')
             /\ blocks_mined'[n] >= Cardinality(Heard(n)' \ floating')
  BY <1>3, <1>7, CountStands
<1>9. Fleet!WinsAreCounted'
  BY <1>8, FleetCardinality DEF Fleet!WinsAreCounted, Heard
<1> QED BY <1>3, <1>4, <1>5, <1>6, <1>9 DEF FleetInv

\* No round is won, and whatever miner n hears of, no other miner does.
LEMMA OthersStand ==
  ASSUME FleetInv, UNCHANGED fleetWon, NEW m \in Fleet!Miners, NEW n \in Fleet!Miners, n # m,
         UNCHANGED <<at[n], current_height[n], outcome[n], blocks_mined[n]>>,
         floating \subseteq floating'
  PROVE  /\ blocks_mined'[n] <= Cardinality(Heard(n)')
         /\ blocks_mined'[n] >= Cardinality(Heard(n)' \ floating')
<1>1. Fleet!Unheard(n)' = Fleet!Unheard(n)
  BY DEF Fleet!Unheard
<1>2. Heard(n)' = Heard(n)
  BY <1>1 DEF Heard
<1>3. Heard(n)' \ floating' \subseteq Heard(n) \ floating
  BY <1>2
<1> QED BY <1>2, <1>3, CountStands DEF FleetInv

\* A step that leaves the chain and the counters alone, and changes no result a
\* miner waits for, changes nothing it has heard of.
LEMMA FleetRests ==
  ASSUME FleetInv, UNCHANGED <<open, fleetWon, floating, blocks_mined, outcome>>,
         \A m \in Fleet!Miners :
           outcome[m] = "ok" => at'[m] = at[m] /\ current_height'[m] = current_height[m],
         DOMAIN at' = Fleet!Miners, current_height' \in [Fleet!Miners -> Nat]
  PROVE  FleetInv'
<1>1. ASSUME NEW m \in Fleet!Miners PROVE Heard(m)' = Heard(m)
  <2>1. CASE outcome[m] = "ok"
    <3>1. Fleet!Unheard(m)' = Fleet!Unheard(m)
      BY <2>1 DEF Fleet!Unheard
    <3> QED BY <3>1 DEF Heard
  <2>2. CASE outcome[m] # "ok"
    <3>1. Fleet!Unheard(m)' = {} /\ Fleet!Unheard(m) = {}
      BY <2>2 DEF Fleet!Unheard
    <3> QED BY <3>1 DEF Heard
  <2> QED BY <2>1, <2>2
<1>2. ASSUME NEW m \in Fleet!Miners
      PROVE  /\ blocks_mined'[m] <= Cardinality(Heard(m)')
             /\ blocks_mined'[m] >= Cardinality(Heard(m)' \ floating')
  BY <1>1, CountStands DEF FleetInv
<1>3. Fleet!WinsAreCounted'
  BY <1>2, FleetCardinality DEF Fleet!WinsAreCounted, Heard
<1> QED BY <1>3 DEF FleetInv

\* The round closes without the fleet, or a miner's transaction fails.
LEMMA FleetPasses ==
  ASSUME FleetInv, UNCHANGED <<fleetWon, floating, blocks_mined, outcome, current_height>>,
         open' \in {open, open + 1}, DOMAIN at' = Fleet!Miners,
         \A m \in Fleet!Miners : outcome[m] = "ok" => at'[m] = at[m]
  PROVE  FleetInv'
<1>1. ASSUME NEW m \in Fleet!Miners PROVE Heard(m)' = Heard(m)
  BY DEF Heard, Fleet!Unheard, FleetInv
<1>2. ASSUME NEW m \in Fleet!Miners
      PROVE  /\ blocks_mined'[m] <= Cardinality(Heard(m)')
             /\ blocks_mined'[m] >= Cardinality(Heard(m)' \ floating')
  BY <1>1, CountStands DEF FleetInv
<1>3. Fleet!WinsAreCounted'
  BY <1>2, FleetCardinality DEF Fleet!WinsAreCounted, Heard
<1>4. open' \in Nat /\ \A t \in fleetWon' : t[2] < open'
  BY DEF FleetInv
<1> QED BY <1>3, <1>4 DEF FleetInv

LEMMA FleetFails ==
  ASSUME FleetInv, NEW m \in Fleet!Miners, outcome[m] = "unknown",
         outcome' = [outcome EXCEPT ![m] = "err"],
         UNCHANGED <<open, fleetWon, floating, blocks_mined, current_height, at>>
  PROVE  FleetInv'
<1>1. ASSUME NEW n \in Fleet!Miners PROVE Heard(n)' = Heard(n)
  BY DEF Heard, Fleet!Unheard, FleetInv
<1>2. ASSUME NEW n \in Fleet!Miners
      PROVE  /\ blocks_mined'[n] <= Cardinality(Heard(n)')
             /\ blocks_mined'[n] >= Cardinality(Heard(n)' \ floating')
  BY <1>1, CountStands DEF FleetInv
<1>3. Fleet!WinsAreCounted'
  BY <1>2, FleetCardinality DEF Fleet!WinsAreCounted, Heard
<1> QED BY <1>3 DEF FleetInv

\* A miner hears what became of its transaction: a success counts, a failure does
\* not.
LEMMA FleetConfirms ==
  ASSUME FleetInv, NEW m \in Fleet!Miners, Fleet!Confirmed(m)
  PROVE  FleetInv'
<1> USE DEF Fleet!Confirmed, Fleet!Goto, Fleet!Forget, Fleet!chain
<1> DEFINE t == <<m, current_height[m]>>
<1>1. /\ DOMAIN at' = Fleet!Miners
      /\ outcome' \in [Fleet!Miners -> {"unknown", "ok", "err"}]
      /\ \A n \in Fleet!Miners :
           outcome'[n] = "ok" => at'[n] = "confirm" /\ <<n, current_height'[n]>> \in fleetWon'
  BY DEF FleetInv
<1>2. /\ blocks_mined' \in [Fleet!Miners -> Nat]
      /\ outcome[m] = "ok" => blocks_mined'[m] = blocks_mined[m] + 1
      /\ outcome[m] # "ok" => blocks_mined'[m] = blocks_mined[m]
  BY DEF FleetInv
<1>3. Fleet!Unheard(m)' = {}
  BY DEF Fleet!Unheard, FleetInv
<1>4. ASSUME NEW n \in Fleet!Miners
      PROVE  /\ blocks_mined'[n] <= Cardinality(Heard(n)')
             /\ blocks_mined'[n] >= Cardinality(Heard(n)' \ floating')
  <2>1. CASE n # m
    <3>1. UNCHANGED <<at[n], current_height[n], outcome[n], blocks_mined[n], fleetWon, floating>>
      BY <2>1 DEF FleetInv
    <3> QED BY <2>1, <3>1, OthersStand
  <2>2. CASE n = m /\ outcome[m] # "ok"
    <3>1. Fleet!Unheard(m) = {}
      BY <2>2 DEF Fleet!Unheard
    <3>2. Heard(m)' = Heard(m) /\ floating' = floating /\ IsFiniteSet(fleetWon')
      BY <1>3, <3>1 DEF Heard, FleetInv
    <3> QED BY <1>2, <2>2, <3>2, CountStands
  <2>3. CASE n = m /\ outcome[m] = "ok"
    <3>1. Fleet!Unheard(m) = {t} /\ t \in fleetWon /\ t[1] = m
      BY <2>3 DEF Fleet!Unheard, FleetInv
    <3> HIDE DEF t
    <3>2. Heard(m)' = Heard(m) \cup {t} /\ t \notin Heard(m) /\ floating' = floating
      BY <1>3, <3>1 DEF Heard
    <3>3. IsFiniteSet(Heard(m)) /\ IsFiniteSet(Heard(m) \ floating)
      BY FS_Subset DEF Heard, FleetInv
    <3>4. Cardinality(Heard(m)') = Cardinality(Heard(m)) + 1
      BY <3>2, <3>3, FS_AddElement
    <3>5. /\ (Heard(m) \ floating) \cup {t} \in SUBSET fleetWon
          /\ Heard(m)' \ floating' \in SUBSET ((Heard(m) \ floating) \cup {t})
      BY <3>1, <3>2 DEF Heard
    <3>6. Cardinality((Heard(m) \ floating) \cup {t}) = Cardinality(Heard(m) \ floating) + 1
          /\ IsFiniteSet((Heard(m) \ floating) \cup {t})
      <4>1. t \notin Heard(m) \ floating
        BY <3>2
      <4> QED BY <3>3, <4>1, FS_AddElement
    <3>7. Cardinality(Heard(m)' \ floating') <= Cardinality(Heard(m) \ floating) + 1
          /\ IsFiniteSet(Heard(m)' \ floating')
      BY <3>5, <3>6, FS_Subset
    <3>8. /\ Cardinality(Heard(m)) \in Nat /\ Cardinality(Heard(m) \ floating) \in Nat
          /\ Cardinality(Heard(m)' \ floating') \in Nat
      BY <3>3, <3>7, FS_CardinalityType
    <3>9. blocks_mined[m] <= Cardinality(Heard(m)) /\ blocks_mined[m] >= Cardinality(Heard(m) \ floating)
      BY FleetCardinality DEF FleetInv, Fleet!WinsAreCounted, Heard
    <3>10. blocks_mined[m] \in Nat
      BY DEF FleetInv
    <3> QED BY <1>2, <2>3, <3>4, <3>7, <3>8, <3>9, <3>10
  <2> QED BY <2>1, <2>2, <2>3
<1>5. Fleet!WinsAreCounted'
  BY <1>4, FleetCardinality DEF Fleet!WinsAreCounted, Heard
<1> QED BY <1>1, <1>2, <1>5 DEF FleetInv

\* A miner gives a transaction up: it may have won, or win later.
LEMMA FleetGivesUp ==
  ASSUME FleetInv, NEW m \in Fleet!Miners, Fleet!GiveUp(m)
  PROVE  FleetInv'
<1> USE DEF Fleet!GiveUp, Fleet!Goto, Fleet!Forget, Fleet!chain
<1>0. /\ floating \subseteq floating'
      /\ \A u \in floating' : u \in floating \/ (u = <<m, current_height[m]>> /\ outcome[m] # "err")
  OBVIOUS
<1>1. /\ DOMAIN at' = Fleet!Miners
      /\ outcome' \in [Fleet!Miners -> {"unknown", "ok", "err"}]
      /\ \A n \in Fleet!Miners :
           outcome'[n] = "ok" => at'[n] = "confirm" /\ <<n, current_height'[n]>> \in fleetWon'
  BY DEF FleetInv
<1>2. Fleet!Unheard(m)' = {}
  BY DEF Fleet!Unheard, FleetInv
<1>3. ASSUME NEW n \in Fleet!Miners
      PROVE  /\ blocks_mined'[n] <= Cardinality(Heard(n)')
             /\ blocks_mined'[n] >= Cardinality(Heard(n)' \ floating')
  <2>1. CASE n # m
    <3>1. UNCHANGED <<at[n], current_height[n], outcome[n], blocks_mined[n], fleetWon>>
      BY <2>1 DEF FleetInv
    <3> QED BY <1>0, <2>1, <3>1, OthersStand
  <2>2. CASE n = m
    <3>1. Heard(m) \subseteq Heard(m)'
      BY <1>2 DEF Heard
    <3>2. Heard(m)' \ floating' \subseteq Heard(m) \ floating
      <4>1. outcome[m] = "ok" => <<m, current_height[m]>> \in floating'
        OBVIOUS
      <4>2. Fleet!Unheard(m) \subseteq floating'
        BY <4>1 DEF Fleet!Unheard
      <4> QED BY <1>0, <4>2 DEF Heard
    <3>3. blocks_mined'[m] = blocks_mined[m] /\ IsFiniteSet(fleetWon')
      BY DEF FleetInv
    <3> QED BY <2>2, <3>1, <3>2, <3>3, CountStands
  <2> QED BY <2>1, <2>2
<1>4. Fleet!WinsAreCounted'
  BY <1>3, FleetCardinality DEF Fleet!WinsAreCounted, Heard
<1> QED BY <1>1, <1>4 DEF FleetInv

LEMMA FleetInvInductive == FleetInv /\ [Fleet!Next]_Fleet!vars => FleetInv'
<1> SUFFICES ASSUME FleetInv, [Fleet!Next]_Fleet!vars PROVE FleetInv'
  OBVIOUS
<1> USE DEF Fleet!chain, Fleet!watchdog
<1>0. /\ DOMAIN at = Fleet!Miners /\ current_height \in [Fleet!Miners -> Nat] /\ open \in Nat
      /\ \A m \in Fleet!Miners : outcome[m] = "ok" => at[m] = "confirm"
  BY DEF FleetInv
<1>1. CASE UNCHANGED Fleet!vars
  BY <1>0, <1>1, FleetRests DEF Fleet!vars
<1>2. ASSUME NEW m \in Fleet!Miners, Fleet!LoopStep(m) PROVE FleetInv'
  <2>1. CASE Fleet!FetchConfig(m)
    <3>1. UNCHANGED <<open, fleetWon, floating, blocks_mined, outcome>> /\ at[m] = "fetch"
      BY <2>1 DEF Fleet!FetchConfig
    <3>2. /\ current_height' = [current_height EXCEPT ![m] = open]
          /\ \E spot \in {"race", "advance"} : at' = [at EXCEPT ![m] = spot]
      BY <2>1 DEF Fleet!FetchConfig, Fleet!Goto
    <3> QED BY <1>0, <3>1, <3>2, FleetRests
  <2>2. CASE Fleet!AdvanceLands(m)
    <3>1. /\ UNCHANGED <<fleetWon, floating, blocks_mined, outcome, current_height>>
          /\ at[m] = "advance" /\ at' = [at EXCEPT ![m] = "fetch"]
          /\ open' = open \/ open' = open + 1
      BY <2>2 DEF Fleet!AdvanceLands, Fleet!Goto, Fleet!OpenNext
    <3>2. /\ open' \in {open, open + 1} /\ DOMAIN at' = Fleet!Miners
          /\ \A n \in Fleet!Miners : outcome[n] = "ok" => at'[n] = at[n]
      BY <1>0, <3>1
    <3> QED BY <3>1, <3>2, FleetPasses
  <2>3. CASE Fleet!AdvanceLost(m)
    <3>1. /\ UNCHANGED <<open, fleetWon, floating, blocks_mined, outcome, current_height>>
          /\ at[m] = "advance" /\ at' = [at EXCEPT ![m] = "fetch"]
      BY <2>3 DEF Fleet!AdvanceLost, Fleet!Goto
    <3> QED BY <1>0, <3>1, FleetRests
  <2>4. CASE Fleet!Race(m)
    <3>1. /\ UNCHANGED <<open, fleetWon, floating, blocks_mined, outcome, current_height>>
          /\ at[m] = "race"
          /\ \E spot \in {"confirm", "fetch", "down"} : at' = [at EXCEPT ![m] = spot]
      BY <2>4 DEF Fleet!Race, Fleet!Goto
    <3> QED BY <1>0, <3>1, FleetRests
  <2>5. CASE Fleet!Confirmed(m)
    BY <2>5, FleetConfirms
  <2>6. CASE Fleet!GiveUp(m)
    BY <2>6, FleetGivesUp
  <2> QED BY <1>2, <2>1, <2>2, <2>3, <2>4, <2>5, <2>6 DEF Fleet!LoopStep
<1>3. ASSUME NEW m \in Fleet!Miners, Fleet!FetchFails(m) PROVE FleetInv'
  <2>1. /\ UNCHANGED <<open, fleetWon, floating, blocks_mined, outcome, current_height>>
        /\ at[m] = "fetch" /\ at' = [at EXCEPT ![m] = "down"]
    BY <1>3 DEF Fleet!FetchFails, Fleet!Goto
  <2> QED BY <1>0, <2>1, FleetRests
<1>4. ASSUME NEW m \in Fleet!Miners, Fleet!Execute(m) PROVE FleetInv'
  <2>1. /\ at[m] = "confirm" /\ outcome[m] = "unknown"
        /\ UNCHANGED <<floating, at, current_height, blocks_mined>>
    BY <1>4 DEF Fleet!Execute
  <2>2. CASE Fleet!Win(m, current_height[m]) /\ outcome' = [outcome EXCEPT ![m] = "ok"]
    <3>1. current_height[m] = open
      BY <2>2 DEF Fleet!Win
    <3> QED BY <2>1, <2>2, <3>1, FleetWins
  <2>3. CASE UNCHANGED <<open, age, fleetWon>> /\ outcome' = [outcome EXCEPT ![m] = "err"]
    BY <2>1, <2>3, FleetFails
  <2> QED BY <1>4, <2>2, <2>3 DEF Fleet!Execute
<1>5. CASE Fleet!ExecuteAdrift
  <2>1. PICK t \in floating : Fleet!Win(t[1], t[2])
    BY <1>5 DEF Fleet!ExecuteAdrift
  <2>2. t[1] \in Fleet!Miners /\ t = <<t[1], t[2]>>
    BY DEF FleetInv
  <2>3. t[2] = open
    BY <2>1 DEF Fleet!Win
  <2>4. Fleet!Win(t[1], open) /\ <<t[1], open>> \in floating
    BY <2>1, <2>2, <2>3
  <2> QED BY <1>5, <2>2, <2>4, FleetWins DEF Fleet!ExecuteAdrift
<1>6. CASE Fleet!OthersClose
  <2>1. /\ UNCHANGED <<fleetWon, floating, blocks_mined, outcome, current_height, at>>
        /\ open' = open + 1
    BY <1>6 DEF Fleet!OthersClose, Fleet!OpenNext
  <2>2. /\ open' \in {open, open + 1} /\ DOMAIN at' = Fleet!Miners
        /\ \A n \in Fleet!Miners : outcome[n] = "ok" => at'[n] = at[n]
    BY <1>0, <2>1
  <2> QED BY <2>1, <2>2, FleetPasses
<1>7. CASE Fleet!Slot
  BY <1>0, <1>7, FleetRests DEF Fleet!Slot
<1>8. CASE Fleet!Second
  BY <1>0, <1>8, FleetRests DEF Fleet!Second
<1> QED BY <1>1, <1>2, <1>3, <1>4, <1>5, <1>6, <1>7, <1>8 DEF Fleet!Next

LEMMA FleetWinsCounted == Fleet!Spec => []Fleet!WinsAreCounted
<1>1. Fleet!Init => FleetInv
  <2> SUFFICES ASSUME Fleet!Init PROVE FleetInv
    OBVIOUS
  <2> USE DEF Fleet!Init
  <2>1. IsFiniteSet({}) /\ Cardinality({}) = 0
    BY FS_EmptySet
  <2>2. \A m \in Fleet!Miners : Heard(m) = {} /\ Heard(m) \ floating = {} /\ blocks_mined[m] = 0
    BY DEF Heard
  <2>3. Fleet!WinsAreCounted
    BY <2>1, <2>2, FleetCardinality DEF Fleet!WinsAreCounted, Heard
  <2>4. Fleet!NoHeight \in Nat
    BY MinersAssumption DEF Fleet!NativeAssumption, Fleet!NoHeight
  <2> QED BY <2>1, <2>3, <2>4 DEF FleetInv
<1>2. FleetInv => Fleet!WinsAreCounted
  BY DEF FleetInv
<1> QED BY <1>1, <1>2, FleetInvInductive, PTL DEF Fleet!Spec

-----------------------------------------------------------------------------
\* No win is lost: every round the web miner won it reports, is being told of, or
\* had given up; and a native miner counts each of its wins once, and no other
\* round, but those it has not heard of or had given up.
THEOREM WinsAreReported == MCSpec => []WinIsReported
BY WebBehaves, FleetBehaves, WebWinsReported, FleetWinsCounted, PTL DEF WinIsReported

-----------------------------------------------------------------------------
(* The GPU solver.  A round's rows are trees, and unless a bucket was full   *)
(* all of them.                                                              *)

\* The instance's Cardinality is the library's.
LEMMA GpuCardinality == \A X : Gpu!Cardinality(X) = Cardinality(X)
BY DEF Cardinality, Gpu!Cardinality

\* The powers of two are what their definition says.
LEMMA PowersOfTwo ==
  /\ Gpu!Pow2[0] = 1
  /\ \A n \in Nat : Gpu!Pow2[n] \in Nat \ {0} /\ Gpu!Pow2[n + 1] = 2 * Gpu!Pow2[n]
<1> DEFINE Def(g) == g = [n \in Nat |-> IF n = 0 THEN 1 ELSE 2 * g[n - 1]]
           Pos == Nat \ {0}
           double == [k \in Pos |-> 2 * k]
<1>1. PICK f \in [Nat -> Pos] : f[0] = 1 /\ \A n \in Nat : f[n + 1] = double[f[n]]
  <2> DEFINE one == 1
  <2>1. double \in [Pos -> Pos] /\ one \in Pos
    OBVIOUS
  <2>2. \E f \in [Nat -> Pos] : f[0] = one /\ \A n \in Nat : f[n + 1] = double[f[n]]
    <3> HIDE DEF double, Pos, one
    <3> QED BY <2>1, PrimitiveRecursion
  <2> QED BY <2>2
<1>2. \A n \in Nat : f[n] = IF n = 0 THEN 1 ELSE 2 * f[n - 1]
  <2> SUFFICES ASSUME NEW n \in Nat, n # 0 PROVE f[n] = 2 * f[n - 1]
    BY <1>1
  <2>1. n - 1 \in Nat /\ f[(n - 1) + 1] = double[f[n - 1]]
    BY <1>1
  <2> QED BY <2>1
<1>3. Def(f)
  BY <1>2
<1>4. Def(Gpu!Pow2)
  <2>1. Gpu!Pow2 = CHOOSE g : Def(g)
    BY DEF Gpu!Pow2
  <2> HIDE DEF Def
  <2> QED BY <2>1, <1>3
<1>5. Gpu!Pow2[0] = 1 /\ \A n \in Nat : Gpu!Pow2[n + 1] = 2 * Gpu!Pow2[n]
  <2>1. ASSUME NEW n \in Nat PROVE Gpu!Pow2[n] = IF n = 0 THEN 1 ELSE 2 * Gpu!Pow2[n - 1]
    BY <1>4
  <2> QED BY <2>1
<1>6. \A n \in Nat : Gpu!Pow2[n] \in Pos
  <2> DEFINE T == {n \in Nat : Gpu!Pow2[n] \in Pos}
  <2>1. 0 \in T /\ \A n \in T : n + 1 \in T
    BY <1>5
  <2>2. T \in SUBSET Nat
    OBVIOUS
  <2> HIDE DEF T
  <2>3. T = Nat
    BY <2>1, <2>2, Induction
  <2> QED BY <2>3 DEF T
<1> QED BY <1>5, <1>6

LEMMA PowersMultiply ==
  \A m, n \in Nat : Gpu!Pow2[m + n] = Gpu!Pow2[m] * Gpu!Pow2[n]
<1> SUFFICES ASSUME NEW m \in Nat PROVE \A n \in Nat : Gpu!Pow2[m + n] = Gpu!Pow2[m] * Gpu!Pow2[n]
  OBVIOUS
<1> DEFINE T == {n \in Nat : Gpu!Pow2[m + n] = Gpu!Pow2[m] * Gpu!Pow2[n]}
<1>1. 0 \in T
  BY PowersOfTwo
<1>2. ASSUME NEW n \in T PROVE n + 1 \in T
  <2>1. m + n \in Nat /\ (m + n) + 1 = m + (n + 1) /\ n \in Nat
    OBVIOUS
  <2>2. Gpu!Pow2[m + (n + 1)] = 2 * (Gpu!Pow2[m] * Gpu!Pow2[n])
    BY <2>1, PowersOfTwo
  <2>3. Gpu!Pow2[m] \in Nat /\ Gpu!Pow2[n] \in Nat /\ Gpu!Pow2[n + 1] = 2 * Gpu!Pow2[n]
    BY <2>1, PowersOfTwo
  <2>4. \A a, b \in Nat : 2 * (a * b) = a * (2 * b)
    OBVIOUS
  <2> QED BY <2>1, <2>2, <2>3, <2>4
<1>3. T = Nat
  <2> HIDE DEF T
  <2>1. T \in SUBSET Nat
    BY DEF T
  <2> QED BY <1>1, <1>2, <2>1, Induction
<1> QED BY <1>3

\* Blocks of 2^q positions: how many positions there are in n of them.
Blocks(n, q) == n * Gpu!Pow2[q]

LEMMA BlocksCount ==
  ASSUME NEW n \in Nat, NEW q \in Nat
  PROVE  /\ Blocks(n, q) \in Nat /\ Blocks(0, q) = 0 /\ Blocks(1, q) = Gpu!Pow2[q]
         /\ Blocks(n + 1, q) = Blocks(n, q) + Gpu!Pow2[q]
         /\ Gpu!Block(q, n + 1) = Blocks(n, q) + 1 .. Blocks(n + 1, q)
<1> DEFINE P == Gpu!Pow2[q]
<1>1. P \in Nat /\ (n + 1) - 1 = n
  BY PowersOfTwo
<1> HIDE DEF P
<1>2. n * P \in Nat /\ 0 * P = 0 /\ 1 * P = P /\ (n + 1) * P = n * P + P
  BY <1>1
<1> QED BY <1>1, <1>2 DEF Blocks, Gpu!Block, P

\* Small blocks in a number of large ones, and some more.
LEMMA BlocksWithin ==
  ASSUME NEW s \in Nat, NEW q \in 0 .. s, NEW m \in Nat
  PROVE  \A n \in 0 .. Gpu!Pow2[s - q] :
           /\ Blocks(m, s - q) \in Nat
           /\ Blocks(Blocks(m, s - q) + n, q) = Blocks(m, s) + Blocks(n, q)
           /\ Blocks(n, q) <= Gpu!Pow2[s]
           /\ Blocks(n, q) \in Nat /\ Blocks(m, s) \in Nat
<1> SUFFICES ASSUME NEW n \in 0 .. Gpu!Pow2[s - q]
             PROVE  /\ Blocks(m, s - q) \in Nat
                    /\ Blocks(Blocks(m, s - q) + n, q) = Blocks(m, s) + Blocks(n, q)
                    /\ Blocks(n, q) <= Gpu!Pow2[s]
                    /\ Blocks(n, q) \in Nat /\ Blocks(m, s) \in Nat
  OBVIOUS
<1> DEFINE P == Gpu!Pow2[q]
           Q == Gpu!Pow2[s - q]
<1>1. P \in Nat \ {0} /\ Q \in Nat \ {0} /\ s - q \in Nat /\ q \in Nat
  BY PowersOfTwo
<1>2. Gpu!Pow2[s] = Q * P
  <2>1. (s - q) + q = s
    OBVIOUS
  <2> QED BY <1>1, <2>1, PowersMultiply
<1>3. n \in Nat /\ n <= Q
  BY <1>1
<1> HIDE DEF P, Q
<1>4. \A a, b, e, p \in Nat : (a * b + e) * p = a * (b * p) + e * p
  OBVIOUS
<1>5. \A a, b, p \in Nat : a <= b => a * p <= b * p
  OBVIOUS
<1>6. \A a, b \in Nat : a * b \in Nat
  OBVIOUS
<1>7. (m * Q + n) * P = m * (Q * P) + n * P
  BY <1>1, <1>3, <1>4
<1>8. n * P <= Q * P
  BY <1>1, <1>3, <1>5
<1>9. m * Q \in Nat /\ n * P \in Nat /\ m * (Q * P) \in Nat
  BY <1>1, <1>3, <1>6
<1> QED BY <1>2, <1>7, <1>8, <1>9 DEF Blocks, P, Q

\* Moving a set of positions.
Moved(Z, c) == {k + c : k \in Z}

LEMMA MovedCardinality ==
  ASSUME NEW Z \in SUBSET Nat, IsFiniteSet(Z), NEW c \in Nat
  PROVE  IsFiniteSet(Moved(Z, c)) /\ Cardinality(Moved(Z, c)) = Cardinality(Z)
<1> DEFINE f == [k \in Z |-> k + c]
<1>1. f \in Bijection(Z, Moved(Z, c))
  <2>1. f \in [Z -> Moved(Z, c)] /\ \A t \in Moved(Z, c) : \E k \in Z : f[k] = t
    BY DEF Moved
  <2>2. \A j, k \in Z : f[j] = f[k] => j = k
    <3>1. \A j, k \in Nat : j + c = k + c => j = k
      OBVIOUS
    <3> QED BY <3>1
  <2> HIDE DEF f
  <2> QED BY <2>1, <2>2 DEF Bijection, Injection, Surjection, IsInjective
<1> HIDE DEF f
<1> QED BY <1>1, FS_Bijection DEF ExistsBijection

\* The exclusive or over positions that were moved.
LEMMA DigitMoved ==
  ASSUME NEW t, NEW u, NEW Z \in SUBSET Nat, IsFiniteSet(Z), NEW c \in Nat, NEW d,
         \A k \in Z : t[k + c] = u[k]
  PROVE  Gpu!DigitOf(t, Moved(Z, c), d) = Gpu!DigitOf(u, Z, d)
<1> DEFINE X(b) == {k \in Z : b \in leaves[u[k]][d]}
           Y(b) == {k \in Moved(Z, c) : b \in leaves[t[k]][d]}
<1>1. ASSUME NEW b PROVE Cardinality(Y(b)) = Cardinality(X(b))
  <2>1. Y(b) = Moved(X(b), c)
    BY DEF Moved
  <2>2. X(b) \in SUBSET Nat /\ IsFiniteSet(X(b))
    BY FS_Subset
  <2> HIDE DEF X, Y
  <2> QED BY <2>1, <2>2, MovedCardinality
<1>2. /\ Gpu!DigitOf(t, Moved(Z, c), d) = {b \in Bit : Cardinality(Y(b)) % 2 = 1}
      /\ Gpu!DigitOf(u, Z, d) = {b \in Bit : Cardinality(X(b)) % 2 = 1}
  BY GpuCardinality DEF Gpu!DigitOf
<1> HIDE DEF X, Y
<1> QED BY <1>1, <1>2

\* A block within the m-th of 2^s is one of the list of those positions, moved.
LEMMA BlockMoved ==
  ASSUME NEW s \in Nat, NEW q \in 0 .. s, NEW m \in Nat, NEW n \in 0 .. Gpu!Pow2[s - q] - 1
  PROVE  /\ Gpu!Block(q, Blocks(m, s - q) + n + 1) = Moved(Gpu!Block(q, n + 1), Blocks(m, s))
         /\ Gpu!Block(q, n + 1) \subseteq 1 .. Gpu!Pow2[s]
         /\ Blocks(m, s) \in Nat /\ Blocks(n, q) \in Nat /\ Blocks(n + 1, q) \in Nat
         /\ Blocks(Blocks(m, s - q) + n, q) = Blocks(m, s) + Blocks(n, q)
         /\ Blocks(n + 1, q) <= Gpu!Pow2[s]
<1> DEFINE c == Blocks(m, s)
           N == Blocks(m, s - q) + n
           lo == Blocks(n, q)
           hi == Blocks(n + 1, q)
<1>0. /\ n \in 0 .. Gpu!Pow2[s - q] /\ n + 1 \in 0 .. Gpu!Pow2[s - q] /\ n \in Nat /\ q \in Nat
  BY PowersOfTwo
<1>1. /\ c \in Nat /\ lo \in Nat /\ hi \in Nat /\ N \in Nat
      /\ Blocks(N, q) = c + lo /\ hi <= Gpu!Pow2[s] /\ Gpu!Pow2[s] \in Nat
  <2>1. \A k \in 0 .. Gpu!Pow2[s - q] :
          /\ Blocks(m, s - q) \in Nat /\ Blocks(Blocks(m, s - q) + k, q) = c + Blocks(k, q)
          /\ Blocks(k, q) <= Gpu!Pow2[s] /\ Blocks(k, q) \in Nat /\ c \in Nat
    BY BlocksWithin, ZenonT(30)
  <2>2. Gpu!Pow2[s] \in Nat
    BY PowersOfTwo
  <2> HIDE DEF c
  <2> QED BY <1>0, <2>1, <2>2
<1>2. Blocks(N + 1, q) = c + hi
  <2>1. Blocks(Blocks(m, s - q) + (n + 1), q) = c + hi /\ Blocks(m, s - q) \in Nat
    BY <1>0, BlocksWithin
  <2>2. Blocks(m, s - q) + (n + 1) = N + 1
    BY <1>0, <2>1
  <2> QED BY <2>1, <2>2
<1>3. Gpu!Block(q, N + 1) = (c + lo) + 1 .. c + hi /\ Gpu!Block(q, n + 1) = lo + 1 .. hi
  <2> HIDE DEF N, c
  <2>1. Gpu!Block(q, N + 1) = Blocks(N, q) + 1 .. Blocks(N + 1, q)
    BY <1>0, <1>1, BlocksCount
  <2>2. Gpu!Block(q, n + 1) = lo + 1 .. hi
    BY <1>0, BlocksCount
  <2> QED BY <1>1, <1>2, <2>1, <2>2
<1> HIDE DEF c, lo, hi, N
<1>4. lo + 1 .. hi \subseteq 1 .. Gpu!Pow2[s]
  BY <1>1
<1>5. Moved(lo + 1 .. hi, c) = (c + lo) + 1 .. c + hi
  <2>1. \A k \in lo + 1 .. hi : k + c \in (c + lo) + 1 .. c + hi
    BY <1>1
  <2>2. \A k \in (c + lo) + 1 .. c + hi : k - c \in lo + 1 .. hi /\ (k - c) + c = k
    BY <1>1
  <2> QED BY <2>1, <2>2 DEF Moved
<1> QED BY <1>1, <1>3, <1>4, <1>5 DEF c, N, lo, hi

\* What a tree has at the block of level q that n blocks precede.
Level(t, q, n) ==
  /\ t[Blocks(n, q) + 1] < t[Blocks(n, q) + Gpu!Pow2[q - 1] + 1]
  /\ \A d \in 1 .. q : Gpu!DigitOf(t, Gpu!Block(q, n + 1), d) = {}

LEMMA TreeLevels ==
  ASSUME NEW t, NEW R \in Nat
  PROVE  Gpu!IsTree(t, R) <=>
           /\ \A j, k \in 1 .. Gpu!Pow2[R] : t[j] = t[k] => j = k
           /\ \A q \in 1 .. R : \A n \in 0 .. Gpu!Pow2[R - q] - 1 : Level(t, q, n)
<1> DEFINE At(q, n) ==
             /\ t[(n - 1) * Gpu!Pow2[q] + 1] < t[(n - 1) * Gpu!Pow2[q] + Gpu!Pow2[q - 1] + 1]
             /\ \A d \in 1 .. q : Gpu!DigitOf(t, Gpu!Block(q, n), d) = {}
<1>1. Gpu!IsTree(t, R) <=>
        /\ \A j, k \in 1 .. Gpu!Pow2[R] : t[j] = t[k] => j = k
        /\ \A q \in 1 .. R : \A n \in 1 .. Gpu!Pow2[R - q] : At(q, n)
  BY DEF Gpu!IsTree
<1>2. \A q, n : Level(t, q, n) <=>
        /\ t[n * Gpu!Pow2[q] + 1] < t[n * Gpu!Pow2[q] + Gpu!Pow2[q - 1] + 1]
        /\ \A d \in 1 .. q : Gpu!DigitOf(t, Gpu!Block(q, n + 1), d) = {}
  BY DEF Level, Blocks
<1>3. \A q : \A n \in Nat : n = (n + 1) - 1 /\ (At(q, n + 1) <=> Level(t, q, n))
  <2> SUFFICES ASSUME NEW q, NEW n \in Nat PROVE At(q, n + 1) <=> Level(t, q, n)
    OBVIOUS
  <2>1. (n + 1) - 1 = n
    OBVIOUS
  <2> QED BY <1>2, <2>1
<1> HIDE DEF At
<1>4. ASSUME NEW q \in 1 .. R
      PROVE  (\A n \in 1 .. Gpu!Pow2[R - q] : At(q, n))
               <=> \A n \in 0 .. Gpu!Pow2[R - q] - 1 : Level(t, q, n)
  <2> DEFINE P == Gpu!Pow2[R - q]
  <2>1. P \in Nat
    BY PowersOfTwo
  <2> HIDE DEF P
  <2>2. /\ \A n \in 1 .. P : n - 1 \in 0 .. P - 1 /\ n - 1 \in Nat /\ (n - 1) + 1 = n
        /\ \A n \in 0 .. P - 1 : n + 1 \in 1 .. P /\ n \in Nat
    BY <2>1
  <2>3. (\A n \in 1 .. P : At(q, n)) <=> \A n \in 0 .. P - 1 : Level(t, q, n)
    BY <1>3, <2>2
  <2> QED BY <2>3 DEF P
<1> QED BY <1>1, <1>4

\* A list u that is a part of t has its levels from t.
LEMMA LevelMoved ==
  ASSUME NEW s \in Nat, NEW q \in 1 .. s, NEW m \in Nat, NEW n \in 0 .. Gpu!Pow2[s - q] - 1,
         NEW t, NEW u, \A k \in 1 .. Gpu!Pow2[s] : t[k + Blocks(m, s)] = u[k]
  PROVE  Level(t, q, Blocks(m, s - q) + n) <=> Level(u, q, n)
<1> DEFINE c == Blocks(m, s)
           N == Blocks(m, s - q) + n
           lo == Blocks(n, q)
           hi == Blocks(n + 1, q)
           half == Gpu!Pow2[q - 1]
           top == Gpu!Pow2[s]
<1>0. q \in 0 .. s /\ n \in Nat /\ n \in 0 .. Gpu!Pow2[s - q] /\ n + 1 \in 0 .. Gpu!Pow2[s - q]
  BY PowersOfTwo
<1>1. /\ Gpu!Block(q, Blocks(m, s - q) + n + 1) = Moved(Gpu!Block(q, n + 1), Blocks(m, s))
      /\ Gpu!Block(q, n + 1) \subseteq 1 .. Gpu!Pow2[s]
      /\ Blocks(m, s) \in Nat /\ Blocks(n, q) \in Nat /\ Blocks(n + 1, q) \in Nat
      /\ Blocks(Blocks(m, s - q) + n, q) = Blocks(m, s) + Blocks(n, q)
      /\ Blocks(n + 1, q) <= Gpu!Pow2[s]
  BY <1>0, BlockMoved
<1>2. /\ c \in Nat /\ lo \in Nat /\ hi \in Nat /\ Blocks(N, q) = c + lo
      /\ hi <= top /\ top \in Nat
  <2>1. top \in Nat
    BY PowersOfTwo
  <2> QED BY <1>1, <2>1
<1>3. half \in Nat \ {0} /\ lo + 2 * half = hi
  <2>1. q - 1 \in Nat /\ (q - 1) + 1 = q /\ q \in Nat
    BY <1>0
  <2>2. half \in Nat \ {0} /\ Gpu!Pow2[q] = 2 * half
    BY <2>1, PowersOfTwo
  <2>3. hi = lo + Gpu!Pow2[q]
    BY <1>0, <2>1, BlocksCount
  <2> QED BY <2>2, <2>3
<1>4. Gpu!Block(q, N + 1) = Moved(Gpu!Block(q, n + 1), c) /\ Gpu!Block(q, n + 1) \subseteq 1 .. top
  BY <1>1
<1>5. \A k \in 1 .. top : t[k + c] = u[k]
  OBVIOUS
<1>6. u[lo + 1] = t[Blocks(N, q) + 1] /\ u[lo + half + 1] = t[Blocks(N, q) + half + 1]
  <2> HIDE DEF c, lo, hi, N, half, top
  <2>1. lo + 1 \in 1 .. top /\ lo + half + 1 \in 1 .. top
    BY <1>2, <1>3
  <2>2. (lo + 1) + c = (c + lo) + 1 /\ (lo + half + 1) + c = (c + lo) + half + 1
    BY <1>2, <1>3
  <2> QED BY <1>2, <1>5, <2>1, <2>2
<1>7. \A d : Gpu!DigitOf(t, Gpu!Block(q, N + 1), d) = Gpu!DigitOf(u, Gpu!Block(q, n + 1), d)
  <2> DEFINE Z == Gpu!Block(q, n + 1)
  <2> HIDE DEF c, lo, hi, N, half, top, Z
  <2>1. IsFiniteSet(1 .. top) /\ 1 .. top \subseteq Nat
    BY <1>2, FS_Interval
  <2>2. Z \in SUBSET Nat /\ IsFiniteSet(Z) /\ \A k \in Z : t[k + c] = u[k]
    BY <1>4, <1>5, <2>1, FS_Subset DEF Z
  <2>3. ASSUME NEW d PROVE Gpu!DigitOf(t, Moved(Z, c), d) = Gpu!DigitOf(u, Z, d)
    <3>1. c \in Nat
      BY <1>2
    <3> QED BY ONLY <2>2, <3>1, DigitMoved
  <2> QED BY <1>4, <2>3 DEF Z
<1> HIDE DEF c, lo, hi, N, half, top
<1>8. Level(t, q, N) <=> Level(u, q, n)
  BY <1>6, <1>7 DEF Level, lo, half
<1> QED BY <1>8 DEF N

\* A part of a tree is a tree.
LEMMA PartOfTree ==
  ASSUME NEW R \in Nat, NEW s \in 0 .. R, NEW m \in 0 .. Gpu!Pow2[R - s] - 1,
         NEW t, Gpu!IsTree(t, R),
         NEW u, \A k \in 1 .. Gpu!Pow2[s] : t[k + Blocks(m, s)] = u[k]
  PROVE  /\ Gpu!IsTree(u, s)
         /\ \A k \in 1 .. Gpu!Pow2[s] : k + Blocks(m, s) \in 1 .. Gpu!Pow2[R]
<1> DEFINE c == Blocks(m, s)
           top == Gpu!Pow2[s]
<1>1. /\ s \in Nat /\ R - s \in Nat /\ m \in Nat /\ m + 1 \in 0 .. Gpu!Pow2[R - s]
      /\ 0 \in Nat /\ top \in Nat
  BY PowersOfTwo
<1>2. c \in Nat /\ \A k \in 1 .. top : k + c \in 1 .. Gpu!Pow2[R]
  <2>1. Blocks(m + 1, s) <= Gpu!Pow2[R]
    BY <1>1, BlocksWithin
  <2>2. Blocks(m + 1, s) = c + top /\ c \in Nat
    BY <1>1, BlocksCount
  <2>3. Gpu!Pow2[R] \in Nat
    BY PowersOfTwo
  <2> HIDE DEF c, top
  <2> QED BY <1>1, <2>1, <2>2, <2>3
<1>3. \A j, k \in 1 .. top : u[j] = u[k] => j = k
  <2> SUFFICES ASSUME NEW j \in 1 .. top, NEW k \in 1 .. top, u[j] = u[k]
               PROVE  j = k
    OBVIOUS
  <2>1. t[j + c] = t[k + c] /\ j + c \in 1 .. Gpu!Pow2[R] /\ k + c \in 1 .. Gpu!Pow2[R]
    BY <1>2
  <2>2. j + c = k + c
    BY <2>1 DEF Gpu!IsTree
  <2> HIDE DEF c, top
  <2> QED BY <1>1, <1>2, <2>2
<1>4. ASSUME NEW q \in 1 .. s, NEW n \in 0 .. Gpu!Pow2[s - q] - 1 PROVE Level(u, q, n)
  <2> DEFINE N == Blocks(m, s - q) + n
             s1 == s - q
             R1 == R - q
  <2>1. /\ s1 \in 0 .. R1 /\ R1 \in Nat /\ R1 - s1 = R - s /\ s1 \in Nat /\ q \in 1 .. R
    BY <1>1
  <2>2. N \in 0 .. Gpu!Pow2[R1] - 1
    <3> HIDE DEF s1, R1
    <3>1. Blocks(m + 1, s1) <= Gpu!Pow2[R1]
      BY <1>1, <2>1, BlocksWithin
    <3>2. Blocks(m + 1, s1) = Blocks(m, s1) + Gpu!Pow2[s1] /\ Blocks(m, s1) \in Nat
      BY <1>1, <2>1, BlocksCount
    <3>3. Gpu!Pow2[s1] \in Nat /\ Gpu!Pow2[R1] \in Nat
      BY <2>1, PowersOfTwo
    <3>4. n \in 0 .. Gpu!Pow2[s1] - 1
      BY DEF s1
    <3>5. Blocks(m, s1) + n \in 0 .. Gpu!Pow2[R1] - 1
      BY <3>1, <3>2, <3>3, <3>4
    <3> QED BY <3>5 DEF s1
  <2>3. Level(t, q, N)
    BY <2>1, <2>2, TreeLevels
  <2> QED BY <1>1, <2>3, LevelMoved
<1> QED BY <1>1, <1>2, <1>3, <1>4, TreeLevels

\* A list of 2 * P positions is two of P, one after the other.
Joins(z, x, y, P) == \A k \in 1 .. P : z[k] = x[k] /\ z[k + P] = y[k]

\* The exclusive or of two lists, one after the other.
LEMMA DigitOfJoin ==
  ASSUME NEW P \in Nat, NEW x, NEW y, NEW z, NEW d, Joins(z, x, y, P)
  PROVE  Gpu!DigitOf(z, 1 .. 2 * P, d)
           = Gpu!Xor(Gpu!DigitOf(x, 1 .. P, d), Gpu!DigitOf(y, 1 .. P, d))
<1> DEFINE A(b) == {k \in 1 .. P : b \in leaves[x[k]][d]}
           B(b) == {k \in 1 .. P : b \in leaves[y[k]][d]}
           C(b) == {k \in 1 .. 2 * P : b \in leaves[z[k]][d]}
<1>1. ASSUME NEW b
      PROVE  /\ Cardinality(A(b)) \in Nat /\ Cardinality(B(b)) \in Nat
             /\ Cardinality(C(b)) = Cardinality(A(b)) + Cardinality(B(b))
  <2>1. C(b) = A(b) \cup Moved(B(b), P)
    <3>1. 1 .. 2 * P = (1 .. P) \cup Moved(1 .. P, P)
      <4>1. \A k \in 1 .. P : k + P \in 1 .. 2 * P /\ k \in 1 .. 2 * P
        OBVIOUS
      <4>2. \A k \in 1 .. 2 * P : k \notin 1 .. P => k - P \in 1 .. P /\ (k - P) + P = k
        OBVIOUS
      <4> QED BY <4>1, <4>2 DEF Moved
    <3> QED BY <3>1 DEF Joins, Moved
  <2>2. A(b) \cap Moved(B(b), P) = {}
    BY DEF Moved
  <2>3. IsFiniteSet(1 .. P) /\ A(b) \subseteq 1 .. P /\ B(b) \subseteq 1 .. P /\ 1 .. P \subseteq Nat
    BY FS_Interval
  <2>4. IsFiniteSet(A(b)) /\ IsFiniteSet(B(b))
    BY <2>3, FS_Subset
  <2>5. IsFiniteSet(Moved(B(b), P)) /\ Cardinality(Moved(B(b), P)) = Cardinality(B(b))
    BY <2>3, <2>4, MovedCardinality
  <2>6. Cardinality(A(b)) \in Nat /\ Cardinality(B(b)) \in Nat
    BY <2>4, FS_CardinalityType
  <2> HIDE DEF A, B, C
  <2>7. Cardinality(A(b) \cup Moved(B(b), P)) = Cardinality(A(b)) + Cardinality(Moved(B(b), P))
    <3>1. Cardinality(A(b) \cup Moved(B(b), P))
            = Cardinality(A(b)) + Cardinality(Moved(B(b), P)) - Cardinality(A(b) \cap Moved(B(b), P))
      BY <2>4, <2>5, FS_Union
    <3>2. Cardinality(A(b) \cap Moved(B(b), P)) = 0
      BY <2>2, FS_EmptySet
    <3> QED BY <2>5, <2>6, <3>1, <3>2
  <2> QED BY <2>1, <2>5, <2>6, <2>7
<1>2. /\ Gpu!DigitOf(x, 1 .. P, d) = {b \in Bit : Cardinality(A(b)) % 2 = 1}
      /\ Gpu!DigitOf(y, 1 .. P, d) = {b \in Bit : Cardinality(B(b)) % 2 = 1}
      /\ Gpu!DigitOf(z, 1 .. 2 * P, d) = {b \in Bit : Cardinality(C(b)) % 2 = 1}
  BY GpuCardinality DEF Gpu!DigitOf
<1> HIDE DEF A, B, C
<1>3. \A i, j \in Nat : (i + j) % 2 = 1 <=> (i % 2 = 1 /\ ~(j % 2 = 1)) \/ (~(i % 2 = 1) /\ j % 2 = 1)
  OBVIOUS
<1>4. \A b : Cardinality(C(b)) % 2 = 1 <=>
               \/ Cardinality(A(b)) % 2 = 1 /\ ~(Cardinality(B(b)) % 2 = 1)
               \/ ~(Cardinality(A(b)) % 2 = 1) /\ Cardinality(B(b)) % 2 = 1
  BY <1>1, <1>3
<1> QED BY <1>2, <1>4 DEF Gpu!Xor

\* Two trees make a tree of one more level if they share no index, start in order,
\* and cancel in one more digit.
LEMMA TreesJoin ==
  ASSUME NEW r \in Nat, NEW x, NEW y, NEW z, Gpu!IsTree(x, r), Gpu!IsTree(y, r),
         Joins(z, x, y, Gpu!Pow2[r]),
         \A j, k \in 1 .. Gpu!Pow2[r] : x[j] # y[k],
         x[1] < y[1],
         \A d \in 1 .. r + 1 : Gpu!DigitOf(z, 1 .. Gpu!Pow2[r + 1], d) = {}
  PROVE  Gpu!IsTree(z, r + 1)
<1> DEFINE P == Gpu!Pow2[r]
<1>1. P \in Nat \ {0} /\ Gpu!Pow2[r + 1] = 2 * P /\ Gpu!Pow2[0] = 1
  BY PowersOfTwo
<1>2. \A k \in 1 .. 2 * P : k \in 1 .. P \/ (k - P \in 1 .. P /\ (k - P) + P = k)
  BY <1>1
<1>3. \A j, k \in 1 .. 2 * P : z[j] = z[k] => j = k
  <2> SUFFICES ASSUME NEW j \in 1 .. 2 * P, NEW k \in 1 .. 2 * P, z[j] = z[k] PROVE j = k
    OBVIOUS
  <2>0. /\ \A i \in 1 .. P : z[i] = x[i] /\ z[i + P] = y[i]
        /\ \A h, i \in 1 .. P : x[h] # y[i] /\ (x[h] = x[i] => h = i) /\ (y[h] = y[i] => h = i)
    BY DEF Gpu!IsTree, Joins
  <2> HIDE DEF P
  <2>1. CASE j \in 1 .. P /\ k \in 1 .. P
    BY <2>0, <2>1
  <2>2. CASE j \in 1 .. P /\ k - P \in 1 .. P /\ (k - P) + P = k
    BY <2>0, <2>2
  <2>3. CASE j - P \in 1 .. P /\ (j - P) + P = j /\ k \in 1 .. P
    BY <2>0, <2>3
  <2>4. CASE j - P \in 1 .. P /\ (j - P) + P = j /\ k - P \in 1 .. P /\ (k - P) + P = k
    <3>1. y[j - P] = y[k - P]
      BY <2>0, <2>4
    <3>2. j - P = k - P
      BY <2>0, <2>4, <3>1
    <3> QED BY <2>4, <3>2
  <2> QED BY <1>2, <2>1, <2>2, <2>3, <2>4
<1>4. ASSUME NEW q \in 1 .. r + 1, NEW N \in 0 .. Gpu!Pow2[(r + 1) - q] - 1 PROVE Level(z, q, N)
  <2>1. CASE q = r + 1
    <3>1. N = 0 /\ q - 1 = r /\ Gpu!Pow2[q] = 2 * P /\ q \in Nat
      BY <1>1, <2>1
    <3>2. Blocks(0, q) = 0 /\ Blocks(1, q) = 2 * P /\ Gpu!Block(q, 1) = 1 .. 2 * P
      <4>1. 0 \in Nat /\ 0 + 1 = 1
        OBVIOUS
      <4>2. /\ Blocks(0, q) = 0 /\ Blocks(1, q) = Gpu!Pow2[q]
            /\ Gpu!Block(q, 0 + 1) = Blocks(0, q) + 1 .. Blocks(0 + 1, q)
        BY <3>1, <4>1, BlocksCount
      <4> QED BY <3>1, <4>1, <4>2
    <3>3. z[0 + 1] = x[1] /\ z[0 + P + 1] = y[1]
      <4>1. 1 \in 1 .. P /\ 0 + P + 1 = 1 + P /\ 0 + 1 = 1
        BY <1>1
      <4> QED BY <4>1 DEF Joins
    <3> QED BY <1>1, <2>1, <3>1, <3>2, <3>3 DEF Level
  <2>2. CASE q \in 1 .. r
    <3> DEFINE Q == Gpu!Pow2[r - q]
    <3>1. Q \in Nat \ {0} /\ Gpu!Pow2[(r + 1) - q] = 2 * Q /\ r - q \in Nat
      <4>1. r - q \in Nat /\ (r - q) + 1 = (r + 1) - q
        BY <2>2
      <4> QED BY <4>1, PowersOfTwo
    <3>2. \A n \in 0 .. Q - 1 : Level(x, q, n) /\ Level(y, q, n)
      BY <2>2, TreeLevels
    <3>3. CASE N \in 0 .. Q - 1
      <4>1. Blocks(0, r) = 0 /\ Blocks(0, r - q) = 0
        <5>1. 0 \in Nat /\ r - q \in Nat
          BY <3>1
        <5> QED BY <5>1, BlocksCount
      <4>2. \A k \in 1 .. Gpu!Pow2[r] : z[k + Blocks(0, r)] = x[k]
        BY <1>1, <4>1 DEF Joins
      <4> DEFINE m == 0
      <4>3. Level(z, q, Blocks(m, r - q) + N) <=> Level(x, q, N)
        <5>1. m \in Nat
          OBVIOUS
        <5>2. \A k \in 1 .. Gpu!Pow2[r] : z[k + Blocks(m, r)] = x[k]
          BY <4>2
        <5>3. N \in 0 .. Gpu!Pow2[r - q] - 1
          BY <3>3
        <5> HIDE DEF m, P, Q
        <5> QED BY ONLY r \in Nat, <2>2, <5>1, <5>2, <5>3, LevelMoved
      <4> QED BY <3>2, <3>3, <4>1, <4>3
    <3>4. CASE N \notin 0 .. Q - 1
      <4> DEFINE n == N - Q
      <4>1. Blocks(1, r) = P /\ Blocks(1, r - q) = Q
        <5>1. 0 \in Nat /\ r - q \in Nat
          BY <3>1
        <5> QED BY <5>1, BlocksCount
      <4>2. n \in 0 .. Q - 1 /\ Q + n = N
        BY <3>1, <3>4
      <4>3. \A k \in 1 .. Gpu!Pow2[r] : z[k + Blocks(1, r)] = y[k]
        BY <4>1 DEF Joins
      <4> DEFINE m == 1
      <4>4. Level(z, q, Blocks(m, r - q) + n) <=> Level(y, q, n)
        <5>1. m \in Nat
          OBVIOUS
        <5>2. \A k \in 1 .. Gpu!Pow2[r] : z[k + Blocks(m, r)] = y[k]
          BY <4>3
        <5>3. n \in 0 .. Gpu!Pow2[r - q] - 1
          BY <4>2
        <5> HIDE DEF m, n, P, Q
        <5> QED BY ONLY r \in Nat, <2>2, <5>1, <5>2, <5>3, LevelMoved
      <4> QED BY <3>2, <4>1, <4>2, <4>4
    <3> QED BY <3>3, <3>4
  <2> QED BY <2>1, <2>2
<1> QED BY <1>1, <1>3, <1>4, TreeLevels

\* The trees of r levels, the hash of one after r rounds, and the rows for them.
TreesAt(r) == {t \in [1 .. Gpu!Pow2[r] -> Leaf] : Gpu!IsTree(t, r)}
HashOf(t, r) ==
  [d \in 1 .. K + 1 |-> IF d + r <= K + 1 THEN Gpu!DigitOf(t, 1 .. Gpu!Pow2[r], d + r) ELSE {}]
RowOf(t, r) == [hash |-> HashOf(t, r), indices |-> t]
RowsAt(r) == {RowOf(t, r) : t \in TreesAt(r)}

LEMMA GpuConstants ==
  /\ K \in Nat \ {0} /\ K % 2 = 1 /\ K \in 1 .. K + 1
  /\ Leaf \subseteq Nat /\ IsFiniteSet(Leaf)
BY MinersAssumption DEF Gpu!WagnerAssumption, IsFiniteSet, Gpu!IsFiniteSet

\* The rows of the leaves.
LEMMA FirstRows ==
  ASSUME leaves \in [Leaf -> Gpu!Hash]
  PROVE  RowsAt(0) = {[hash |-> leaves[i], indices |-> <<i>>] : i \in Leaf}
<1>1. TreesAt(0) = {<<i>> : i \in Leaf}
  <2>1. Gpu!Pow2[0] = 1 /\ 1 .. 1 = {1}
    BY PowersOfTwo
  <2>2. \A t : Gpu!IsTree(t, 0)
    BY <2>1 DEF Gpu!IsTree
  <2>3. [1 .. 1 -> Leaf] = {<<i>> : i \in Leaf}
    <3>1. ASSUME NEW t \in [1 .. 1 -> Leaf] PROVE t[1] \in Leaf /\ t = <<t[1]>>
      BY <2>1
    <3> QED BY <3>1
  <2> QED BY <2>1, <2>2, <2>3 DEF TreesAt
<1>2. ASSUME NEW i \in Leaf PROVE RowOf(<<i>>, 0) = [hash |-> leaves[i], indices |-> <<i>>]
  <2>1. leaves[i] \in [1 .. K + 1 -> SUBSET Bit]
    BY DEF Gpu!Hash, Gpu!Digit
  <2>2. ASSUME NEW d \in 1 .. K + 1 PROVE Gpu!DigitOf(<<i>>, 1 .. 1, d) = leaves[i][d]
    <3> DEFINE X(b) == {k \in 1 .. 1 : b \in leaves[(<<i>>)[k]][d]}
    <3>1. ASSUME NEW b PROVE Cardinality(X(b)) % 2 = 1 <=> b \in leaves[i][d]
      <4>1. CASE b \in leaves[i][d]
        <5>1. X(b) = {1} /\ 1 % 2 = 1
          BY <4>1
        <5>2. Cardinality({1}) = 1
          BY FS_Singleton
        <5> HIDE DEF X
        <5> QED BY <4>1, <5>1, <5>2
      <4>2. CASE b \notin leaves[i][d]
        <5>1. X(b) = {} /\ 0 % 2 = 0
          BY <4>2
        <5>2. Cardinality({}) = 0
          BY FS_EmptySet
        <5> HIDE DEF X
        <5> QED BY <4>2, <5>1, <5>2
      <4> QED BY <4>1, <4>2
    <3>2. Gpu!DigitOf(<<i>>, 1 .. 1, d) = {b \in Bit : Cardinality(X(b)) % 2 = 1}
      BY GpuCardinality DEF Gpu!DigitOf
    <3> HIDE DEF X
    <3> QED BY <2>1, <3>1, <3>2
  <2>3. Gpu!Pow2[0] = 1 /\ \A d \in 1 .. K + 1 : d + 0 = d /\ d <= K + 1
    BY PowersOfTwo, GpuConstants
  <2>4. HashOf(<<i>>, 0) = leaves[i]
    BY <2>1, <2>2, <2>3 DEF HashOf
  <2> QED BY <2>4 DEF RowOf
<1> QED BY <1>1, <1>2 DEF RowsAt

\* What the concatenation of two lists has at its positions.
LEMMA JoinedLists ==
  ASSUME NEW r \in Nat, NEW s \in [1 .. Gpu!Pow2[r] -> Leaf], NEW t \in [1 .. Gpu!Pow2[r] -> Leaf]
  PROVE  s \o t \in [1 .. Gpu!Pow2[r + 1] -> Leaf] /\ Joins(s \o t, s, t, Gpu!Pow2[r])
<1> DEFINE P == Gpu!Pow2[r]
<1>1. P \in Nat \ {0} /\ Gpu!Pow2[r + 1] = 2 * P
  BY PowersOfTwo
<1> HIDE DEF P
<1>2. s \in Seq(Leaf) /\ t \in Seq(Leaf) /\ Len(s) = P /\ Len(t) = P
  BY <1>1 DEF P
<1>3. /\ s \o t \in Seq(Leaf) /\ Len(s \o t) = P + P
      /\ \A i \in 1 .. P + P : (s \o t)[i] = IF i <= P THEN s[i] ELSE t[i - P]
  BY <1>2, ConcatProperties, SMTT(30)
<1>4. s \o t \in [1 .. 2 * P -> Leaf]
  <2>1. P + P = 2 * P
    BY <1>1
  <2>2. s \o t \in [1 .. Len(s \o t) -> Leaf]
    BY <1>3, LenProperties
  <2> QED BY <1>3, <2>1, <2>2
<1>5. \A k \in 1 .. P : k \in 1 .. P + P /\ k <= P /\ k + P \in 1 .. P + P /\ ~(k + P <= P)
                        /\ (k + P) - P = k
  BY <1>1
<1> QED BY <1>1, <1>3, <1>4, <1>5 DEF P, Joins

\* The first digit is shifted out.
LEMMA Shifted ==
  ASSUME NEW h \in [1 .. K + 1 -> SUBSET Bit]
  PROVE  Append(Tail(h), {}) = [d \in 1 .. K + 1 |-> IF d = K + 1 THEN {} ELSE h[d + 1]]
<1> DEFINE Z == SUBSET Bit
           e == {}
<1>0. h \in [1 .. K + 1 -> Z] /\ e \in Z
  OBVIOUS
<1> HIDE DEF Z, e
<1>1. K \in Nat \ {0}
  BY GpuConstants
<1>2. h \in Seq(Z) /\ Len(h) = K + 1 /\ h # <<>>
  BY <1>0, <1>1
<1>3. Tail(h) \in Seq(Z) /\ Len(Tail(h)) = K /\ \A d \in 1 .. K : Tail(h)[d] = h[d + 1]
  BY <1>1, <1>2
<1> DEFINE g == Append(Tail(h), e)
<1>4. g \in Seq(Z) /\ Len(g) = K + 1 /\ g[K + 1] = e /\ \A d \in 1 .. K : g[d] = h[d + 1]
  BY <1>0, <1>1, <1>3, AppendProperties
<1>5. g = [d \in 1 .. K + 1 |-> g[d]]
  BY <1>4, LenProperties
<1>6. \A d \in 1 .. K + 1 : d = K + 1 \/ d \in 1 .. K
  BY <1>1
<1> HIDE DEF g
<1>7. \A d \in 1 .. K + 1 : g[d] = IF d = K + 1 THEN e ELSE h[d + 1]
  <2>1. K + 1 \notin 1 .. K
    BY <1>1
  <2> QED BY <1>4, <1>6, <2>1
<1> QED BY <1>5, <1>7 DEF g, e

\* The hash of two trees one after the other is what a round makes of theirs.
LEMMA HashOfJoin ==
  ASSUME NEW r \in 0 .. K - 1, NEW s \in [1 .. Gpu!Pow2[r] -> Leaf], NEW t \in [1 .. Gpu!Pow2[r] -> Leaf]
  PROVE  /\ HashOf(s \o t, r + 1)
              = Append(Tail([d \in 1 .. K + 1 |-> Gpu!Xor(HashOf(s, r)[d], HashOf(t, r)[d])]), {})
         /\ \A d : Gpu!DigitOf(s \o t, 1 .. Gpu!Pow2[r + 1], d)
                     = Gpu!Xor(Gpu!DigitOf(s, 1 .. Gpu!Pow2[r], d), Gpu!DigitOf(t, 1 .. Gpu!Pow2[r], d))
<1> DEFINE P == Gpu!Pow2[r]
           z == s \o t
           h == [d \in 1 .. K + 1 |-> Gpu!Xor(HashOf(s, r)[d], HashOf(t, r)[d])]
<1>1. K \in Nat \ {0} /\ r \in Nat /\ P \in Nat \ {0} /\ Gpu!Pow2[r + 1] = 2 * P
  BY GpuConstants, PowersOfTwo
<1>2. \A d : Gpu!DigitOf(z, 1 .. Gpu!Pow2[r + 1], d)
               = Gpu!Xor(Gpu!DigitOf(s, 1 .. P, d), Gpu!DigitOf(t, 1 .. P, d))
  <2>1. Joins(z, s, t, P) /\ P \in Nat
    BY <1>1, JoinedLists
  <2> HIDE DEF P, z
  <2>2. ASSUME NEW d
        PROVE  Gpu!DigitOf(z, 1 .. 2 * P, d) = Gpu!Xor(Gpu!DigitOf(s, 1 .. P, d), Gpu!DigitOf(t, 1 .. P, d))
    BY <2>1, DigitOfJoin
  <2> QED BY <1>1, <2>2
<1>3. \A d \in 1 .. K + 1 :
        HashOf(z, r + 1)[d] = IF d = K + 1 THEN {} ELSE h[d + 1]
  <2> SUFFICES ASSUME NEW d \in 1 .. K + 1
               PROVE  HashOf(z, r + 1)[d] = IF d = K + 1 THEN {} ELSE h[d + 1]
    OBVIOUS
  <2>1. CASE d = K + 1
    <3>1. ~(d + (r + 1) <= K + 1)
      BY <1>1, <2>1
    <3> QED BY <2>1, <3>1 DEF HashOf
  <2>2. CASE d # K + 1
    <3>1. d + 1 \in 1 .. K + 1 /\ d + (r + 1) = (d + 1) + r
      BY <1>1, <2>2
    <3>2. h[d + 1] = Gpu!Xor(HashOf(s, r)[d + 1], HashOf(t, r)[d + 1])
      BY <3>1
    <3>3. CASE (d + 1) + r <= K + 1
      <4>1. /\ HashOf(s, r)[d + 1] = Gpu!DigitOf(s, 1 .. P, (d + 1) + r)
            /\ HashOf(t, r)[d + 1] = Gpu!DigitOf(t, 1 .. P, (d + 1) + r)
        BY <3>1, <3>3 DEF HashOf
      <4>2. HashOf(z, r + 1)[d] = Gpu!DigitOf(z, 1 .. Gpu!Pow2[r + 1], (d + 1) + r)
        BY <3>1, <3>3 DEF HashOf
      <4> HIDE DEF h, z, P
      <4> QED BY <1>2, <2>2, <3>2, <4>1, <4>2
    <3>4. CASE ~((d + 1) + r <= K + 1)
      <4>1. HashOf(s, r)[d + 1] = {} /\ HashOf(t, r)[d + 1] = {}
        BY <3>1, <3>4 DEF HashOf
      <4>2. HashOf(z, r + 1)[d] = {}
        BY <3>1, <3>4 DEF HashOf
      <4> HIDE DEF h, z, P
      <4> QED BY <2>2, <3>2, <4>1, <4>2 DEF Gpu!Xor
    <3> QED BY <3>3, <3>4
  <2> QED BY <2>1, <2>2
<1>4. h \in [1 .. K + 1 -> SUBSET Bit]
  <2>1. \A u, d : HashOf(u, r) \in [1 .. K + 1 -> SUBSET Bit]
    BY DEF HashOf, Gpu!DigitOf
  <2> QED BY <2>1 DEF Gpu!Xor
<1>5. Append(Tail(h), {}) = [d \in 1 .. K + 1 |-> IF d = K + 1 THEN {} ELSE h[d + 1]]
  <2> HIDE DEF h
  <2> QED BY <1>4, Shifted
<1>6. HashOf(z, r + 1) = [d \in 1 .. K + 1 |-> HashOf(z, r + 1)[d]]
  BY DEF HashOf
<1> HIDE DEF h, z, P
<1>7. HashOf(z, r + 1) = Append(Tail(h), {})
  BY <1>3, <1>5, <1>6
<1> QED BY <1>2, <1>7 DEF h, z, P

\* The digits that cancel at the root of a tree.
LEMMA RootDigits ==
  ASSUME NEW r \in Nat, NEW t, Gpu!IsTree(t, r), NEW d \in 1 .. r
  PROVE  Gpu!DigitOf(t, 1 .. Gpu!Pow2[r], d) = {}
<1>1. r \in 1 .. r /\ r - r = 0
  OBVIOUS
<1>2. Gpu!Pow2[r - r] = 1 /\ 0 \in 0 .. 1 - 1
  BY <1>1, PowersOfTwo
<1>3. Level(t, r, 0)
  BY <1>1, <1>2, TreeLevels
<1>4. Gpu!Block(r, 0 + 1) = 1 .. Gpu!Pow2[r]
  <2>1. 0 \in Nat /\ 0 + 1 = 1
    OBVIOUS
  <2>2. /\ Blocks(0, r) = 0 /\ Blocks(1, r) = Gpu!Pow2[r]
        /\ Gpu!Block(r, 0 + 1) = Blocks(0, r) + 1 .. Blocks(0 + 1, r)
    BY <2>1, BlocksCount
  <2> QED BY <2>1, <2>2
<1> QED BY <1>3, <1>4 DEF Level

\* What two trees of r levels must have to be the halves of another.
Halves(s, t, r) ==
  /\ \A j, k \in 1 .. Gpu!Pow2[r] : s[j] # t[k]
  /\ s[1] < t[1]

\* Two trees that agree in the next digit are the halves of a tree.
LEMMA MergedTrees ==
  ASSUME NEW r \in 0 .. K - 1, NEW s \in TreesAt(r), NEW t \in TreesAt(r), Halves(s, t, r),
         HashOf(s, r)[1] = HashOf(t, r)[1]
  PROVE  s \o t \in TreesAt(r + 1)
<1> DEFINE z == s \o t
           P == Gpu!Pow2[r]
<1>1. /\ r \in Nat /\ K \in Nat
      /\ s \in [1 .. Gpu!Pow2[r] -> Leaf] /\ t \in [1 .. Gpu!Pow2[r] -> Leaf]
      /\ Gpu!IsTree(s, r) /\ Gpu!IsTree(t, r)
  BY GpuConstants DEF TreesAt
<1>2. z \in [1 .. Gpu!Pow2[r + 1] -> Leaf] /\ Joins(z, s, t, P)
  BY <1>1, JoinedLists
<1>3. ASSUME NEW d \in 1 .. r + 1 PROVE Gpu!DigitOf(z, 1 .. Gpu!Pow2[r + 1], d) = {}
  <2>1. Gpu!DigitOf(z, 1 .. Gpu!Pow2[r + 1], d)
          = Gpu!Xor(Gpu!DigitOf(s, 1 .. P, d), Gpu!DigitOf(t, 1 .. P, d))
    BY <1>1, HashOfJoin, ZenonT(30)
  <2>2. Gpu!DigitOf(s, 1 .. P, d) = Gpu!DigitOf(t, 1 .. P, d)
    <3>1. CASE d \in 1 .. r
      BY <1>1, <3>1, RootDigits
    <3>2. CASE d = r + 1
      <4>1. 1 \in 1 .. K + 1 /\ 1 + r = d /\ 1 + r <= K + 1
        BY <1>1, <3>2
      <4>2. HashOf(s, r)[1] = Gpu!DigitOf(s, 1 .. P, d) /\ HashOf(t, r)[1] = Gpu!DigitOf(t, 1 .. P, d)
        BY <4>1 DEF HashOf
      <4> QED BY <4>2
    <3> QED BY <1>1, <3>1, <3>2
  <2> QED BY <2>1, <2>2 DEF Gpu!Xor
<1>4. Gpu!IsTree(z, r + 1)
  <2> HIDE DEF z
  <2> QED BY <1>1, <1>2, <1>3, TreesJoin DEF Halves
<1> QED BY <1>2, <1>4 DEF TreesAt

\* The halves of a tree are trees.
LEMMA SplitTree ==
  ASSUME NEW r \in Nat, NEW z \in TreesAt(r + 1)
  PROVE  \E s, t \in TreesAt(r) : z = s \o t /\ Halves(s, t, r)
<1> DEFINE P == Gpu!Pow2[r]
           s == [k \in 1 .. P |-> z[k]]
           t == [k \in 1 .. P |-> z[k + P]]
<1>1. /\ z \in [1 .. 2 * P -> Leaf] /\ Gpu!IsTree(z, r + 1)
      /\ P \in Nat \ {0} /\ Gpu!Pow2[r + 1] = 2 * P /\ r + 1 \in Nat /\ r \in 0 .. r + 1
  <2>1. P \in Nat \ {0} /\ Gpu!Pow2[r + 1] = 2 * P /\ r + 1 \in Nat /\ r \in 0 .. r + 1
    BY PowersOfTwo
  <2> QED BY <2>1 DEF TreesAt
<1>2. s \in [1 .. P -> Leaf] /\ t \in [1 .. P -> Leaf]
  <2>1. \A k \in 1 .. P : k \in 1 .. 2 * P /\ k + P \in 1 .. 2 * P
    BY <1>1
  <2> QED BY <1>1, <2>1
<1>3. Gpu!Pow2[(r + 1) - r] = 2
  <2>1. (r + 1) - r = 0 + 1 /\ 0 \in Nat
    OBVIOUS
  <2> QED BY <2>1, PowersOfTwo
<1>4. Blocks(0, r) = 0 /\ Blocks(1, r) = P
  <2>1. 0 \in Nat
    OBVIOUS
  <2> QED BY <2>1, BlocksCount
<1>5. Gpu!IsTree(s, r)
  <2> DEFINE m == 0
  <2>1. m \in 0 .. Gpu!Pow2[(r + 1) - r] - 1
    BY <1>3
  <2>2. \A k \in 1 .. Gpu!Pow2[r] : z[k + Blocks(m, r)] = s[k]
    BY <1>1, <1>4
  <2> HIDE DEF s, m
  <2> QED BY ONLY <1>1, <2>1, <2>2, PartOfTree, ZenonT(30)
<1>6. Gpu!IsTree(t, r)
  <2> DEFINE m == 1
  <2>1. m \in 0 .. Gpu!Pow2[(r + 1) - r] - 1
    BY <1>3
  <2>2. \A k \in 1 .. Gpu!Pow2[r] : z[k + Blocks(m, r)] = t[k]
    BY <1>1, <1>4
  <2> HIDE DEF t, m
  <2> QED BY ONLY <1>1, <2>1, <2>2, PartOfTree, ZenonT(30)
<1>7. Halves(s, t, r)
  <2>1. \A j, k \in 1 .. P : j \in 1 .. 2 * P /\ k + P \in 1 .. 2 * P /\ j # k + P
    BY <1>1
  <2>2. \A j, k \in 1 .. P : s[j] # t[k]
    <3>1. \A j, k \in 1 .. 2 * P : z[j] = z[k] => j = k
      BY <1>1 DEF Gpu!IsTree
    <3> QED BY <2>1, <3>1
  <2>3. Level(z, r + 1, 0)
    <3>1. r + 1 \in 1 .. r + 1 /\ (r + 1) - (r + 1) = 0
      OBVIOUS
    <3>2. Gpu!Pow2[(r + 1) - (r + 1)] = 1 /\ 0 \in 0 .. 1 - 1
      BY <3>1, PowersOfTwo
    <3> QED BY <1>1, <3>1, <3>2, TreeLevels
  <2>4. Blocks(0, r + 1) = 0 /\ (r + 1) - 1 = r
    <3>1. 0 \in Nat
      OBVIOUS
    <3> QED BY <1>1, <3>1, BlocksCount
  <2>5. z[0 + 1] < z[0 + P + 1]
    BY <2>3, <2>4 DEF Level
  <2>6. 0 + 1 = 1 /\ 0 + P + 1 = 1 + P /\ 1 \in 1 .. P
    BY <1>1
  <2>7. s[1] < t[1]
    BY <2>5, <2>6
  <2> QED BY <2>2, <2>7 DEF Halves
<1>8. z = s \o t
  <2>1. s \o t \in [1 .. 2 * P -> Leaf] /\ Joins(s \o t, s, t, P)
    <3> HIDE DEF s, t
    <3> QED BY <1>1, <1>2, JoinedLists
  <2>2. \A k \in 1 .. 2 * P : k \in 1 .. P \/ (k - P \in 1 .. P /\ (k - P) + P = k)
    BY <1>1
  <2>3. ASSUME NEW k \in 1 .. 2 * P PROVE (s \o t)[k] = z[k]
    <3> DEFINE w == s \o t
    <3>1. \A i \in 1 .. P : w[i] = s[i] /\ w[i + P] = t[i]
      BY <2>1 DEF Joins
    <3> HIDE DEF w
    <3>2. \A i \in 1 .. P : w[i] = z[i] /\ w[i + P] = z[i + P]
      BY <3>1
    <3> HIDE DEF P
    <3>3. w[k] = z[k]
      BY <2>2, <3>2
    <3> QED BY <3>3 DEF w
  <2> HIDE DEF s, t, P
  <2> QED BY <1>1, <2>1, <2>3
<1> HIDE DEF s, t
<1> QED BY <1>2, <1>5, <1>6, <1>7, <1>8 DEF TreesAt

\* What the kernels make of two rows with the same first digit and different
\* indices is a row of the next round.
LEMMA MergedRows ==
  ASSUME NEW r \in 0 .. K - 1, NEW x \in RowsAt(r), NEW y \in RowsAt(r),
         x.hash[1] = y.hash[1], Gpu!DistinctIndices(x, y)
  PROVE  Gpu!Merge(x, y) \in RowsAt(r + 1)
<1>1. PICK s \in TreesAt(r), t \in TreesAt(r) : x = RowOf(s, r) /\ y = RowOf(t, r)
  BY DEF RowsAt
<1>2. /\ x.indices = s /\ y.indices = t /\ x.hash = HashOf(s, r) /\ y.hash = HashOf(t, r)
  BY <1>1 DEF RowOf
<1>3. /\ s \in [1 .. Gpu!Pow2[r] -> Leaf] /\ t \in [1 .. Gpu!Pow2[r] -> Leaf]
      /\ r \in Nat /\ 1 \in 1 .. Gpu!Pow2[r]
  <2>1. r \in Nat /\ K \in Nat
    BY GpuConstants
  <2>2. 1 \in 1 .. Gpu!Pow2[r]
    BY <2>1, PowersOfTwo
  <2> QED BY <2>1, <2>2 DEF TreesAt
<1>4. \A j, k \in 1 .. Gpu!Pow2[r] : s[j] # t[k]
  <2>1. /\ Gpu!Indices(x) = {s[k] : k \in 1 .. Gpu!Pow2[r]}
        /\ Gpu!Indices(y) = {t[k] : k \in 1 .. Gpu!Pow2[r]}
    BY <1>2, <1>3 DEF Gpu!Indices
  <2> QED BY <2>1 DEF Gpu!DistinctIndices
<1>5. \A u, v \in [1 .. Gpu!Pow2[r] -> Leaf] :
        HashOf(u \o v, r + 1)
          = Append(Tail([d \in 1 .. K + 1 |-> Gpu!Xor(HashOf(u, r)[d], HashOf(v, r)[d])]), {})
  BY HashOfJoin
<1>6. CASE s[1] < t[1]
  <2>1. s \o t \in TreesAt(r + 1)
    BY <1>2, <1>4, <1>6, MergedTrees DEF Halves
  <2>2. Gpu!Merge(x, y) = [hash |-> HashOf(s \o t, r + 1), indices |-> s \o t]
    BY <1>2, <1>3, <1>5, <1>6 DEF Gpu!Merge
  <2> QED BY <2>1, <2>2 DEF RowsAt, RowOf
<1>7. CASE ~(s[1] < t[1])
  <2>1. t[1] < s[1]
    <3>1. s[1] \in Nat /\ t[1] \in Nat /\ s[1] # t[1]
      BY <1>3, <1>4, GpuConstants
    <3> QED BY <1>7, <3>1
  <2>2. t \o s \in TreesAt(r + 1)
    <3>1. Halves(t, s, r)
      BY <1>4, <2>1 DEF Halves
    <3> QED BY <1>2, <3>1, MergedTrees
  <2>3. \A a, b : Gpu!Xor(a, b) = Gpu!Xor(b, a)
    BY DEF Gpu!Xor
  <2>4. HashOf(t \o s, r + 1)
          = Append(Tail([d \in 1 .. K + 1 |-> Gpu!Xor(HashOf(s, r)[d], HashOf(t, r)[d])]), {})
    <3>1. HashOf(t \o s, r + 1)
            = Append(Tail([d \in 1 .. K + 1 |-> Gpu!Xor(HashOf(t, r)[d], HashOf(s, r)[d])]), {})
      BY <1>3, <1>5
    <3>2. [d \in 1 .. K + 1 |-> Gpu!Xor(HashOf(t, r)[d], HashOf(s, r)[d])]
            = [d \in 1 .. K + 1 |-> Gpu!Xor(HashOf(s, r)[d], HashOf(t, r)[d])]
      BY ONLY <2>3
    <3> QED BY <3>1, <3>2
  <2>5. Gpu!Merge(x, y) = [hash |-> HashOf(t \o s, r + 1), indices |-> t \o s]
    BY <1>2, <1>7, <2>4 DEF Gpu!Merge
  <2> QED BY <2>2, <2>5 DEF RowsAt, RowOf
<1> QED BY <1>6, <1>7

\* And every row of the next round is made in this way.
LEMMA RowsAreMerged ==
  ASSUME NEW r \in 0 .. K - 1, NEW z \in RowsAt(r + 1)
  PROVE  \E x, y \in RowsAt(r) :
           /\ x # y /\ x.hash[1] = y.hash[1] /\ Gpu!DistinctIndices(x, y)
           /\ z = Gpu!Merge(x, y)
<1>1. PICK u \in TreesAt(r + 1) : z = RowOf(u, r + 1)
  BY DEF RowsAt
<1>2. r \in Nat /\ K \in Nat /\ 1 \in 1 .. Gpu!Pow2[r] /\ r + 1 \in Nat
  <2>1. r \in Nat /\ K \in Nat
    BY GpuConstants
  <2> QED BY <2>1, PowersOfTwo
<1>3. PICK s \in TreesAt(r), t \in TreesAt(r) : u = s \o t /\ Halves(s, t, r)
  BY <1>2, SplitTree
<1>4. s \in [1 .. Gpu!Pow2[r] -> Leaf] /\ t \in [1 .. Gpu!Pow2[r] -> Leaf]
  BY DEF TreesAt
<1> DEFINE x == RowOf(s, r)
           y == RowOf(t, r)
<1>5. x \in RowsAt(r) /\ y \in RowsAt(r)
  BY DEF RowsAt
<1>6. x.indices = s /\ y.indices = t /\ x.hash = HashOf(s, r) /\ y.hash = HashOf(t, r)
  BY DEF RowOf
<1>7. Gpu!DistinctIndices(x, y)
  <2>1. /\ Gpu!Indices(x) = {s[k] : k \in 1 .. Gpu!Pow2[r]}
        /\ Gpu!Indices(y) = {t[k] : k \in 1 .. Gpu!Pow2[r]}
    BY <1>4, <1>6 DEF Gpu!Indices
  <2> QED BY <1>3, <2>1 DEF Gpu!DistinctIndices, Halves
<1>8. x # y
  BY <1>2, <1>3, <1>6 DEF Halves
<1>9. x.hash[1] = y.hash[1]
  <2> DEFINE a == Gpu!DigitOf(s, 1 .. Gpu!Pow2[r], r + 1)
             b == Gpu!DigitOf(t, 1 .. Gpu!Pow2[r], r + 1)
  <2>1. Gpu!DigitOf(u, 1 .. Gpu!Pow2[r + 1], r + 1) = Gpu!Xor(a, b)
    BY <1>3, <1>4, HashOfJoin
  <2>2. Gpu!DigitOf(u, 1 .. Gpu!Pow2[r + 1], r + 1) = {}
    <3>1. r + 1 \in 1 .. r + 1 /\ Gpu!IsTree(u, r + 1)
      BY <1>2 DEF TreesAt
    <3> QED BY <1>2, <3>1, RootDigits
  <2>3. a = b
    <3> HIDE DEF a, b
    <3> QED BY <2>1, <2>2 DEF Gpu!Xor
  <2>4. 1 \in 1 .. K + 1 /\ 1 + r <= K + 1 /\ 1 + r = r + 1
    BY <1>2
  <2>5. HashOf(s, r)[1] = a /\ HashOf(t, r)[1] = b
    BY <2>4 DEF HashOf
  <2> QED BY <1>6, <2>3, <2>5
<1>10. z = Gpu!Merge(x, y)
  <2>1. HashOf(u, r + 1)
          = Append(Tail([d \in 1 .. K + 1 |-> Gpu!Xor(HashOf(s, r)[d], HashOf(t, r)[d])]), {})
    BY <1>3, <1>4, HashOfJoin
  <2>2. s[1] < t[1]
    BY <1>3 DEF Halves
  <2> HIDE DEF x, y
  <2> QED BY <1>1, <1>3, <1>6, <2>1, <2>2 DEF Gpu!Merge, RowOf
<1> HIDE DEF x, y
<1> QED BY <1>5, <1>7, <1>8, <1>9, <1>10

\* If a round has no rows there are no solutions.
LEMMA NoRowsNoTrees ==
  ASSUME NEW r \in 0 .. K, RowsAt(r) = {}
  PROVE  TreesAt(K) = {}
<1> SUFFICES ASSUME NEW t \in TreesAt(K) PROVE FALSE
  OBVIOUS
<1> DEFINE u == [k \in 1 .. Gpu!Pow2[r] |-> t[k]]
           m == 0
<1>1. K \in Nat /\ r \in Nat /\ K - r \in Nat /\ t \in [1 .. Gpu!Pow2[K] -> Leaf] /\ Gpu!IsTree(t, K)
  BY GpuConstants DEF TreesAt
<1>2. m \in 0 .. Gpu!Pow2[K - r] - 1 /\ Gpu!Pow2[r] \in Nat
  <2>1. Gpu!Pow2[K - r] \in Nat \ {0} /\ Gpu!Pow2[r] \in Nat
    BY <1>1, PowersOfTwo
  <2>2. \A p \in Nat \ {0} : 0 \in 0 .. p - 1
    OBVIOUS
  <2> QED BY <2>1, <2>2
<1>3. Blocks(m, r) = 0
  <2>1. m \in Nat
    OBVIOUS
  <2> QED BY <1>1, <2>1, BlocksCount
<1>4. \A k \in 1 .. Gpu!Pow2[r] : t[k + Blocks(m, r)] = u[k] /\ k + Blocks(m, r) = k
  BY <1>2, <1>3
<1>5. Gpu!IsTree(u, r) /\ \A k \in 1 .. Gpu!Pow2[r] : k + Blocks(m, r) \in 1 .. Gpu!Pow2[K]
  <2>1. \A k \in 1 .. Gpu!Pow2[r] : t[k + Blocks(m, r)] = u[k]
    BY <1>4
  <2> HIDE DEF m, u
  <2> QED BY ONLY <1>1, <1>2, <2>1, r \in 0 .. K, PartOfTree
<1>6. u \in [1 .. Gpu!Pow2[r] -> Leaf]
  BY <1>1, <1>4, <1>5
<1>7. RowOf(u, r) \in RowsAt(r)
  <2> HIDE DEF u
  <2> QED BY <1>5, <1>6 DEF RowsAt, TreesAt
<1> QED BY <1>7

\* The trees made of the trees in X.
JoinedTrees(X) ==
  {p[1] \o p[2] : p \in {p \in X \X X :
     /\ p[1][1] < p[2][1]
     /\ \A j \in DOMAIN p[1], k \in DOMAIN p[2] : p[1][j] # p[2][k]}}

LEMMA TreesOfLevels ==
  /\ TreesOf[0] = {<<i>> : i \in Leaf}
  /\ \A r \in Nat : TreesOf[r + 1] = JoinedTrees(TreesOf[r])
<1> DEFINE first == {<<i>> : i \in Leaf}
           Def(g) == g = [r \in Nat |-> IF r = 0 THEN first ELSE JoinedTrees(g[r - 1])]
           V == SUBSET Seq(Leaf)
           step == [X \in V |-> JoinedTrees(X)]
<1>1. PICK f \in [Nat -> V] : f[0] = first /\ \A r \in Nat : f[r + 1] = step[f[r]]
  <2>1. ASSUME NEW X \in V PROVE JoinedTrees(X) \in V
    <3>1. \A s, t \in Seq(Leaf) : s \o t \in Seq(Leaf)
      OBVIOUS
    <3> QED BY <3>1 DEF JoinedTrees
  <2>2. step \in [V -> V] /\ first \in V
    <3>1. step \in [V -> V]
      BY <2>1
    <3>2. \A i \in Leaf : <<i>> \in Seq(Leaf)
      OBVIOUS
    <3> QED BY <3>1, <3>2
  <2>3. \E f \in [Nat -> V] : f[0] = first /\ \A r \in Nat : f[r + 1] = step[f[r]]
    <3> HIDE DEF V, step, first
    <3> QED BY <2>2, PrimitiveRecursion
  <2> QED BY <2>3
<1>2. Def(f)
  <2>1. \A r \in Nat : f[r] = IF r = 0 THEN first ELSE JoinedTrees(f[r - 1])
    <3> HIDE DEF first
    <3> SUFFICES ASSUME NEW r \in Nat, r # 0 PROVE f[r] = JoinedTrees(f[r - 1])
      BY <1>1
    <3>1. r - 1 \in Nat /\ (r - 1) + 1 = r
      OBVIOUS
    <3>2. f[(r - 1) + 1] = step[f[r - 1]] /\ f[r - 1] \in V
      BY <1>1, <3>1
    <3> QED BY <3>1, <3>2
  <2> HIDE DEF first
  <2> QED BY <2>1
<1>3. Def(TreesOf)
  <2>1. TreesOf = CHOOSE g : Def(g)
    BY DEF TreesOf, JoinedTrees
  <2> HIDE DEF Def
  <2> QED BY <1>2, <2>1
<1>4. TreesOf[0] = first
  <2> HIDE DEF first
  <2> QED BY <1>3
<1>5. \A r \in Nat : TreesOf[r + 1] = JoinedTrees(TreesOf[r])
  <2> HIDE DEF first
  <2> SUFFICES ASSUME NEW r \in Nat PROVE TreesOf[r + 1] = JoinedTrees(TreesOf[r])
    OBVIOUS
  <2>1. r + 1 \in Nat /\ r + 1 # 0 /\ (r + 1) - 1 = r
    OBVIOUS
  <2>2. TreesOf[r + 1] = IF r + 1 = 0 THEN first ELSE JoinedTrees(TreesOf[(r + 1) - 1])
    BY ONLY <1>3, <2>1
  <2> QED BY <2>1, <2>2
<1> QED BY <1>4, <1>5

\* The trees of TreesOf are lists of leaves, and every tree of the verifier is one.
LEMMA TreesOfTrees ==
  \A r \in Nat : TreesOf[r] \subseteq [1 .. Gpu!Pow2[r] -> Leaf] /\ TreesAt(r) \subseteq TreesOf[r]
<1> DEFINE T == {r \in Nat : /\ TreesOf[r] \subseteq [1 .. Gpu!Pow2[r] -> Leaf]
                            /\ TreesAt(r) \subseteq TreesOf[r]}
<1>1. 0 \in T
  <2>1. [1 .. 1 -> Leaf] = {<<i>> : i \in Leaf}
    <3>1. ASSUME NEW t \in [1 .. 1 -> Leaf] PROVE t[1] \in Leaf /\ t = <<t[1]>>
      OBVIOUS
    <3> QED BY <3>1
  <2> QED BY <2>1, PowersOfTwo, TreesOfLevels DEF TreesAt
<1>2. ASSUME NEW r \in T PROVE r + 1 \in T
  <2>1. /\ r \in Nat /\ TreesOf[r] \subseteq [1 .. Gpu!Pow2[r] -> Leaf] /\ TreesAt(r) \subseteq TreesOf[r]
        /\ TreesOf[r + 1] = JoinedTrees(TreesOf[r])
    BY TreesOfLevels
  <2>2. ASSUME NEW z \in TreesOf[r + 1] PROVE z \in [1 .. Gpu!Pow2[r + 1] -> Leaf]
    <3>1. PICK p \in TreesOf[r] \X TreesOf[r] : z = p[1] \o p[2]
      BY <2>1 DEF JoinedTrees
    <3>2. p[1] \in [1 .. Gpu!Pow2[r] -> Leaf] /\ p[2] \in [1 .. Gpu!Pow2[r] -> Leaf]
      BY <2>1
    <3> QED BY <2>1, <3>1, <3>2, JoinedLists
  <2>3. ASSUME NEW z \in TreesAt(r + 1) PROVE z \in TreesOf[r + 1]
    <3>1. PICK s \in TreesAt(r), t \in TreesAt(r) : z = s \o t /\ Halves(s, t, r)
      BY <2>1, SplitTree
    <3>2. DOMAIN s = 1 .. Gpu!Pow2[r] /\ DOMAIN t = 1 .. Gpu!Pow2[r]
      BY DEF TreesAt
    <3> DEFINE p == <<s, t>>
    <3>3. /\ p \in TreesOf[r] \X TreesOf[r] /\ p[1] = s /\ p[2] = t
      BY <2>1
    <3> HIDE DEF p
    <3>4. /\ p[1][1] < p[2][1]
          /\ \A j \in DOMAIN p[1], k \in DOMAIN p[2] : p[1][j] # p[2][k]
      BY <3>1, <3>2, <3>3 DEF Halves
    <3> QED BY <2>1, <3>1, <3>3, <3>4 DEF JoinedTrees
  <2> QED BY <2>1, <2>2, <2>3
<1>3. T = Nat
  <2>1. T \in SUBSET Nat
    OBVIOUS
  <2> HIDE DEF T
  <2> QED BY <1>1, <1>2, <2>1, Induction
<1> QED BY <1>3

\* What the verifier accepts, and what the property calls solutions.
Solutions == {tree \in Trees : Gpu!IsValidSolution(tree)}

\* There are finitely many.
LEMMA FiniteSolutions == IsFiniteSet(Solutions)
<1> DEFINE P == 1 .. Gpu!Pow2[K]
           F == [P -> Leaf]
           graph == [f \in F |-> {<<k, f[k]>> : k \in P}]
<1>1. IsFiniteSet(P) /\ IsFiniteSet(Leaf) /\ K \in Nat
  <2>1. Gpu!Pow2[K] \in Nat /\ K \in Nat /\ IsFiniteSet(Leaf)
    BY GpuConstants, PowersOfTwo
  <2> QED BY <2>1, FS_Interval
<1>2. IsFiniteSet(SUBSET (P \X Leaf))
  <2> HIDE DEF P
  <2>1. IsFiniteSet(P \X Leaf)
    BY <1>1, FS_Product
  <2> QED BY <2>1, FS_SUBSET
<1>3. graph \in Injection(F, SUBSET (P \X Leaf))
  <2> HIDE DEF P
  <2>1. graph \in [F -> SUBSET (P \X Leaf)]
    OBVIOUS
  <2>2. ASSUME NEW f \in F, NEW g \in F, graph[f] = graph[g] PROVE f = g
    <3>1. ASSUME NEW k \in P PROVE f[k] = g[k]
      <4>1. <<k, f[k]>> \in graph[f]
        OBVIOUS
      <4>2. PICK j \in P : <<k, f[k]>> = <<j, g[j]>>
        BY <2>2, <4>1
      <4> QED BY <4>2
    <3> QED BY <3>1
  <2> HIDE DEF graph, F
  <2> QED BY <2>1, <2>2 DEF Injection, IsInjective
<1>4. IsFiniteSet(F)
  <2> HIDE DEF F, graph, P
  <2> QED BY <1>2, <1>3, FS_Injection
<1>5. Solutions \subseteq F
  BY <1>1, TreesOfTrees DEF Solutions, Trees
<1> HIDE DEF F
<1> QED BY <1>4, <1>5, FS_Subset

\* The rows that solution_scan looks for are those of the solutions.
LEMMA SolutionRows ==
  \A u : u \in Solutions <=> \E x \in RowsAt(K) : x.indices = u /\ \A d \in 1 .. K + 1 : x.hash[d] = {}
<1>0. K \in Nat /\ K >= 1
  BY GpuConstants
<1>1. Gpu!Block(K, 1) = 1 .. Gpu!Pow2[K]
  <2>1. 0 \in Nat /\ 0 + 1 = 1
    OBVIOUS
  <2>2. /\ Blocks(0, K) = 0 /\ Blocks(1, K) = Gpu!Pow2[K]
        /\ Gpu!Block(K, 0 + 1) = Blocks(0, K) + 1 .. Blocks(0 + 1, K)
    BY <1>0, <2>1, BlocksCount
  <2> QED BY <2>1, <2>2
<1>2. ASSUME NEW t \in TreesAt(K)
      PROVE  Gpu!IsValidSolution(t) <=> \A d \in 1 .. K + 1 : HashOf(t, K)[d] = {}
  <2>1. Gpu!IsTree(t, K)
    BY DEF TreesAt
  <2>2. \A d \in 1 .. K : Gpu!DigitOf(t, 1 .. Gpu!Pow2[K], d) = {}
    BY <1>0, <2>1, RootDigits
  <2>3. \A d \in 1 .. K + 1 : d \in 1 .. K \/ d = K + 1
    BY <1>0
  <2>4. Gpu!IsValidSolution(t) <=> Gpu!DigitOf(t, 1 .. Gpu!Pow2[K], K + 1) = {}
    <3>1. K + 1 \in 1 .. K + 1
      BY <1>0
    <3> QED BY <1>1, <2>1, <2>2, <2>3, <3>1 DEF Gpu!IsValidSolution
  <2>5. /\ 1 \in 1 .. K + 1 /\ HashOf(t, K)[1] = Gpu!DigitOf(t, 1 .. Gpu!Pow2[K], K + 1)
        /\ \A d \in 1 .. K + 1 : d # 1 => HashOf(t, K)[d] = {}
    <3>1. 1 \in 1 .. K + 1 /\ 1 + K = K + 1 /\ 1 + K <= K + 1
      BY <1>0
    <3>2. \A d \in 1 .. K + 1 : d # 1 => ~(d + K <= K + 1)
      BY <1>0
    <3> QED BY <3>1, <3>2 DEF HashOf
  <2> QED BY <2>4, <2>5
<1>3. \A u : u \in Solutions <=> u \in TreesAt(K) /\ Gpu!IsValidSolution(u)
  <2>1. TreesOf[K] \subseteq [1 .. Gpu!Pow2[K] -> Leaf] /\ TreesAt(K) \subseteq TreesOf[K]
    BY <1>0, TreesOfTrees
  <2> QED BY <2>1 DEF Solutions, Trees, TreesAt, Gpu!IsValidSolution
<1>4. \A x \in RowsAt(K) : x.indices \in TreesAt(K) /\ x.hash = HashOf(x.indices, K)
  BY DEF RowsAt, RowOf
<1>5. ASSUME NEW u \in TreesAt(K) PROVE \E x \in RowsAt(K) : x.indices = u
  <2>1. RowOf(u, K) \in RowsAt(K)
    BY DEF RowsAt
  <2>2. RowOf(u, K).indices = u
    BY DEF RowOf
  <2> QED BY <2>1, <2>2
<1> QED BY <1>2, <1>3, <1>4, <1>5

\* Rows of a round: they are trees, and all of them if no bucket was ever full.
Held(X, r) == X \subseteq RowsAt(r) /\ (~full => X = RowsAt(r))

\* What a call may return.
OutIsRight ==
  /\ out \subseteq Solutions
  /\ ~full => \/ out = Solutions
              \/ Cardinality(Solutions) > MAX_SOLUTIONS /\ Cardinality(out) = MAX_SOLUTIONS

GpuInv ==
  /\ leaves \in [Leaf -> Gpu!Hash]
  /\ round \in 0 .. K /\ full \in BOOLEAN /\ DOMAIN rows = {"A", "B"}
  /\ place \in {"init", "count", "pair", "scan", "returned", "thrown"}
  /\ place = "init" => round = 0
  /\ place \in {"count", "pair"} => round < K
  /\ \A r \in 0 .. K : place \in {"count", "pair"} /\ round = r => Held(rows[Gpu!In], r)
  /\ place = "pair" => slots \subseteq rows[Gpu!In] /\ (~full => slots = rows[Gpu!In])
  /\ place = "scan" => Held(rows.B, K)
  /\ place # "returned" => out = {}
  /\ place = "returned" => OutIsRight

\* Rows and solutions depend on the leaves only, which do not change.
LEMMA LeavesStay ==
  ASSUME leaves' = leaves
  PROVE  (\A r : RowsAt(r)' = RowsAt(r)) /\ Solutions' = Solutions
<1>1. \A t, X, d : Gpu!DigitOf(t, X, d)' = Gpu!DigitOf(t, X, d)
  BY DEF Gpu!DigitOf
<1>2. ASSUME NEW t, NEW r PROVE Gpu!IsTree(t, r)' <=> Gpu!IsTree(t, r)
  <2>1. \A q, n, d : Gpu!DigitOf(t, Gpu!Block(q, n), d)' = Gpu!DigitOf(t, Gpu!Block(q, n), d)
    BY DEF Gpu!DigitOf, Gpu!Block
  <2> QED BY <2>1 DEF Gpu!IsTree
<1>3. \A t, r : HashOf(t, r)' = HashOf(t, r)
  BY <1>1 DEF HashOf
<1>4. \A t : Gpu!IsValidSolution(t)' <=> Gpu!IsValidSolution(t)
  BY <1>1, <1>2 DEF Gpu!IsValidSolution, Gpu!Block
<1>5. Solutions' = Solutions
  BY <1>4 DEF Solutions
<1>6. \A r : TreesAt(r)' = TreesAt(r)
  BY <1>2 DEF TreesAt
<1>7. \A r : RowsAt(r)' = RowsAt(r)
  BY <1>3, <1>6 DEF RowsAt, RowOf
<1> QED BY <1>5, <1>7

\* The rows a round emits.
Emitted(chance) ==
  {Gpu!Merge(p[1], p[2]) : p \in {p \in Gpu!Pairs : p[1] \in slots} \cup chance}

LEMMA RoundEmits ==
  ASSUME GpuInv, place = "pair", NEW chance \in SUBSET {p \in Gpu!Pairs : p[1] \notin slots}
  PROVE  Held(Emitted(chance), round + 1)
<1> DEFINE I == rows[Gpu!In]
<1>1. round \in 0 .. K /\ round < K /\ K \in Nat /\ full \in BOOLEAN
  BY GpuConstants DEF GpuInv
<1>2. round \in 0 .. K - 1
  BY <1>1
<1>3. I \subseteq RowsAt(round) /\ slots \subseteq I /\ (~full => I = RowsAt(round) /\ slots = I)
  BY <1>1 DEF GpuInv, Held
<1>4. /\ \A p \in Gpu!Pairs : /\ p[1] \in I /\ p[2] \in slots /\ p[1].hash[1] = p[2].hash[1]
                             /\ Gpu!DistinctIndices(p[1], p[2])
      /\ \A x \in I, y \in slots : x # y /\ x.hash[1] = y.hash[1] /\ Gpu!DistinctIndices(x, y)
           => <<x, y>> \in Gpu!Pairs
  BY DEF Gpu!Pairs
<1> HIDE DEF I
<1>5. ASSUME NEW z \in Emitted(chance) PROVE z \in RowsAt(round + 1)
  <2>1. PICK p \in Gpu!Pairs : z = Gpu!Merge(p[1], p[2])
    BY DEF Emitted
  <2>2. p[1] \in RowsAt(round) /\ p[2] \in RowsAt(round)
    BY <1>3, <1>4
  <2> QED BY <1>2, <1>4, <2>1, <2>2, MergedRows
<1>6. ASSUME ~full, NEW z \in RowsAt(round + 1) PROVE z \in Emitted(chance)
  <2>1. PICK x \in RowsAt(round), y \in RowsAt(round) :
          /\ x # y /\ x.hash[1] = y.hash[1] /\ Gpu!DistinctIndices(x, y)
          /\ z = Gpu!Merge(x, y)
    BY <1>2, RowsAreMerged
  <2> DEFINE p == <<x, y>>
  <2>2. p \in Gpu!Pairs /\ p[1] = x /\ p[2] = y /\ x \in slots
    BY <1>3, <1>4, <1>6, <2>1
  <2> HIDE DEF p
  <2> QED BY <2>1, <2>2 DEF Emitted
<1> QED BY <1>5, <1>6 DEF Held

LEMMA GpuInvInductive == GpuInv /\ [Gpu!Next]_Gpu!vars => GpuInv'
<1> SUFFICES ASSUME GpuInv, [Gpu!Next]_Gpu!vars PROVE GpuInv'
  OBVIOUS
<1>0. /\ leaves \in [Leaf -> Gpu!Hash]
      /\ round \in 0 .. K /\ full \in BOOLEAN /\ DOMAIN rows = {"A", "B"}
      /\ K \in Nat \ {0} /\ K % 2 = 1
  BY GpuConstants DEF GpuInv
<1>1. leaves' = leaves
  BY DEF Gpu!Next, Gpu!vars, Gpu!InitRows, Gpu!CountBuckets, Gpu!PairEmit, Gpu!SolutionScan
<1>2. (\A r : RowsAt(r)' = RowsAt(r)) /\ Solutions' = Solutions
  BY <1>1, LeavesStay
<1>3. CASE Gpu!InitRows
  <2>1. /\ place = "init" /\ place' = "count" /\ round = 0 /\ round' = 0 /\ out = {} /\ out' = {} /\ full' = full
        /\ rows' = [rows EXCEPT !.A = {[hash |-> leaves[i], indices |-> <<i>>] : i \in Leaf}]
    BY <1>3 DEF Gpu!InitRows, GpuInv
  <2>2. Gpu!In' = "A"
    <3>1. 0 % 2 = 0
      OBVIOUS
    <3> QED BY <2>1, <3>1 DEF Gpu!In
  <2>3. rows'["A"] = RowsAt(0) /\ DOMAIN rows' = {"A", "B"}
    BY <1>0, <2>1, FirstRows
  <2>4. \A r \in 0 .. K : round' = r => Held(rows[Gpu!In], r)'
    BY <1>2, <2>1, <2>2, <2>3 DEF Held
  <2> QED BY <1>0, <1>1, <2>1, <2>3, <2>4 DEF GpuInv
<1>4. CASE Gpu!CountBuckets
  <2> DEFINE crowded == {x \in rows[Gpu!In] : Gpu!Cardinality(Gpu!Bucket(x)) > MAX_PER_BUCKET}
  <2>1. /\ place = "count" /\ place' = "pair" /\ round' = round /\ rows' = rows /\ out' = out /\ out = {}
        /\ full' = (full \/ crowded # {}) /\ round < K
        /\ \E kept \in SUBSET crowded : slots' = (rows[Gpu!In] \ crowded) \cup kept
    BY <1>4 DEF Gpu!CountBuckets, GpuInv
  <2>2. Gpu!In' = Gpu!In
    BY <2>1 DEF Gpu!In
  <2>3. slots' \subseteq rows[Gpu!In] /\ (~full' => slots' = rows[Gpu!In]) /\ (~full' => ~full) /\ full' \in BOOLEAN
    BY <1>0, <2>1
  <2> HIDE DEF crowded
  <2>4. \A r \in 0 .. K : round' = r => Held(rows[Gpu!In], r)'
    <3>1. \A r \in 0 .. K : round = r => Held(rows[Gpu!In], r)
      BY <2>1 DEF GpuInv
    <3> QED BY <1>2, <2>1, <2>2, <2>3, <3>1 DEF Held
  <2>5. (slots \subseteq rows[Gpu!In])' /\ (~full => slots = rows[Gpu!In])'
    BY <2>1, <2>2, <2>3
  <2> QED BY <1>0, <1>1, <2>1, <2>3, <2>4, <2>5 DEF GpuInv
<1>5. CASE Gpu!PairEmit
  <2>1. PICK chance \in SUBSET {p \in Gpu!Pairs : p[1] \notin slots} :
          IF Gpu!Cardinality(Emitted(chance)) > MAX_ROWS
          THEN place' = "thrown" /\ UNCHANGED <<round, rows>>
          ELSE /\ rows' = [rows EXCEPT ![Gpu!Out] = Emitted(chance)]
               /\ round' = round + 1
               /\ place' = IF Emitted(chance) = {} THEN "returned"
                           ELSE IF round + 1 < K THEN "count" ELSE "scan"
    BY <1>5 DEF Gpu!PairEmit, Emitted
  <2>2. place = "pair" /\ out = {} /\ out' = {} /\ full' = full /\ slots' = slots /\ round < K
    BY <1>5 DEF Gpu!PairEmit, GpuInv
  <2>3. Held(Emitted(chance), round + 1)
    BY <2>2, RoundEmits
  <2> DEFINE E == Emitted(chance)
  <2> HIDE DEF E
  <2>4. E \subseteq RowsAt(round + 1) /\ (~full => E = RowsAt(round + 1))
    BY <2>3 DEF E, Held
  <2>5. round + 1 \in 0 .. K /\ (~(round + 1 < K) => round + 1 = K)
    BY <1>0, <2>2
  <2>6. CASE place' = "thrown" /\ UNCHANGED <<round, rows>>
    BY <1>0, <1>1, <2>2, <2>6 DEF GpuInv
  <2>7. CASE /\ rows' = [rows EXCEPT ![Gpu!Out] = E]
             /\ round' = round + 1
             /\ place' = IF E = {} THEN "returned"
                         ELSE IF round + 1 < K THEN "count" ELSE "scan"
    <3>1. Gpu!Out \in {"A", "B"} /\ rows'[Gpu!Out] = E /\ DOMAIN rows' = {"A", "B"}
      BY <1>0, <2>7 DEF Gpu!Out
    <3>2. CASE E = {}
      <4>1. place' = "returned"
        BY <2>7, <3>2
      <4>2. ~full => Solutions = {}
        <5> SUFFICES ASSUME ~full PROVE Solutions = {}
          OBVIOUS
        <5>1. TreesAt(K) = {} /\ RowsAt(K) = {}
          BY <2>4, <2>5, <3>2, NoRowsNoTrees DEF RowsAt
        <5> QED BY <5>1, SolutionRows
      <4>3. OutIsRight'
        BY <1>2, <2>2, <4>2 DEF OutIsRight
      <4> QED BY <1>0, <1>1, <2>2, <2>5, <2>7, <3>1, <4>1, <4>3 DEF GpuInv
    <3>3. CASE E # {} /\ round + 1 < K
      <4>1. place' = "count"
        BY <2>7, <3>3
      <4>2. Gpu!In' = Gpu!Out
        <5>1. \A n \in Nat : (n + 1) % 2 = 0 <=> ~(n % 2 = 0)
          OBVIOUS
        <5> QED BY <1>0, <2>7, <5>1 DEF Gpu!In, Gpu!Out
      <4>3. \A r \in 0 .. K : round' = r => Held(rows[Gpu!In], r)'
        BY <1>2, <2>2, <2>4, <2>7, <3>1, <4>2 DEF Held
      <4> QED BY <1>0, <1>1, <2>2, <2>5, <2>7, <3>1, <3>3, <4>1, <4>3 DEF GpuInv
    <3>4. CASE E # {} /\ ~(round + 1 < K)
      <4>1. place' = "scan"
        BY <2>7, <3>4
      <4>2. Gpu!Out = "B"
        <5>1. \A n \in Nat : (n + 1) % 2 = 1 => n % 2 = 0
          OBVIOUS
        <5> QED BY <1>0, <2>5, <3>4, <5>1 DEF Gpu!Out
      <4>3. (Held(rows.B, K))'
        BY <1>2, <2>2, <2>4, <2>5, <3>1, <3>4, <4>2 DEF Held
      <4> QED BY <1>0, <1>1, <2>2, <2>5, <2>7, <3>1, <4>1, <4>3 DEF GpuInv
    <3> QED BY <3>2, <3>3, <3>4
  <2> QED BY <2>1, <2>6, <2>7 DEF E
<1>6. CASE Gpu!SolutionScan
  <2> DEFINE hits == {x.indices : x \in {x \in rows.B : \A d \in 1 .. K + 1 : x.hash[d] = {}}}
  <2>1. PICK taken \in SUBSET hits :
          /\ Cardinality(taken) = IF Cardinality(hits) > MAX_SOLUTIONS THEN MAX_SOLUTIONS
                                  ELSE Cardinality(hits)
          /\ out' = taken
    BY <1>6, GpuCardinality DEF Gpu!SolutionScan
  <2>2. place = "scan" /\ place' = "returned" /\ round' = round /\ rows' = rows /\ full' = full /\ Held(rows.B, K)
    BY <1>6 DEF Gpu!SolutionScan, GpuInv
  <2>3. hits \subseteq Solutions
    BY <2>2, SolutionRows DEF Held
  <2>4. ~full => hits = Solutions
    BY <2>2, <2>3, SolutionRows DEF Held
  <2> HIDE DEF hits
  <2>5. IsFiniteSet(hits)
    BY <2>3, FiniteSolutions, FS_Subset
  <2>6. ~(Cardinality(hits) > MAX_SOLUTIONS) => taken = hits
    BY <2>1, <2>5, FS_Subset
  <2>7. OutIsRight'
    BY <1>2, <2>1, <2>2, <2>3, <2>4, <2>6 DEF OutIsRight
  <2> QED BY <1>0, <1>1, <2>2, <2>7 DEF GpuInv
<1>7. CASE UNCHANGED Gpu!vars
  <2>1. /\ place' = place /\ round' = round /\ rows' = rows /\ slots' = slots /\ full' = full /\ out' = out
    BY <1>7 DEF Gpu!vars
  <2>2. Gpu!In' = Gpu!In
    BY <2>1 DEF Gpu!In
  <2>3. \A r : Held(rows[Gpu!In], r)' <=> Held(rows[Gpu!In], r)
    BY <1>2, <2>1, <2>2 DEF Held
  <2>4. Held(rows.B, K)' <=> Held(rows.B, K)
    BY <1>2, <2>1 DEF Held
  <2>5. OutIsRight' <=> OutIsRight
    BY <1>2, <2>1 DEF OutIsRight
  <2> QED BY <1>1, <2>1, <2>2, <2>3, <2>4, <2>5 DEF GpuInv
<1> QED BY <1>3, <1>4, <1>5, <1>6, <1>7 DEF Gpu!Next

\* A call of runNonce on any leaves; the run's tables are six of them.
GpuSpec == (\E h \in [Leaf -> Gpu!Hash] : Gpu!InitWith(h)) /\ [][Gpu!Next]_Gpu!vars

\* Whatever its leaves hash to, runNonce returns what the verifier accepts and,
\* when no bucket was full, all of it up to its limit: for any set of leaves, bits,
\* sizes and odd number of rounds.
THEOREM GpuSolvesLikeTheVerifier == GpuSpec => []SolvesLikeTheVerifier
<1>1. (\E h \in [Leaf -> Gpu!Hash] : Gpu!InitWith(h)) => GpuInv
  <2> SUFFICES ASSUME NEW h \in [Leaf -> Gpu!Hash], Gpu!InitWith(h) PROVE GpuInv
    OBVIOUS
  <2>1. /\ leaves \in [Leaf -> Gpu!Hash] /\ place = "init" /\ round = 0 /\ full = FALSE /\ out = {}
        /\ rows = [A |-> {}, B |-> {}]
    BY DEF Gpu!InitWith
  <2>2. DOMAIN rows = {"A", "B"} /\ round \in 0 .. K
    BY <2>1, GpuConstants
  <2> QED BY <2>1, <2>2 DEF GpuInv
<1>2. GpuInv => SolvesLikeTheVerifier
  <2> SUFFICES ASSUME GpuInv PROVE SolvesLikeTheVerifier
    OBVIOUS
  <2>1. out \subseteq Solutions /\ (place = "returned" => OutIsRight)
    BY DEF GpuInv, OutIsRight
  <2> QED BY <2>1 DEF SolvesLikeTheVerifier, Gpu!CandidatesAreValid, Solutions, OutIsRight
<1> QED BY <1>1, <1>2, GpuInvInductive, PTL DEF GpuSpec

=============================================================================
