------------------------------ MODULE WebMiner ------------------------------
(***************************************************************************)
(* The stand-alone web miner (clients/web-miner/app/src): App starts and   *)
(* stops miners, a miner is one loop (read the config, solve on a worker,  *)
(* check the target, submit, wait for the confirmation), the worker runs   *)
(* the solver.  A call of startMiner is a session; stop() raises a flag    *)
(* and terminates the worker, and the loop goes on until it looks at the   *)
(* flag again, next to the session started after it.                       *)
(*                                                                         *)
(* An action is the code from one await to the next.  Mining never closes  *)
(* once it is open and the start button waits for it, so the loop's own    *)
(* wait for an open vault is never taken.                                  *)
(***************************************************************************)
EXTENDS RoundChain

CONSTANTS
  MAX_SESSIONS,  \* bound of the model: calls of startMiner
  MAX_HEIGHT     \* bound of the model: rounds that close

WebAssumption == MAX_SESSIONS \in Nat /\ MAX_HEIGHT \in Nat

Sessions == 1 .. MAX_SESSIONS
Heights == 0 .. MAX_HEIGHT
NoSession == 0

VARIABLES
  started,   \* sessions started so far
  running,   \* App's `running`
  handle,    \* minerHandle.current: a session, or NoSession
  stopped,   \* session -> its flag
  pc,        \* session -> where its loop is
  worker,    \* session -> whether it has a worker
  cfg,       \* session -> round of the config it works with
  fate,      \* session -> its transaction: unknown, ok, err
  adrift,    \* rounds of transactions given up: they may still execute
  reported   \* rounds onBlockMined was called for

appVars == <<started, running, handle>>
loopVars == <<stopped, pc, worker, cfg>>
txVars == <<fate, adrift, reported>>
vars == <<chainVars, appVars, loopVars, txVars>>

TypeOK ==
  /\ height \in Heights /\ ours \subseteq Heights
  /\ started \in 0 .. MAX_SESSIONS
  /\ running \in BOOLEAN /\ handle \in Sessions \cup {NoSession}
  /\ stopped \in [Sessions -> BOOLEAN]
  /\ pc \in [Sessions -> {"none", "head", "fetch", "solving", "checking",
                          "preparing", "confirming", "done"}]
  /\ worker \in [Sessions -> BOOLEAN]
  /\ cfg \in [Sessions -> Heights]
  /\ fate \in [Sessions -> {"unknown", "ok", "err"}]
  /\ adrift \subseteq Heights /\ reported \subseteq Heights

Init ==
  /\ ChainInit
  /\ started = 0 /\ running = FALSE /\ handle = NoSession
  /\ stopped = [s \in Sessions |-> FALSE]
  /\ pc = [s \in Sessions |-> "none"]
  /\ worker = [s \in Sessions |-> FALSE]
  /\ cfg = [s \in Sessions |-> 0]
  /\ fate = [s \in Sessions |-> "unknown"]
  /\ adrift = {} /\ reported = {}

-----------------------------------------------------------------------------
\* startMining: the button is there while nothing runs.
StartMining ==
  /\ ~running /\ started < MAX_SESSIONS
  /\ started' = started + 1
  /\ running' = TRUE
  /\ handle' = started'
  /\ pc' = [pc EXCEPT ![started'] = "head"]
  /\ UNCHANGED <<chainVars, stopped, worker, cfg, txVars>>

\* stopMining and stop().  A job on the terminated worker is never answered:
\* its loop stays at that await.
StopMining ==
  /\ running
  /\ running' = FALSE
  /\ handle' = NoSession
  /\ stopped' = [stopped EXCEPT ![handle] = TRUE]
  /\ worker' = [worker EXCEPT ![handle] = FALSE]
  /\ UNCHANGED <<chainVars, started, pc, cfg, txVars>>

-----------------------------------------------------------------------------
Goto(s, step) == pc' = [pc EXCEPT ![s] = step]

\* Mutant: the loop does not look at the flag.
HeadUnstoppable(s) ==
  /\ pc[s] = "head"
  /\ Goto(s, "fetch")
  /\ UNCHANGED <<chainVars, appVars, stopped, worker, cfg, txVars>>

\* while (!stopped); the loop's sleeps end here as well.
LoopHead(s) ==
  /\ pc[s] = "head"
  /\ Goto(s, IF stopped[s] THEN "done" ELSE "fetch")
  /\ UNCHANGED <<chainVars, appVars, stopped, worker, cfg, txVars>>

\* fetchConfig answers, or fails; a worker is made if there is none, which is
\* also the case when stop() has just terminated it.
FetchConfig(s) ==
  /\ pc[s] = "fetch"
  /\ \/ Goto(s, "head") /\ UNCHANGED <<cfg, worker>>
     \/ /\ Goto(s, "solving")
        /\ cfg' = [cfg EXCEPT ![s] = ConfigRead]
        /\ worker' = [worker EXCEPT ![s] = TRUE]
  /\ UNCHANGED <<chainVars, appVars, stopped, txVars>>

\* The worker's answer: a solution, or none in 4096 nonces, or an error.
SolveOnWorker(s) ==
  /\ pc[s] = "solving" /\ worker[s]
  /\ \/ Goto(s, "checking")
     \/ Goto(s, "head")
  /\ UNCHANGED <<chainVars, appVars, stopped, worker, cfg, txVars>>

\* The digest of the candidate is above the target, or below it.
CheckTarget(s) ==
  /\ pc[s] = "checking"
  /\ \/ Goto(s, "head")
     \/ Goto(s, "preparing")
  /\ UNCHANGED <<chainVars, appVars, stopped, worker, cfg, txVars>>

\* Build, sign in the user's wallet (who may refuse), send without preflight;
\* a send that throws may have reached the network.
Submit(s) ==
  /\ pc[s] = "preparing"
  /\ \/ Goto(s, "confirming") /\ UNCHANGED adrift
     \/ Goto(s, "head") /\ adrift' \in {adrift, adrift \cup {cfg[s]}}
  /\ UNCHANGED <<chainVars, appVars, stopped, worker, cfg, fate, reported>>

Forget(s) == fate' = [fate EXCEPT ![s] = "unknown"]

\* Mutant: the result is looked at, with the test the wrong way round.
ConfirmedIfFailed(s) ==
  /\ pc[s] = "confirming" /\ fate[s] # "unknown"
  /\ reported' = IF fate[s] = "err" THEN reported \cup {cfg[s]} ELSE reported
  /\ Goto(s, "head") /\ Forget(s)
  /\ UNCHANGED <<chainVars, appVars, stopped, worker, cfg, adrift>>

\* confirmTransaction resolves when the transaction has executed; whether it
\* succeeded is in its result, which is not looked at.
Confirmed(s) ==
  /\ pc[s] = "confirming" /\ fate[s] # "unknown"
  /\ reported' = reported \cup {cfg[s]}
  /\ Goto(s, "head") /\ Forget(s)
  /\ UNCHANGED <<chainVars, appVars, stopped, worker, cfg, adrift>>

\* confirmTransaction throws when the blockhash expires, whatever became of
\* the transaction.
Expired(s) ==
  /\ pc[s] = "confirming"
  /\ adrift' = IF fate[s] = "err" THEN adrift ELSE adrift \cup {cfg[s]}
  /\ Goto(s, "head") /\ Forget(s)
  /\ UNCHANGED <<chainVars, appVars, stopped, worker, cfg, reported>>

-----------------------------------------------------------------------------
\* The cluster executes a transaction that is waited for.
Execute(s) ==
  /\ pc[s] = "confirming" /\ fate[s] = "unknown"
  /\ \/ height < MAX_HEIGHT /\ Win(cfg[s]) /\ fate' = [fate EXCEPT ![s] = "ok"]
     \/ UNCHANGED chainVars /\ fate' = [fate EXCEPT ![s] = "err"]
  /\ UNCHANGED <<appVars, loopVars, adrift, reported>>

ExecuteAdrift(h) ==
  /\ h \in adrift /\ height < MAX_HEIGHT
  /\ Win(h)
  /\ UNCHANGED <<appVars, loopVars, txVars>>

RoundCloses ==
  /\ height < MAX_HEIGHT
  /\ OthersClose
  /\ UNCHANGED <<appVars, loopVars, txVars>>

LoopStep(s) ==
  \/ LoopHead(s) \/ FetchConfig(s) \/ SolveOnWorker(s) \/ CheckTarget(s)
  \/ Submit(s) \/ Confirmed(s) \/ Expired(s)

Next ==
  \/ StartMining \/ StopMining
  \/ \E s \in Sessions : LoopStep(s) \/ Execute(s)
  \/ \E h \in adrift : ExecuteAdrift(h)
  \/ RoundCloses

Spec == Init /\ [][Next]_vars

\* Awaits settle: a live worker answers, requests end or fail, timers fire, the
\* user answers the wallet, a blockhash expires.
FairSpec == Spec /\ \A s \in Sessions : WF_vars(LoopStep(s))

-----------------------------------------------------------------------------
\* A round our miner won is reported, is being confirmed, or its transaction
\* had been given up; sessions that overlap do not hide each other's wins.
WinIsReported ==
  \A h \in ours :
    \/ h \in reported \/ h \in adrift
    \/ \E s \in Sessions : pc[s] = "confirming" /\ cfg[s] = h /\ fate[s] = "ok"

\* A stopped loop ends, or hangs for good at the await of its terminated
\* worker; it does not go on mining in the background.
WindsDown ==
  \A s \in Sessions :
    stopped[s] ~> pc[s] = "done" \/ (pc[s] = "solving" /\ ~worker[s])

\* "mined block N" (App.tsx:114), "block N confirmed" (miner.ts:164): what
\* the miner reports as mined, it mined.
ReportedWasMined == reported \subseteq ours
=============================================================================
