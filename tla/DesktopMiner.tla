---------------------------- MODULE DesktopMiner ----------------------------
(***************************************************************************)
(* The desktop miner (clients/desktop-miner): the state behind one mutex,  *)
(* the commands the window invokes, and the mining threads.                *)
(*                                                                         *)
(* A command runs on the main thread, so two commands never overlap; a     *)
(* mining thread runs beside them, touching the shared state only where it *)
(* takes the mutex.  Each start_mining makes a session with a stop flag of *)
(* its own.  The window decides which command can be invoked: the screen   *)
(* follows the wallet status, and Start or Stop follows what the dashboard *)
(* believes about the miner.                                               *)
(***************************************************************************)
EXTENDS Integers, FiniteSets

CONSTANTS
  Wallets,       \* key pairs
  NoWallet,      \* no wallet unlocked, or no file
  Unreadable,    \* a wallet file that does not parse
  MAX_SESSIONS,  \* bound of the model: threads started
  MAX_BLOCKS     \* bound of the model: blocks a session mines

ASSUME DesktopMinerAssumption ==
  /\ {NoWallet, Unreadable} \cap Wallets = {}
  /\ NoWallet # Unreadable
  /\ MAX_SESSIONS \in Nat /\ MAX_BLOCKS \in Nat

Sessions == 1 .. MAX_SESSIONS
None == 0

VARIABLES
  \* -- AppState --
  running, stop_flag, blocks_mined, unlocked,
  \* -- the wallet file, the wallet being written to it, and whether the last
  \*    wallet_status could not read a file that is good --
  disk, saving, misread,
  \* -- the dashboard's idea of `running` --
  shown,
  \* -- the mining threads --
  sessions,  \* how many were started
  pc,        \* session -> next step of its thread
  raised,    \* session -> its AtomicBool stop flag
  mined,     \* session -> blocks it has mined
  hasty      \* whether a session was ever started before the last one's end

minerVars == <<running, stop_flag, blocks_mined>>
walletVars == <<unlocked, disk, saving, misread>>
threadVars == <<sessions, pc, raised, mined, hasty>>
vars == <<minerVars, walletVars, shown, threadVars>>

Working == {"enter", "mint", "test", "round", "sleep"}
Alive(s) == pc[s] \notin {"unborn", "dead"}
Finished(s) == pc[s] \in {"unborn", "emitting", "dead"}

TypeOK ==
  /\ running \in BOOLEAN
  /\ stop_flag \in Sessions \cup {None}
  /\ blocks_mined \in 0 .. MAX_SESSIONS * MAX_BLOCKS
  /\ unlocked \in Wallets \cup {NoWallet}
  /\ disk \in Wallets \cup {NoWallet, Unreadable}
  /\ saving \in Wallets \cup {NoWallet}
  /\ misread \in BOOLEAN /\ (misread => disk \in Wallets)
  /\ shown \in BOOLEAN
  /\ sessions \in 0 .. MAX_SESSIONS
  /\ pc \in [Sessions -> Working \cup {"unborn", "marking", "emitting", "panicked", "clearing", "dead"}]
  /\ raised \in [Sessions -> BOOLEAN]
  /\ mined \in [Sessions -> 0 .. MAX_BLOCKS]
  /\ hasty \in BOOLEAN

\* load_store (keystore.rs:181): an error of the read is no file to the caller.
Readings(file) == IF file \in Wallets THEN BOOLEAN ELSE {FALSE}

\* First run of the application, or a run that finds a wallet.
Init ==
  /\ running = FALSE
  /\ stop_flag = None
  /\ blocks_mined = 0
  /\ unlocked = NoWallet
  /\ disk \in Wallets \cup {NoWallet}
  /\ saving = NoWallet
  /\ misread \in Readings(disk)
  /\ shown = FALSE
  /\ sessions = 0
  /\ pc = [s \in Sessions |-> "unborn"]
  /\ raised = [s \in Sessions |-> FALSE]
  /\ mined = [s \in Sessions |-> 0]
  /\ hasty = FALSE

-----------------------------------------------------------------------------
(* The window.  The screen follows wallet_status, which every command that *)
(* changes it refreshes; a good file that could not be read then is taken  *)
(* to be none, and the wizard writes over it.                              *)
WalletStatus ==
  IF unlocked # NoWallet THEN "unlocked"
  ELSE IF disk \in Wallets /\ ~misread THEN "needs-unlock"
  ELSE "needs-setup"

\* The main thread is free, and the screen is the one for this status.
On(screen) == saving = NoWallet /\ WalletStatus = screen

\* create_wallet and import_wallet, from the setup wizard: they look at no file
\* that may be there, and fs::write first truncates it.
BeginSave(w) ==
  /\ On("needs-setup")
  /\ saving' = w
  /\ disk' = Unreadable
  /\ misread' = FALSE
  /\ UNCHANGED <<minerVars, unlocked, shown, threadVars>>

\* Mutant: the wallet is unlocked although it could not be written.
SaveFailsUnlocked ==
  /\ saving # NoWallet
  /\ unlocked' = saving
  /\ saving' = NoWallet
  /\ UNCHANGED <<minerVars, disk, misread, shown, threadVars>>

\* The write fails part-way and the command returns the error.
SaveFails ==
  /\ saving # NoWallet
  /\ saving' = NoWallet
  /\ UNCHANGED <<minerVars, unlocked, disk, misread, shown, threadVars>>

\* The file is written, and only then is the wallet unlocked.
EndSave ==
  /\ saving # NoWallet
  /\ disk' = saving
  /\ unlocked' = saving
  /\ saving' = NoWallet
  /\ UNCHANGED <<minerVars, misread, shown, threadVars>>

\* unlock_wallet with the right password.
Unlock ==
  /\ On("needs-unlock")
  /\ unlocked' = disk
  /\ UNCHANGED <<minerVars, disk, saving, misread, shown, threadVars>>

\* lock_wallet leaves the miner alone; the dashboard is unmounted, and starts
\* from `false` when it is mounted again.
Lock ==
  /\ On("unlocked")
  /\ unlocked' = NoWallet
  /\ shown' = FALSE
  /\ misread' \in Readings(disk)
  /\ UNCHANGED <<minerVars, disk, saving, threadVars>>

\* forget_wallet ignores a file it cannot remove.  It looks at no status, and the
\* unlock screen is there until a wallet just unlocked has its dashboard.
Forget(removed) ==
  /\ On("needs-unlock") \/ (On("unlocked") /\ ~shown)
  /\ disk' = IF removed THEN NoWallet ELSE disk
  /\ unlocked' = NoWallet
  /\ misread' \in Readings(disk')
  /\ UNCHANGED <<minerVars, saving, shown, threadVars>>

\* Mutant: the statistics of the last session are kept.
StartMiningKeepingStats(spawned) ==
  /\ On("unlocked") /\ ~shown
  /\ ~running
  /\ sessions < MAX_SESSIONS
  /\ sessions' = sessions + 1
  /\ running' = TRUE
  /\ stop_flag' = sessions'
  /\ pc' = [pc EXCEPT ![sessions'] = IF spawned THEN "enter" ELSE "dead"]
  /\ shown' = spawned
  /\ hasty' = (hasty \/ \E s \in Sessions : ~Finished(s))
  /\ UNCHANGED <<blocks_mined, walletVars, raised, mined>>

\* start_mining: refused while `running`; otherwise fresh statistics, a fresh
\* stop flag and a thread with a copy of the key.
StartMining(spawned) ==
  /\ On("unlocked") /\ ~shown
  /\ ~running
  /\ sessions < MAX_SESSIONS
  /\ sessions' = sessions + 1
  /\ running' = TRUE
  /\ blocks_mined' = 0
  /\ stop_flag' = sessions'
  /\ pc' = [pc EXCEPT ![sessions'] = IF spawned THEN "enter" ELSE "dead"]
  /\ shown' = spawned
  /\ hasty' = (hasty \/ \E s \in Sessions : ~Finished(s))
  /\ UNCHANGED <<walletVars, raised, mined>>

\* Mutant: the flag is dropped without being raised.
StopMiningSilently ==
  /\ On("unlocked") /\ shown
  /\ stop_flag' = None
  /\ running' = FALSE
  /\ shown' = FALSE
  /\ UNCHANGED <<blocks_mined, walletVars, sessions, pc, raised, mined, hasty>>

\* stop_mining: raises the flag it takes; does not wait for the thread.
StopMining ==
  /\ On("unlocked") /\ shown
  /\ raised' = IF stop_flag = None THEN raised ELSE [raised EXCEPT ![stop_flag] = TRUE]
  /\ stop_flag' = None
  /\ running' = FALSE
  /\ shown' = FALSE
  /\ UNCHANGED <<blocks_mined, walletVars, sessions, pc, mined, hasty>>

\* The dashboard's poll of miner_status.
Poll ==
  /\ On("unlocked")
  /\ shown' = running
  /\ UNCHANGED <<minerVars, walletVars, threadVars>>

-----------------------------------------------------------------------------
(* The mining thread of session s. *)
Goto(s, step) == pc' = [pc EXCEPT ![s] = step]

\* A miner://status event; a dashboard that is not mounted misses it.
EmitStatus(isRunning) ==
  shown' = IF unlocked # NoWallet THEN isRunning ELSE shown

Enter(s) ==
  /\ pc[s] = "enter"
  /\ EmitStatus(TRUE)
  /\ Goto(s, "mint")
  /\ UNCHANGED <<minerVars, walletVars, sessions, raised, mined, hasty>>

\* The config and the mint are read once, before the stop flag is ever looked
\* at; if that fails the miner gives up.
ReadMint(s, ok) ==
  /\ pc[s] = "mint"
  /\ Goto(s, IF ok THEN "test" ELSE "marking")
  /\ UNCHANGED <<minerVars, walletVars, shown, sessions, raised, mined, hasty>>

\* The top of the loop.
Test(s) ==
  /\ pc[s] = "test"
  /\ Goto(s, IF raised[s] THEN "marking" ELSE "round")
  /\ UNCHANGED <<minerVars, walletVars, shown, sessions, raised, mined, hasty>>

\* A round that mines nothing: the config cannot be read, mining is closed or
\* the submission is rejected, and the thread sleeps; or the watchdog fired,
\* the solver was exhausted or the solution is above target, and it goes on.
RoundWithoutBlock(s, sleeps) ==
  /\ pc[s] = "round"
  /\ Goto(s, IF sleeps THEN "sleep" ELSE "test")
  /\ UNCHANGED <<minerVars, walletVars, shown, sessions, raised, mined, hasty>>

\* submit_mine succeeded; the statistics are updated under the mutex.
RoundWithBlock(s) ==
  /\ pc[s] = "round"
  /\ mined[s] < MAX_BLOCKS
  /\ mined' = [mined EXCEPT ![s] = @ + 1]
  /\ blocks_mined' = blocks_mined + 1
  /\ Goto(s, "test")
  /\ UNCHANGED <<running, stop_flag, walletVars, shown, sessions, raised, hasty>>

\* Mutant: the sleep does not look at the stop flag, and retries for ever.
SleepOut(s) ==
  /\ pc[s] = "sleep"
  /\ Goto(s, "round")
  /\ UNCHANGED <<minerVars, walletVars, shown, sessions, raised, mined, hasty>>

\* sleep_or_stop returns early when the flag is up.
Sleep(s) ==
  /\ pc[s] = "sleep"
  /\ Goto(s, IF raised[s] THEN "marking" ELSE "test")
  /\ UNCHANGED <<minerVars, walletVars, shown, sessions, raised, mined, hasty>>

\* mark_stopped, whichever session is the current one by now.
MarkStopped(s) ==
  /\ pc[s] = "marking"
  /\ running' = FALSE
  /\ stop_flag' = None
  /\ Goto(s, "emitting")
  /\ UNCHANGED <<blocks_mined, walletVars, shown, sessions, raised, mined, hasty>>

EmitStopped(s) ==
  /\ pc[s] = "emitting"
  /\ EmitStatus(FALSE)
  /\ Goto(s, "dead")
  /\ UNCHANGED <<minerVars, walletVars, sessions, raised, mined, hasty>>

\* A panic inside the loop is caught; the status is emitted before the shared
\* state is cleared.
Panic(s) ==
  /\ pc[s] = "round"
  /\ Goto(s, "panicked")
  /\ UNCHANGED <<minerVars, walletVars, shown, sessions, raised, mined, hasty>>

EmitPanic(s) ==
  /\ pc[s] = "panicked"
  /\ EmitStatus(FALSE)
  /\ Goto(s, "clearing")
  /\ UNCHANGED <<minerVars, walletVars, sessions, raised, mined, hasty>>

ClearAfterPanic(s) ==
  /\ pc[s] = "clearing"
  /\ running' = FALSE
  /\ stop_flag' = None
  /\ Goto(s, "dead")
  /\ UNCHANGED <<blocks_mined, walletVars, shown, sessions, raised, mined, hasty>>

Thread(s) ==
  \/ Enter(s)
  \/ \E ok \in BOOLEAN : ReadMint(s, ok)
  \/ Test(s)
  \/ \E sleeps \in BOOLEAN : RoundWithoutBlock(s, sleeps)
  \/ RoundWithBlock(s)
  \/ Sleep(s)
  \/ MarkStopped(s) \/ EmitStopped(s)
  \/ Panic(s) \/ EmitPanic(s) \/ ClearAfterPanic(s)

\* The application is closed, or killed, and started again: memory and threads
\* are gone, the wallet file is as it was left.
Quit ==
  /\ unlocked' = NoWallet
  /\ saving' = NoWallet
  /\ misread' \in Readings(disk)
  /\ running' = FALSE
  /\ stop_flag' = None
  /\ blocks_mined' = 0
  /\ shown' = FALSE
  /\ pc' = [s \in Sessions |-> IF s <= sessions THEN "dead" ELSE "unborn"]
  /\ UNCHANGED <<disk, sessions, raised, mined, hasty>>

Window ==
  \/ \E w \in Wallets : BeginSave(w)
  \/ SaveFails \/ EndSave
  \/ Unlock \/ Lock
  \/ \E removed \in BOOLEAN : Forget(removed)
  \/ \E spawned \in BOOLEAN : StartMining(spawned)
  \/ StopMining \/ Poll

Next == Window \/ Quit \/ \E s \in Sessions : Thread(s)

Spec == Init /\ [][Next]_vars

\* Mining threads run: their RPC calls and their solver have timeouts and
\* budgets.  Nothing obliges the user to do anything.
FairSpec == Spec /\ \A s \in Sessions : WF_vars(Thread(s))

-----------------------------------------------------------------------------
\* "miner already running" (miner.rs:101): a second miner is refused.  A thread
\* that was told to stop and is finishing its round does not count.
AtMostOneMiner ==
  \A s, t \in Sessions :
    (pc[s] \in Working /\ ~raised[s] /\ pc[t] \in Working /\ ~raised[t]) => s = t

\* Every working thread can be stopped: either it was told to, or the state
\* says that a miner runs and holds the flag of this very thread.  A user who
\* starts again while a stopped thread is still finishing loses this.
EveryMinerCanBeStopped ==
  ~hasty =>
    \A s \in Sessions :
      pc[s] \in Working /\ ~raised[s] => running /\ stop_flag = s

\* The statistics are those of the current session, with the same proviso.
StatsAreOfThisSession ==
  ~hasty /\ running => blocks_mined = mined[sessions]

\* An unlocked wallet can be unlocked again: the file holds it, whatever was
\* interrupted, so no reward goes to a key that exists in memory only.
UnlockedIsOnDisk == unlocked # NoWallet => disk = unlocked

\* A thread that was told to stop stops.
StopIsObeyed == \A s \in Sessions : raised[s] ~> ~Alive(s)
=============================================================================
