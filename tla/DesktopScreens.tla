--------------------------- MODULE DesktopScreens ---------------------------
(***************************************************************************)
(* The window of the desktop miner (clients/desktop-miner/src): App shows  *)
(* the screen of the last wallet_status it was told, the setup wizard, the *)
(* unlock screen and the dashboard invoke commands.  Module DesktopMiner   *)
(* has what the commands do to the miner; here they are what they are for  *)
(* the window: calls that the main thread executes one after the other,    *)
(* and whose answers find a screen that may have changed.                  *)
(*                                                                         *)
(* A handler that awaits a call goes on when the answer is delivered.  The *)
(* state of a screen that is gone swallows what it is told; the calls a    *)
(* handler makes afterwards are made all the same.                         *)
(***************************************************************************)
EXTENDS Naturals, Sequences, FiniteSets

CONSTANTS
  Wallets,      \* key pairs
  NoWallet,     \* none
  Unreadable,   \* a wallet file that does not parse
  MAX_CALLS,    \* bound of the model: calls under way, but for the poll
  MAX_STARTS    \* bound of the model: sessions of the miner; more are refused

VARIABLES
  \* -- the application: the wallet file, the unlocked wallet, whether it mines --
  disk, unlocked, running,
  started,   \* sessions started so far
  ending,    \* stopped threads that have not ended yet
  misread,   \* the last wallet_status could not read a file that is good
  events,    \* miner://status events on their way to the window
  \* -- the window --
  calls,     \* commands invoked and not answered, in their order
  status,    \* App's status
  mode,      \* page of the wizard
  busy,      \* `busy` of the wizard or of the unlock screen
  revealed,  \* the wallet whose secret the backup page shows
  shown      \* `running` of the dashboard

minerVars == <<running, started, ending, events>>
appVars == <<disk, unlocked, misread, minerVars>>
screenVars == <<status, mode, busy, revealed, shown>>
vars == <<appVars, calls, screenVars>>

File == Wallets \cup {NoWallet, Unreadable}
Statuses == {"needs-setup", "needs-unlock", "unlocked"}

TypeOK ==
  /\ disk \in File /\ unlocked \in Wallets \cup {NoWallet}
  /\ misread \in BOOLEAN
  /\ running \in BOOLEAN /\ started \in 0 .. MAX_STARTS /\ ending \in 0 .. MAX_STARTS
  /\ events \in Seq(BOOLEAN)
  /\ Len(calls) <= MAX_CALLS + 1
  /\ status \in Statuses \cup {"loading"}
  /\ mode \in {"choose", "create-password", "create-reveal", "import"}
  /\ busy \in BOOLEAN /\ shown \in BOOLEAN
  /\ revealed \in Wallets \cup {NoWallet}

\* A command is invoked by the screen that is shown.
NewCall(cmd, arg) == [cmd |-> cmd, arg |-> arg, live |-> TRUE, answer |-> "none"]
Polls == {k \in DOMAIN calls : calls[k].cmd = "miner_status"}
Invoke(cmd, arg) ==
  /\ Len(calls) - Cardinality(Polls) < MAX_CALLS
  /\ calls' = Append(calls, NewCall(cmd, arg))

Init ==
  /\ disk \in Wallets \cup {NoWallet} /\ unlocked = NoWallet /\ misread = FALSE
  /\ running = FALSE /\ started = 0 /\ ending = 0 /\ events = <<>>
  /\ calls = <<NewCall("wallet_status", NoWallet)>>
  /\ status = "loading" /\ mode = "choose" /\ busy = FALSE
  /\ revealed = NoWallet /\ shown = FALSE

-----------------------------------------------------------------------------
(* The user.  A page of the wizard is not filled in between two answers:   *)
(* wallet_status takes no time that a hand could use.                      *)
Refreshing == \E k \in DOMAIN calls : calls[k].cmd = "wallet_status"
InWizard(page) == status = "needs-setup" /\ mode = page /\ ~Refreshing

Choose(page) ==
  /\ InWizard("choose")
  /\ mode' = page
  /\ UNCHANGED <<appVars, calls, status, busy, revealed, shown>>

\* Mutant: Back enables the buttons again.
BackResets ==
  /\ InWizard("create-password") \/ InWizard("import")
  /\ mode' = "choose" /\ busy' = FALSE
  /\ UNCHANGED <<appVars, calls, status, revealed, shown>>

\* The Back buttons, which nothing disables.
Back ==
  /\ InWizard("create-password") \/ InWizard("import")
  /\ mode' = "choose"
  /\ UNCHANGED <<appVars, calls, status, busy, revealed, shown>>

\* submit of a wizard page: a fresh key pair, or the one that was pasted.
SubmitWizard(page, cmd, w) ==
  /\ InWizard(page) /\ ~busy
  /\ Invoke(cmd, w)
  /\ busy' = TRUE
  /\ UNCHANGED <<appVars, status, mode, revealed, shown>>

CreateWallet(w) == w # disk /\ SubmitWizard("create-password", "create_wallet", w)
ImportWallet(w) == SubmitWizard("import", "import_wallet", w)

\* "I've saved it - continue": onDone.
SavedIt ==
  /\ InWizard("create-reveal")
  /\ Invoke("wallet_status", NoWallet)
  /\ UNCHANGED <<appVars, screenVars>>

UnlockWallet ==
  /\ status = "needs-unlock" /\ ~busy
  /\ Invoke("unlock_wallet", NoWallet)
  /\ busy' = TRUE
  /\ UNCHANGED <<appVars, status, mode, revealed, shown>>

\* "I understand - wipe", also while an unlock is under way.
Wipe ==
  /\ status = "needs-unlock"
  /\ Invoke("forget_wallet", NoWallet)
  /\ UNCHANGED <<appVars, screenVars>>

\* TopBar's Lock, and the dashboard's Start and Stop, as often as clicked.
Click ==
  /\ status = "unlocked"
  /\ \/ Invoke("lock_wallet", NoWallet)
     \/ ~shown /\ Invoke("start_mining", NoWallet)
     \/ shown /\ Invoke("stop_mining", NoWallet)
  /\ UNCHANGED <<appVars, screenVars>>

\* tick, every six seconds while the dashboard is mounted.
PollTick ==
  /\ status = "unlocked" /\ Polls = {}
  /\ calls' = Append(calls, NewCall("miner_status", NoWallet))
  /\ UNCHANGED <<appVars, screenVars>>

-----------------------------------------------------------------------------
(* The main thread.                                                        *)
(* load_store (keystore.rs:181) takes an error of the read for no file.    *)
WalletStatus(readable) ==
  IF unlocked # NoWallet THEN "unlocked"
  ELSE IF readable THEN "needs-unlock" ELSE "needs-setup"

Answered(k, answer) == calls' = [calls EXCEPT ![k].answer = answer]

\* The first call that is not answered is executed.
Next1 == CHOOSE k \in DOMAIN calls :
  calls[k].answer = "none" /\ \A j \in 1 .. k - 1 : calls[j].answer # "none"
Unanswered == \E k \in DOMAIN calls : calls[k].answer = "none"
Doing(cmds) == Unanswered /\ calls[Next1].cmd \in cmds

\* create_wallet, import_wallet: nobody looks at the file that is there.
ExecuteSave ==
  /\ Doing({"create_wallet", "import_wallet"})
  /\ \/ /\ disk' = calls[Next1].arg /\ unlocked' = calls[Next1].arg
        /\ Answered(Next1, "ok")
     \/ /\ disk' \in {disk, Unreadable} /\ UNCHANGED unlocked
        /\ Answered(Next1, "error")
  /\ UNCHANGED <<misread, minerVars, screenVars>>

ExecuteUnlock ==
  /\ Doing({"unlock_wallet"})
  /\ \/ disk \in Wallets /\ unlocked' = disk /\ Answered(Next1, "ok")
     \/ UNCHANGED unlocked /\ Answered(Next1, "error")
  /\ UNCHANGED <<disk, misread, minerVars, screenVars>>

\* lock_wallet and forget_wallet, which ignores a file it cannot remove.
ExecuteLock ==
  /\ Doing({"lock_wallet", "forget_wallet"})
  /\ unlocked' = NoWallet
  /\ disk' \in IF calls[Next1].cmd = "lock_wallet" THEN {disk} ELSE {disk, NoWallet}
  /\ Answered(Next1, "ok")
  /\ UNCHANGED <<misread, minerVars, screenVars>>

\* wallet_status, whose read of the file may fail.
ExecuteStatus ==
  /\ Doing({"wallet_status"})
  /\ \E readable \in BOOLEAN :
       /\ readable => disk \in Wallets
       /\ Answered(Next1, WalletStatus(readable))
       /\ misread' = (unlocked = NoWallet /\ disk \in Wallets /\ ~readable)
  /\ UNCHANGED <<disk, unlocked, minerVars, screenVars>>

\* export_secret and miner_status.
ExecuteRead ==
  /\ \/ /\ Doing({"export_secret"})
        /\ Answered(Next1, IF unlocked = NoWallet THEN "error" ELSE unlocked)
     \/ Doing({"miner_status"}) /\ Answered(Next1, IF running THEN "running" ELSE "idle")
  /\ UNCHANGED <<appVars, screenVars>>

\* start_mining: refused while mining or locked; the thread says that it runs.
\* When no thread can be spawned the miner is taken to run all the same.
ExecuteStart ==
  /\ Doing({"start_mining"})
  /\ IF running \/ unlocked = NoWallet \/ started = MAX_STARTS
     THEN Answered(Next1, "error") /\ UNCHANGED <<running, started, events>>
     ELSE /\ running' = TRUE /\ started' = started + 1
          /\ \/ events' = Append(events, TRUE) /\ Answered(Next1, "running")
             \/ UNCHANGED events /\ Answered(Next1, "error")
  /\ UNCHANGED <<disk, unlocked, misread, ending, screenVars>>

ExecuteStop ==
  /\ Doing({"stop_mining"})
  /\ running' = FALSE
  /\ ending' = IF running THEN ending + 1 ELSE ending
  /\ Answered(Next1, "idle")
  /\ UNCHANGED <<disk, unlocked, misread, started, events, screenVars>>

Execute ==
  \/ ExecuteSave \/ ExecuteUnlock \/ ExecuteLock
  \/ ExecuteStatus \/ ExecuteRead
  \/ ExecuteStart \/ ExecuteStop

\* A mining thread ends, by itself or because it was stopped some time ago, and
\* clears `running`, whoever has set it since (mark_stopped).
ThreadEnds ==
  /\ running \/ ending > 0
  /\ ending' \in {n \in {ending, ending - 1} : n >= 0 /\ (n < ending \/ running)}
  /\ running' = FALSE
  /\ events' = Append(events, FALSE)
  /\ UNCHANGED <<disk, unlocked, misread, started, calls, screenVars>>

-----------------------------------------------------------------------------
(* The answers, in their order. *)
Arrived(cmds) == calls # <<>> /\ Head(calls).cmd \in cmds /\ Head(calls).answer # "none"
Succeeded == Head(calls).answer # "error"
Then(cmd) == calls' = Append(Tail(calls), [NewCall(cmd, NoWallet) EXCEPT !.live = Head(calls).live])

\* A status that differs puts another screen in the place of the one shown.
DeliverStatus ==
  /\ Arrived({"wallet_status"})
  /\ IF Head(calls).answer = status
     THEN calls' = Tail(calls) /\ UNCHANGED screenVars
     ELSE /\ status' = Head(calls).answer
          /\ mode' = "choose" /\ busy' = FALSE /\ revealed' = NoWallet /\ shown' = FALSE
          /\ calls' = [k \in 1 .. Len(calls) - 1 |-> [calls[k + 1] EXCEPT !.live = FALSE]]
  /\ UNCHANGED appVars

\* create_wallet's handler asks for the secret; the others are done or refresh.
DeliverCreated ==
  /\ Arrived({"create_wallet"})
  /\ IF Succeeded THEN Then("export_secret") /\ UNCHANGED busy
     ELSE calls' = Tail(calls) /\ busy' = (busy /\ ~Head(calls).live)
  /\ UNCHANGED <<appVars, status, mode, revealed, shown>>

DeliverSecret ==
  /\ Arrived({"export_secret"})
  /\ calls' = Tail(calls)
  /\ IF Head(calls).live
     THEN /\ busy' = FALSE
          /\ IF Succeeded THEN mode' = "create-reveal" /\ revealed' = Head(calls).answer
             ELSE UNCHANGED <<mode, revealed>>
     ELSE UNCHANGED <<busy, mode, revealed>>
  /\ UNCHANGED <<appVars, status, shown>>

DeliverDone ==
  /\ Arrived({"import_wallet", "unlock_wallet", "lock_wallet", "forget_wallet"})
  /\ IF Succeeded THEN Then("wallet_status") ELSE calls' = Tail(calls)
  /\ busy' = IF Head(calls).live /\ Head(calls).cmd \in {"import_wallet", "unlock_wallet"}
             THEN FALSE ELSE busy
  /\ UNCHANGED <<appVars, status, mode, revealed, shown>>

\* Mutant: the poll refreshes the statistics only.
DeliverRunningOnClick ==
  /\ Arrived({"start_mining", "stop_mining", "miner_status"})
  /\ calls' = Tail(calls)
  /\ shown' = IF Succeeded /\ Head(calls).live /\ Head(calls).cmd # "miner_status"
              THEN Head(calls).answer = "running" ELSE shown
  /\ UNCHANGED <<appVars, status, mode, busy, revealed>>

\* setRunning(s.running).
DeliverRunning ==
  /\ Arrived({"start_mining", "stop_mining", "miner_status"})
  /\ calls' = Tail(calls)
  /\ shown' = IF Succeeded /\ Head(calls).live THEN Head(calls).answer = "running" ELSE shown
  /\ UNCHANGED <<appVars, status, mode, busy, revealed>>

Deliver ==
  DeliverStatus \/ DeliverCreated \/ DeliverSecret \/ DeliverDone \/ DeliverRunning

\* A miner://status event; the listener is registered asynchronously, so that
\* even a mounted dashboard may miss it.
DeliverEvent ==
  /\ events # <<>>
  /\ events' = Tail(events)
  /\ \/ status = "unlocked" /\ shown' = Head(events)
     \/ UNCHANGED shown
  /\ UNCHANGED <<disk, unlocked, misread, running, started, ending, calls, status, mode, busy,
                 revealed>>

-----------------------------------------------------------------------------
User ==
  \/ \E page \in {"create-password", "import"} : Choose(page)
  \/ Back
  \/ \E w \in Wallets : CreateWallet(w) \/ ImportWallet(w)
  \/ SavedIt \/ UnlockWallet \/ Wipe \/ Click

Next == User \/ PollTick \/ Execute \/ ThreadEnds \/ Deliver \/ DeliverEvent

Spec == Init /\ [][Next]_vars

\* The main thread executes what is queued, answers and events are delivered,
\* and the dashboard's timer fires.
Fairness == WF_vars(Execute) /\ WF_vars(Deliver) /\ WF_vars(DeliverEvent) /\ WF_vars(PollTick)

-----------------------------------------------------------------------------
\* The wallet the user is asked to back up is the wallet that will be paid: what
\* the backup page shows is in the file, and no page of the wizard, whatever was
\* clicked while a command was under way, writes over a wallet that can be read.
\* A good file whose read failed is not protected: the wizard that is put up in
\* place of the unlock screen replaces it (create_wallet looks at no file).
BackedUpIsStored ==
  [][/\ disk \in Wallets /\ disk' \notin {disk, NoWallet} => misread
     /\ mode' = "create-reveal" => disk' = revealed' /\ unlocked' = revealed']_vars

\* The dashboard does not stay wrong about the miner: a late event of a thread
\* that was stopped, a missed one, or an answer overtaken by the next click is
\* made good, so that the button offered in the end is Stop if and only if
\* `running` is set.  That is the flag of the application: after a hasty restart
\* it is not whether a thread works (EveryMinerCanBeStopped, AtMostOneMiner).
DashboardCatchesUp == []<>(status # "unlocked" \/ shown = running)
=============================================================================
