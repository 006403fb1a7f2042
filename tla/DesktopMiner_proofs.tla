------------------------ MODULE DesktopMiner_proofs ------------------------
(***************************************************************************)
(* Theorems about the desktop miner, for any number of wallets, sessions   *)
(* and blocks.                                                             *)
(***************************************************************************)
EXTENDS MCDesktopMiner, SequenceTheorems, InductionLemmas, TLAPS

\* While the wallet file is being written nothing is unlocked, and the file is
\* not readable.
WalletInv ==
  /\ disk \in Wallets \cup {NoWallet, Unreadable}
  /\ unlocked \in Wallets \cup {NoWallet}
  /\ saving \in Wallets \cup {NoWallet}
  /\ saving # NoWallet => unlocked = NoWallet /\ disk = Unreadable
  /\ UnlockedIsOnDisk

\* The mining threads leave the wallet alone.
LEMMA ThreadKeepsWallet ==
  ASSUME NEW s \in Sessions, Thread(s) PROVE UNCHANGED walletVars
<1> USE DEF walletVars
<1>1. CASE Enter(s)
  BY <1>1 DEF Enter
<1>2. ASSUME NEW ok \in BOOLEAN, ReadMint(s, ok) PROVE UNCHANGED walletVars
  BY <1>2 DEF ReadMint
<1>3. CASE Test(s)
  BY <1>3 DEF Test
<1>4. ASSUME NEW sleeps \in BOOLEAN, RoundWithoutBlock(s, sleeps) PROVE UNCHANGED walletVars
  BY <1>4 DEF RoundWithoutBlock
<1>5. CASE RoundWithBlock(s)
  BY <1>5 DEF RoundWithBlock
<1>6. CASE Sleep(s)
  BY <1>6 DEF Sleep
<1>7. CASE MarkStopped(s) \/ EmitStopped(s)
  BY <1>7 DEF MarkStopped, EmitStopped
<1>8. CASE Panic(s) \/ EmitPanic(s) \/ ClearAfterPanic(s)
  BY <1>8 DEF Panic, EmitPanic, ClearAfterPanic
<1> QED BY <1>1, <1>2, <1>3, <1>4, <1>5, <1>6, <1>7, <1>8 DEF Thread

LEMMA WalletInductive == WalletInv /\ [Next]_vars => WalletInv'
<1> SUFFICES ASSUME WalletInv, [Next]_vars PROVE WalletInv'
  OBVIOUS
<1> USE DesktopMinerAssumption DEF WalletInv, UnlockedIsOnDisk, On, WalletStatus
<1>1. CASE UNCHANGED vars
  BY <1>1 DEF vars, walletVars
<1>2. CASE Quit
  BY <1>2 DEF Quit
<1>3. ASSUME NEW s \in Sessions, Thread(s) PROVE WalletInv'
  BY <1>3, ThreadKeepsWallet DEF walletVars
<1>4. ASSUME NEW w \in Wallets, BeginSave(w) PROVE WalletInv'
  BY <1>4 DEF BeginSave
<1>5. CASE SaveFails \/ EndSave
  BY <1>5 DEF SaveFails, EndSave
<1>6. CASE Unlock \/ Lock
  BY <1>6 DEF Unlock, Lock
<1>7. ASSUME NEW removed \in BOOLEAN, Forget(removed) PROVE WalletInv'
  BY <1>7 DEF Forget
<1>8. ASSUME NEW spawned \in BOOLEAN, StartMining(spawned) PROVE WalletInv'
  BY <1>8 DEF StartMining, walletVars
<1>9. CASE StopMining \/ Poll
  BY <1>9 DEF StopMining, Poll, walletVars
<1> QED BY <1>1, <1>2, <1>3, <1>4, <1>5, <1>6, <1>7, <1>8, <1>9 DEF Next, Window

LEMMA WalletAlways == Spec => []WalletInv
<1>1. Init => WalletInv
  BY DEF Init, WalletInv, UnlockedIsOnDisk
<1> QED BY <1>1, WalletInductive, PTL DEF Spec

\* An unlocked wallet can be unlocked again from the file, however the writing
\* of the file was interrupted.
THEOREM UnlockedStaysOnDisk == Spec => []UnlockedIsOnDisk
<1>1. WalletInv => UnlockedIsOnDisk
  BY DEF WalletInv
<1> QED BY <1>1, WalletAlways, PTL

-----------------------------------------------------------------------------
Steps == Working \cup {"unborn", "marking", "emitting", "panicked", "clearing", "dead"}

\* Sessions are numbered as they start, and one that has not started is blank.
SessionsInv ==
  /\ sessions \in 0 .. MAX_SESSIONS
  /\ stop_flag \in Sessions \cup {None}
  /\ pc \in [Sessions -> Steps]
  /\ raised \in [Sessions -> BOOLEAN]
  /\ mined \in [Sessions -> Nat]
  /\ running \in BOOLEAN /\ hasty \in BOOLEAN
  /\ blocks_mined \in Nat
  /\ running => sessions \in Sessions
  /\ \A s \in Sessions : s > sessions => pc[s] = "unborn" /\ mined[s] = 0

\* As long as the user was never hasty, at most the last session has a thread
\* that may still touch the shared state; while that thread works the state is
\* the session's own.
LastSessionOnly ==
  ~hasty => \A s \in Sessions : ~Finished(s) => s = sessions

MinerInv == SessionsInv /\ LastSessionOnly /\ EveryMinerCanBeStopped /\ StatsAreOfThisSession

LEMMA ThreadKeepsMinerInv ==
  ASSUME MinerInv, NEW s \in Sessions, Thread(s) PROVE MinerInv'
<1> USE DesktopMinerAssumption
    DEF MinerInv, SessionsInv, LastSessionOnly, EveryMinerCanBeStopped,
        StatsAreOfThisSession, Finished, Working, Steps, Goto, Sessions, None,
        minerVars
<1>1. CASE Enter(s)
  BY <1>1 DEF Enter
<1>2. ASSUME NEW ok \in BOOLEAN, ReadMint(s, ok) PROVE MinerInv'
  BY <1>2 DEF ReadMint
<1>3. CASE Test(s)
  BY <1>3 DEF Test
<1>4. ASSUME NEW sleeps \in BOOLEAN, RoundWithoutBlock(s, sleeps) PROVE MinerInv'
  BY <1>4 DEF RoundWithoutBlock
<1>5. CASE RoundWithBlock(s)
  <2>1. SessionsInv'
    BY <1>5 DEF RoundWithBlock
  <2>2. LastSessionOnly'
    BY <1>5 DEF RoundWithBlock
  <2>3. EveryMinerCanBeStopped'
    BY <1>5 DEF RoundWithBlock
  <2>4. StatsAreOfThisSession'
    BY <1>5 DEF RoundWithBlock
  <2> QED BY <2>1, <2>2, <2>3, <2>4
<1>6. CASE Sleep(s)
  BY <1>6 DEF Sleep
<1>7. CASE MarkStopped(s)
  BY <1>7 DEF MarkStopped
<1>8. CASE EmitStopped(s)
  BY <1>8 DEF EmitStopped
<1>9. CASE Panic(s)
  BY <1>9 DEF Panic
<1>10. CASE EmitPanic(s)
  BY <1>10 DEF EmitPanic
<1>11. CASE ClearAfterPanic(s)
  BY <1>11 DEF ClearAfterPanic
<1> QED BY <1>1, <1>2, <1>3, <1>4, <1>5, <1>6, <1>7, <1>8, <1>9, <1>10,
          <1>11 DEF Thread

LEMMA MinerInductive == MinerInv /\ [Next]_vars => MinerInv'
<1> SUFFICES ASSUME MinerInv, [Next]_vars PROVE MinerInv'
  OBVIOUS
<1> USE DesktopMinerAssumption
    DEF MinerInv, SessionsInv, LastSessionOnly, EveryMinerCanBeStopped,
        StatsAreOfThisSession, Finished, Working, Steps, Sessions, None,
        minerVars, threadVars
<1>1. CASE UNCHANGED vars
  BY <1>1 DEF vars
<1>2. CASE Quit
  <2>1. SessionsInv'
    <3>1. pc' \in [Sessions -> Steps]
      <4>1. "dead" \in Steps /\ "unborn" \in Steps
        BY DEF Steps
      <4> QED BY <1>2, <4>1 DEF Quit
    <3>2. ASSUME NEW s \in Sessions, s > sessions PROVE pc'[s] = "unborn"
      BY <1>2, <3>2 DEF Quit
    <3> QED BY <1>2, <3>1, <3>2 DEF Quit
  <2>2. LastSessionOnly'
    BY <1>2 DEF Quit
  <2>3. EveryMinerCanBeStopped'
    BY <1>2 DEF Quit
  <2>4. StatsAreOfThisSession'
    BY <1>2 DEF Quit
  <2> QED BY <2>1, <2>2, <2>3, <2>4
<1>3. ASSUME NEW s \in Sessions, Thread(s) PROVE MinerInv'
  BY <1>3, ThreadKeepsMinerInv
<1>4. ASSUME NEW w \in Wallets, BeginSave(w) PROVE MinerInv'
  BY <1>4 DEF BeginSave
<1>5. CASE SaveFails \/ EndSave
  BY <1>5 DEF SaveFails, EndSave
<1>6. CASE Unlock \/ Lock
  BY <1>6 DEF Unlock, Lock
<1>7. ASSUME NEW removed \in BOOLEAN, Forget(removed) PROVE MinerInv'
  BY <1>7 DEF Forget
<1>8. ASSUME NEW spawned \in BOOLEAN, StartMining(spawned) PROVE MinerInv'
  <2>1. SessionsInv'
    BY <1>8 DEF StartMining
  <2>2. LastSessionOnly'
    BY <1>8 DEF StartMining
  <2>3. EveryMinerCanBeStopped'
    BY <1>8 DEF StartMining
  <2>4. StatsAreOfThisSession'
    BY <1>8 DEF StartMining
  <2> QED BY <2>1, <2>2, <2>3, <2>4
<1>9. CASE StopMining
  <2>1. SessionsInv'
    BY <1>9 DEF StopMining
  <2>2. LastSessionOnly'
    BY <1>9 DEF StopMining
  <2>3. EveryMinerCanBeStopped'
    BY <1>9 DEF StopMining
  <2>4. StatsAreOfThisSession'
    BY <1>9 DEF StopMining
  <2> QED BY <2>1, <2>2, <2>3, <2>4
<1>10. CASE Poll
  BY <1>10 DEF Poll
<1> QED BY <1>1, <1>2, <1>3, <1>4, <1>5, <1>6, <1>7, <1>8, <1>9, <1>10 DEF Next, Window

LEMMA MinerAlways == Spec => []MinerInv
<1>1. Init => MinerInv
  <2> SUFFICES ASSUME Init PROVE MinerInv
    OBVIOUS
  <2> USE DEF Init, Sessions, None
  <2>1. SessionsInv
    <3>1. pc \in [Sessions -> Steps]
      <4>1. "unborn" \in Steps
        BY DEF Steps
      <4> QED BY <4>1
    <3>2. raised \in [Sessions -> BOOLEAN] /\ mined \in [Sessions -> Nat]
      OBVIOUS
    <3>3. sessions \in 0 .. MAX_SESSIONS
      BY DesktopMinerAssumption
    <3> QED BY <3>1, <3>2, <3>3 DEF SessionsInv
  <2>2. LastSessionOnly
    BY DEF LastSessionOnly, Finished
  <2>3. EveryMinerCanBeStopped
    BY DEF EveryMinerCanBeStopped, Working
  <2>4. StatsAreOfThisSession
    BY DEF StatsAreOfThisSession
  <2> QED BY <2>1, <2>2, <2>3, <2>4 DEF MinerInv
<1> QED BY <1>1, MinerInductive, PTL DEF Spec

\* For a user who starts again only after the last thread has cleared the
\* shared state, `running` and the stop flag in the state belong to the thread
\* that works, so that it can be stopped.
THEOREM MinersCanBeStopped == Spec => []EveryMinerCanBeStopped
<1>1. MinerInv => EveryMinerCanBeStopped
  BY DEF MinerInv
<1> QED BY <1>1, MinerAlways, PTL

\* For the same user, the statistics shown are those of the running session.
THEOREM StatsAreOwn == Spec => []StatsAreOfThisSession
<1>1. MinerInv => StatsAreOfThisSession
  BY DEF MinerInv
<1> QED BY <1>1, MinerAlways, PTL

-----------------------------------------------------------------------------
(* The window (DesktopScreens).  The wizard overwrites no wallet because   *)
(* while a wallet may come to be, or has come to be, something keeps its   *)
(* pages closed: the command that saves it, the answer with the secret,    *)
(* the backup page, or the refresh that will replace the wizard.           *)
Answers == {"none", "ok", "error", "running", "idle"} \cup Screens!Statuses \cup Wallets
Commands == {"create_wallet", "import_wallet", "unlock_wallet", "lock_wallet", "forget_wallet",
             "wallet_status", "export_secret", "start_mining", "stop_mining", "miner_status"}
Call == [cmd : Commands, arg : Wallets \cup {NoWallet}, live : BOOLEAN, answer : Answers]

Saves == {"create_wallet", "import_wallet"}
Is(k, cmds) == calls[k].cmd \in cmds
LiveSecret(k) == Is(k, {"export_secret"}) /\ calls[k].live
OnlyRefreshing(K) == \A k \in K : Is(k, {"wallet_status"})

WindowTypes ==
  /\ calls \in Seq(Call)
  /\ file \in Wallets \cup {NoWallet, Unreadable} /\ opened \in Wallets \cup {NoWallet}
  /\ opened # NoWallet /\ file \in Wallets => file = opened

\* The calls are executed in their order.
InOrder ==
  \A j, k \in DOMAIN calls : j < k /\ calls[k].answer # "none" => calls[j].answer # "none"

\* A wallet that no page of the wizard may write over.
Kept == file \in Wallets /\ ~unread

\* A status that will take the wizard away, if there is a wallet, follows call k.
Corrected(j) == Is(j, {"wallet_status"}) /\ calls[j].answer \in {"needs-unlock", "unlocked"}
Superseded(k) == Kept => \E j \in DOMAIN calls : j > k /\ Corrected(j)

\* An answer that there is no wallet stays true until it is delivered, or a
\* better one follows it.
StatusWasTrue ==
  \A k \in DOMAIN calls :
    Is(k, {"wallet_status"}) /\ calls[k].answer = "needs-setup" => Superseded(k)

UnlocksAreOfTheirScreen ==
  \A k \in DOMAIN calls : Is(k, {"unlock_wallet"}) /\ calls[k].live => status = "needs-unlock"

\* A wallet that is being saved is the only one, and no screen was told of it.
Saving(k) ==
  /\ status = "needs-setup" /\ busy /\ calls[k].live /\ calls[k].arg \in Wallets
  /\ \A j \in DOMAIN calls : j < k => ~Is(j, Saves \cup {"wallet_status"}) /\ ~LiveSecret(j)
  /\ \A j \in DOMAIN calls : j > k => Is(j, {"wallet_status"})
  /\ calls[k].answer \in {"none", "ok", "error"}
  /\ calls[k].answer = "none" => ~Kept
  /\ calls[k].answer = "error" => Superseded(k)
  /\ calls[k].answer = "ok" => file = calls[k].arg /\ opened = file

\* A secret that the wizard asks for is that of the wallet in the file.
Exporting(k) ==
  /\ status = "needs-setup" /\ busy
  /\ OnlyRefreshing(DOMAIN calls \ {k})
  /\ file \in Wallets /\ opened = file
  /\ calls[k].answer \in {"none", file}

Revealing ==
  page = "create-reveal" =>
    /\ status = "needs-setup" /\ file \in Wallets /\ revealed = file /\ opened = file
    /\ OnlyRefreshing(DOMAIN calls)

\* While the wizard is shown although there is a wallet.
Occupied ==
  status = "needs-setup" /\ Kept =>
    \/ \E k \in DOMAIN calls : Is(k, Saves) \/ LiveSecret(k)
    \/ page = "create-reveal"
    \/ calls # <<>> /\ opened = file /\ OnlyRefreshing(DOMAIN calls)
    \/ \E j \in DOMAIN calls : Corrected(j)

WindowInv ==
  /\ WindowTypes /\ InOrder /\ StatusWasTrue /\ UnlocksAreOfTheirScreen
  /\ \A k \in DOMAIN calls : Is(k, Saves) => Saving(k)
  /\ \A k \in DOMAIN calls : LiveSecret(k) => Exporting(k)
  /\ Revealing /\ Occupied

LEMMA WalletsAreReadable ==
  /\ NoWallet \notin Wallets /\ Unreadable \notin Wallets /\ NoWallet # Unreadable
  /\ "error" \notin Wallets
BY DesktopMinerAssumption, ScreensAssumption DEF DesktopMinerAssumption, ScreensAssumption

\* A correction outlives answers and new calls.
LEMMA CorrectionStays ==
  ASSUME NEW k, Superseded(k), Kept' => Kept, DOMAIN calls \subseteq DOMAIN calls',
         \A j \in DOMAIN calls :
           calls'[j].cmd = calls[j].cmd /\ (calls[j].answer # "none" => calls'[j].answer = calls[j].answer)
  PROVE  Superseded(k)'
BY DEF Superseded, Corrected, Is

\* It moves to the front with the queue.
LEMMA CorrectionMoves ==
  ASSUME NEW k \in Nat, Superseded(k + 1), Kept' => Kept,
         Len(calls) \in Nat, DOMAIN calls = 1 .. Len(calls),
         \A j \in 1 .. Len(calls) - 1 :
           /\ j \in DOMAIN calls'
           /\ calls'[j].cmd = calls[j + 1].cmd /\ calls'[j].answer = calls[j + 1].answer
  PROVE  Superseded(k)'
<1> SUFFICES ASSUME Kept' PROVE \E j \in DOMAIN calls' : j > k /\ Corrected(j)'
  BY DEF Superseded
<1>1. PICK j \in DOMAIN calls : j > k + 1 /\ Corrected(j)
  BY DEF Superseded
<1>2. j - 1 \in 1 .. Len(calls) - 1 /\ j - 1 > k /\ (j - 1) + 1 = j
  BY <1>1
<1>3. j - 1 \in DOMAIN calls' /\ Corrected(j - 1)'
  BY <1>1, <1>2 DEF Corrected, Is
<1> QED BY <1>2, <1>3

\* The call that is executed is the first that is not answered.
LEMMA NextIsFirst ==
  ASSUME WindowInv, Screens!Unanswered
  PROVE  /\ Screens!Next1 \in 1 .. Len(calls) /\ calls[Screens!Next1].answer = "none"
         /\ calls[Screens!Next1] \in Call
         /\ \A k \in DOMAIN calls : k < Screens!Next1 => calls[k].answer # "none"
         /\ \A k \in DOMAIN calls : k >= Screens!Next1 => calls[k].answer = "none"
<1> DEFINE T == {k \in DOMAIN calls : calls[k].answer = "none"}
<1>1. calls \in Seq(Call) /\ DOMAIN calls = 1 .. Len(calls) /\ Len(calls) \in Nat
  BY DEF WindowInv, WindowTypes
<1>2. T \in SUBSET Nat /\ T # {}
  BY <1>1 DEF Screens!Unanswered
<1>3. PICK n \in T : \A m \in T : n <= m
  BY <1>2, LeastNatural
<1>4. n \in DOMAIN calls /\ calls[n].answer = "none" /\ \A j \in 1 .. n - 1 : calls[j].answer # "none"
  BY <1>1, <1>3
<1> HIDE DEF T
<1>5. /\ Screens!Next1 \in DOMAIN calls /\ calls[Screens!Next1].answer = "none"
      /\ \A j \in 1 .. Screens!Next1 - 1 : calls[j].answer # "none"
  BY <1>4 DEF Screens!Next1
<1> HIDE DEF Screens!Next1
<1>6. \A k \in DOMAIN calls : k > Screens!Next1 => calls[k].answer = "none"
  BY <1>1, <1>5 DEF WindowInv, InOrder
<1>7. calls[Screens!Next1] \in Call
  BY <1>1, <1>5
<1> QED BY <1>1, <1>5, <1>6, <1>7

\* What an answer changes.
LEMMA AnswerPoints ==
  ASSUME WindowInv, Screens!Unanswered, NEW a \in Answers, Screens!Answered(Screens!Next1, a)
  PROVE  /\ calls' \in Seq(Call) /\ DOMAIN calls' = DOMAIN calls
         /\ (calls = <<>>)' = (calls = <<>>)
         /\ \A k \in DOMAIN calls : /\ calls'[k].cmd = calls[k].cmd /\ calls'[k].arg = calls[k].arg
                                    /\ calls'[k].live = calls[k].live
                                    /\ k # Screens!Next1 => calls'[k].answer = calls[k].answer
         /\ calls'[Screens!Next1].answer = a
         /\ InOrder'
<1> DEFINE n == Screens!Next1
<1>1. calls \in Seq(Call) /\ DOMAIN calls = 1 .. Len(calls) /\ Len(calls) \in Nat
  BY DEF WindowInv, WindowTypes
<1>2. /\ n \in 1 .. Len(calls) /\ calls[n].answer = "none" /\ calls[n] \in Call
      /\ \A k \in DOMAIN calls : k < n => calls[k].answer # "none"
      /\ \A k \in DOMAIN calls : k >= n => calls[k].answer = "none"
  BY NextIsFirst
<1>3. calls' = [calls EXCEPT ![n] = [calls[n] EXCEPT !.answer = a]]
  BY DEF Screens!Answered
<1> HIDE DEF n
<1>4. [calls[n] EXCEPT !.answer = a] \in Call
  BY <1>2 DEF Call
<1>5. calls' \in Seq(Call) /\ DOMAIN calls' = DOMAIN calls /\ Len(calls') = Len(calls)
  BY <1>1, <1>2, <1>3, <1>4, ExceptSeq
<1>6. \A k \in DOMAIN calls : calls[k] \in Call
  BY <1>1
<1>7. \A k \in DOMAIN calls :
        /\ calls'[k].cmd = calls[k].cmd /\ calls'[k].arg = calls[k].arg
        /\ calls'[k].live = calls[k].live
        /\ k # n => calls'[k].answer = calls[k].answer
  BY <1>1, <1>2, <1>3, <1>6 DEF Call
<1>8. calls'[n].answer = a
  BY <1>1, <1>2, <1>3 DEF Call
<1>9. InOrder'
  BY <1>1, <1>2, <1>5, <1>7 DEF InOrder
<1>10. calls # <<>> /\ calls' # <<>>
  BY <1>1, <1>2, <1>5
<1> QED BY <1>5, <1>7, <1>8, <1>9, <1>10 DEF n

\* An answer that neither saves nor unlocks disturbs nothing, if it is true of
\* the wallet there is.
LEMMA AnswerStands ==
  ASSUME WindowInv, Screens!Unanswered, NEW a \in Answers, Screens!Answered(Screens!Next1, a),
         ~Is(Screens!Next1, Saves), ~Is(Screens!Next1, {"wallet_status"}),
         LiveSecret(Screens!Next1) => a = file,
         UNCHANGED <<file, opened, unread, status, page, busy, revealed>>
  PROVE  WindowInv'
<1> DEFINE n == Screens!Next1
<1>1. /\ calls' \in Seq(Call) /\ DOMAIN calls' = DOMAIN calls /\ (calls = <<>>)' = (calls = <<>>)
      /\ \A k \in DOMAIN calls : /\ calls'[k].cmd = calls[k].cmd /\ calls'[k].arg = calls[k].arg
                                 /\ calls'[k].live = calls[k].live
                                 /\ k # n => calls'[k].answer = calls[k].answer
      /\ calls'[n].answer = a
      /\ InOrder'
  BY AnswerPoints
<1>2. n \in DOMAIN calls
  BY NextIsFirst DEF WindowInv, WindowTypes
<1>0. calls[n].answer = "none"
  BY NextIsFirst
<1> HIDE DEF n
<1>7. ASSUME NEW k, Superseded(k) PROVE Superseded(k)'
  BY <1>0, <1>1, <1>7, CorrectionStays DEF Kept
<1>3. WindowTypes' /\ StatusWasTrue' /\ UnlocksAreOfTheirScreen'
  <2>1. WindowTypes' /\ UnlocksAreOfTheirScreen'
    BY <1>1, <1>2 DEF WindowInv, WindowTypes, UnlocksAreOfTheirScreen, Is
  <2>2. ~Is(n, {"wallet_status"})
    BY DEF n
  <2> QED BY <1>1, <1>7, <2>1, <2>2 DEF WindowInv, StatusWasTrue, Is
<1>4. ASSUME NEW k \in DOMAIN calls, Is(k, Saves)' PROVE Saving(k)'
  <2>1. Is(k, Saves) /\ k # n
    BY <1>1, <1>4 DEF Is, n
  <2>2. Saving(k)
    BY <2>1 DEF WindowInv
  <2>3. Kept' = Kept
    BY DEF Kept
  <2> QED BY <1>1, <1>7, <2>1, <2>2, <2>3 DEF Saving, Is, LiveSecret
<1>5. ASSUME NEW k \in DOMAIN calls, LiveSecret(k)' PROVE Exporting(k)'
  <2>1. LiveSecret(k)
    BY <1>1, <1>5 DEF Is, LiveSecret
  <2>2. Exporting(k)
    BY <2>1 DEF WindowInv
  <2>3. k = n => a = file
    BY <2>1 DEF n
  <2> QED BY <1>1, <2>2, <2>3 DEF Exporting, OnlyRefreshing, Is
<1>6. Revealing' /\ Occupied'
  <2>1. \A j \in DOMAIN calls : Corrected(j) => Corrected(j)'
    BY <1>0, <1>1 DEF Corrected, Is
  <2> QED BY <1>1, <2>1 DEF WindowInv, Revealing, Occupied, OnlyRefreshing, Is, LiveSecret, Kept
<1> QED BY <1>1, <1>3, <1>4, <1>5, <1>6 DEF WindowInv

\* A status that is read anew corrects the one before it, if the file could be
\* read.
LEMMA StatusExecuted ==
  ASSUME WindowInv, Screens!ExecuteStatus
  PROVE  WindowInv'
<1>0. PICK n : n = Screens!Next1
  OBVIOUS
<1>1. /\ Screens!Unanswered /\ Is(n, {"wallet_status"})
      /\ UNCHANGED <<file, opened, status, page, busy, revealed>>
  BY <1>0 DEF Screens!ExecuteStatus, Screens!Doing, Screens!screenVars, Is
<1>2. PICK a \in Screens!Statuses :
        /\ Screens!Answered(n, a)
        /\ Kept' => a \in {"needs-unlock", "unlocked"}
  <2>1. PICK readable \in BOOLEAN :
          /\ Screens!Answered(n, Screens!WalletStatus(readable))
          /\ unread' = (opened = NoWallet /\ file \in Wallets /\ ~readable)
    BY <1>0 DEF Screens!ExecuteStatus
  <2>2. Screens!WalletStatus(readable) \in Screens!Statuses
    BY DEF Screens!WalletStatus, Screens!Statuses
  <2>3. Kept' => Screens!WalletStatus(readable) \in {"needs-unlock", "unlocked"}
    BY <1>1, <2>1 DEF Kept, Screens!WalletStatus
  <2> QED BY <2>1, <2>2, <2>3
<1>3. a \in Answers
  BY DEF Answers
<1>4. /\ calls' \in Seq(Call) /\ DOMAIN calls' = DOMAIN calls /\ (calls = <<>>)' = (calls = <<>>)
      /\ \A k \in DOMAIN calls : /\ calls'[k].cmd = calls[k].cmd /\ calls'[k].arg = calls[k].arg
                                 /\ calls'[k].live = calls[k].live
                                 /\ k # n => calls'[k].answer = calls[k].answer
      /\ calls'[n].answer = a
      /\ InOrder'
  BY <1>0, <1>1, <1>2, <1>3, AnswerPoints
<1>5. /\ n \in DOMAIN calls /\ DOMAIN calls \subseteq Nat /\ calls[n].answer = "none"
      /\ \A k \in DOMAIN calls : k >= n => calls[k].answer = "none"
  BY <1>0, <1>1, NextIsFirst DEF WindowInv, WindowTypes
<1>6. Kept' => Corrected(n)'
  BY <1>1, <1>2, <1>4, <1>5 DEF Corrected, Is
<1>7. ASSUME NEW k \in DOMAIN calls, k < n PROVE Superseded(k)'
  BY <1>4, <1>5, <1>6, <1>7 DEF Superseded
<1>8. WindowTypes' /\ UnlocksAreOfTheirScreen'
  BY <1>1, <1>4 DEF WindowInv, WindowTypes, UnlocksAreOfTheirScreen, Is
<1>9. StatusWasTrue'
  <2> SUFFICES ASSUME NEW k \in DOMAIN calls, calls'[k].answer = "needs-setup" PROVE Superseded(k)'
    BY <1>4 DEF StatusWasTrue
  <2>1. CASE k < n
    BY <1>7, <2>1
  <2>2. CASE k = n
    <3>1. ~Kept'
      BY <1>2, <1>4, <2>2
    <3> QED BY <3>1 DEF Superseded
  <2>3. CASE k > n
    BY <1>4, <1>5, <2>3
  <2> QED BY <1>5, <2>1, <2>2, <2>3
<1>10. ASSUME NEW k \in DOMAIN calls, Is(k, Saves)' PROVE Saving(k)'
  <2>1. Is(k, Saves) /\ k # n
    BY <1>1, <1>4, <1>10 DEF Is, Saves
  <2>2. Saving(k) /\ ~(n < k)
    BY <1>1, <1>5, <2>1 DEF WindowInv, Saving, Is
  <2>3. k < n /\ Superseded(k)'
    BY <1>5, <1>7, <2>1, <2>2
  <2>4. calls[k].answer # "none"
    <3>1. \A j \in DOMAIN calls : j < n => calls[j].answer # "none"
      BY <1>0, <1>1, NextIsFirst
    <3> QED BY <2>3, <3>1
  <2> QED BY <1>1, <1>4, <2>1, <2>2, <2>3, <2>4 DEF Saving, Is, LiveSecret
<1>11. ASSUME NEW k \in DOMAIN calls, LiveSecret(k)' PROVE Exporting(k)'
  <2>1. LiveSecret(k) /\ k # n
    BY <1>1, <1>4, <1>11 DEF Is, LiveSecret
  <2>2. Exporting(k)
    BY <2>1 DEF WindowInv
  <2> QED BY <1>1, <1>4, <2>1, <2>2 DEF Exporting, OnlyRefreshing, Is
<1>12. Revealing' /\ Occupied'
  BY <1>1, <1>4, <1>5, <1>6 DEF WindowInv, Revealing, Occupied, OnlyRefreshing, Is
<1> QED BY <1>4, <1>8, <1>9, <1>10, <1>11, <1>12 DEF WindowInv

\* While a call of another screen is to be executed, the wizard is not shown to
\* somebody who has a wallet.
LEMMA NothingToLose ==
  ASSUME WindowInv, Screens!Unanswered,
         Is(Screens!Next1, {"unlock_wallet", "lock_wallet", "forget_wallet"})
  PROVE  /\ status = "needs-setup" /\ Kept => \E j \in DOMAIN calls : Corrected(j)
         /\ page # "create-reveal"
         /\ \A k \in DOMAIN calls : ~LiveSecret(k)
         /\ \A k \in DOMAIN calls : Is(k, Saves) => calls[k].answer = "none"
<1> DEFINE n == Screens!Next1
<1>1. /\ n \in DOMAIN calls /\ calls[n].answer = "none"
      /\ DOMAIN calls \subseteq Nat
      /\ \A k \in DOMAIN calls : k >= n => calls[k].answer = "none"
  BY NextIsFirst DEF WindowInv, WindowTypes
<1>2. Is(n, {"unlock_wallet", "lock_wallet", "forget_wallet"})
  OBVIOUS
<1> HIDE DEF n
<1>3. ~Is(n, {"wallet_status"}) /\ ~Is(n, Saves) /\ ~LiveSecret(n)
  BY <1>2 DEF Is, Saves, LiveSecret
<1>4. \A k \in DOMAIN calls : ~LiveSecret(k)
  BY <1>1, <1>3 DEF WindowInv, Exporting, OnlyRefreshing
<1>5. page # "create-reveal"
  BY <1>1, <1>3 DEF WindowInv, Revealing, OnlyRefreshing
<1>6. ASSUME NEW k \in DOMAIN calls, Is(k, Saves) PROVE calls[k].answer = "none" /\ ~Kept
  <2>1. Saving(k)
    BY <1>6 DEF WindowInv
  <2>2. n < k
    BY <1>1, <1>3, <1>6, <2>1 DEF Saving
  <2> QED BY <1>1, <2>1, <2>2 DEF Saving
<1>7. status = "needs-setup" /\ Kept => \E j \in DOMAIN calls : Corrected(j)
  BY <1>1, <1>3, <1>4, <1>5, <1>6 DEF WindowInv, Occupied, OnlyRefreshing
<1> QED BY <1>4, <1>5, <1>6, <1>7

\* unlock_wallet, lock_wallet and forget_wallet.
LEMMA LockingStands ==
  ASSUME WindowInv, Screens!Unanswered, NEW a \in Answers, Screens!Answered(Screens!Next1, a),
         Is(Screens!Next1, {"unlock_wallet", "lock_wallet", "forget_wallet"}),
         \/ file' = file /\ opened' = opened
         \/ file' = file /\ file \in Wallets /\ opened' = file
         \/ file' \in {file, NoWallet} /\ opened' = NoWallet,
         UNCHANGED <<unread, status, page, busy, revealed>>
  PROVE  WindowInv'
<1> DEFINE n == Screens!Next1
<1>1. /\ calls' \in Seq(Call) /\ DOMAIN calls' = DOMAIN calls
      /\ \A k \in DOMAIN calls : /\ calls'[k].cmd = calls[k].cmd /\ calls'[k].arg = calls[k].arg
                                 /\ calls'[k].live = calls[k].live
                                 /\ k # n => calls'[k].answer = calls[k].answer
      /\ InOrder'
  BY AnswerPoints
<1>2. /\ status = "needs-setup" /\ Kept => \E j \in DOMAIN calls : Corrected(j)
      /\ page # "create-reveal"
      /\ \A k \in DOMAIN calls : ~LiveSecret(k)
      /\ \A k \in DOMAIN calls : Is(k, Saves) => calls[k].answer = "none"
  BY NothingToLose
<1>3. ~Is(n, {"wallet_status"}) /\ ~Is(n, Saves)
  BY DEF Is, Saves
<1> HIDE DEF n
<1>0. n \in DOMAIN calls /\ calls[n].answer = "none"
  BY NextIsFirst DEF n, WindowInv, WindowTypes
<1>4. Kept' => Kept
  BY WalletsAreReadable DEF WindowInv, WindowTypes, Kept
<1>5. WindowTypes'
  BY <1>1 DEF WindowInv, WindowTypes
<1>10. ASSUME NEW k, Superseded(k) PROVE Superseded(k)'
  BY <1>0, <1>1, <1>4, <1>10, CorrectionStays
<1>6. StatusWasTrue' /\ UnlocksAreOfTheirScreen'
  BY <1>1, <1>3, <1>10 DEF WindowInv, StatusWasTrue, UnlocksAreOfTheirScreen, Is
<1>7. ASSUME NEW k \in DOMAIN calls, Is(k, Saves)' PROVE Saving(k)'
  <2>1. Is(k, Saves) /\ k # n
    BY <1>1, <1>3, <1>7 DEF Is
  <2>2. Saving(k) /\ calls[k].answer = "none"
    BY <1>2, <2>1 DEF WindowInv
  <2> QED BY <1>1, <1>4, <2>1, <2>2 DEF Saving, Is, LiveSecret
<1>8. \A k \in DOMAIN calls : ~LiveSecret(k)'
  BY <1>1, <1>2 DEF LiveSecret, Is
<1>9. Revealing' /\ Occupied'
  <2>1. \A j \in DOMAIN calls : Corrected(j) => Corrected(j)'
    BY <1>0, <1>1 DEF Corrected, Is
  <2> QED BY <1>1, <1>2, <1>4, <2>1 DEF Revealing, Occupied
<1> QED BY <1>1, <1>5, <1>6, <1>7, <1>8, <1>9 DEF WindowInv

\* create_wallet and import_wallet: there is no wallet that could be lost.
LEMMA SaveStands ==
  ASSUME WindowInv, Screens!ExecuteSave
  PROVE  WindowInv' /\ ~Kept
<1>0. PICK n : n = Screens!Next1
  OBVIOUS
<1>1. Screens!Unanswered /\ Is(n, Saves) /\ UNCHANGED <<unread, status, page, busy, revealed>>
  BY <1>0 DEF Screens!ExecuteSave, Screens!Doing, Screens!screenVars, Is, Saves
<1>2. PICK a \in {"ok", "error"} :
        /\ Screens!Answered(n, a)
        /\ a = "ok" => file' = calls[n].arg /\ opened' = calls[n].arg
        /\ a = "error" => file' \in {file, Unreadable} /\ opened' = opened
  BY <1>0 DEF Screens!ExecuteSave
<1>3. a \in Answers
  BY DEF Answers
<1>4. /\ calls' \in Seq(Call) /\ DOMAIN calls' = DOMAIN calls
      /\ \A k \in DOMAIN calls : /\ calls'[k].cmd = calls[k].cmd /\ calls'[k].arg = calls[k].arg
                                 /\ calls'[k].live = calls[k].live
                                 /\ k # n => calls'[k].answer = calls[k].answer
      /\ calls'[n].answer = a
      /\ InOrder'
  BY <1>0, <1>1, <1>2, <1>3, AnswerPoints
<1>5. /\ n \in DOMAIN calls /\ calls[n].answer = "none" /\ DOMAIN calls \subseteq Nat
      /\ \A k \in DOMAIN calls : k >= n => calls[k].answer = "none"
  BY <1>0, <1>1, NextIsFirst DEF WindowInv, WindowTypes
<1>6. Saving(n) /\ ~Kept
  BY <1>1, <1>5 DEF WindowInv, Saving
<1>7. WindowTypes'
  BY <1>2, <1>4, <1>6, WalletsAreReadable DEF WindowInv, WindowTypes, Saving
<1>8. \A k \in DOMAIN calls : k # n => ~Is(k, Saves) /\ ~LiveSecret(k)
  <2> SUFFICES ASSUME NEW k \in DOMAIN calls, k # n PROVE ~Is(k, Saves) /\ ~LiveSecret(k)
    OBVIOUS
  <2>1. CASE k < n
    BY <1>6, <2>1 DEF Saving, Is
  <2>2. CASE k > n
    <3>1. Is(k, {"wallet_status"})
      BY <1>6, <2>2 DEF Saving
    <3> QED BY <3>1 DEF Is, Saves, LiveSecret
  <2> QED BY <1>5, <2>1, <2>2
<1>9. ~Is(n, {"wallet_status"}) /\ ~LiveSecret(n)
  BY <1>1 DEF Is, Saves, LiveSecret
<1>10. Saving(n)'
  <2>1. /\ status' = "needs-setup" /\ busy' /\ calls'[n].live /\ calls'[n].arg \in Wallets
        /\ \A j \in DOMAIN calls' : j < n => ~Is(j, Saves \cup {"wallet_status"})' /\ ~LiveSecret(j)'
        /\ \A j \in DOMAIN calls' : j > n => Is(j, {"wallet_status"})'
    BY <1>1, <1>4, <1>5, <1>6 DEF Saving, Is, LiveSecret
  <2>2. calls'[n].answer = "ok" => file' = calls'[n].arg /\ opened' = file'
    BY <1>2, <1>4, <1>5
  <2>3. calls'[n].answer # "ok" => ~Kept'
    BY <1>1, <1>2, <1>4, <1>6, WalletsAreReadable DEF Kept
  <2> QED BY <1>2, <1>4, <2>1, <2>2, <2>3 DEF Saving, Is, Superseded
<1>11. ASSUME NEW k \in DOMAIN calls PROVE (Is(k, Saves)' => k = n) /\ ~LiveSecret(k)'
  BY <1>4, <1>8, <1>9 DEF Is, LiveSecret
<1>12. StatusWasTrue' /\ UnlocksAreOfTheirScreen'
  <2>1. ASSUME NEW k \in DOMAIN calls, Is(k, {"wallet_status"})
        PROVE  k > n /\ calls'[k].answer = "none"
    <3>1. k # n /\ ~(k < n)
      BY <1>6, <1>9, <2>1 DEF Saving, Is
    <3> QED BY <1>4, <1>5, <3>1
  <2>2. StatusWasTrue'
    BY <1>4, <2>1 DEF StatusWasTrue, Is
  <2> QED BY <1>1, <1>4, <2>2 DEF WindowInv, UnlocksAreOfTheirScreen, Is
<1>13. page # "create-reveal"
  BY <1>5, <1>9 DEF WindowInv, Revealing, OnlyRefreshing
<1>14. Revealing' /\ Occupied'
  <2>1. Is(n, Saves)' /\ n \in DOMAIN calls'
    BY <1>1, <1>4, <1>5 DEF Is
  <2> QED BY <1>1, <1>13, <2>1 DEF Revealing, Occupied
<1> QED BY <1>4, <1>6, <1>7, <1>10, <1>11, <1>12, <1>14 DEF WindowInv

LEMMA ExecuteStands ==
  ASSUME WindowInv, Screens!Execute
  PROVE  WindowInv' /\ (Kept => file' \in {file, NoWallet})
<1> DEFINE n == Screens!Next1
<1>1. CASE Screens!ExecuteSave
  BY <1>1, SaveStands
<1>2. CASE Screens!ExecuteUnlock
  <2>1. /\ Screens!Unanswered /\ Is(n, {"unlock_wallet"})
        /\ UNCHANGED <<file, unread, status, page, busy, revealed>>
    BY <1>2 DEF Screens!ExecuteUnlock, Screens!Doing, Screens!screenVars, Is
  <2>2. \E a \in {"ok", "error"} :
          /\ Screens!Answered(n, a)
          /\ opened' = opened \/ (file \in Wallets /\ opened' = file)
    BY <1>2 DEF Screens!ExecuteUnlock
  <2>3. {"ok", "error"} \subseteq Answers /\ Is(n, {"unlock_wallet", "lock_wallet", "forget_wallet"})
    BY <2>1 DEF Answers, Is
  <2> HIDE DEF n
  <2>4. WindowInv'
    BY <2>1, <2>2, <2>3, LockingStands DEF n
  <2> QED BY <2>1, <2>4
<1>3. CASE Screens!ExecuteLock
  <2>1. /\ Screens!Unanswered /\ Is(n, {"unlock_wallet", "lock_wallet", "forget_wallet"})
        /\ UNCHANGED <<unread, status, page, busy, revealed>>
        /\ opened' = NoWallet /\ file' \in {file, NoWallet} /\ Screens!Answered(n, "ok")
    BY <1>3 DEF Screens!ExecuteLock, Screens!Doing, Screens!screenVars, Is
  <2>2. "ok" \in Answers
    BY DEF Answers
  <2> HIDE DEF n
  <2>3. WindowInv'
    BY <2>1, <2>2, LockingStands DEF n
  <2> QED BY <2>1, <2>3
<1>4. CASE Screens!ExecuteRead
  <2>1. Screens!Unanswered /\ UNCHANGED <<file, opened, unread, status, page, busy, revealed>>
    BY <1>4 DEF Screens!ExecuteRead, Screens!Doing, Screens!appVars, Screens!screenVars
  <2>2. n \in DOMAIN calls
    BY <2>1, NextIsFirst DEF WindowInv, WindowTypes
  <2>3. \E a \in Answers :
          /\ Screens!Answered(n, a) /\ ~Is(n, Saves) /\ ~Is(n, {"wallet_status"})
          /\ LiveSecret(n) => a = file
    <3>1. CASE /\ Screens!Doing({"export_secret"})
               /\ Screens!Answered(n, IF opened = NoWallet THEN "error" ELSE opened)
      <4>1. (IF opened = NoWallet THEN "error" ELSE opened) \in Answers
        BY DEF Answers, WindowInv, WindowTypes
      <4>2. ~Is(n, Saves) /\ ~Is(n, {"wallet_status"})
        BY <3>1 DEF Screens!Doing, Is, Saves
      <4>3. LiveSecret(n) => (IF opened = NoWallet THEN "error" ELSE opened) = file
        BY <2>2, WalletsAreReadable DEF WindowInv, Exporting
      <4> QED BY <3>1, <4>1, <4>2, <4>3
    <3>2. CASE /\ Screens!Doing({"miner_status"})
               /\ Screens!Answered(n, IF mining THEN "running" ELSE "idle")
      <4>1. (IF mining THEN "running" ELSE "idle") \in Answers
        BY DEF Answers
      <4>2. ~Is(n, Saves) /\ ~Is(n, {"wallet_status"}) /\ ~LiveSecret(n)
        BY <3>2 DEF Screens!Doing, Is, Saves, LiveSecret
      <4> QED BY <3>2, <4>1, <4>2
    <3> QED BY <1>4, <3>1, <3>2 DEF Screens!ExecuteRead
  <2> HIDE DEF n
  <2>4. WindowInv'
    BY <2>1, <2>3, AnswerStands DEF n
  <2> QED BY <2>1, <2>4
<1>5. CASE Screens!ExecuteStart \/ Screens!ExecuteStop
  <2>1. /\ Screens!Unanswered /\ UNCHANGED <<file, opened, unread, status, page, busy, revealed>>
        /\ Is(n, {"start_mining", "stop_mining"})
    BY <1>5 DEF Screens!ExecuteStart, Screens!ExecuteStop, Screens!Doing, Screens!screenVars, Is
  <2>2. \E a \in {"error", "running", "idle"} : Screens!Answered(n, a)
    BY <1>5 DEF Screens!ExecuteStart, Screens!ExecuteStop
  <2>3. /\ {"error", "running", "idle"} \subseteq Answers
        /\ ~Is(n, Saves) /\ ~Is(n, {"wallet_status"}) /\ ~LiveSecret(n)
    BY <2>1 DEF Answers, Is, Saves, LiveSecret
  <2> HIDE DEF n
  <2>4. WindowInv'
    BY <2>1, <2>2, <2>3, AnswerStands DEF n
  <2> QED BY <2>1, <2>4
<1>6. CASE Screens!ExecuteStatus
  BY <1>6, StatusExecuted DEF Screens!ExecuteStatus
<1> QED BY <1>1, <1>2, <1>3, <1>4, <1>5, <1>6 DEF Screens!Execute

\* What an appended call changes.
LEMMA AppendPoints ==
  ASSUME WindowInv, NEW c \in Call, c.answer = "none", calls' = Append(calls, c)
  PROVE  /\ calls' \in Seq(Call) /\ calls' # <<>> /\ Len(calls) \in Nat
         /\ DOMAIN calls = 1 .. Len(calls) /\ DOMAIN calls' = 1 .. Len(calls) + 1
         /\ \A k \in DOMAIN calls : calls'[k] = calls[k]
         /\ calls'[Len(calls) + 1] = c
         /\ InOrder'
<1>1. calls \in Seq(Call)
  BY DEF WindowInv, WindowTypes
<1>2. /\ calls' \in Seq(Call) /\ calls' # <<>> /\ Len(calls) \in Nat
      /\ DOMAIN calls = 1 .. Len(calls) /\ DOMAIN calls' = 1 .. Len(calls) + 1
      /\ \A k \in DOMAIN calls : calls'[k] = calls[k]
      /\ calls'[Len(calls) + 1] = c
  BY <1>1, AppendProperties
<1>3. InOrder'
  BY <1>2 DEF InOrder, WindowInv
<1> QED BY <1>2, <1>3

LEMMA NewCalls ==
  ASSUME NEW cmd \in Commands, NEW arg \in Wallets \cup {NoWallet}
  PROVE  /\ Screens!NewCall(cmd, arg) \in Call
         /\ Screens!NewCall(cmd, arg).cmd = cmd /\ Screens!NewCall(cmd, arg).arg = arg
         /\ Screens!NewCall(cmd, arg).live /\ Screens!NewCall(cmd, arg).answer = "none"
BY DEF Screens!NewCall, Call, Answers

\* A screen other than the wizard, or the backup page, invokes a command that
\* saves nothing.
LEMMA InvokeStands ==
  ASSUME WindowInv, NEW c \in Call, c.answer = "none", calls' = Append(calls, c),
         c.cmd \notin Saves, c.cmd # "export_secret",
         c.cmd = "unlock_wallet" => status = "needs-unlock",
         \/ status # "needs-setup"
         \/ page = "create-reveal" /\ c.cmd = "wallet_status",
         UNCHANGED <<file, opened, unread, status, page, revealed>>,
         status = "needs-setup" => busy' = busy
  PROVE  WindowInv'
<1>1. /\ calls' \in Seq(Call) /\ Len(calls) \in Nat
      /\ DOMAIN calls = 1 .. Len(calls) /\ DOMAIN calls' = 1 .. Len(calls) + 1
      /\ \A k \in DOMAIN calls : calls'[k] = calls[k]
      /\ calls'[Len(calls) + 1] = c
      /\ InOrder'
  BY AppendPoints
<1>2. WindowTypes' /\ StatusWasTrue' /\ UnlocksAreOfTheirScreen'
  <2>1. WindowTypes' /\ UnlocksAreOfTheirScreen'
    BY <1>1 DEF WindowInv, WindowTypes, UnlocksAreOfTheirScreen, Is
  <2>2. ASSUME NEW k, Superseded(k) PROVE Superseded(k)'
    BY <1>1, <2>2, CorrectionStays DEF Kept
  <2> QED BY <1>1, <2>1, <2>2 DEF WindowInv, StatusWasTrue, Is
<1>3. \A k \in DOMAIN calls : ~Is(k, Saves)
  <2> SUFFICES ASSUME NEW k \in DOMAIN calls, Is(k, Saves) PROVE FALSE
    OBVIOUS
  <2>1. status = "needs-setup"
    BY DEF WindowInv, Saving
  <2>2. Is(k, {"wallet_status"})
    BY <2>1 DEF WindowInv, Revealing, OnlyRefreshing
  <2> QED BY <2>2 DEF Is, Saves
<1>4. \A k \in DOMAIN calls : ~LiveSecret(k)
  <2> SUFFICES ASSUME NEW k \in DOMAIN calls, LiveSecret(k) PROVE FALSE
    OBVIOUS
  <2>1. status = "needs-setup"
    BY DEF WindowInv, Exporting
  <2>2. Is(k, {"wallet_status"})
    BY <2>1 DEF WindowInv, Revealing, OnlyRefreshing
  <2> QED BY <2>2 DEF Is, LiveSecret
<1>5. \A k \in DOMAIN calls' : ~Is(k, Saves)' /\ ~LiveSecret(k)'
  BY <1>1, <1>3, <1>4 DEF Is, LiveSecret
<1>6. Revealing' /\ Occupied'
  BY <1>1 DEF WindowInv, Revealing, Occupied, OnlyRefreshing, Is
<1> QED BY <1>1, <1>2, <1>5, <1>6 DEF WindowInv

\* A page of the wizard is filled in only if there is no wallet to lose.
LEMMA SubmitStands ==
  ASSUME WindowInv, NEW pg \in {"create-password", "import"}, NEW cmd \in Saves, NEW w \in Wallets,
         Screens!SubmitWizard(pg, cmd, w)
  PROVE  WindowInv'
<1> DEFINE c == Screens!NewCall(cmd, w)
<1>1. /\ status = "needs-setup" /\ page = pg /\ ~busy /\ busy'
      /\ \A k \in DOMAIN calls : ~Is(k, {"wallet_status"})
      /\ calls' = Append(calls, c)
      /\ UNCHANGED <<file, opened, unread, status, page, revealed>>
  BY DEF Screens!SubmitWizard, Screens!InWizard, Screens!Refreshing, Screens!Invoke,
         Screens!appVars, Is
<1>2. c \in Call /\ c.cmd = cmd /\ c.arg = w /\ c.live /\ c.answer = "none"
  <2>1. cmd \in Commands
    BY DEF Saves, Commands
  <2> QED BY <2>1, NewCalls
<1> HIDE DEF c
<1>3. /\ calls' \in Seq(Call) /\ Len(calls) \in Nat
      /\ DOMAIN calls = 1 .. Len(calls) /\ DOMAIN calls' = 1 .. Len(calls) + 1
      /\ \A k \in DOMAIN calls : calls'[k] = calls[k]
      /\ calls'[Len(calls) + 1] = c
      /\ InOrder'
  BY <1>1, <1>2, AppendPoints
<1>4. \A k \in DOMAIN calls : ~Is(k, Saves) /\ ~LiveSecret(k)
  BY <1>1 DEF WindowInv, Saving, Exporting
<1>5. page # "create-reveal"
  BY <1>1
<1>6. ~Kept
  <2> SUFFICES ASSUME Kept PROVE FALSE
    OBVIOUS
  <2>1. calls # <<>> /\ OnlyRefreshing(DOMAIN calls)
    BY <1>1, <1>4, <1>5 DEF WindowInv, Occupied, Corrected
  <2>2. 1 \in DOMAIN calls
    BY <2>1, <1>3 DEF WindowInv, WindowTypes
  <2> QED BY <1>1, <2>1, <2>2 DEF OnlyRefreshing
<1>11. ~Kept'
  BY <1>1, <1>6 DEF Kept
<1>7. WindowTypes' /\ StatusWasTrue' /\ UnlocksAreOfTheirScreen'
  <2>1. WindowTypes' /\ UnlocksAreOfTheirScreen'
    BY <1>1, <1>2, <1>3 DEF WindowInv, WindowTypes, UnlocksAreOfTheirScreen, Is, Saves
  <2> QED BY <1>11, <2>1 DEF StatusWasTrue, Superseded
<1>8. ASSUME NEW k \in DOMAIN calls', Is(k, Saves)' PROVE Saving(k)'
  <2>1. k = Len(calls) + 1
    BY <1>3, <1>4, <1>8 DEF Is
  <2>2. \A j \in DOMAIN calls' : j < k => j \in DOMAIN calls /\ calls'[j] = calls[j]
    BY <1>3, <2>1
  <2>3. \A j \in DOMAIN calls' : j < k => ~Is(j, Saves \cup {"wallet_status"})' /\ ~LiveSecret(j)'
    BY <1>1, <1>4, <2>2 DEF Is, LiveSecret
  <2>4. \A j \in DOMAIN calls' : ~(j > k)
    BY <1>3, <2>1
  <2> QED BY <1>1, <1>2, <1>3, <1>11, <2>1, <2>3, <2>4 DEF Saving
<1>9. \A k \in DOMAIN calls' : ~LiveSecret(k)'
  BY <1>2, <1>3, <1>4 DEF LiveSecret, Is, Saves
<1>10. Revealing' /\ Occupied'
  BY <1>1, <1>11 DEF Revealing, Occupied
<1> QED BY <1>3, <1>7, <1>8, <1>9, <1>10 DEF WindowInv

LEMMA UserStands ==
  ASSUME WindowInv, Screens!User \/ Screens!PollTick
  PROVE  WindowInv' /\ UNCHANGED file
<1>1. ASSUME NEW pg \in {"create-password", "import"}, Screens!Choose(pg)
      PROVE  WindowInv' /\ UNCHANGED file
  <2>1. /\ UNCHANGED <<file, opened, unread, calls, status, busy, revealed>>
        /\ page = "choose" /\ page' # "create-reveal"
    BY <1>1 DEF Screens!Choose, Screens!InWizard, Screens!appVars
  <2> QED BY <2>1 DEF WindowInv, WindowTypes, InOrder, StatusWasTrue, UnlocksAreOfTheirScreen,
       Saving, Exporting, Revealing, Occupied, Is, LiveSecret, OnlyRefreshing, Corrected,
       Superseded, Kept
<1>2. CASE Screens!Back
  <2>1. /\ UNCHANGED <<file, opened, unread, calls, status, busy, revealed>>
        /\ page \in {"create-password", "import"} /\ page' = "choose"
    BY <1>2 DEF Screens!Back, Screens!InWizard, Screens!appVars
  <2> QED BY <2>1 DEF WindowInv, WindowTypes, InOrder, StatusWasTrue, UnlocksAreOfTheirScreen,
       Saving, Exporting, Revealing, Occupied, Is, LiveSecret, OnlyRefreshing, Corrected,
       Superseded, Kept
<1>3. ASSUME NEW w \in Wallets, Screens!CreateWallet(w) \/ Screens!ImportWallet(w)
      PROVE  WindowInv' /\ UNCHANGED file
  <2>1. \/ Screens!SubmitWizard("create-password", "create_wallet", w)
        \/ Screens!SubmitWizard("import", "import_wallet", w)
    BY <1>3 DEF Screens!CreateWallet, Screens!ImportWallet
  <2>2. WindowInv'
    BY <2>1, SubmitStands DEF Saves
  <2> QED BY <2>1, <2>2 DEF Screens!SubmitWizard, Screens!appVars
\* The other commands are no saves, and the wizard's refresh leaves the page.
<1>4. ASSUME NEW cmd \in Commands, calls' = Append(calls, Screens!NewCall(cmd, NoWallet)),
             cmd \notin Saves, cmd # "export_secret",
             cmd = "unlock_wallet" => status = "needs-unlock",
             status # "needs-setup" \/ (page = "create-reveal" /\ cmd = "wallet_status"),
             UNCHANGED <<file, opened, unread, status, page, revealed>>,
             status = "needs-setup" => busy' = busy
      PROVE  WindowInv' /\ UNCHANGED file
  <2>1. /\ Screens!NewCall(cmd, NoWallet) \in Call
        /\ Screens!NewCall(cmd, NoWallet).cmd = cmd
        /\ Screens!NewCall(cmd, NoWallet).answer = "none"
    BY NewCalls
  <2> QED BY <1>4, <2>1, InvokeStands
<1>5. CASE Screens!SavedIt
  BY <1>4, <1>5 DEF Screens!SavedIt, Screens!InWizard, Screens!Invoke, Screens!appVars,
       Screens!screenVars, Saves, Commands
<1>6. CASE Screens!UnlockWallet
  BY <1>4, <1>6 DEF Screens!UnlockWallet, Screens!Invoke, Screens!appVars, Saves, Commands
<1>7. CASE Screens!Wipe
  BY <1>4, <1>7 DEF Screens!Wipe, Screens!Invoke, Screens!appVars, Screens!screenVars, Saves, Commands
<1>8. CASE Screens!Click
  <2>1. /\ status = "unlocked" /\ UNCHANGED <<file, opened, unread, status, page, busy, revealed>>
        /\ \E cmd \in {"lock_wallet", "start_mining", "stop_mining"} :
             calls' = Append(calls, Screens!NewCall(cmd, NoWallet))
    BY <1>8 DEF Screens!Click, Screens!Invoke, Screens!appVars, Screens!screenVars
  <2> QED BY <1>4, <2>1 DEF Saves, Commands
<1>9. CASE Screens!PollTick
  BY <1>4, <1>9 DEF Screens!PollTick, Screens!appVars, Screens!screenVars, Saves, Commands
<1> QED BY <1>1, <1>2, <1>3, <1>5, <1>6, <1>7, <1>8, <1>9 DEF Screens!User

\* What a delivered answer changes, if the handler makes no further call.
LEMMA TailPoints ==
  ASSUME WindowInv, calls # <<>>, Head(calls).answer # "none", calls' = Tail(calls)
  PROVE  /\ calls' \in Seq(Call) /\ Len(calls) \in Nat /\ 1 \in DOMAIN calls
         /\ DOMAIN calls = 1 .. Len(calls) /\ DOMAIN calls' = 1 .. Len(calls) - 1
         /\ Head(calls) = calls[1] /\ calls[1] \in Call
         /\ \A k \in DOMAIN calls' : calls'[k] = calls[k + 1] /\ k + 1 \in DOMAIN calls
         /\ InOrder'
<1>1. calls \in Seq(Call)
  BY DEF WindowInv, WindowTypes
<1>2. /\ calls' \in Seq(Call) /\ Len(calls) \in Nat /\ 1 \in DOMAIN calls
      /\ DOMAIN calls = 1 .. Len(calls) /\ DOMAIN calls' = 1 .. Len(calls) - 1
      /\ Head(calls) = calls[1] /\ calls[1] \in Call
      /\ \A k \in DOMAIN calls' : calls'[k] = calls[k + 1] /\ k + 1 \in DOMAIN calls
  BY <1>1, HeadTailProperties
<1>3. InOrder'
  BY <1>2 DEF InOrder, WindowInv
<1> QED BY <1>2, <1>3

\* What it changes if the handler goes on with another call.
LEMMA ThenPoints ==
  ASSUME WindowInv, calls # <<>>, Head(calls).answer # "none",
         NEW cmd \in {"wallet_status", "export_secret"}, Screens!Then(cmd)
  PROVE  /\ calls' \in Seq(Call) /\ Len(calls) \in Nat /\ 1 \in DOMAIN calls
         /\ DOMAIN calls = 1 .. Len(calls) /\ DOMAIN calls' = 1 .. Len(calls) /\ calls' # <<>>
         /\ Head(calls) = calls[1] /\ calls[1] \in Call
         /\ \A k \in 1 .. Len(calls) - 1 : calls'[k] = calls[k + 1] /\ k + 1 \in DOMAIN calls
         /\ calls'[Len(calls)].cmd = cmd /\ calls'[Len(calls)].live = calls[1].live
         /\ calls'[Len(calls)].answer = "none"
         /\ InOrder'
<1> DEFINE c == [Screens!NewCall(cmd, NoWallet) EXCEPT !.live = Head(calls).live]
<1>1. calls \in Seq(Call)
  BY DEF WindowInv, WindowTypes
<1>2. /\ Len(calls) \in Nat /\ 1 \in DOMAIN calls /\ DOMAIN calls = 1 .. Len(calls)
      /\ Head(calls) = calls[1] /\ calls[1] \in Call
      /\ Tail(calls) \in Seq(Call) /\ Len(Tail(calls)) = Len(calls) - 1
      /\ \A k \in 1 .. Len(calls) - 1 : Tail(calls)[k] = calls[k + 1] /\ k + 1 \in DOMAIN calls
  BY <1>1, HeadTailProperties
<1>3. c \in Call /\ c.cmd = cmd /\ c.live = calls[1].live /\ c.answer = "none"
  <2>1. calls[1].live \in BOOLEAN
    BY <1>2 DEF Call
  <2>2. c = [cmd |-> cmd, arg |-> NoWallet, live |-> calls[1].live, answer |-> "none"]
    BY <1>2 DEF Screens!NewCall
  <2> QED BY <2>1, <2>2 DEF Call, Commands, Answers
<1>4. calls' = Append(Tail(calls), c)
  BY DEF Screens!Then
<1> HIDE DEF c
<1>5. /\ calls' \in Seq(Call) /\ Len(calls') = Len(calls) /\ calls' # <<>>
      /\ DOMAIN calls' = 1 .. Len(calls)
      /\ \A k \in 1 .. Len(calls) - 1 : calls'[k] = Tail(calls)[k]
      /\ calls'[Len(calls)] = c
  BY <1>2, <1>3, <1>4, AppendProperties
<1>6. InOrder'
  <2> SUFFICES ASSUME NEW j \in DOMAIN calls', NEW k \in DOMAIN calls', j < k,
                      calls'[k].answer # "none"
               PROVE  calls'[j].answer # "none"
    BY DEF InOrder
  <2>1. k # Len(calls)
    BY <1>3, <1>5
  <2>2. /\ j \in 1 .. Len(calls) - 1 /\ k \in 1 .. Len(calls) - 1
        /\ j + 1 \in DOMAIN calls /\ k + 1 \in DOMAIN calls /\ j + 1 < k + 1
    BY <1>2, <1>5, <2>1
  <2>3. calls'[j] = calls[j + 1] /\ calls'[k] = calls[k + 1]
    BY <1>2, <1>5, <2>2
  <2> QED BY <2>2, <2>3 DEF WindowInv, InOrder
<1> QED BY <1>2, <1>3, <1>5, <1>6

\* An answer that no page of the wizard waits for.
LEMMA DeliveryStands ==
  ASSUME WindowInv, calls # <<>>, Head(calls).answer # "none",
         \/ calls' = Tail(calls)
         \/ Screens!Then("wallet_status"),
         ~Is(1, Saves), ~LiveSecret(1),
         Is(1, {"wallet_status"}) => calls[1].answer = status,
         UNCHANGED <<file, opened, unread, status, page, revealed>>,
         busy' # busy => status = "needs-unlock"
  PROVE  WindowInv'
<1>1. /\ calls' \in Seq(Call) /\ Len(calls) \in Nat /\ 1 \in DOMAIN calls
      /\ DOMAIN calls = 1 .. Len(calls) /\ calls[1] \in Call /\ calls[1].answer # "none"
      /\ DOMAIN calls' \subseteq 1 .. Len(calls) /\ 1 .. Len(calls) - 1 \subseteq DOMAIN calls'
      /\ \A k \in DOMAIN calls' :
           \/ k < Len(calls) /\ calls'[k] = calls[k + 1] /\ k + 1 \in DOMAIN calls
           \/ k = Len(calls) /\ calls'[k].cmd = "wallet_status" /\ calls'[k].answer = "none"
      /\ \A k \in 1 .. Len(calls) - 1 : calls'[k] = calls[k + 1]
      /\ InOrder'
  <2>1. CASE calls' = Tail(calls)
    BY <2>1, TailPoints
  <2>2. CASE Screens!Then("wallet_status")
    <3>1. /\ calls' \in Seq(Call) /\ Len(calls) \in Nat /\ 1 \in DOMAIN calls
          /\ DOMAIN calls = 1 .. Len(calls) /\ DOMAIN calls' = 1 .. Len(calls)
          /\ Head(calls) = calls[1] /\ calls[1] \in Call
          /\ \A k \in 1 .. Len(calls) - 1 : calls'[k] = calls[k + 1] /\ k + 1 \in DOMAIN calls
          /\ calls'[Len(calls)].cmd = "wallet_status" /\ calls'[Len(calls)].answer = "none"
          /\ InOrder'
      BY <2>2, ThenPoints
    <3>0. \A n \in Nat : /\ \A k \in 1 .. n : k = n \/ k \in 1 .. n - 1
                        /\ \A k \in 1 .. n - 1 : k < n /\ k \in 1 .. n
      OBVIOUS
    <3>2. \A k \in DOMAIN calls' : k = Len(calls) \/ k \in 1 .. Len(calls) - 1
      <4>1. \A k \in 1 .. Len(calls) : k = Len(calls) \/ k \in 1 .. Len(calls) - 1
        BY <3>0, <3>1
      <4> QED BY <3>1, <4>1, Zenon
    <3>3. \A k \in 1 .. Len(calls) - 1 : k < Len(calls) /\ k \in DOMAIN calls'
      <4>1. \A k \in 1 .. Len(calls) - 1 : k < Len(calls) /\ k \in 1 .. Len(calls)
        BY <3>0, <3>1
      <4> QED BY <3>1, <4>1, Zenon
    <3>4. \A k \in DOMAIN calls' :
            \/ k < Len(calls) /\ calls'[k] = calls[k + 1] /\ k + 1 \in DOMAIN calls
            \/ k = Len(calls) /\ calls'[k].cmd = "wallet_status" /\ calls'[k].answer = "none"
      BY <3>1, <3>2, <3>3
    <3> QED BY <3>1, <3>3, <3>4
  <2> QED BY <2>1, <2>2
<1>7. ASSUME NEW k \in Nat, Superseded(k + 1) PROVE Superseded(k)'
  <2>1. \A j \in 1 .. Len(calls) - 1 :
          /\ j \in DOMAIN calls'
          /\ calls'[j].cmd = calls[j + 1].cmd /\ calls'[j].answer = calls[j + 1].answer
    BY <1>1
  <2> QED BY <1>1, <1>7, <2>1, CorrectionMoves DEF Kept
<1>2. WindowTypes' /\ StatusWasTrue' /\ UnlocksAreOfTheirScreen'
  <2>1. WindowTypes'
    BY <1>1 DEF WindowInv, WindowTypes
  <2>2. StatusWasTrue'
    <3> SUFFICES ASSUME NEW k \in DOMAIN calls', Is(k, {"wallet_status"})',
                        calls'[k].answer = "needs-setup"
                 PROVE  Superseded(k)'
      BY DEF StatusWasTrue
    <3>1. k \in Nat /\ calls'[k] = calls[k + 1] /\ k + 1 \in DOMAIN calls
      BY <1>1
    <3>2. Superseded(k + 1)
      BY <3>1 DEF WindowInv, StatusWasTrue, Is
    <3> QED BY <1>7, <3>1, <3>2
  <2>3. UnlocksAreOfTheirScreen'
    BY <1>1 DEF WindowInv, UnlocksAreOfTheirScreen, Is
  <2> QED BY <2>1, <2>2, <2>3
<1>3. ASSUME NEW k \in DOMAIN calls', Is(k, Saves)' PROVE Saving(k)'
  <2>1. k < Len(calls) /\ calls'[k] = calls[k + 1] /\ k + 1 \in DOMAIN calls
    BY <1>1, <1>3 DEF Is, Saves
  <2>2. Saving(k + 1)
    BY <1>3, <2>1 DEF WindowInv, Is
  <2>3. \A j \in DOMAIN calls' : j < k => ~Is(j, Saves \cup {"wallet_status"})' /\ ~LiveSecret(j)'
    <3> SUFFICES ASSUME NEW j \in DOMAIN calls', j < k
                 PROVE  ~Is(j, Saves \cup {"wallet_status"})' /\ ~LiveSecret(j)'
      OBVIOUS
    <3>1. calls'[j] = calls[j + 1] /\ j + 1 \in DOMAIN calls /\ j + 1 < k + 1
      BY <1>1, <2>1
    <3> QED BY <2>2, <3>1 DEF Saving, Is, LiveSecret
  <2>4. \A j \in DOMAIN calls' : j > k => Is(j, {"wallet_status"})'
    <3> SUFFICES ASSUME NEW j \in DOMAIN calls', j > k PROVE Is(j, {"wallet_status"})'
      OBVIOUS
    <3>1. CASE calls'[j] = calls[j + 1] /\ j + 1 \in DOMAIN calls
      <4>1. j + 1 > k + 1
        BY <1>1, <2>1
      <4> QED BY <2>2, <3>1, <4>1 DEF Saving, Is
    <3>2. CASE calls'[j].cmd = "wallet_status"
      BY <3>2 DEF Is
    <3> QED BY <1>1, <3>1, <3>2
  <2>5. k \in Nat /\ (Superseded(k + 1) => Superseded(k)')
    BY <1>1, <1>7, <2>1
  <2>6. Kept' = Kept
    BY DEF Kept
  <2> QED BY <2>1, <2>2, <2>3, <2>4, <2>5, <2>6 DEF Saving
<1>4. ASSUME NEW k \in DOMAIN calls', LiveSecret(k)' PROVE Exporting(k)'
  <2>1. k < Len(calls) /\ calls'[k] = calls[k + 1] /\ k + 1 \in DOMAIN calls
    BY <1>1, <1>4 DEF Is, LiveSecret
  <2>2. Exporting(k + 1)
    BY <1>4, <2>1 DEF WindowInv, Is, LiveSecret
  <2>3. OnlyRefreshing(DOMAIN calls \ {k + 1})
    BY <2>2 DEF Exporting
  <2>4. ASSUME NEW j \in DOMAIN calls' \ {k} PROVE Is(j, {"wallet_status"})'
    <3>1. CASE calls'[j] = calls[j + 1] /\ j + 1 \in DOMAIN calls
      <4>1. j + 1 # k + 1
        BY <1>1, <2>1
      <4> QED BY <2>3, <3>1, <4>1 DEF OnlyRefreshing, Is
    <3>2. CASE calls'[j].cmd = "wallet_status"
      BY <3>2 DEF Is
    <3> QED BY <1>1, <3>1, <3>2
  <2> QED BY <2>1, <2>2, <2>4 DEF Exporting, OnlyRefreshing
<1>5. Revealing'
  <2>1. OnlyRefreshing(DOMAIN calls) => OnlyRefreshing(DOMAIN calls)'
    BY <1>1 DEF OnlyRefreshing, Is
  <2> QED BY <2>1 DEF WindowInv, Revealing
<1>6. Occupied'
  <2> SUFFICES ASSUME status = "needs-setup", Kept, page # "create-reveal"
               PROVE  \E k \in DOMAIN calls' : Is(k, Saves)' \/ LiveSecret(k)' \/ Corrected(k)'
    BY DEF Occupied, Kept
  <2>1. PICK k \in DOMAIN calls : k # 1 /\ (Is(k, Saves) \/ LiveSecret(k) \/ Corrected(k))
    <3>1. CASE Is(1, {"wallet_status"})
      <4>1. Superseded(1)
        BY <1>1, <3>1 DEF WindowInv, StatusWasTrue
      <4> QED BY <1>1, <4>1 DEF Superseded
    <3>2. CASE ~Is(1, {"wallet_status"})
      <4>1. \E k \in DOMAIN calls : Is(k, Saves) \/ LiveSecret(k) \/ Corrected(k)
        BY <1>1, <3>2 DEF WindowInv, Occupied, OnlyRefreshing
      <4>2. ~Corrected(1)
        BY <3>2 DEF Corrected
      <4> QED BY <4>1, <4>2
    <3> QED BY <3>1, <3>2
  <2>2. k - 1 \in DOMAIN calls' /\ calls'[k - 1] = calls[k]
    <3>1. k - 1 \in 1 .. Len(calls) - 1 /\ (k - 1) + 1 = k
      BY <1>1, <2>1
    <3> QED BY <1>1, <3>1
  <2>3. Is(k - 1, Saves)' \/ LiveSecret(k - 1)' \/ Corrected(k - 1)'
    BY <2>1, <2>2 DEF Is, LiveSecret, Corrected
  <2> QED BY <2>2, <2>3
<1> QED BY <1>1, <1>2, <1>3, <1>4, <1>5, <1>6 DEF WindowInv

\* Once the command that saves is answered nothing else is under way but
\* refreshes.
LEMMA SaveIsLast ==
  ASSUME WindowInv, calls # <<>>, Is(1, Saves)
  PROVE  /\ Saving(1) /\ page # "create-reveal"
         /\ \A k \in DOMAIN calls : k # 1 => Is(k, {"wallet_status"})
<1>1. 1 \in DOMAIN calls /\ \A k \in DOMAIN calls : k # 1 => k > 1
  BY DEF WindowInv, WindowTypes
<1>2. Saving(1)
  BY <1>1 DEF WindowInv
<1>3. ~Is(1, {"wallet_status"})
  BY DEF Is, Saves
<1> QED BY <1>1, <1>2, <1>3 DEF Saving, WindowInv, Revealing, OnlyRefreshing

\* When only refreshes are left, nothing but what the wizard shows matters.
LEMMA OnlyRefreshesLeft ==
  ASSUME WindowInv, calls' \in Seq(Call), InOrder', OnlyRefreshing(DOMAIN calls)',
         \A k \in DOMAIN calls' : calls'[k].answer = "needs-setup" => Superseded(k)',
         UNCHANGED <<file, opened>>, Revealing', Occupied'
  PROVE  WindowInv'
<1>1. WindowTypes'
  BY DEF WindowInv, WindowTypes
<1>2. \A k \in DOMAIN calls' : ~Is(k, Saves)' /\ ~LiveSecret(k)' /\ ~Is(k, {"unlock_wallet"})'
  BY DEF OnlyRefreshing, Is, Saves, LiveSecret
<1>3. StatusWasTrue' /\ UnlocksAreOfTheirScreen'
  BY <1>2 DEF StatusWasTrue, UnlocksAreOfTheirScreen
<1> QED BY <1>1, <1>2, <1>3 DEF WindowInv

\* The answer that a wallet could not be saved.
LEMMA FailedSaveStands ==
  ASSUME WindowInv, calls # <<>>, Is(1, Saves), Head(calls).answer = "error", calls' = Tail(calls),
         UNCHANGED <<file, opened, unread, status, page, revealed>>
  PROVE  WindowInv'
<1>1. /\ calls' \in Seq(Call) /\ InOrder' /\ Head(calls) = calls[1] /\ Len(calls) \in Nat
      /\ DOMAIN calls = 1 .. Len(calls) /\ DOMAIN calls' = 1 .. Len(calls) - 1
      /\ \A k \in DOMAIN calls' : calls'[k] = calls[k + 1] /\ k + 1 \in DOMAIN calls /\ k + 1 # 1
  BY TailPoints
<1>2. /\ Saving(1) /\ page # "create-reveal"
      /\ \A k \in DOMAIN calls : k # 1 => Is(k, {"wallet_status"})
  BY SaveIsLast
<1>3. ASSUME NEW k \in Nat, Superseded(k + 1) PROVE Superseded(k)'
  <2>1. \A j \in 1 .. Len(calls) - 1 : j \in DOMAIN calls' /\ calls'[j] = calls[j + 1]
    BY <1>1
  <2> QED BY <1>1, <1>3, <2>1, CorrectionMoves DEF Kept
<1>4. OnlyRefreshing(DOMAIN calls)'
  BY <1>1, <1>2 DEF OnlyRefreshing, Is
<1>5. ASSUME NEW k \in DOMAIN calls', calls'[k].answer = "needs-setup" PROVE Superseded(k)'
  <2>1. k \in Nat /\ Superseded(k + 1)
    BY <1>1, <1>2, <1>5 DEF WindowInv, StatusWasTrue
  <2> QED BY <1>3, <2>1
<1>6. Superseded(0)'
  <2>1. Superseded(1)
    BY <1>1, <1>2 DEF Saving
  <2> QED BY <1>3, <2>1
<1>7. Revealing' /\ Occupied'
  BY <1>2, <1>6 DEF Revealing, Occupied, Superseded
<1> QED BY <1>1, <1>4, <1>5, <1>7, OnlyRefreshesLeft

LEMMA CreatedStands ==
  ASSUME WindowInv, Screens!DeliverCreated
  PROVE  WindowInv'
<1>1. /\ calls # <<>> /\ Head(calls).cmd = "create_wallet" /\ Head(calls).answer # "none"
      /\ UNCHANGED <<file, opened, unread, status, page, revealed>>
  BY DEF Screens!DeliverCreated, Screens!Arrived, Screens!appVars
<1>2. Head(calls) = calls[1]
  BY <1>1 DEF WindowInv, WindowTypes
<1>3. Is(1, Saves)
  BY <1>1, <1>2 DEF Is, Saves
<1>4. /\ Saving(1) /\ page # "create-reveal"
      /\ \A k \in DOMAIN calls : k # 1 => Is(k, {"wallet_status"})
  BY <1>1, <1>3, SaveIsLast
<1>5. CASE Head(calls).answer # "error"
  <2>1. Screens!Then("export_secret") /\ busy' = busy
    BY <1>5 DEF Screens!DeliverCreated, Screens!Succeeded
  <2>2. /\ calls' \in Seq(Call) /\ Len(calls) \in Nat /\ 1 \in DOMAIN calls
        /\ DOMAIN calls = 1 .. Len(calls) /\ DOMAIN calls' = 1 .. Len(calls)
        /\ \A k \in 1 .. Len(calls) - 1 : calls'[k] = calls[k + 1] /\ k + 1 \in DOMAIN calls
        /\ calls'[Len(calls)].cmd = "export_secret" /\ calls'[Len(calls)].live = calls[1].live
        /\ calls'[Len(calls)].answer = "none"
        /\ InOrder'
    BY <1>1, <2>1, ThenPoints
  <2>3. calls[1].live /\ busy /\ status = "needs-setup" /\ file = calls[1].arg /\ opened = file
        /\ file \in Wallets
    BY <1>1, <1>2, <1>4, <1>5 DEF Saving
  <2>4. ASSUME NEW k \in DOMAIN calls', k # Len(calls)
        PROVE  /\ calls'[k].cmd = "wallet_status"
               /\ \E j \in DOMAIN calls : calls'[k] = calls[j] /\ Is(j, {"wallet_status"})
    <3>1. k \in 1 .. Len(calls) - 1 /\ k + 1 # 1
      BY <2>2, <2>4
    <3>2. calls'[k] = calls[k + 1] /\ k + 1 \in DOMAIN calls /\ Is(k + 1, {"wallet_status"})
      BY <1>4, <2>2, <3>1
    <3> QED BY <3>2 DEF Is
  <2>10. ASSUME NEW k \in DOMAIN calls', k # Len(calls), calls'[k].answer = "needs-setup"
         PROVE  Superseded(k)'
    <3>1. k \in 1 .. Len(calls) - 1 /\ k \in Nat
      BY <2>2, <2>10
    <3>2. calls'[k] = calls[k + 1] /\ k + 1 \in DOMAIN calls /\ k + 1 # 1
      BY <2>2, <3>1
    <3>3. Superseded(k + 1)
      BY <1>4, <2>10, <3>2 DEF WindowInv, StatusWasTrue
    <3>4. \A j \in 1 .. Len(calls) - 1 : j \in DOMAIN calls'
      BY <2>2
    <3> QED BY <1>1, <2>2, <3>1, <3>3, <3>4, CorrectionMoves DEF Kept
  <2>5. WindowTypes'
    BY <1>1, <2>2 DEF WindowInv, WindowTypes
  <2>6. StatusWasTrue' /\ UnlocksAreOfTheirScreen'
    BY <2>2, <2>4, <2>10 DEF StatusWasTrue, UnlocksAreOfTheirScreen, Is
  <2>7. \A k \in DOMAIN calls' : ~Is(k, Saves)'
    BY <2>2, <2>4 DEF Is, Saves
  <2>8. \A k \in DOMAIN calls' : LiveSecret(k)' => Exporting(k)'
    <3>1. \A k \in DOMAIN calls' : LiveSecret(k)' => k = Len(calls)
      BY <2>4 DEF LiveSecret, Is
    <3> QED BY <1>1, <2>1, <2>2, <2>3, <2>4, <3>1 DEF Exporting, OnlyRefreshing, Is
  <2>9. Revealing' /\ Occupied'
    <3>1. PICK n : n = Len(calls)
      OBVIOUS
    <3>2. n \in DOMAIN calls' /\ calls'[n].cmd = "export_secret" /\ calls'[n].live
      <4>1. Len(calls) \in 1 .. Len(calls)
        BY <2>2
      <4> QED BY <2>2, <2>3, <3>1, <4>1, Zenon
    <3>3. LiveSecret(n)'
      BY <3>2 DEF LiveSecret, Is
    <3> QED BY <1>1, <1>4, <3>2, <3>3 DEF Revealing, Occupied
  <2> QED BY <2>2, <2>5, <2>6, <2>7, <2>8, <2>9 DEF WindowInv
<1>6. CASE Head(calls).answer = "error"
  <2>1. calls' = Tail(calls)
    BY <1>6 DEF Screens!DeliverCreated, Screens!Succeeded
  <2> QED BY <1>1, <1>3, <1>6, <2>1, FailedSaveStands
<1> QED BY <1>5, <1>6

LEMMA SecretStands ==
  ASSUME WindowInv, Screens!DeliverSecret
  PROVE  WindowInv'
<1>1. /\ calls # <<>> /\ Head(calls).cmd = "export_secret" /\ Head(calls).answer # "none"
      /\ calls' = Tail(calls) /\ UNCHANGED <<file, opened, unread, status>>
  BY DEF Screens!DeliverSecret, Screens!Arrived, Screens!appVars
<1>2. /\ calls' \in Seq(Call) /\ InOrder' /\ Head(calls) = calls[1] /\ 1 \in DOMAIN calls
      /\ Len(calls) \in Nat /\ DOMAIN calls = 1 .. Len(calls)
      /\ DOMAIN calls' = 1 .. Len(calls) - 1
      /\ \A k \in DOMAIN calls' : calls'[k] = calls[k + 1] /\ k + 1 \in DOMAIN calls /\ k + 1 # 1
  BY <1>1, TailPoints
<1>3. ~Is(1, Saves) /\ ~Is(1, {"wallet_status"})
  BY <1>1, <1>2 DEF Is, Saves
<1>4. CASE Head(calls).live
  <2>1. Exporting(1)
    BY <1>1, <1>2, <1>4 DEF WindowInv, LiveSecret, Is
  <2>2. Head(calls).answer = file /\ file \in Wallets /\ opened = file /\ status = "needs-setup"
        /\ OnlyRefreshing(DOMAIN calls \ {1})
    BY <1>1, <1>2, <2>1 DEF Exporting
  <2>3. page' = "create-reveal" /\ revealed' = file
    BY <1>4, <2>2, WalletsAreReadable DEF Screens!DeliverSecret, Screens!Succeeded
  <2>4. OnlyRefreshing(DOMAIN calls)'
    BY <1>2, <2>2 DEF OnlyRefreshing, Is
  <2>5. Revealing' /\ Occupied'
    BY <1>1, <2>2, <2>3, <2>4 DEF Revealing, Occupied
  <2>6. ASSUME NEW k \in DOMAIN calls', calls'[k].answer = "needs-setup" PROVE Superseded(k)'
    <3>1. calls'[k] = calls[k + 1] /\ k + 1 \in DOMAIN calls /\ k + 1 # 1 /\ k \in Nat
      BY <1>2
    <3>2. Superseded(k + 1)
      BY <2>2, <2>6, <3>1 DEF OnlyRefreshing, WindowInv, StatusWasTrue
    <3>3. \A m \in 1 .. Len(calls) - 1 : m \in DOMAIN calls' /\ calls'[m] = calls[m + 1]
      BY <1>2
    <3> QED BY <1>1, <1>2, <3>1, <3>2, <3>3, CorrectionMoves DEF Kept
  <2> QED BY <1>1, <1>2, <2>4, <2>5, <2>6, OnlyRefreshesLeft
<1>5. CASE ~Head(calls).live
  <2>1. UNCHANGED <<page, busy, revealed>> /\ ~LiveSecret(1)
    BY <1>2, <1>5 DEF Screens!DeliverSecret, LiveSecret
  <2> QED BY <1>1, <1>3, <2>1, DeliveryStands
<1> QED BY <1>4, <1>5

LEMMA DoneStands ==
  ASSUME WindowInv, Screens!DeliverDone
  PROVE  WindowInv'
<1>1. /\ calls # <<>> /\ Head(calls).answer # "none"
      /\ Head(calls).cmd \in {"import_wallet", "unlock_wallet", "lock_wallet", "forget_wallet"}
      /\ UNCHANGED <<file, opened, unread, status, page, revealed>>
  BY DEF Screens!DeliverDone, Screens!Arrived, Screens!appVars
<1>2. Head(calls) = calls[1] /\ 1 \in DOMAIN calls
  BY <1>1 DEF WindowInv, WindowTypes
<1>6. Len(calls) \in Nat /\ DOMAIN calls = 1 .. Len(calls)
  BY DEF WindowInv, WindowTypes
<1>3. IF Head(calls).answer # "error" THEN Screens!Then("wallet_status") ELSE calls' = Tail(calls)
  BY DEF Screens!DeliverDone, Screens!Succeeded
<1>4. CASE Head(calls).cmd = "import_wallet"
  <2>1. Is(1, Saves)
    BY <1>2, <1>4 DEF Is, Saves
  <2>2. /\ Saving(1) /\ page # "create-reveal"
        /\ \A k \in DOMAIN calls : k # 1 => Is(k, {"wallet_status"})
    BY <1>1, <2>1, SaveIsLast
  <2>3. CASE Head(calls).answer # "error"
    <3>1. /\ calls' \in Seq(Call) /\ calls' # <<>> /\ InOrder' /\ Len(calls) \in Nat
          /\ DOMAIN calls' = 1 .. Len(calls)
          /\ \A k \in 1 .. Len(calls) - 1 : calls'[k] = calls[k + 1] /\ k + 1 \in DOMAIN calls
          /\ calls'[Len(calls)].cmd = "wallet_status" /\ calls'[Len(calls)].answer = "none"
      BY <1>1, <1>3, <2>3, ThenPoints
    <3>2. opened = file
      BY <1>1, <1>2, <2>2, <2>3 DEF Saving
    <3>6. ASSUME NEW k \in Nat, Superseded(k + 1) PROVE Superseded(k)'
      <4>1. \A m \in 1 .. Len(calls) - 1 : m \in DOMAIN calls' /\ calls'[m] = calls[m + 1]
        BY <3>1
      <4> QED BY <1>1, <1>6, <3>1, <3>6, <4>1, CorrectionMoves DEF Kept
    <3>3. ASSUME NEW k \in DOMAIN calls'
          PROVE  /\ calls'[k].cmd = "wallet_status"
                 /\ calls'[k].answer = "needs-setup" => Superseded(k)'
      <4>1. CASE k = Len(calls)
        BY <3>1, <4>1
      <4>2. CASE k # Len(calls)
        <5>1. k \in 1 .. Len(calls) - 1 /\ k + 1 # 1
          BY <3>1, <4>2
        <5>2. calls'[k] = calls[k + 1] /\ k + 1 \in DOMAIN calls /\ Is(k + 1, {"wallet_status"})
          BY <2>2, <3>1, <5>1
        <5>3. calls'[k].answer = "needs-setup" => Superseded(k + 1)
          BY <5>2 DEF WindowInv, StatusWasTrue
        <5> QED BY <3>1, <3>6, <5>1, <5>2, <5>3 DEF Is
      <4> QED BY <4>1, <4>2
    <3>4. OnlyRefreshing(DOMAIN calls)'
      BY <3>3 DEF OnlyRefreshing, Is
    <3>5. Revealing' /\ Occupied'
      BY <1>1, <2>2, <3>1, <3>2, <3>4 DEF Revealing, Occupied
    <3> QED BY <1>1, <3>1, <3>3, <3>4, <3>5, OnlyRefreshesLeft
  <2>4. CASE Head(calls).answer = "error"
    <3>1. calls' = Tail(calls)
      BY <1>3, <2>4
    <3> QED BY <1>1, <2>1, <2>4, <3>1, FailedSaveStands
  <2> QED BY <2>3, <2>4
<1>5. CASE Head(calls).cmd # "import_wallet"
  <2>1. ~Is(1, Saves) /\ ~Is(1, {"wallet_status"}) /\ ~LiveSecret(1)
    BY <1>1, <1>2, <1>5 DEF Is, Saves, LiveSecret
  <2>2. busy' # busy => status = "needs-unlock"
    BY <1>2, <1>5 DEF Screens!DeliverDone, WindowInv, UnlocksAreOfTheirScreen, Is
  <2> QED BY <1>1, <1>3, <2>1, <2>2, DeliveryStands
<1> QED BY <1>4, <1>5

LEMMA StatusStands ==
  ASSUME WindowInv, Screens!DeliverStatus
  PROVE  WindowInv'
<1>1. /\ calls # <<>> /\ Head(calls).cmd = "wallet_status" /\ Head(calls).answer # "none"
      /\ UNCHANGED <<file, opened, unread>>
  BY DEF Screens!DeliverStatus, Screens!Arrived, Screens!appVars
<1>2. /\ calls \in Seq(Call) /\ Head(calls) = calls[1] /\ 1 \in DOMAIN calls
      /\ DOMAIN calls = 1 .. Len(calls) /\ Len(calls) \in Nat
  BY <1>1 DEF WindowInv, WindowTypes
<1>3. Is(1, {"wallet_status"}) /\ ~Is(1, Saves) /\ ~LiveSecret(1)
  BY <1>1, <1>2 DEF Is, Saves, LiveSecret
<1>4. CASE Head(calls).answer = status
  <2>1. calls' = Tail(calls) /\ UNCHANGED <<status, page, busy, revealed>>
    BY <1>4 DEF Screens!DeliverStatus, Screens!screenVars
  <2> QED BY <1>1, <1>2, <1>3, <1>4, <2>1, DeliveryStands
<1>5. CASE Head(calls).answer # status
  <2>1. /\ status' = calls[1].answer /\ page' = "choose"
        /\ calls' = [k \in 1 .. Len(calls) - 1 |-> [calls[k + 1] EXCEPT !.live = FALSE]]
    BY <1>2, <1>5 DEF Screens!DeliverStatus
  <2>2. ASSUME NEW k \in 1 .. Len(calls) - 1
        PROVE  /\ k + 1 \in DOMAIN calls /\ k + 1 # 1 /\ calls'[k] \in Call
               /\ calls'[k].cmd = calls[k + 1].cmd /\ calls'[k].answer = calls[k + 1].answer
               /\ ~calls'[k].live
    <3>1. k + 1 \in DOMAIN calls /\ k + 1 # 1 /\ calls[k + 1] \in Call
      BY <1>2
    <3>2. calls'[k] = [calls[k + 1] EXCEPT !.live = FALSE]
      BY <2>1
    <3> QED BY <3>1, <3>2 DEF Call
  <2>3. calls' \in Seq(Call) /\ DOMAIN calls' = 1 .. Len(calls) - 1
    BY <1>2, <2>1, <2>2
  <2>10. ASSUME NEW k \in Nat, Superseded(k + 1) PROVE Superseded(k)'
    <3>1. \A m \in 1 .. Len(calls) - 1 :
            /\ m \in DOMAIN calls'
            /\ calls'[m].cmd = calls[m + 1].cmd /\ calls'[m].answer = calls[m + 1].answer
      BY <2>2, <2>3
    <3> QED BY <1>1, <1>2, <2>10, <3>1, CorrectionMoves DEF Kept
  <2>4. WindowTypes'
    BY <1>1, <2>3 DEF WindowInv, WindowTypes
  <2>5. InOrder'
    <3> SUFFICES ASSUME NEW j \in DOMAIN calls', NEW k \in DOMAIN calls', j < k,
                        calls'[k].answer # "none"
                 PROVE  calls'[j].answer # "none"
      BY DEF InOrder
    <3>1. j + 1 < k + 1 /\ calls[k + 1].answer # "none"
      BY <1>2, <2>2, <2>3
    <3>2. calls[j + 1].answer # "none"
      BY <2>2, <2>3, <3>1 DEF WindowInv, InOrder
    <3> QED BY <2>2, <2>3, <3>2
  <2>6. StatusWasTrue'
    <3> SUFFICES ASSUME NEW k \in DOMAIN calls', Is(k, {"wallet_status"})',
                        calls'[k].answer = "needs-setup"
                 PROVE  Superseded(k)'
      BY DEF StatusWasTrue
    <3>1. Superseded(k + 1) /\ k \in Nat
      BY <2>2, <2>3 DEF WindowInv, StatusWasTrue, Is
    <3> QED BY <2>10, <3>1
  <2>7. UnlocksAreOfTheirScreen' /\ \A k \in DOMAIN calls' : ~LiveSecret(k)'
    BY <2>2, <2>3 DEF UnlocksAreOfTheirScreen, LiveSecret
  <2>8. \A k \in DOMAIN calls' : ~Is(k, Saves)'
    <3>1. \A k \in DOMAIN calls : k # 1 => ~Is(k, Saves)
      <4> SUFFICES ASSUME NEW k \in DOMAIN calls, k # 1, Is(k, Saves) PROVE FALSE
        OBVIOUS
      <4>1. Saving(k) /\ 1 < k
        BY <1>2 DEF WindowInv
      <4> QED BY <1>2, <1>3, <4>1 DEF Saving, Is
    <3> QED BY <2>2, <2>3, <3>1 DEF Is
  <2>9. Revealing' /\ Occupied'
    <3>1. status' = "needs-setup" => Superseded(0)'
      <4>1. status' = "needs-setup" => Superseded(1)
        BY <1>2, <1>3, <2>1 DEF WindowInv, StatusWasTrue
      <4> QED BY <2>10, <4>1
    <3> QED BY <2>1, <3>1 DEF Revealing, Occupied, Superseded
  <2> QED BY <2>4, <2>5, <2>6, <2>7, <2>8, <2>9 DEF WindowInv
<1> QED BY <1>4, <1>5

LEMMA DeliverStands ==
  ASSUME WindowInv, Screens!Deliver
  PROVE  WindowInv' /\ UNCHANGED file
<1>1. CASE Screens!DeliverRunning
  <2>1. /\ calls # <<>> /\ Head(calls).answer # "none" /\ calls' = Tail(calls)
        /\ Head(calls).cmd \in {"start_mining", "stop_mining", "miner_status"}
        /\ UNCHANGED <<file, opened, unread, status, page, busy, revealed>>
    BY <1>1 DEF Screens!DeliverRunning, Screens!Arrived, Screens!appVars
  <2>2. Head(calls) = calls[1]
    BY <2>1 DEF WindowInv, WindowTypes
  <2>3. ~Is(1, Saves) /\ ~Is(1, {"wallet_status"}) /\ ~LiveSecret(1)
    BY <2>1, <2>2 DEF Is, Saves, LiveSecret
  <2> QED BY <2>1, <2>3, DeliveryStands
<1>2. CASE ~Screens!DeliverRunning
  <2>1. UNCHANGED file
    BY <1>2 DEF Screens!Deliver, Screens!DeliverStatus, Screens!DeliverCreated,
         Screens!DeliverSecret, Screens!DeliverDone, Screens!appVars
  <2> QED BY <1>2, <2>1, StatusStands, CreatedStands, SecretStands, DoneStands DEF Screens!Deliver
<1> QED BY <1>1, <1>2

LEMMA WindowInductive ==
  ASSUME WindowInv, [Screens!Next]_Screens!vars
  PROVE  WindowInv' /\ (Kept => file' \in {file, NoWallet})
<1>1. CASE UNCHANGED <<file, opened, unread, calls, status, page, busy, revealed>>
  BY <1>1 DEF WindowInv, WindowTypes, InOrder, StatusWasTrue, UnlocksAreOfTheirScreen,
       Saving, Exporting, Revealing, Occupied, Is, LiveSecret, OnlyRefreshing, Corrected,
       Superseded, Kept
<1>2. CASE Screens!ThreadEnds \/ Screens!DeliverEvent \/ UNCHANGED Screens!vars
  BY <1>1, <1>2 DEF Screens!ThreadEnds, Screens!DeliverEvent, Screens!vars, Screens!appVars,
       Screens!screenVars
<1> QED BY <1>2, UserStands, ExecuteStands, DeliverStands DEF Screens!Next

LEMMA WindowBehaves == MCSpec => Screens!Spec
<1>1. MCInit => Screens!Init
  BY DEF MCInit
<1>2. [MCNext]_<<part, vars, windowVars>> => [Screens!Next]_Screens!vars
  <2> SUFFICES ASSUME [MCNext]_<<part, vars, windowVars>> PROVE [Screens!Next]_Screens!vars
    OBVIOUS
  <2>1. Screens!Next \/ UNCHANGED windowVars
    BY DEF MCNext
  <2> QED BY <2>1 DEF windowVars, Screens!vars, Screens!appVars, Screens!minerVars, Screens!screenVars
<1> QED BY <1>1, <1>2, PTL DEF MCSpec, Screens!Spec

\* Whatever is clicked while commands and answers are under way, the wizard
\* overwrites no wallet that could be read when it was put up, and the wallet it asks the user to back
\* up is the one in the file.
THEOREM TheWizardIsSafe == MCSpec => BackedUpIsStored
<1>1. Screens!Init => WindowInv
  <2> SUFFICES ASSUME Screens!Init PROVE WindowInv
    OBVIOUS
  <2>1. /\ file \in Wallets \cup {NoWallet} /\ opened = NoWallet
        /\ calls = <<Screens!NewCall("wallet_status", NoWallet)>>
        /\ status = "loading" /\ page = "choose"
    BY DEF Screens!Init
  <2>2. /\ Screens!NewCall("wallet_status", NoWallet) \in Call
        /\ Screens!NewCall("wallet_status", NoWallet).cmd = "wallet_status"
        /\ Screens!NewCall("wallet_status", NoWallet).answer = "none"
    BY NewCalls DEF Commands
  <2>3. calls \in Seq(Call) /\ DOMAIN calls = {1} /\ calls[1].cmd = "wallet_status"
        /\ calls[1].answer = "none"
    BY <2>1, <2>2
  <2>4. WindowTypes /\ InOrder
    BY <2>1, <2>3 DEF WindowTypes, InOrder
  <2> QED BY <2>1, <2>3, <2>4 DEF WindowInv, StatusWasTrue, UnlocksAreOfTheirScreen, Revealing,
       Occupied, Is, Saves, LiveSecret
<1>2. WindowInv /\ [Screens!Next]_Screens!vars => WindowInv'
  BY WindowInductive
<1>3. WindowInv /\ WindowInv' /\ [Screens!Next]_Screens!vars =>
        [/\ file \in Wallets /\ file' \notin {file, NoWallet} => unread
         /\ page' = "create-reveal" => file' = revealed' /\ opened' = revealed']_Screens!vars
  <2> SUFFICES ASSUME WindowInv, WindowInv', [Screens!Next]_Screens!vars
               PROVE  /\ file \in Wallets /\ file' \notin {file, NoWallet} => unread
                      /\ page' = "create-reveal" => file' = revealed' /\ opened' = revealed'
    OBVIOUS
  <2>1. page' = "create-reveal" => file' = revealed' /\ opened' = revealed'
    BY DEF WindowInv, Revealing
  <2> QED BY <2>1, WindowInductive DEF Kept
<1> QED BY <1>1, <1>2, <1>3, WindowBehaves, PTL DEF Screens!Spec, BackedUpIsStored, Screens!BackedUpIsStored
=============================================================================
