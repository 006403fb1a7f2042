--------------------------- MODULE BrowserWallet ---------------------------
(***************************************************************************)
(* The browser wallet of the website: the encrypted key in localStorage    *)
(* (lib/wallet-crypto.ts), the React state every open tab keeps of it      *)
(* (lib/wallet-context.tsx) and the screens that drive it (wallet/         *)
(* SetupWizard, UnlockScreen, WalletMenu).                                 *)
(*                                                                         *)
(* A stored blob is known by the key it encrypts.  Deriving the AES key    *)
(* takes long enough for the user to press other buttons, or to leave the  *)
(* page and come back: setting up and unlocking are split at that await,   *)
(* and each is a job with a slot of its own.  The provider of the state    *)
(* lives in the mining page: leaving it by a link unmounts the provider    *)
(* while the tab, and what it awaits, go on.  Tabs share the storage and   *)
(* nothing tells one of what another wrote.                                *)
(***************************************************************************)
CONSTANTS
  Tabs,   \* tabs of the site in one browser
  Keys,   \* keypairs
  Jobs,   \* bound of the model: slots of the key derivations under way at once
  None    \* no key, no tab

ASSUME WalletAssumption == None \notin Keys \cup Tabs

VARIABLES
  storage,     \* localStorage: the key of the stored blob
  \* -- per tab: the context's state; "loading" also while the page is not shown --
  status, stored, loaded,
  \* -- per tab: the wizard --
  mode, draft,
  job,         \* slot -> a key derivation under way: where its continuation ends
  \* -- kept for the properties --
  raced,       \* tab -> whether the wallet was removed while being unlocked
  fresh,       \* tabs that read or wrote the storage after everybody else's writes
  saved        \* keys whose secret the user has outside the browser

stateVars == <<status, stored, loaded>>
wizardVars == <<mode, draft>>
vars == <<storage, stateVars, wizardVars, job, raced, fresh, saved>>

OptKey == Keys \cup {None}

\* A job: an unlock, or an install whose wizard is still shown ("screen"), whose
\* wizard is gone ("page"), or whose provider is gone too ("gone").
Stages == {"free", "screen", "page", "gone", "unlock"}
NoJob == [at |-> "free", tab |-> None, key |-> None]
Job(where, t, k) == [at |-> where, tab |-> t, key |-> k]

TypeOK ==
  /\ storage \in OptKey
  /\ status \in [Tabs -> {"loading", "needs-setup", "needs-unlock", "unlocked"}]
  /\ stored \in [Tabs -> OptKey] /\ loaded \in [Tabs -> OptKey]
  /\ mode \in [Tabs -> {"choose", "backup", "password", "import"}]
  /\ draft \in [Tabs -> OptKey]
  /\ job \in [Jobs -> [at : Stages, tab : Tabs \cup {None}, key : OptKey]]
  /\ \A j \in Jobs : IF job[j].at = "free" THEN job[j] = NoJob ELSE job[j].tab \in Tabs
  /\ raced \in [Tabs -> BOOLEAN] /\ fresh \subseteq Tabs
  /\ saved \subseteq Keys
  /\ \A t \in Tabs : status[t] = "needs-unlock" => stored[t] # None
  /\ \A t \in Tabs : mode[t] = "password" => draft[t] \in saved

\* The user may bring keys of their own.
Init ==
  /\ storage = None
  /\ status = [t \in Tabs |-> "loading"]
  /\ stored = [t \in Tabs |-> None]
  /\ loaded = [t \in Tabs |-> None]
  /\ mode = [t \in Tabs |-> "choose"]
  /\ draft = [t \in Tabs |-> None]
  /\ job = [j \in Jobs |-> NoJob]
  /\ raced = [t \in Tabs |-> FALSE] /\ fresh = {}
  /\ saved \in SUBSET Keys

\* setState with a whole new state.
SetState(t, s, blob, key) ==
  /\ status' = [status EXCEPT ![t] = s]
  /\ stored' = [stored EXCEPT ![t] = blob]
  /\ loaded' = [loaded EXCEPT ![t] = key]

\* The wizard's own state goes with its screen.
DropWizard(t) ==
  /\ mode' = [mode EXCEPT ![t] = "choose"]
  /\ draft' = [draft EXCEPT ![t] = None]

-----------------------------------------------------------------------------
(* The provider comes and goes *)

\* The mount effect of the provider reads what is stored, or fails to: whatever
\* loadStoredWallet cannot read is no wallet.
Mount(t, readable) ==
  /\ status[t] = "loading"
  /\ LET blob == IF readable THEN storage ELSE None IN
     SetState(t, IF blob = None THEN "needs-setup" ELSE "needs-unlock", blob, None)
  /\ fresh' = IF readable THEN fresh \cup {t} ELSE fresh \ {t}
  /\ UNCHANGED <<storage, wizardVars, job, raced, saved>>

\* The provider is gone, with its state, its screens, and who awaits them.
Unmount(t) ==
  /\ SetState(t, "loading", None, None)
  /\ DropWizard(t)
  /\ raced' = [raced EXCEPT ![t] = FALSE]
  /\ fresh' = fresh \ {t}
  /\ UNCHANGED <<storage, saved>>

\* Another page of the site, by a link: an install under way will still write the
\* storage, then call setState of a provider that is not there; an unlock has
\* nothing but the setState.
Leave(t) ==
  /\ status[t] # "loading"
  /\ Unmount(t)
  /\ job' = [j \in Jobs |->
       IF job[j].tab # t THEN job[j]
       ELSE IF job[j].at = "unlock" THEN NoJob ELSE [job[j] EXCEPT !.at = "gone"]]

\* The page is reloaded, or the tab closed and opened: what was in memory is gone.
Reload(t) ==
  /\ Unmount(t)
  /\ job' = [j \in Jobs |-> IF job[j].tab = t THEN NoJob ELSE job[j]]

-----------------------------------------------------------------------------
(* SetupWizard *)

InWizard(t, m) == status[t] = "needs-setup" /\ mode[t] = m

\* The wizard's `busy`: its password pages have their buttons disabled.
Busy(t) == \E j \in Jobs : job[j].tab = t /\ job[j].at = "screen"

\* A derivation is started in a free slot.
Begin(j, new) ==
  /\ job[j] = NoJob
  /\ job' = [job EXCEPT ![j] = new]

\* startCreate: a fresh key, to be backed up before anything else.
StartCreate(t, k) ==
  /\ InWizard(t, "choose")
  /\ k \notin saved /\ \A u \in Tabs : k # draft[u]
  /\ draft' = [draft EXCEPT ![t] = k]
  /\ mode' = [mode EXCEPT ![t] = "backup"]
  /\ UNCHANGED <<storage, stateVars, job, raced, fresh, saved>>

\* "I've saved my secret key somewhere safe", and Continue.
ContinueSaved(t) ==
  /\ InWizard(t, "backup")
  /\ saved' = saved \cup {draft[t]}
  /\ mode' = [mode EXCEPT ![t] = "password"]
  /\ UNCHANGED <<storage, stateVars, draft, job, raced, fresh>>

\* The Back buttons; the first page of the wizard drops the draft.
Back(t) ==
  /\ ~Busy(t)
  /\ \/ InWizard(t, "password") /\ mode' = [mode EXCEPT ![t] = "backup"] /\ UNCHANGED draft
     \/ (InWizard(t, "backup") \/ InWizard(t, "import")) /\ DropWizard(t)
  /\ UNCHANGED <<storage, stateVars, job, raced, fresh, saved>>

ChooseImport(t) ==
  /\ InWizard(t, "choose")
  /\ mode' = [mode EXCEPT ![t] = "import"]
  /\ UNCHANGED <<storage, stateVars, draft, job, raced, fresh, saved>>

\* Mutant: createWithPassword, which makes a key of its own.
DoCreateAnother(t, j) ==
  /\ InWizard(t, "password") /\ ~Busy(t)
  /\ \E k \in Keys : Begin(j, Job("screen", t, k))
  /\ UNCHANGED <<storage, stateVars, wizardVars, raced, fresh, saved>>

\* doCreate: adoptKeypair with the very key that was shown.
DoCreate(t, j) ==
  /\ InWizard(t, "password") /\ ~Busy(t)
  /\ Begin(j, Job("screen", t, draft[t]))
  /\ UNCHANGED <<storage, stateVars, wizardVars, raced, fresh, saved>>

\* doImport: importWithPassword with a key the user has.
DoImport(t, k, j) ==
  /\ InWizard(t, "import") /\ ~Busy(t)
  /\ k \in saved
  /\ Begin(j, Job("screen", t, k))
  /\ UNCHANGED <<storage, stateVars, wizardVars, raced, fresh, saved>>

\* The tab shows the wallet: a wizard on the screen goes, and its install goes on.
OffScreen(t) ==
  [j \in Jobs |-> IF job[j].tab = t /\ job[j].at = "screen"
                  THEN [job[j] EXCEPT !.at = "page"] ELSE job[j]]

\* persistWallet after the encryption: the blob replaces what is stored, by this
\* tab or another, or the storage throws.
Store(j, ok) ==
  /\ job[j].at \in {"screen", "page", "gone"}
  /\ storage' = IF ok THEN job[j].key ELSE storage
  /\ UNCHANGED <<raced, saved>>

\* installWallet: the blob is stored and the tab unlocked.
Persist(j) ==
  LET t == job[j].tab IN
  /\ job[j].at # "gone" /\ Store(j, TRUE)
  /\ SetState(t, "unlocked", job[j].key, job[j].key)
  /\ DropWizard(t)
  /\ job' = [OffScreen(t) EXCEPT ![j] = NoJob]
  /\ fresh' = {t}

\* installWallet of a provider that was unmounted: stored, and nobody is told.
PersistUnseen(j) ==
  /\ job[j].at = "gone" /\ Store(j, TRUE)
  /\ job' = [job EXCEPT ![j] = NoJob]
  /\ fresh' = {}
  /\ UNCHANGED <<stateVars, wizardVars>>

\* The storage throws: an error is shown, where there is still a screen.
PersistFails(j) ==
  /\ Store(j, FALSE)
  /\ job' = [job EXCEPT ![j] = NoJob]
  /\ UNCHANGED <<stateVars, wizardVars, fresh>>

-----------------------------------------------------------------------------
(* UnlockScreen and WalletMenu *)

\* submit, by the button or by Enter, which does not ask whether an unlock is
\* under way: decrypts the blob this tab knows.
Unlock(t, j) ==
  /\ status[t] = "needs-unlock"
  /\ Begin(j, Job("unlock", t, stored[t]))
  /\ UNCHANGED <<storage, stateVars, wizardVars, raced, fresh, saved>>

\* unlockWallet: the key the blob encrypts, which is checked against the blob's
\* public key, or an exception: a wrong password, a blob that is corrupt.
UnlockWallet(blob, right) == IF right THEN blob ELSE None

\* unlock() after its await: the state is updated as it is by now; the wizard,
\* if it is shown, goes with its draft.
Unlocked(j, right) ==
  LET t == job[j].tab
      key == UnlockWallet(job[j].key, right)
  IN  /\ job[j].at = "unlock"
      /\ IF key # None
         THEN /\ SetState(t, "unlocked", stored[t], key)
              /\ DropWizard(t)
              /\ job' = [OffScreen(t) EXCEPT ![j] = NoJob]
         ELSE /\ job' = [job EXCEPT ![j] = NoJob]
              /\ UNCHANGED <<stateVars, wizardVars>>
      /\ UNCHANGED <<storage, raced, fresh, saved>>

\* lock(): drops the key, if the tab knows a blob to unlock again.
DropKey(t) ==
  /\ stored[t] # None
  /\ SetState(t, "needs-unlock", stored[t], None)

\* The Lock button.
Lock(t) ==
  /\ status[t] = "unlocked"
  /\ DropKey(t)
  /\ UNCHANGED <<storage, wizardVars, job, raced, fresh, saved>>

Unlocking(t) == \E j \in Jobs : job[j].tab = t /\ job[j].at = "unlock"

\* Mutant: forget() leaves the blob where it is.
ForgetScreenOnly(t) ==
  /\ status[t] = "needs-unlock"
  /\ fresh' = {t}
  /\ SetState(t, "needs-setup", None, None)
  /\ raced' = [raced EXCEPT ![t] = @ \/ Unlocking(t)]
  /\ UNCHANGED <<storage, wizardVars, job, saved>>

\* forget(), "Yes, remove it", which an unlock under way does not disable.
Forget(t) ==
  /\ status[t] = "needs-unlock"
  /\ storage' = None /\ fresh' = {t}
  /\ SetState(t, "needs-setup", None, None)
  /\ raced' = [raced EXCEPT ![t] = @ \/ Unlocking(t)]
  /\ UNCHANGED <<wizardVars, job, saved>>

\* signTransaction, exportSecret: the key in memory, if there is one.
SigningKey(t) == loaded[t]

-----------------------------------------------------------------------------
Next ==
  \/ \E t \in Tabs :
       \/ \E b \in BOOLEAN : Mount(t, b)
       \/ Leave(t) \/ Reload(t) \/ ContinueSaved(t) \/ Back(t) \/ ChooseImport(t)
       \/ \E k \in Keys : StartCreate(t, k)
       \/ Lock(t) \/ Forget(t)
  \/ \E t \in Tabs, j \in Jobs :
       DoCreate(t, j) \/ Unlock(t, j) \/ \E k \in Keys : DoImport(t, k, j)
  \/ \E j \in Jobs :
       \/ Persist(j) \/ PersistUnseen(j) \/ PersistFails(j)
       \/ \E b \in BOOLEAN : Unlocked(j, b)

Spec == Init /\ [][Next]_vars

-----------------------------------------------------------------------------
\* A wallet cannot be lost with the browser: every key that is stored, or that
\* a tab mines or signs with, is one the user holds elsewhere; the key that was
\* shown and confirmed in the wizard is the key that gets installed, in
\* whatever order tabs, back buttons, page changes and encryptions go.
InstalledWasSaved ==
  /\ storage \in saved \cup {None}
  /\ \A t \in Tabs : {stored[t], SigningKey(t)} \subseteq saved \cup {None}

\* A tab holds a key only while it shows the wallet unlocked, and then it is
\* the key of the blob the tab would unlock again after lock(), unless the user
\* removed a wallet while it was being unlocked; and a tab that read or wrote the
\* storage after everybody else knows what it holds: no second unlock, failed
\* write, change of page, late unlock or removal leaves its view behind.  (An
\* install whose provider was unmounted is such a write by somebody else.)
UnlockedIsStored ==
  \A t \in Tabs :
    /\ status[t] # "unlocked" => loaded[t] = None
    /\ status[t] = "unlocked" /\ ~raced[t] => stored[t] # None /\ loaded[t] = stored[t]
    /\ t \in fresh => stored[t] = storage
=============================================================================
