--------------------------- MODULE Website_proofs ---------------------------
(***************************************************************************)
(* Theorems about the parts of the website (module MCWebsite), for any     *)
(* number of tabs, keys, payments, requests and calls, and any times.      *)
(***************************************************************************)
EXTENDS MCWebsite, InductionLemmas, FiniteSetTheorems, FunctionTheorems, SequenceTheorems, TLAPS

-----------------------------------------------------------------------------
\* The browser wallet.  Its two properties are not inductive: a key is installed,
\* or a view updated, after an await, from what was put aside before it.  WInv says
\* what holds of the keys put aside.

\* Keys that are shown, encrypted or decrypted were saved, or will be before
\* the wizard can go on.
KeysPutAside ==
  /\ \A t \in Tabs : mode[t] = "backup" => draft[t] # None
  /\ \A j \in Jobs : job[j].at # "free" => job[j].key \in saved

\* One install per wizard.  Unless the user removed a wallet while it was being
\* unlocked, an install whose provider is there has its wizard too, and a tab that
\* decrypts a blob holds that very blob.
JobFits(j, t) ==
  /\ job[j].at = "screen" => \A i \in Jobs : job[i].at = "screen" /\ job[i].tab = t => i = j
  /\ job[j].at # "free" /\ ~raced[t] =>
       /\ job[j].at # "page"
       /\ job[j].at = "screen" => status[t] = "needs-setup"
       /\ job[j].at = "unlock" =>
            status[t] \in {"needs-unlock", "unlocked"} /\ job[j].key = stored[t]

JobsFitTheScreen == \A j \in Jobs : JobFits(j, job[j].tab)

\* The inductive invariant.
WInv == TypeOK /\ InstalledWasSaved /\ UnlockedIsStored /\ KeysPutAside /\ JobsFitTheScreen

USE WalletAssumption

LEMMA InitWInv == Init => WInv
BY DEF Init, WInv, TypeOK, OptKey, Stages, NoJob, InstalledWasSaved, UnlockedIsStored,
       KeysPutAside, JobsFitTheScreen, JobFits, SigningKey

JobTypes == [at : Stages, tab : Tabs \cup {None}, key : OptKey]

\* What is left of the jobs of a page: installs that nobody sees end.
LEMMA JobsLeft ==
  ASSUME TypeOK, NEW t \in Tabs, Leave(t)
  PROVE  /\ job' \in [Jobs -> JobTypes]
         /\ \A i \in Jobs :
              \/ job'[i] = job[i] /\ job[i].tab # t
              \/ job'[i] = NoJob
              \/ /\ job[i].tab = t /\ job[i].at # "free"
                 /\ job'[i].tab = t /\ job'[i].key = job[i].key /\ job'[i].at = "gone"
<1>1. job' = [j \in Jobs |->
               IF job[j].tab # t THEN job[j]
               ELSE IF job[j].at = "unlock" THEN NoJob ELSE [job[j] EXCEPT !.at = "gone"]]
  BY DEF Leave
<1>2. NoJob \in JobTypes
  BY DEF NoJob, JobTypes, Stages, OptKey
<1>3. ASSUME NEW i \in Jobs
      PROVE  /\ job'[i] \in JobTypes
             /\ \/ job'[i] = job[i] /\ job[i].tab # t
                \/ job'[i] = NoJob
                \/ /\ job[i].tab = t /\ job[i].at # "free"
                   /\ job'[i].tab = t /\ job'[i].key = job[i].key /\ job'[i].at = "gone"
  <2>1. job[i] \in JobTypes /\ (job[i].tab = t => job[i].at # "free")
    BY DEF TypeOK, JobTypes, NoJob
  <2>2. CASE job[i].tab # t
    BY <1>1, <2>1, <2>2
  <2>3. CASE job[i].tab = t /\ job[i].at = "unlock"
    BY <1>1, <1>2, <2>3
  <2>4. CASE job[i].tab = t /\ job[i].at # "unlock"
    <3>1. job'[i] = [job[i] EXCEPT !.at = "gone"]
      BY <1>1, <2>4
    <3> QED BY <3>1, <2>1, <2>4 DEF JobTypes, Stages
  <2> QED BY <2>2, <2>3, <2>4
<1>4. job' \in [Jobs -> JobTypes]
  BY <1>1, <1>3
<1> QED BY <1>3, <1>4

\* The provider comes and goes; what it leaves behind is an install at most.
LEMMA ProviderWInv ==
  ASSUME WInv, NEW t \in Tabs, Leave(t) \/ Reload(t) \/ \E b \in BOOLEAN : Mount(t, b)
  PROVE  WInv'
<1> USE DEF WInv, TypeOK, OptKey, Stages, NoJob, InstalledWasSaved, UnlockedIsStored,
        KeysPutAside, JobsFitTheScreen, JobFits, JobTypes, SetState, DropWizard, SigningKey,
        stateVars, wizardVars
<1>1. CASE Leave(t)
  <2>1. TypeOK' /\ InstalledWasSaved' /\ KeysPutAside' /\ UnlockedIsStored'
    <3>1. TypeOK'
      BY <1>1, JobsLeft DEF Leave, Unmount
    <3>2. InstalledWasSaved' /\ KeysPutAside'
      BY <1>1, JobsLeft DEF Leave, Unmount
    <3>3. UnlockedIsStored'
      BY <1>1, JobsLeft DEF Leave, Unmount
    <3> QED BY <3>1, <3>2, <3>3
  <2>2. JobsFitTheScreen'
    BY <1>1, JobsLeft DEF Leave, Unmount
  <2> QED BY <2>1, <2>2
<1>2. CASE Reload(t)
  BY <1>2 DEF Reload, Unmount
<1>3. ASSUME NEW b \in BOOLEAN, Mount(t, b) PROVE WInv'
  <2>1. PICK blob \in {storage, None} :
          /\ status[t] = "loading"
          /\ status' = [status EXCEPT ![t] = IF blob = None THEN "needs-setup" ELSE "needs-unlock"]
          /\ stored' = [stored EXCEPT ![t] = blob] /\ loaded' = [loaded EXCEPT ![t] = None]
          /\ fresh' \subseteq fresh \cup {t} /\ (t \in fresh' => blob = storage)
          /\ UNCHANGED <<storage, mode, draft, job, raced, saved>>
    BY <1>3 DEF Mount
  <2>2. TypeOK' /\ InstalledWasSaved' /\ KeysPutAside'
    BY <2>1
  <2>3. t \in fresh' => stored'[t] = storage'
    BY <2>1
  <2>4. UnlockedIsStored'
    BY <2>1, <2>3
  <2>5. JobsFitTheScreen'
    BY <2>1
  <2> QED BY <2>2, <2>4, <2>5
<1> QED BY <1>1, <1>2, <1>3

\* The wizard's pages.
LEMMA WizardWInv ==
  ASSUME WInv, NEW t \in Tabs,
         \/ ContinueSaved(t) \/ Back(t) \/ ChooseImport(t) \/ \E k \in Keys : StartCreate(t, k)
         \/ \E j \in Jobs : DoCreate(t, j) \/ \E k \in Keys : DoImport(t, k, j)
  PROVE  WInv'
<1> USE DEF WInv, TypeOK, OptKey, Stages, NoJob, InstalledWasSaved, UnlockedIsStored,
        KeysPutAside, JobsFitTheScreen, JobFits, InWizard, SigningKey, stateVars, wizardVars
<1>1. CASE ContinueSaved(t)
  BY <1>1 DEF ContinueSaved
<1>2. CASE Back(t)
  BY <1>2 DEF Back, DropWizard
<1>3. CASE ChooseImport(t)
  BY <1>3 DEF ChooseImport
<1>4. ASSUME NEW k \in Keys, StartCreate(t, k) PROVE WInv'
  BY <1>4 DEF StartCreate
<1>5. ASSUME NEW j \in Jobs, DoCreate(t, j) PROVE WInv'
  BY <1>5 DEF DoCreate, Begin, Busy, Job
<1>6. ASSUME NEW j \in Jobs, NEW k \in Keys, DoImport(t, k, j) PROVE WInv'
  BY <1>6 DEF DoImport, Begin, Busy, Job
<1> QED BY <1>1, <1>2, <1>3, <1>4, <1>5, <1>6

\* Unlocks begun, locks and removals.
LEMMA ScreenWInv ==
  ASSUME WInv, NEW t \in Tabs, Lock(t) \/ Forget(t) \/ \E j \in Jobs : Unlock(t, j)
  PROVE  WInv'
<1> USE DEF WInv, TypeOK, OptKey, Stages, NoJob, InstalledWasSaved, UnlockedIsStored,
        KeysPutAside, JobsFitTheScreen, JobFits, JobTypes, SetState, SigningKey, stateVars, wizardVars
<1>1. ASSUME NEW j \in Jobs, Unlock(t, j) PROVE WInv'
  BY <1>1 DEF Unlock, Begin, Job
<1>2. CASE Lock(t)
  BY <1>2 DEF Lock, DropKey
<1>3. CASE Forget(t)
  <2>1. /\ raced' \in [Tabs -> BOOLEAN]
        /\ \A u \in Tabs : ~raced'[u] => ~raced[u]
        /\ ~raced'[t] => \A j \in Jobs : job[j].tab = t => job[j].at # "unlock"
    BY <1>3 DEF Forget, Unlocking
  <2>2. TypeOK'
    BY <1>3, <2>1 DEF Forget
  <2>3. InstalledWasSaved' /\ KeysPutAside'
    BY <1>3 DEF Forget
  <2>4. UnlockedIsStored'
    BY <1>3, <2>1 DEF Forget
  <2>5. JobsFitTheScreen'
    BY <1>3, <2>1 DEF Forget
  <2> QED BY <2>2, <2>3, <2>4, <2>5
<1> QED BY <1>1, <1>2, <1>3

\* What is left of the jobs when the tab of one of them shows the wallet.
OffScreenNext(j, t) ==
  /\ job' \in [Jobs -> JobTypes]
  /\ job'[j] = NoJob
  /\ \A i \in Jobs \ {j} :
       \/ job'[i] = job[i] /\ ~(job[i].tab = t /\ job[i].at = "screen")
       \/ /\ job[i].tab = t /\ job[i].at = "screen"
          /\ job'[i].tab = t /\ job'[i].key = job[i].key /\ job'[i].at = "page"

LEMMA OffScreenJobs ==
  ASSUME WInv, NEW j \in Jobs, NEW t \in Tabs, job' = [OffScreen(t) EXCEPT ![j] = NoJob]
  PROVE  OffScreenNext(j, t)
<1>1. ASSUME NEW i \in Jobs
      PROVE  OffScreen(t)[i] = IF job[i].tab = t /\ job[i].at = "screen"
                               THEN [job[i] EXCEPT !.at = "page"] ELSE job[i]
  BY DEF OffScreen
<1>2. ASSUME NEW i \in Jobs
      PROVE  /\ OffScreen(t)[i] \in JobTypes
             /\ \/ /\ OffScreen(t)[i] = job[i] /\ ~(job[i].tab = t /\ job[i].at = "screen")
                \/ /\ job[i].tab = t /\ job[i].at = "screen" /\ OffScreen(t)[i].tab = t
                   /\ OffScreen(t)[i].key = job[i].key /\ OffScreen(t)[i].at = "page"
  BY <1>1 DEF WInv, TypeOK, JobTypes, Stages
<1>3. OffScreen(t) \in [Jobs -> JobTypes]
  <2>1. DOMAIN OffScreen(t) = Jobs /\ OffScreen(t) = [i \in Jobs |-> OffScreen(t)[i]]
    BY DEF OffScreen
  <2> QED BY <2>1, <1>2
<1>4. NoJob \in JobTypes
  BY DEF NoJob, JobTypes, Stages, OptKey
<1> QED BY <1>2, <1>3, <1>4 DEF OffScreenNext

\* The other jobs of a tab that shows its wallet.
ShownNext ==
  /\ JobsFitTheScreen'
  /\ job' \in [Jobs -> JobTypes]
  /\ \A i \in Jobs :
       IF job'[i].at = "free" THEN job'[i] = NoJob
       ELSE job'[i].tab \in Tabs /\ job'[i].key \in saved

LEMMA ShownJobs ==
  ASSUME WInv, NEW j \in Jobs, NEW t \in Tabs, NEW blob \in OptKey,
         job[j].tab = t, job' = [OffScreen(t) EXCEPT ![j] = NoJob], raced' = raced,
         status' = [status EXCEPT ![t] = "unlocked"], stored' = [stored EXCEPT ![t] = blob],
         job[j].at \in {"screen", "page"} \/ (job[j].at = "unlock" /\ blob = stored[t])
  PROVE  ShownNext
<1>1. OffScreenNext(j, t)
  BY OffScreenJobs
<1>2. job' \in [Jobs -> JobTypes]
  BY <1>1 DEF OffScreenNext
<1>3. ASSUME NEW i \in Jobs
      PROVE  IF job'[i].at = "free" THEN job'[i] = NoJob
             ELSE job'[i].tab \in Tabs /\ job'[i].key \in saved
  <2>1. IF job[i].at = "free" THEN job[i] = NoJob ELSE job[i].tab \in Tabs /\ job[i].key \in saved
    BY DEF WInv, TypeOK, KeysPutAside
  <2>2. CASE i = j
    BY <1>1, <2>2 DEF OffScreenNext, NoJob
  <2>3. CASE i # j
    BY <1>1, <2>1, <2>3 DEF OffScreenNext
  <2> QED BY <2>2, <2>3
<1>4. JobFits(j, t)
  BY DEF WInv, JobsFitTheScreen
<1>5. ~raced[t] => \/ job[j].at = "screen" /\ status[t] = "needs-setup"
                   \/ job[j].at = "unlock" /\ blob = stored[t]
  BY <1>4 DEF JobFits
<1> USE DEF WInv, TypeOK, Stages, JobsFitTheScreen, JobFits
<1>6. ASSUME NEW i \in Jobs PROVE JobFits(i, job[i].tab)'
  <2>1. CASE i = j
    BY <2>1, <1>1 DEF OffScreenNext, NoJob
  <2>2. CASE i # j /\ job[i].tab = t /\ job[i].at = "screen"
    <3>1. job'[i].tab = t /\ job'[i].at = "page"
      BY <2>2, <1>1 DEF OffScreenNext
    <3>2. raced[t]
      BY <1>5, <2>2
    <3> QED BY <3>1, <3>2
  <2>3. CASE i # j /\ ~(job[i].tab = t /\ job[i].at = "screen")
    <3>1. job'[i] = job[i]
      BY <2>3, <1>1 DEF OffScreenNext
    <3>2. job[i].at = "screen" =>
            \A k \in Jobs : job'[k].at = "screen" /\ job'[k].tab = job[i].tab => k = i
      BY <1>1 DEF OffScreenNext, NoJob
    <3>3. CASE job[i].at # "free" /\ job[i].tab = t /\ ~raced[t]
      BY <1>5, <2>3, <3>1, <3>2, <3>3
    <3>4. CASE job[i].at # "free" /\ job[i].tab # t
      BY <3>1, <3>2, <3>4
    <3> QED BY <3>1, <3>2, <3>3, <3>4
  <2> QED BY <2>1, <2>2, <2>3
<1> QED BY <1>6, <1>2, <1>3 DEF ShownNext

\* Encryptions and decryptions that end.
LEMMA JobWInv ==
  ASSUME WInv, NEW j \in Jobs,
         \/ Persist(j) \/ PersistUnseen(j) \/ PersistFails(j)
         \/ \E b \in BOOLEAN : Unlocked(j, b)
  PROVE  WInv'
<1> DEFINE t == job[j].tab
<1> USE DEF WInv, TypeOK, OptKey, Stages, NoJob, InstalledWasSaved, UnlockedIsStored,
        KeysPutAside, JobsFitTheScreen, JobFits, JobTypes, SetState, DropWizard, SigningKey,
        stateVars, wizardVars
<1>1. CASE Persist(j)
  <2>1. /\ t \in Tabs /\ job[j].key \in saved
        /\ ~raced[t] => status[t] = "needs-setup"
    BY <1>1 DEF Persist, Store
  <2> HIDE DEF t
  <2>2. job' = [OffScreen(t) EXCEPT ![j] = NoJob]
    BY <1>1 DEF Persist, t
  <2>3. /\ status' = [status EXCEPT ![t] = "unlocked"] /\ raced' = raced
        /\ stored' = [stored EXCEPT ![t] = job[j].key] /\ job[j].at \in {"screen", "page"}
    BY <1>1, <2>1 DEF Persist, Store, t
  <2>4. job[j].key \in OptKey /\ job[j].tab = t
    BY <2>1 DEF t
  <2>5. ShownNext
    BY ONLY WInv, j \in Jobs, <2>1, <2>2, <2>3, <2>4, ShownJobs DEF ShownNext
  <2>6. TypeOK' /\ InstalledWasSaved' /\ KeysPutAside' /\ UnlockedIsStored'
    <3> DEFINE k == job[j].key
    <3>1. /\ SetState(t, "unlocked", k, k) /\ DropWizard(t) /\ fresh' = {t}
          /\ storage' = k /\ UNCHANGED <<raced, saved>>
      BY <1>1 DEF Persist, Store, t
    <3>2. t \in Tabs /\ k \in saved /\ k # None
      BY <2>1, WalletAssumption DEF WalletAssumption
    <3> HIDE DEF k
    <3>3. TypeOK'
      BY <2>5, <3>1, <3>2 DEF ShownNext
    <3>4. InstalledWasSaved' /\ KeysPutAside'
      BY <2>5, <3>1, <3>2 DEF ShownNext
    <3>5. UnlockedIsStored'
      BY <2>5, <3>1, <3>2 DEF ShownNext
    <3> QED BY <3>3, <3>4, <3>5
  <2> QED BY <2>5, <2>6 DEF ShownNext
<1>2. CASE PersistUnseen(j)
  BY <1>2 DEF PersistUnseen, Store
<1>3. CASE PersistFails(j)
  BY <1>3 DEF PersistFails, Store
<1>4. ASSUME NEW b \in BOOLEAN, Unlocked(j, b) PROVE WInv'
  <2>1. CASE b
    <3>1. t \in Tabs /\ job[j].key \in saved /\ job[j].key # None
      BY <1>4 DEF Unlocked
    <3>2. ~raced[t] => status[t] \in {"needs-unlock", "unlocked"} /\ job[j].key = stored[t]
      BY <1>4 DEF Unlocked
    <3> HIDE DEF t
    <3>3. job' = [OffScreen(t) EXCEPT ![j] = NoJob]
      BY <1>4, <2>1, <3>1 DEF Unlocked, UnlockWallet, t
    <3>4. ShownNext
      <4>1. /\ status' = [status EXCEPT ![t] = "unlocked"] /\ raced' = raced
            /\ stored' = [stored EXCEPT ![t] = stored[t]] /\ job[j].at = "unlock"
        BY <1>4, <2>1, <3>1 DEF Unlocked, UnlockWallet, t
      <4>2. stored[t] \in OptKey /\ job[j].tab = t
        BY <3>1 DEF t
      <4> QED BY ONLY WInv, j \in Jobs, <3>1, <3>3, <4>1, <4>2, ShownJobs DEF ShownNext
    <3>5. /\ SetState(t, "unlocked", stored[t], job[j].key) /\ DropWizard(t)
          /\ UNCHANGED <<storage, raced, fresh, saved>>
      BY <1>4, <2>1, <3>1 DEF Unlocked, UnlockWallet, t
    <3>6. TypeOK'
      BY <3>1, <3>4, <3>5 DEF ShownNext
    <3>7. InstalledWasSaved' /\ KeysPutAside' /\ UnlockedIsStored'
      BY <3>1, <3>2, <3>4, <3>5 DEF ShownNext
    <3> QED BY <3>4, <3>6, <3>7 DEF ShownNext
  <2>2. CASE ~b
    <3>1. /\ job[j].at = "unlock" /\ job' = [job EXCEPT ![j] = NoJob]
          /\ UNCHANGED <<storage, status, stored, loaded, mode, draft, raced, fresh, saved>>
      BY <1>4, <2>2 DEF Unlocked, UnlockWallet
    <3>2. TypeOK' /\ InstalledWasSaved' /\ KeysPutAside' /\ UnlockedIsStored'
      BY <3>1
    <3>3. JobsFitTheScreen'
      BY <3>1
    <3> QED BY <3>2, <3>3
  <2> QED BY <2>1, <2>2
<1> QED BY <1>1, <1>2, <1>3, <1>4

LEMMA NextWInv == WInv /\ [Next]_vars => WInv'
<1> SUFFICES ASSUME WInv, [Next]_vars PROVE WInv'
  OBVIOUS
<1>1. CASE Next
  BY <1>1, ProviderWInv, WizardWInv, ScreenWInv, JobWInv DEF Next
<1>2. CASE UNCHANGED vars
  BY <1>2 DEF WInv, TypeOK, OptKey, InstalledWasSaved, UnlockedIsStored, KeysPutAside,
       JobsFitTheScreen, JobFits, SigningKey, vars, stateVars, wizardVars
<1> QED BY <1>1, <1>2

LEMMA Invariance == Spec => []WInv
BY InitWInv, NextWInv, PTL DEF Spec

-----------------------------------------------------------------------------
\* No step of any tab leaves the states the components can be in.
THEOREM WalletTypeCorrect == Spec => []TypeOK
<1>1. WInv => TypeOK
  BY DEF WInv
<1> QED BY <1>1, Invariance, PTL

\* A wallet cannot be lost with the browser: whatever a tab installs, unlocks or
\* signs with, its user holds elsewhere.
THEOREM NoKeyIsLost == Spec => []InstalledWasSaved
<1>1. WInv => InstalledWasSaved
  BY DEF WInv
<1> QED BY <1>1, Invariance, PTL

\* A tab has a key only while unlocked, and then, unless a wallet was removed while
\* it was being unlocked, the key of the blob it would unlock again; and who read or
\* wrote the storage after everybody else knows what it holds.
THEOREM ViewsMatchTheStorage == Spec => []UnlockedIsStored
<1>1. WInv => UnlockedIsStored
  BY DEF WInv
<1> QED BY <1>1, Invariance, PTL

-----------------------------------------------------------------------------
\* Every part of MCWebsite behaves as its own module says, whoever moves.
LEMMA FormBehaves == MCSpec => Form!Spec
<1>1. MCInit => Form!Init
  BY DEF MCInit
<1>2. [MCNext]_mcVars => [Form!Next]_Form!vars
  <2> SUFFICES ASSUME [MCNext]_mcVars PROVE [Form!Next]_Form!vars
    OBVIOUS
  <2>1. Form!Next \/ UNCHANGED formVars
    BY DEF MCNext, mcVars
  <2> QED BY <2>1 DEF formVars, Form!vars
<1> QED BY <1>1, <1>2, PTL DEF MCSpec, Form!Spec

LEMMA MineBehaves == MCSpec => Mine!Spec
<1>1. MCInit => Mine!Init
  BY DEF MCInit
<1>2. [MCNext]_mcVars => [Mine!Next]_Mine!vars
  <2> SUFFICES ASSUME [MCNext]_mcVars PROVE [Mine!Next]_Mine!vars
    OBVIOUS
  <2>1. Mine!Next \/ UNCHANGED mineVars
    BY DEF MCNext, mcVars
  <2> QED BY <2>1 DEF mineVars, Mine!vars, Mine!storeVars, Mine!tabVars, Mine!dashVars, Mine!gateVars
<1> QED BY <1>1, <1>2, PTL DEF MCSpec, Mine!Spec

LEMMA CacheBehaves == MCSpec => Cache!Spec
<1>1. MCInit => Cache!Init
  BY DEF MCInit
<1>2. [MCNext]_mcVars => [Cache!Next]_Cache!vars
  <2> SUFFICES ASSUME [MCNext]_mcVars PROVE [Cache!Next]_Cache!vars
    OBVIOUS
  <2>1. Cache!Next \/ UNCHANGED cacheVars
    BY DEF MCNext, mcVars
  <2> QED BY <2>1 DEF cacheVars, Cache!vars, Cache!store
<1> QED BY <1>1, <1>2, PTL DEF MCSpec, Cache!Spec

LEMMA ProxyBehaves == MCSpec => Proxy!Spec
<1>1. MCInit => Proxy!Init
  BY DEF MCInit
<1>2. [MCNext]_mcVars => [Proxy!Next]_Proxy!vars
  <2> SUFFICES ASSUME [MCNext]_mcVars PROVE [Proxy!Next]_Proxy!vars
    OBVIOUS
  <2>1. Proxy!Next \/ UNCHANGED proxyVars
    BY DEF MCNext, mcVars
  <2> QED BY <2>1 DEF proxyVars, Proxy!vars
<1> QED BY <1>1, <1>2, PTL DEF MCSpec, Proxy!Spec

-----------------------------------------------------------------------------
\* The mining page.  Unless another tab has written the override since a page was
\* loaded, or the page is about to be replaced, its endpoint and what its dashboard
\* knows are the override's.
MineInv ==
  /\ DOMAIN rpc = Tabs /\ DOMAIN screen = Tabs /\ hasRpc \in [Tabs -> BOOLEAN] /\ running \in [Tabs -> BOOLEAN]
  /\ others \in [Tabs -> BOOLEAN] /\ leaving \in [Tabs -> BOOLEAN]
  /\ \A t \in Tabs :
       /\ running[t] => screen[t] = "dashboard"
       /\ ~others[t] /\ ~leaving[t] =>
            /\ rpc[t] = Mine!ClientRpcUrl(override)
            /\ hasRpc[t] => Mine!HasRpcOverride(override)
            /\ running[t] => hasRpc[t]

LEMMA StoreKeepsMineInv ==
  ASSUME MineInv, NEW t \in Tabs, NEW url, Mine!Store(t, url), Mine!AskForReload(t)
  PROVE  MineInv'
<1>1. /\ leaving' = [leaving EXCEPT ![t] = TRUE]
      /\ UNCHANGED <<running, rpc, screen>>
      /\ hasRpc' = [hasRpc EXCEPT ![t] = url # "none"]
  BY DEF Mine!Store, Mine!AskForReload
<1>2. /\ others' \in [Tabs -> BOOLEAN]
      /\ \A u \in Tabs : ~others'[u] => u = t \/ (~others[u] /\ override' = override)
  <2>1. CASE override' = url /\ others' = [u \in Tabs |-> others[u] \/ (u # t /\ override # url)]
    <3>1. others' \in [Tabs -> BOOLEAN]
      BY <2>1
    <3>2. ASSUME NEW u \in Tabs, ~others'[u] PROVE u = t \/ (~others[u] /\ override' = override)
      BY <2>1, <3>2
    <3> QED BY <3>1, <3>2
  <2>2. CASE UNCHANGED <<override, others>>
    BY <2>2 DEF MineInv
  <2> QED BY <2>1, <2>2 DEF Mine!Store
<1>3. hasRpc' \in [Tabs -> BOOLEAN] /\ leaving' \in [Tabs -> BOOLEAN]
  BY <1>1 DEF MineInv
<1> QED BY <1>1, <1>2, <1>3 DEF MineInv

LEMMA MineInvInductive == MineInv /\ [Mine!Next]_Mine!vars => MineInv'
<1> SUFFICES ASSUME MineInv, [Mine!Next]_Mine!vars PROVE MineInv'
  OBVIOUS
<1> USE DEF Mine!storeVars, Mine!tabVars, Mine!dashVars, Mine!gateVars
<1>1. CASE UNCHANGED Mine!vars
  BY <1>1 DEF Mine!vars, MineInv
<1>2. CASE Mine!Launch
  BY <1>2 DEF Mine!Launch, MineInv
<1>3. ASSUME NEW t \in Tabs,
             \/ Mine!Reload(t) \/ Mine!Unlock(t) \/ Mine!Lock(t) \/ Mine!Edit(t)
             \/ Mine!Start(t) \/ Mine!Stop(t)
             \/ \E c \in {"null", "closed", "open"}, b \in {"unknown", "short", "enough"} :
                  Mine!Refresh(t, c, b)
      PROVE  MineInv'
  <2>1. CASE Mine!Reload(t)
    <3>1. /\ hasRpc' = [hasRpc EXCEPT ![t] = FALSE] /\ running' = [running EXCEPT ![t] = FALSE]
          /\ rpc' = [rpc EXCEPT ![t] = Mine!ClientRpcUrl(override)]
          /\ others' = [others EXCEPT ![t] = FALSE] /\ override' = override
          /\ leaving' = [leaving EXCEPT ![t] = FALSE]
          /\ screen' = [screen EXCEPT ![t] = "locked"]
      BY <2>1 DEF Mine!Reload, Mine!Unmount
    <3> QED BY <3>1 DEF MineInv
  <2>2. CASE Mine!Unlock(t)
    <3> DEFINE has == Mine!HasRpcOverride(override)
    <3>1. has \in BOOLEAN
      BY DEF Mine!HasRpcOverride
    <3>2. /\ hasRpc' = [hasRpc EXCEPT ![t] = has] /\ UNCHANGED <<override, rpc, running, leaving, others>>
          /\ screen[t] = "locked" /\ screen' = [screen EXCEPT ![t] = "dashboard"]
      BY <2>2 DEF Mine!Unlock
    <3>3. has' = has
      BY <3>2 DEF Mine!HasRpcOverride
    <3>4. ~running[t]
      BY <3>2 DEF MineInv
    <3> HIDE DEF has
    <3>5. \A u \in Tabs : ~others'[u] /\ ~leaving'[u] /\ hasRpc'[u] => Mine!HasRpcOverride(override)
      BY <3>1, <3>2 DEF MineInv, has
    <3> QED BY <3>1, <3>2, <3>3, <3>4, <3>5 DEF MineInv
  <2>3. CASE Mine!Lock(t)
    <3>1. /\ hasRpc' = [hasRpc EXCEPT ![t] = FALSE] /\ running' = [running EXCEPT ![t] = FALSE]
          /\ UNCHANGED <<rpc, leaving, others, override>> /\ screen' = [screen EXCEPT ![t] = "locked"]
      BY <2>3 DEF Mine!Lock, Mine!Unmount
    <3> QED BY <3>1 DEF MineInv
  <2>4. CASE Mine!Edit(t)
    BY <2>4 DEF Mine!Edit, MineInv
  <2>5. CASE Mine!Start(t)
    BY <2>5 DEF Mine!Start, MineInv
  <2>6. CASE Mine!Stop(t)
    BY <2>6 DEF Mine!Stop, MineInv
  <2>7. ASSUME NEW c, NEW b, Mine!Refresh(t, c, b) PROVE MineInv'
    BY <2>7 DEF Mine!Refresh, MineInv
  <2> QED BY <1>3, <2>1, <2>2, <2>3, <2>4, <2>5, <2>6, <2>7
<1>4. ASSUME NEW t \in Tabs, NEW url, Mine!Save(t, url) PROVE MineInv'
  BY <1>4, StoreKeepsMineInv DEF Mine!Save
<1>5. ASSUME NEW t \in Tabs, Mine!Clear(t) PROVE MineInv'
  BY <1>5, StoreKeepsMineInv DEF Mine!Clear
<1> QED BY <1>1, <1>2, <1>3, <1>4, <1>5 DEF Mine!Next

\* Who mines does so on an endpoint of their own, however pages were loaded, gates
\* opened and overrides stored, but for another tab's write, a scheme in capitals,
\* and the page that is about to be replaced.
THEOREM MinersBringTheirRpc == MCSpec => []MinesOnItsOwnRpc
<1>1. Mine!Init => MineInv
  BY DEF Mine!Init, MineInv
<1>2. MineInv => MinesOnItsOwnRpc
  BY DEF MineInv, MinesOnItsOwnRpc, Mine!MinesOnItsOwnRpc, Mine!HasRpcOverride, Mine!Urls,
         Mine!ClientRpcUrl
<1> QED BY <1>1, <1>2, MineInvInductive, MineBehaves, PTL DEF Mine!Spec

-----------------------------------------------------------------------------
\* The RPC proxy.  An answer is no older than its request, and an entry that is
\* fresh no older than its time in the cache and one request.
ProxyCalls == [at : {"idle", "upstream", "served"}, since : Nat, age : Nat, kept : BOOLEAN]

CallInTime(v) == v \in ProxyCalls /\ v.age <= v.since /\ v.since <= UPSTREAM_MAX

EntryInTime(entered) ==
  entered # None => /\ entered \in [since : Nat, age : Nat]
                    /\ entered.since < CACHE_TTL => entered.age <= entered.since + UPSTREAM_MAX

ProxyInv ==
  /\ answered \in Nat /\ answered <= CACHE_TTL + UPSTREAM_MAX
  /\ call \in [Calls -> ProxyCalls] /\ \A c \in Calls : CallInTime(call[c])
  /\ EntryInTime(cache)

LEMMA ProxyConstants == CACHE_TTL \in Nat \ {0} /\ UPSTREAM_MAX \in Nat \ {0}
BY WebsiteAssumption DEF Proxy!ProxyAssumption

\* A call that takes a new value within these bounds.
LEMMA ProxyCall ==
  ASSUME ProxyInv, NEW c \in Calls, NEW v, CallInTime(v), call' = [call EXCEPT ![c] = v],
         answered' \in Nat, answered' <= CACHE_TTL + UPSTREAM_MAX, EntryInTime(cache')
  PROVE  ProxyInv'
<1>1. v \in ProxyCalls
  BY DEF CallInTime
<1>2. call' \in [Calls -> ProxyCalls] /\ \A d \in Calls : CallInTime(call'[d])
  BY <1>1 DEF ProxyInv
<1> QED BY <1>2 DEF ProxyInv

LEMMA ProxyIdle == CallInTime(Proxy!Idle)
BY ProxyConstants DEF CallInTime, Proxy!Idle, ProxyCalls

LEMMA ProxyInvInductive == ProxyInv /\ [Proxy!Next]_Proxy!vars => ProxyInv'
<1> SUFFICES ASSUME ProxyInv, [Proxy!Next]_Proxy!vars PROVE ProxyInv'
  OBVIOUS
<1> USE ProxyConstants
<1>0. /\ answered \in Nat /\ answered <= CACHE_TTL + UPSTREAM_MAX /\ EntryInTime(cache)
      /\ \A c \in Calls : CallInTime(call[c])
  BY DEF ProxyInv
<1>1. CASE UNCHANGED Proxy!vars
  BY <1>1 DEF Proxy!vars, ProxyInv
<1>2. CASE Proxy!Refuse
  BY <1>2 DEF Proxy!Refuse, ProxyInv
<1>3. CASE Proxy!Hit
  BY <1>3 DEF Proxy!Hit, Proxy!Fresh, ProxyInv, EntryInTime
<1>4. CASE Proxy!Tick
  <2>1. EntryInTime(cache')
    <3>1. CASE cache = None
      BY <1>4, <3>1 DEF Proxy!Tick, EntryInTime
    <3>2. CASE cache # None
      <4>1. cache' = [since |-> Proxy!Capped(cache.since, CACHE_TTL),
                      age |-> Proxy!Capped(cache.age, CACHE_TTL + UPSTREAM_MAX + 1)]
        BY <1>4, <3>2 DEF Proxy!Tick
      <4> QED BY <1>0, <3>2, <4>1 DEF Proxy!Capped, EntryInTime
    <3> QED BY <3>1, <3>2
  <2>2. ASSUME NEW c \in Calls PROVE CallInTime(call'[c])
    <3>1. CASE call[c].at = "idle"
      BY <1>4, <3>1, ProxyIdle DEF Proxy!Tick
    <3>2. CASE call[c].at # "idle"
      <4>1. call[c].since < UPSTREAM_MAX
        BY <1>4, <3>2 DEF Proxy!Tick
      <4>2. call'[c] = [call[c] EXCEPT !.since = @ + 1,
                          !.age = IF call[c].at = "served" THEN @ + 1 ELSE @]
        BY <1>4, <3>2 DEF Proxy!Tick
      <4>5. call[c] \in ProxyCalls /\ call[c].age <= call[c].since
        BY <1>0 DEF CallInTime
      <4>6. call[c].since + 1 \in Nat /\ call[c].age + 1 \in Nat /\ call[c].age \in Nat
        BY <4>5 DEF ProxyCalls
      <4>3. call[c] \in ProxyCalls /\ call[c].age <= call[c].since /\ call'[c] \in ProxyCalls
        BY <4>2, <4>5, <4>6 DEF ProxyCalls
      <4>4. /\ call'[c].since = call[c].since + 1
            /\ call'[c].age \in {call[c].age, call[c].age + 1}
        BY <4>2, <4>3 DEF ProxyCalls
      <4> QED BY <4>1, <4>3, <4>4 DEF CallInTime, ProxyCalls
    <3> QED BY <3>1, <3>2
  <2>3. call' \in [Calls -> ProxyCalls]
    <3>1. \A c \in Calls : call'[c] \in ProxyCalls
      BY <2>2 DEF CallInTime
    <3>2. call' = [c \in Calls |-> call'[c]]
      BY <1>4 DEF Proxy!Tick
    <3> QED BY <3>1, <3>2
  <2>4. answered' = answered
    BY <1>4 DEF Proxy!Tick
  <2> QED BY <1>0, <2>1, <2>2, <2>3, <2>4 DEF ProxyInv
<1>5. ASSUME NEW c \in Calls, Proxy!Serve(c) PROVE ProxyInv'
  <2> DEFINE v == [call[c] EXCEPT !.at = "served"]
  <2>1. CallInTime(v)
    BY <1>0 DEF CallInTime, ProxyCalls
  <2>2. call' = [call EXCEPT ![c] = v] /\ answered' = answered /\ cache' = cache
    BY <1>5 DEF Proxy!Serve
  <2> HIDE DEF v
  <2> QED BY <1>0, <2>1, <2>2, ProxyCall
<1>6. ASSUME NEW c \in Calls, Proxy!Arrive(c) PROVE ProxyInv'
  <2>1. call' = [call EXCEPT ![c] = Proxy!Idle] /\ answered' = call[c].age
    BY <1>6 DEF Proxy!Arrive
  <2>2. call[c].age \in Nat /\ call[c].age <= UPSTREAM_MAX
    BY <1>0 DEF CallInTime, ProxyCalls
  <2>3. cache' = [since |-> 0, age |-> call[c].age] \/ cache' = cache
    BY <1>6 DEF Proxy!Arrive
  <2>4. EntryInTime(cache')
    BY <1>0, <2>2, <2>3 DEF EntryInTime
  <2>5. answered' \in Nat /\ answered' <= CACHE_TTL + UPSTREAM_MAX
    BY <2>1, <2>2
  <2> QED BY <2>1, <2>4, <2>5, ProxyIdle, ProxyCall
<1>7. ASSUME NEW c \in Calls, Proxy!Fail(c) PROVE ProxyInv'
  <2>1. call' = [call EXCEPT ![c] = Proxy!Idle] /\ answered' = answered /\ cache' = cache
    BY <1>7 DEF Proxy!Fail
  <2> QED BY <1>0, <2>1, ProxyIdle, ProxyCall
<1>8. ASSUME NEW c \in Calls, NEW single \in BOOLEAN, Proxy!Forward(c, single) PROVE ProxyInv'
  <2> DEFINE v == [Proxy!Idle EXCEPT !.at = "upstream", !.kept = single]
  <2>1. CallInTime(v)
    <3>1. Proxy!Idle \in ProxyCalls /\ Proxy!Idle.age = 0 /\ Proxy!Idle.since = 0
      BY DEF Proxy!Idle, ProxyCalls
    <3>2. v \in ProxyCalls /\ v.age = Proxy!Idle.age /\ v.since = Proxy!Idle.since
      BY <3>1 DEF ProxyCalls
    <3> QED BY <3>1, <3>2 DEF CallInTime
  <2>2. call' = [call EXCEPT ![c] = v] /\ answered' = answered /\ cache' = cache
    BY <1>8 DEF Proxy!Forward
  <2> HIDE DEF v
  <2> QED BY <1>0, <2>1, <2>2, ProxyCall
<1> QED BY <1>1, <1>2, <1>3, <1>4, <1>5, <1>6, <1>7, <1>8 DEF Proxy!Next

\* In whatever order the upstream's answers arrive and overwrite each other, no
\* client is given content older than an entry's life and one request.
THEOREM AnswersAreRecent == MCSpec => []AnswerAge
<1>1. Proxy!Init => ProxyInv
  <2>1. Proxy!Idle \in ProxyCalls
    BY ProxyIdle DEF CallInTime
  <2> QED BY <2>1, ProxyConstants, ProxyIdle DEF Proxy!Init, ProxyInv, EntryInTime
<1>2. ProxyInv => AnswerAge
  BY DEF ProxyInv, AnswerAge, Proxy!AnswerAge
<1> QED BY <1>1, <1>2, ProxyInvInductive, ProxyBehaves, PTL DEF Proxy!Spec

-----------------------------------------------------------------------------
\* The caches of the leaderboard.  Ages: what a request reads is no older than the
\* request; an entry no older than its time there and one request; what the CDN
\* keeps, than the entry's life, its own time there and two requests.
CacheRows == [age : Nat, from : {"nowhere", "ranking", "hash"}, unpaid : Nat]
CacheRequests == [at : {"idle", "rank", "hash", "side", "set", "answer"}, of : {"user", "cron"},
                  since : Nat, rows : CacheRows]
CacheEntries == [since : Int, rows : CacheRows]

RequestAge(q) ==
  /\ q.since <= LATENCY
  /\ q.at # "answer" => q.rows.age <= q.since
  /\ q.at = "answer" => q.rows.age <= Cache!Life(q.rows) - 1 + LATENCY + q.since

EntryAge ==
  entry # None => /\ entry.since <= TTL - 1
                  /\ entry.rows.age + TTL <= entry.since + Cache!Life(entry.rows) + LATENCY

EdgeAge ==
  edge # None => /\ edge.since <= EDGE_FRESH + EDGE_STALE - 1
                 /\ edge.rows.age <= Cache!Life(edge.rows) - 1 + edge.since + 2 * LATENCY

\* Rewards: the indexer ranks what it has paid, so a request that read the ranking
\* reads at least as many rewards.
Backed(rows) == rows.from = "ranking" => rows.unpaid = 0

RequestBacked(q, paid) ==
  /\ q.at = "side" /\ q.rows.from = "ranking" => q.rows.unpaid <= paid
  /\ q.at \in {"rank", "hash"} => q.rows = Cache!NoRows
  /\ q.at \in {"set", "answer"} => Backed(q.rows)

StoreBacked ==
  /\ counted \in Nat /\ rewarded \in Nat /\ ranked \in Nat
  /\ ranked <= rewarded /\ (writing = "rank" => ranked < rewarded)

CacheInv ==
  /\ request \in [Requests -> CacheRequests]
  /\ \A r \in Requests : RequestAge(request[r]) /\ RequestBacked(request[r], rewarded)
  /\ entry # None => entry \in CacheEntries /\ Backed(entry.rows)
  /\ edge # None => edge \in CacheEntries /\ Backed(edge.rows)
  /\ EntryAge /\ EdgeAge /\ StoreBacked

LEMMA CacheConstants ==
  /\ TTL \in Nat \ {0} /\ EMPTY_TTL \in Nat \ {0} /\ EDGE_FRESH \in Nat \ {0}
  /\ EDGE_STALE \in Nat /\ LATENCY \in Nat
BY WebsiteAssumption DEF Cache!CacheAssumption

LEMMA CacheLife ==
  ASSUME NEW rows
  PROVE  /\ Cache!Life(rows) \in Nat \ {0}
         /\ Cache!Life(rows) = IF Cache!Blank(rows) THEN EMPTY_TTL ELSE TTL
BY CacheConstants DEF Cache!Life

\* Rows that grow older stay the rows they are.
LEMMA CacheOlder ==
  ASSUME NEW rows \in CacheRows
  PROVE  /\ Cache!Older(rows) \in CacheRows
         /\ Cache!Older(rows).age <= rows.age + 1
         /\ Cache!Life(Cache!Older(rows)) = Cache!Life(rows)
         /\ Backed(Cache!Older(rows)) <=> Backed(rows)
         /\ Cache!Older(rows).from = rows.from /\ Cache!Older(rows).unpaid = rows.unpaid
<1> DEFINE o == Cache!Older(rows)
<1>1. Cache!Oldest \in Nat
  BY CacheConstants DEF Cache!Oldest
<1>2. rows.age \in Nat
  BY DEF CacheRows
<1>3. o = [rows EXCEPT !.age = IF rows.age > Cache!Oldest THEN rows.age ELSE rows.age + 1]
  BY DEF Cache!Older
<1>4. o \in CacheRows /\ o.age <= rows.age + 1 /\ o.from = rows.from /\ o.unpaid = rows.unpaid
  BY <1>1, <1>2, <1>3 DEF CacheRows
<1> HIDE DEF o
<1> QED BY <1>4 DEF Cache!Life, Cache!Blank, Backed, o

\* A request that takes a new value within the bounds.
LEMMA CacheRequest ==
  ASSUME CacheInv, NEW r \in Requests, NEW q \in CacheRequests, RequestAge(q), RequestBacked(q, rewarded),
         request' = [request EXCEPT ![r] = q],
         UNCHANGED <<counted, rewarded, ranked, writing, entry, edge>>
  PROVE  CacheInv'
<1>1. request' \in [Requests -> CacheRequests]
  BY DEF CacheInv
<1>2. \A s \in Requests : RequestAge(request'[s]) /\ RequestBacked(request'[s], rewarded')
  BY DEF CacheInv
<1> QED BY <1>1, <1>2 DEF CacheInv, EntryAge, EdgeAge, StoreBacked

\* The requests as the indexer pays more rewards.
LEMMA MoreRewards ==
  ASSUME CacheInv, StoreBacked', rewarded' >= rewarded, UNCHANGED <<entry, edge, request>>
  PROVE  CacheInv'
<1>1. \A s \in Requests : RequestBacked(request[s], rewarded')
  BY DEF CacheInv, RequestBacked, StoreBacked, CacheRequests, CacheRows
<1> QED BY <1>1 DEF CacheInv, EntryAge, EdgeAge

LEMMA CacheTick ==
  ASSUME CacheInv, Cache!Tick
  PROVE  CacheInv'
<1> USE CacheConstants
<1> USE DEF Cache!store
<1>0. /\ request \in [Requests -> CacheRequests] /\ EntryAge /\ EdgeAge /\ StoreBacked
      /\ entry # None => entry \in CacheEntries /\ Backed(entry.rows)
      /\ edge # None => edge \in CacheEntries /\ Backed(edge.rows)
      /\ \A r \in Requests : RequestAge(request[r]) /\ RequestBacked(request[r], rewarded)
  BY DEF CacheInv
<1>1. ASSUME NEW held \in CacheEntries, NEW life \in Nat, Cache!AfterTick(held, life) # None,
             held # None
      PROVE  /\ Cache!AfterTick(held, life) = [since |-> held.since + 1, rows |-> Cache!Older(held.rows)]
             /\ Cache!AfterTick(held, life) \in CacheEntries
             /\ Cache!AfterTick(held, life).since <= life - 1
  <2>1. held.since \in Int /\ held.rows \in CacheRows
    BY DEF CacheEntries
  <2>2. /\ ~(held.since + 1 >= life)
        /\ Cache!AfterTick(held, life) = [since |-> held.since + 1, rows |-> Cache!Older(held.rows)]
    BY <1>1, <2>1 DEF Cache!AfterTick
  <2> QED BY <2>1, <2>2, CacheOlder DEF CacheEntries
<1>2. entry' # None =>
        /\ entry' \in CacheEntries /\ Backed(entry'.rows) /\ entry'.since <= TTL - 1
        /\ entry'.rows.age + TTL <= entry'.since + Cache!Life(entry'.rows) + LATENCY
  <2> SUFFICES ASSUME entry' # None PROVE
        /\ entry' \in CacheEntries /\ Backed(entry'.rows) /\ entry'.since <= TTL - 1
        /\ entry'.rows.age + TTL <= entry'.since + Cache!Life(entry'.rows) + LATENCY
    OBVIOUS
  <2>1. entry' = Cache!AfterTick(entry, TTL) /\ entry # None /\ entry \in CacheEntries
    BY <1>0 DEF Cache!Tick, Cache!AfterTick
  <2>2. /\ entry' = [since |-> entry.since + 1, rows |-> Cache!Older(entry.rows)]
        /\ entry' \in CacheEntries /\ entry'.since <= TTL - 1
    BY <1>1, <2>1
  <2>3. entry.since \in Int /\ entry.rows \in CacheRows /\ entry.rows.age \in Nat
    BY <2>1 DEF CacheEntries, CacheRows
  <2>4. entry.rows.age + TTL <= entry.since + Cache!Life(entry.rows) + LATENCY
    BY <1>0, <2>1 DEF EntryAge
  <2>5. /\ entry'.since = entry.since + 1 /\ entry'.rows = Cache!Older(entry.rows)
        /\ entry'.rows.age \in Nat /\ entry'.rows.age <= entry.rows.age + 1
        /\ Cache!Life(entry'.rows) = Cache!Life(entry.rows)
    BY <2>2, <2>3, CacheOlder DEF CacheRows
  <2>6. Backed(entry'.rows)
    BY <1>0, <2>1, <2>3, <2>5, CacheOlder
  <2>7. Cache!Life(entry.rows) \in Nat
    BY CacheLife
  <2> QED BY <2>2, <2>3, <2>4, <2>5, <2>6, <2>7
<1>3. edge' # None =>
        /\ edge' \in CacheEntries /\ Backed(edge'.rows)
        /\ edge'.since <= EDGE_FRESH + EDGE_STALE - 1
        /\ edge'.rows.age <= Cache!Life(edge'.rows) - 1 + edge'.since + 2 * LATENCY
  <2> SUFFICES ASSUME edge' # None PROVE
        /\ edge' \in CacheEntries /\ Backed(edge'.rows)
        /\ edge'.since <= EDGE_FRESH + EDGE_STALE - 1
        /\ edge'.rows.age <= Cache!Life(edge'.rows) - 1 + edge'.since + 2 * LATENCY
    OBVIOUS
  <2>1. edge' = Cache!AfterTick(edge, EDGE_FRESH + EDGE_STALE) /\ edge # None
        /\ edge \in CacheEntries /\ EDGE_FRESH + EDGE_STALE \in Nat
    <3> DEFINE life == EDGE_FRESH + EDGE_STALE
    <3>1. life \in Nat
      OBVIOUS
    <3>2. edge' = Cache!AfterTick(edge, life)
      BY DEF Cache!Tick
    <3> HIDE DEF life
    <3>3. edge # None
      BY <3>2 DEF Cache!AfterTick
    <3> QED BY <1>0, <3>1, <3>2, <3>3 DEF life
  <2>2. /\ edge' = [since |-> edge.since + 1, rows |-> Cache!Older(edge.rows)]
        /\ edge' \in CacheEntries /\ edge'.since <= EDGE_FRESH + EDGE_STALE - 1
    BY <1>1, <2>1
  <2>3. edge.since \in Int /\ edge.rows \in CacheRows /\ edge.rows.age \in Nat
    BY <2>1 DEF CacheEntries, CacheRows
  <2>4. edge.rows.age <= Cache!Life(edge.rows) - 1 + edge.since + 2 * LATENCY
    BY <1>0, <2>1 DEF EdgeAge
  <2>5. /\ edge'.since = edge.since + 1 /\ edge'.rows = Cache!Older(edge.rows)
        /\ edge'.rows.age \in Nat /\ edge'.rows.age <= edge.rows.age + 1
        /\ Cache!Life(edge'.rows) = Cache!Life(edge.rows)
    BY <2>2, <2>3, CacheOlder DEF CacheRows
  <2>6. Backed(edge'.rows)
    BY <1>0, <2>1, <2>3, <2>5, CacheOlder
  <2>7. Cache!Life(edge.rows) \in Nat
    BY CacheLife
  <2> QED BY <2>2, <2>3, <2>4, <2>5, <2>6, <2>7
<1>4. Cache!Idle \in CacheRequests /\ RequestAge(Cache!Idle) /\ RequestBacked(Cache!Idle, rewarded)
  <2>1. Cache!NoRows \in CacheRows /\ Cache!NoRows.age = 0
    BY DEF Cache!NoRows, CacheRows
  <2>2. /\ Cache!Idle \in CacheRequests /\ Cache!Idle.at = "idle" /\ Cache!Idle.since = 0
        /\ Cache!Idle.rows = Cache!NoRows
    BY <2>1 DEF Cache!Idle, CacheRequests
  <2> QED BY <2>1, <2>2 DEF RequestAge, RequestBacked
<1>5. ASSUME NEW r \in Requests
      PROVE  /\ request'[r] \in CacheRequests /\ RequestAge(request'[r])
             /\ RequestBacked(request'[r], rewarded')
  <2> DEFINE q == request[r]
  <2>1. q \in CacheRequests /\ q.since \in Nat /\ q.rows \in CacheRows /\ q.rows.age \in Nat
        /\ RequestAge(q) /\ RequestBacked(q, rewarded) /\ rewarded' = rewarded
    BY <1>0 DEF CacheRequests, CacheRows, Cache!Tick
  <2>2. CASE q.at = "idle"
    BY <1>4, <2>1, <2>2 DEF Cache!Tick
  <2>3. CASE q.at # "idle"
    <3> DEFINE rows == IF q.at \in {"rank", "hash"} THEN q.rows ELSE Cache!Older(q.rows)
    <3>1. q.since < LATENCY
      BY <2>3 DEF Cache!Tick
    <3>2. request'[r] = [q EXCEPT !.since = q.since + 1, !.rows = rows]
      BY <2>3 DEF Cache!Tick
    <3>3. /\ rows \in CacheRows /\ rows.age \in Nat /\ rows.age <= q.rows.age + 1
          /\ Cache!Life(rows) = Cache!Life(q.rows)
          /\ Backed(rows) <=> Backed(q.rows)
          /\ rows.from = q.rows.from /\ rows.unpaid = q.rows.unpaid
          /\ q.at \in {"rank", "hash"} => rows = q.rows
      <4>1. rows \in {q.rows, Cache!Older(q.rows)} /\ (q.at \in {"rank", "hash"} => rows = q.rows)
        OBVIOUS
      <4> HIDE DEF rows
      <4>2. CASE rows = q.rows
        BY <2>1, <4>1, <4>2
      <4>3. CASE rows = Cache!Older(q.rows)
        BY <2>1, <4>1, <4>3, CacheOlder DEF CacheRows
      <4> QED BY <4>1, <4>2, <4>3
    <3> HIDE DEF rows
    <3>4. /\ request'[r] \in CacheRequests /\ request'[r].at = q.at
          /\ request'[r].since = q.since + 1 /\ request'[r].rows = rows
      <4>1. q.since + 1 \in Nat
        BY <2>1
      <4> HIDE DEF q
      <4> QED BY <2>1, <3>2, <3>3, <4>1 DEF CacheRequests
    <3>5. Cache!Life(q.rows) \in Nat
      BY CacheLife
    <3> HIDE DEF q
    <3>6. RequestAge(request'[r])
      BY <2>1, <3>1, <3>3, <3>4, <3>5 DEF RequestAge
    <3>7. RequestBacked(request'[r], rewarded')
      BY <2>1, <3>3, <3>4 DEF RequestBacked
    <3> QED BY <3>4, <3>6, <3>7
  <2> QED BY <2>2, <2>3
<1>6. request' \in [Requests -> CacheRequests]
  <2>1. request' = [r \in Requests |-> request'[r]]
    BY DEF Cache!Tick
  <2> QED BY <1>5, <2>1
<1>7. StoreBacked'
  BY <1>0 DEF StoreBacked, Cache!Tick
<1> QED BY <1>2, <1>3, <1>5, <1>6, <1>7 DEF CacheInv, EntryAge, EdgeAge

LEMMA CacheInvInductive == CacheInv /\ [Cache!Next]_Cache!vars => CacheInv'
<1> SUFFICES ASSUME CacheInv, [Cache!Next]_Cache!vars PROVE CacheInv'
  OBVIOUS
<1> USE CacheConstants
<1> USE DEF Cache!store
<1>0. /\ request \in [Requests -> CacheRequests] /\ EntryAge /\ EdgeAge /\ StoreBacked
      /\ entry # None => entry \in CacheEntries /\ Backed(entry.rows)
      /\ edge # None => edge \in CacheEntries /\ Backed(edge.rows)
      /\ \A r \in Requests : RequestAge(request[r]) /\ RequestBacked(request[r], rewarded)
  BY DEF CacheInv
<1>14. Cache!NoRows \in CacheRows /\ Cache!NoRows.age = 0 /\ Cache!NoRows.from = "nowhere"
  BY DEF Cache!NoRows, CacheRows
<1>15. ASSUME NEW r \in Requests
      PROVE  /\ request[r].since \in Nat /\ request[r].rows \in CacheRows
             /\ request[r].rows.age \in Nat /\ request[r].rows.unpaid \in Nat
             /\ request[r].since <= LATENCY /\ request[r] \in CacheRequests
             /\ request[r].at # "answer" => request[r].rows.age <= request[r].since
             /\ request[r].at = "answer" =>
                  request[r].rows.age <= Cache!Life(request[r].rows) - 1 + LATENCY + request[r].since
  BY <1>0 DEF CacheRequests, CacheRows, RequestAge
<1>16. Cache!Idle \in CacheRequests /\ RequestAge(Cache!Idle) /\ RequestBacked(Cache!Idle, rewarded)
  <2>1. /\ Cache!Idle \in CacheRequests /\ Cache!Idle.at = "idle" /\ Cache!Idle.since = 0
        /\ Cache!Idle.rows = Cache!NoRows
    BY <1>14 DEF Cache!Idle, CacheRequests
  <2> QED BY <1>14, <2>1 DEF RequestAge, RequestBacked
<1>1. CASE UNCHANGED Cache!vars
  BY <1>0, <1>1, MoreRewards DEF Cache!vars, StoreBacked
<1>2. CASE Cache!Index
  <2>1. StoreBacked' /\ rewarded' >= rewarded
    BY <1>0, <1>2 DEF Cache!Index, StoreBacked
  <2> QED BY <1>2, <2>1, MoreRewards DEF Cache!Index
<1>3. CASE Cache!IndexAgain
  <2>1. StoreBacked' /\ rewarded' >= rewarded
    BY <1>0, <1>3 DEF Cache!IndexAgain, StoreBacked
  <2> QED BY <1>3, <2>1, MoreRewards DEF Cache!IndexAgain
<1>4. CASE Cache!Tick
  BY <1>4, CacheTick
<1>5. ASSUME NEW r \in Requests, Cache!Poll(r) PROVE CacheInv'
  <2>1. PICK reachable \in BOOLEAN :
          LET hit == reachable /\ entry # None IN
          request' = [request EXCEPT ![r] = [at |-> IF hit THEN "answer" ELSE "rank",
                        of |-> "user", since |-> 0, rows |-> IF hit THEN entry.rows ELSE Cache!NoRows]]
    BY <1>5 DEF Cache!Poll, Cache!Cached
  <2>2. UNCHANGED <<counted, rewarded, ranked, writing, entry, edge>>
    BY <1>5 DEF Cache!Poll, Cache!Cached
  <2>3. CASE reachable /\ entry # None
    <3> DEFINE q == [at |-> "answer", of |-> "user", since |-> 0, rows |-> entry.rows]
    <3>1. request' = [request EXCEPT ![r] = q]
      BY <2>1, <2>3
    <3>2. /\ entry.rows \in CacheRows /\ entry.rows.age \in Nat /\ entry.since \in Int
          /\ entry.since <= TTL - 1 /\ Backed(entry.rows)
          /\ entry.rows.age + TTL <= entry.since + Cache!Life(entry.rows) + LATENCY
      BY <1>0, <2>3 DEF EntryAge, CacheEntries, CacheRows
    <3>3. q \in CacheRequests /\ q.at = "answer" /\ q.since = 0 /\ q.rows = entry.rows
      BY <3>2 DEF CacheRequests
    <3> HIDE DEF q
    <3>4. Cache!Life(entry.rows) \in Nat
      BY CacheLife
    <3>5. RequestAge(q) /\ RequestBacked(q, rewarded)
      BY <3>2, <3>3, <3>4 DEF RequestAge, RequestBacked
    <3> QED BY <2>2, <3>1, <3>3, <3>5, CacheRequest
  <2>4. CASE ~(reachable /\ entry # None)
    <3> DEFINE q == [at |-> "rank", of |-> "user", since |-> 0, rows |-> Cache!NoRows]
    <3>1. request' = [request EXCEPT ![r] = q]
      BY <2>1, <2>4
    <3>2. q \in CacheRequests /\ q.at = "rank" /\ q.since = 0 /\ q.rows = Cache!NoRows
      BY <1>14 DEF CacheRequests
    <3> HIDE DEF q
    <3>3. RequestAge(q) /\ RequestBacked(q, rewarded)
      BY <1>14, <3>2 DEF RequestAge, RequestBacked
    <3> QED BY <2>2, <3>1, <3>2, <3>3, CacheRequest
  <2> QED BY <2>3, <2>4
<1>6. ASSUME NEW r \in Requests, Cache!Refresh(r) PROVE CacheInv'
  <2> DEFINE q == [at |-> "rank", of |-> "cron", since |-> 0, rows |-> Cache!NoRows]
  <2>1. request' = [request EXCEPT ![r] = q]
        /\ UNCHANGED <<counted, rewarded, ranked, writing, entry, edge>>
    BY <1>6 DEF Cache!Refresh
  <2>2. q \in CacheRequests /\ q.at = "rank" /\ q.since = 0 /\ q.rows = Cache!NoRows
    BY <1>14 DEF CacheRequests
  <2> HIDE DEF q
  <2>3. RequestAge(q) /\ RequestBacked(q, rewarded)
    BY <1>14, <2>2 DEF RequestAge, RequestBacked
  <2> QED BY <2>1, <2>2, <2>3, CacheRequest
\* A read goes on to a place that is no answer yet, with rows no older.
<1>7. ASSUME NEW r \in Requests, NEW place \in {"hash", "side", "set"}, NEW rows \in CacheRows,
             request[r].at # "answer", rows.age <= request[r].since,
             Cache!Goto(r, place, rows), UNCHANGED <<counted, rewarded, ranked, writing, entry, edge>>,
             place = "hash" => rows = Cache!NoRows,
             place = "side" /\ rows.from = "ranking" => rows.unpaid <= rewarded,
             place = "set" => Backed(rows)
      PROVE  CacheInv'
  <2> DEFINE q == [request[r] EXCEPT !.at = place, !.rows = rows]
  <2>1. request' = [request EXCEPT ![r] = q]
    BY <1>7 DEF Cache!Goto
  <2>2. q \in CacheRequests /\ q.at = place /\ q.since = request[r].since /\ q.rows = rows
    BY <1>15 DEF CacheRequests
  <2> HIDE DEF q
  <2>3. RequestAge(q)
    BY <1>7, <1>15, <2>2 DEF RequestAge
  <2>4. RequestBacked(q, rewarded)
    BY <1>7, <2>2 DEF RequestBacked
  <2> QED BY <1>7, <2>1, <2>2, <2>3, <2>4, CacheRequest
<1>8. ASSUME NEW count \in Nat, NEW place \in {"ranking", "hash"}
      PROVE  /\ Cache!Found(place, count) \in CacheRows /\ Cache!Found(place, count).age = 0
             /\ Cache!Found(place, count).from = place /\ Cache!Found(place, count).unpaid = count
  BY DEF Cache!Found, CacheRows
<1>9. ASSUME NEW r \in Requests, Cache!Rank(r) PROVE CacheInv'
  <2>1. request[r].at = "rank" /\ UNCHANGED <<counted, rewarded, ranked, writing, entry, edge>>
    BY <1>9 DEF Cache!Rank
  <2>2. CASE Cache!Goto(r, "side", Cache!Found("ranking", ranked))
    <3>1. ranked \in Nat /\ ranked <= rewarded
      BY <1>0 DEF StoreBacked
    <3> QED BY <1>15, <1>7, <1>8, <2>1, <2>2, <3>1
  <2>3. CASE Cache!Goto(r, "hash", Cache!NoRows)
    BY <1>14, <1>15, <1>7, <2>1, <2>3
  <2> QED BY <1>9, <2>2, <2>3 DEF Cache!Rank
<1>10. ASSUME NEW r \in Requests, Cache!Hash(r) PROVE CacheInv'
  <2>1. request[r].at = "hash" /\ UNCHANGED <<counted, rewarded, ranked, writing, entry, edge>>
    BY <1>10 DEF Cache!Hash
  <2>2. CASE Cache!Goto(r, "side", Cache!Found("hash", 0))
    <3>1. 0 \in Nat
      OBVIOUS
    <3> QED BY <1>15, <1>7, <1>8, <2>1, <2>2, <3>1
  <2>3. CASE Cache!Goto(r, "set", Cache!NoRows)
    <3>1. Backed(Cache!NoRows)
      BY <1>14 DEF Backed
    <3> QED BY <1>14, <1>15, <1>7, <2>1, <2>3, <3>1
  <2> QED BY <1>10, <2>2, <2>3 DEF Cache!Hash
<1>11. ASSUME NEW r \in Requests, Cache!Side(r) PROVE CacheInv'
  <2>1. request[r].at = "side" /\ UNCHANGED <<counted, rewarded, ranked, writing, entry, edge>>
    BY <1>11 DEF Cache!Side
  <2> DEFINE
    before == request[r].rows
    left == IF before.unpaid > rewarded THEN before.unpaid - rewarded ELSE 0
    rows == [before EXCEPT !.unpaid = left]
  <2>2. CASE Cache!Goto(r, "set", rows)
    <3>1. /\ before \in CacheRows /\ before.unpaid \in Nat /\ rewarded \in Nat
          /\ before.age <= request[r].since
          /\ before.from = "ranking" => before.unpaid <= rewarded
      BY <1>0, <1>15, <2>1 DEF StoreBacked, RequestBacked
    <3> HIDE DEF before
    <3>2. left \in Nat /\ (before.from = "ranking" => left = 0)
      BY <3>1
    <3> HIDE DEF left
    <3>3. /\ rows \in CacheRows /\ rows.age = before.age /\ rows.unpaid = left
          /\ rows.from = before.from
      BY <3>1, <3>2 DEF CacheRows
    <3> HIDE DEF rows
    <3>4. Backed(rows)
      BY <3>2, <3>3 DEF Backed
    <3> QED BY <1>7, <2>1, <2>2, <3>1, <3>3, <3>4
  <2>3. CASE Cache!Goto(r, "set", Cache!NoRows)
    <3>1. Backed(Cache!NoRows)
      BY <1>14 DEF Backed
    <3> QED BY <1>14, <1>15, <1>7, <2>1, <2>3, <3>1
  <2> QED BY <1>11, <2>2, <2>3 DEF Cache!Side
<1>12. ASSUME NEW r \in Requests, Cache!Set(r) PROVE CacheInv'
  <2> DEFINE q == request[r]
             after == [q EXCEPT !.at = "answer"]
  <2>1. /\ q.at = "set" /\ q \in CacheRequests /\ q.rows \in CacheRows /\ q.rows.age \in Nat
        /\ q.rows.age <= q.since /\ q.since <= LATENCY /\ q.since \in Nat /\ Backed(q.rows)
    BY <1>0, <1>15, <1>12 DEF Cache!Set, RequestBacked
  <2>2. UNCHANGED <<counted, rewarded, ranked, writing, edge>>
    BY <1>12 DEF Cache!Set
  <2>3. Cache!Life(q.rows) \in Nat \ {0}
    BY CacheLife
  <2>4. request' = [request EXCEPT ![r] = IF q.of = "cron" THEN Cache!Idle ELSE after]
    BY <1>12 DEF Cache!Set
  <2>5. entry' = [since |-> TTL - Cache!Life(q.rows), rows |-> q.rows] \/ entry' = entry
    BY <1>12 DEF Cache!Set
  <2> HIDE DEF q
  <2>6. /\ entry' # None => entry' \in CacheEntries /\ Backed(entry'.rows)
        /\ EntryAge'
    <3>1. CASE entry' = entry
      <4>1. EntryAge'
        BY <1>0, <3>1 DEF EntryAge
      <4> QED BY <1>0, <3>1, <4>1
    <3>2. CASE entry' = [since |-> TTL - Cache!Life(q.rows), rows |-> q.rows]
      <4> DEFINE begun == TTL - Cache!Life(q.rows)
      <4>1. begun \in Int /\ begun <= TTL - 1 /\ begun + Cache!Life(q.rows) = TTL
        BY <2>3
      <4> HIDE DEF begun
      <4>2. entry' = [since |-> begun, rows |-> q.rows]
        BY <3>2 DEF begun
      <4>3. entry' \in CacheEntries /\ entry'.since = begun /\ entry'.rows = q.rows
        BY <2>1, <4>1, <4>2 DEF CacheEntries
      <4>4. EntryAge'
        BY <2>1, <2>3, <4>1, <4>3 DEF EntryAge
      <4> QED BY <2>1, <4>3, <4>4
    <3> QED BY <2>5, <3>1, <3>2
  <2>7. after \in CacheRequests /\ after.at = "answer" /\ after.since = q.since /\ after.rows = q.rows
    BY <2>1 DEF CacheRequests
  <2> HIDE DEF after
  <2>8. RequestAge(after) /\ RequestBacked(after, rewarded)
    BY <2>1, <2>3, <2>7 DEF RequestAge, RequestBacked
  <2>9. request' \in [Requests -> CacheRequests]
        /\ \A s \in Requests : RequestAge(request'[s]) /\ RequestBacked(request'[s], rewarded')
    <3> DEFINE v == IF q.of = "cron" THEN Cache!Idle ELSE after
    <3>1. v \in CacheRequests /\ RequestAge(v) /\ RequestBacked(v, rewarded)
      BY <1>16, <2>7, <2>8
    <3> HIDE DEF v
    <3>2. request' = [request EXCEPT ![r] = v]
      BY <2>4 DEF v
    <3>3. rewarded' = rewarded
      BY <2>2
    <3> QED BY <1>0, <3>1, <3>2, <3>3
  <2>10. StoreBacked' /\ EdgeAge'
         /\ (edge' # None => edge' \in CacheEntries /\ Backed(edge'.rows))
    BY <1>0, <2>2 DEF StoreBacked, EdgeAge
  <2> QED BY <2>6, <2>9, <2>10 DEF CacheInv
<1>13. ASSUME NEW r \in Requests, Cache!Answer(r) PROVE CacheInv'
  <2> DEFINE q == request[r]
  <2>1. /\ q.at = "answer" /\ q.rows \in CacheRows /\ q.rows.age \in Nat /\ q.since \in Nat
        /\ q.since <= LATENCY /\ Backed(q.rows)
        /\ q.rows.age <= Cache!Life(q.rows) - 1 + LATENCY + q.since
    BY <1>0, <1>15, <1>13 DEF Cache!Answer, RequestBacked
  <2>2. UNCHANGED <<counted, rewarded, ranked, writing, entry>>
        /\ request' = [request EXCEPT ![r] = Cache!Idle]
    BY <1>13 DEF Cache!Answer
  <2>3. edge' = edge \/ edge' = [since |-> 0, rows |-> q.rows]
    BY <1>13 DEF Cache!Answer
  <2> HIDE DEF q
  <2>4. /\ edge' # None => edge' \in CacheEntries /\ Backed(edge'.rows)
        /\ EdgeAge'
    <3>1. CASE edge' = edge
      <4>1. EdgeAge'
        BY <1>0, <3>1 DEF EdgeAge
      <4> QED BY <1>0, <3>1, <4>1
    <3>2. CASE edge' = [since |-> 0, rows |-> q.rows]
      <4>1. edge' \in CacheEntries /\ edge'.since = 0 /\ edge'.rows = q.rows
        BY <2>1, <3>2 DEF CacheEntries
      <4>2. Cache!Life(q.rows) \in Nat
        BY CacheLife
      <4>3. EdgeAge'
        BY <2>1, <4>1, <4>2 DEF EdgeAge
      <4> QED BY <2>1, <4>1, <4>3
    <3> QED BY <2>3, <3>1, <3>2
  <2>5. request' \in [Requests -> CacheRequests]
        /\ \A s \in Requests : RequestAge(request'[s]) /\ RequestBacked(request'[s], rewarded')
    BY <1>0, <1>16, <2>2
  <2>6. StoreBacked' /\ EntryAge'
        /\ (entry' # None => entry' \in CacheEntries /\ Backed(entry'.rows))
    BY <1>0, <2>2 DEF StoreBacked, EntryAge
  <2> QED BY <2>4, <2>5, <2>6 DEF CacheInv
<1> QED BY <1>1, <1>2, <1>3, <1>4, <1>5, <1>6, <1>9, <1>10, <1>11, <1>12, <1>13 DEF Cache!Next

LEMMA CacheInvariance == Cache!Spec => []CacheInv
<1>1. Cache!Init => CacheInv
  <2> SUFFICES ASSUME Cache!Init PROVE CacheInv
    OBVIOUS
  <2>1. Cache!NoRows \in CacheRows /\ Cache!NoRows.age = 0
    BY DEF Cache!NoRows, CacheRows
  <2>2. /\ Cache!Idle \in CacheRequests /\ Cache!Idle.at = "idle" /\ Cache!Idle.since = 0
        /\ Cache!Idle.rows = Cache!NoRows
    BY <2>1 DEF Cache!Idle, CacheRequests
  <2>3. RequestAge(Cache!Idle) /\ RequestBacked(Cache!Idle, 0)
    BY <2>1, <2>2, CacheConstants DEF RequestAge, RequestBacked
  <2> QED BY <2>2, <2>3 DEF Cache!Init, CacheInv, EntryAge, EdgeAge, StoreBacked
<1> QED BY <1>1, CacheInvInductive, PTL DEF Cache!Spec

\* What a user is shown of the leaderboard was read within the life of the entry,
\* of the CDN's answer, and of two requests, however they overlap.
THEOREM ServedIsRecent == MCSpec => []ServedAge
<1>1. CacheInv => ServedAge
  <2> SUFFICES ASSUME CacheInv, NEW rows \in Cache!Served
               PROVE  rows.age <= (IF Cache!Blank(rows) THEN EMPTY_TTL ELSE TTL) - 1
                                    + EDGE_FRESH + EDGE_STALE - 1 + 2 * LATENCY
    BY DEF ServedAge, Cache!ServedAge
  <2>1. Cache!Life(rows) \in Nat /\ Cache!Life(rows) = IF Cache!Blank(rows) THEN EMPTY_TTL ELSE TTL
    BY CacheLife
  <2>2. ASSUME NEW r \in Requests, request[r].at = "answer", rows = request[r].rows
        PROVE  rows.age <= Cache!Life(rows) - 1 + EDGE_FRESH + EDGE_STALE - 1 + 2 * LATENCY
    <3>1. /\ rows.age \in Nat /\ request[r].since \in Nat /\ request[r].since <= LATENCY
          /\ rows.age <= Cache!Life(rows) - 1 + LATENCY + request[r].since
      BY <2>2 DEF CacheInv, RequestAge, CacheRequests, CacheRows
    <3> QED BY <2>1, <3>1, CacheConstants
  <2>3. ASSUME edge # None, rows = edge.rows
        PROVE  rows.age <= Cache!Life(rows) - 1 + EDGE_FRESH + EDGE_STALE - 1 + 2 * LATENCY
    <3>1. /\ rows.age \in Nat /\ edge.since \in Int /\ edge.since <= EDGE_FRESH + EDGE_STALE - 1
          /\ rows.age <= Cache!Life(rows) - 1 + edge.since + 2 * LATENCY
      BY <2>3 DEF CacheInv, EdgeAge, CacheEntries, CacheRows
    <3> QED BY <2>1, <3>1, CacheConstants
  <2> QED BY <2>1, <2>2, <2>3 DEF Cache!Served
<1> QED BY <1>1, CacheInvariance, CacheBehaves, PTL

\* A ranked row never shows blocks without their rewards, wherever the indexer dies.
THEOREM RankedRowsAreBacked == MCSpec => []RowsAreBacked
<1>1. CacheInv => RowsAreBacked
  BY DEF CacheInv, RowsAreBacked, Cache!RowsAreBacked, Cache!Served, RequestBacked, Backed
<1> QED BY <1>1, CacheInvariance, CacheBehaves, PTL

-----------------------------------------------------------------------------
\* The transfer form.  Payments of earlier components go on, and report to nobody;
\* the one that reports to this component is the last one made from it.
Tries == [at : {"none", "building", "polling", "thrown", "over"}, mount : Nat,
          fate : {"none", "unknown", "paid", "refused"}]

IsLatest(p, try, m) ==
  /\ p \in Form!Payments /\ try[p].mount = m
  /\ \A q \in Form!Payments : try[q].mount = m => q <= p

Going(at) == at \in {"building", "polling"}

\* What the form shows is true of the payment it is about.
ShownIsTrue ==
  /\ \A p \in Form!Payments :
       Going(payment[p].at) /\ payment[p].mount = mount =>
         shown = "sending" /\ IsLatest(p, payment, mount)
  /\ shown = "sending" =>
       \E p \in Form!Payments :
         Going(payment[p].at) /\ payment[p].mount = mount
  /\ shown = "sent" =>
       \E p \in Form!Payments : IsLatest(p, payment, mount) /\ payment[p].fate = "paid"
  /\ shown = "failed" /\ app = "website" =>
       \E p \in Form!Payments :
         /\ IsLatest(p, payment, mount)
         /\ payment[p].at = "thrown" \/ payment[p].fate = "refused"

FormInv ==
  /\ mount \in Nat \ {0} /\ clicked \in Nat /\ payment \in [Form!Payments -> Tries]
  /\ \A p \in Form!Payments :
       /\ payment[p].mount <= mount /\ (p > clicked => payment[p].mount = 0)
       /\ payment[p].at = "building" => payment[p].fate = "none"
  /\ ~reopened => ShownIsTrue

LEMMA LatestIsOne ==
  ASSUME NEW p, IsLatest(p, payment, mount)
  PROVE  Form!Latest = p
<1> DEFINE is(q) == /\ payment[q].mount = mount
                   /\ \A o \in Form!Payments : payment[o].mount = mount => o <= q
<1>1. p \in Form!Payments /\ is(p)
  BY DEF IsLatest
<1>2. \A q \in Form!Payments : is(q) => q = p
  BY <1>1, WebsiteAssumption DEF Form!Payments, Form!FormAssumption
<1>3. Form!Latest = CHOOSE q \in Form!Payments : is(q)
  BY DEF Form!Latest
<1> HIDE DEF is
<1> QED BY <1>1, <1>2, <1>3

\* A payment is made: it is the latest, and the only one that reports here.
LEMMA SendFormInv == ASSUME FormInv, Form!Send PROVE FormInv'
<1>1. MAX_PAYMENTS \in Nat
  BY WebsiteAssumption DEF Form!FormAssumption
<1> DEFINE c == clicked + 1
           made == [at |-> "building", mount |-> mount, fate |-> "none"]
<1>2. /\ c \in Form!Payments /\ c \in Nat /\ clicked' = c /\ shown' = "sending"
      /\ payment' = [payment EXCEPT ![c] = made]
      /\ mount' = mount /\ reopened' = reopened /\ shown # "sending"
  BY <1>1 DEF Form!Send, FormInv, Form!Payments
<1>3. made \in Tries /\ made.mount = mount /\ made.at = "building" /\ made.fate = "none"
  BY DEF FormInv, Tries
<1> HIDE DEF made
<1>4. /\ payment' \in [Form!Payments -> Tries] /\ payment'[c] = made
      /\ \A p \in Form!Payments : p # c => payment'[p] = payment[p]
  BY <1>2, <1>3 DEF FormInv
<1>5. /\ c = clicked + 1 /\ clicked \in Nat /\ mount \in Nat \ {0}
      /\ \A p \in Form!Payments : p \in Nat
  BY <1>1 DEF FormInv, Form!Payments
<1> HIDE DEF c
<1>6. IsLatest(c, payment', mount')
  BY <1>2, <1>3, <1>4, <1>5 DEF IsLatest, FormInv
<1>7. ~reopened' => ShownIsTrue'
  BY <1>2, <1>3, <1>4, <1>6 DEF FormInv, ShownIsTrue, Going
<1>8. \A p \in Form!Payments :
         /\ payment'[p].mount <= mount' /\ (p > clicked' => payment'[p].mount = 0)
         /\ payment'[p].at = "building" => payment'[p].fate = "none"
  BY <1>2, <1>3, <1>4, <1>5 DEF FormInv
<1> QED BY <1>2, <1>4, <1>5, <1>7, <1>8 DEF FormInv

\* A payment goes a step further.  If it is the one that reports here, it is the
\* latest, and what is shown of it fits.
LEMMA StepFormInv ==
  ASSUME FormInv, NEW p \in Form!Payments, NEW at \in {"none", "building", "polling", "thrown", "over"},
         NEW fate \in {"none", "unknown", "paid", "refused"},
         payment' = [payment EXCEPT ![p].at = at, ![p].fate = fate],
         UNCHANGED <<app, mount, clicked, reopened>>,
         Going(at) => Going(payment[p].at),
         at = "building" => fate = "none",
         payment[p].fate = "paid" => fate = "paid",
         payment[p].at = "thrown" \/ payment[p].fate = "refused" => at = "thrown" \/ fate = "refused",
         payment[p].mount # mount \/ (Going(payment[p].at) => Going(at)) => shown' = shown,
         payment[p].mount = mount /\ Going(payment[p].at) /\ ~Going(at) =>
           /\ shown' \in {"sent", "failed", "lost"}
           /\ shown' = "sent" => fate = "paid"
           /\ shown' = "failed" /\ app = "website" => at = "thrown" \/ fate = "refused"
  PROVE  FormInv'
<1> DEFINE ends == payment[p].mount = mount /\ Going(payment[p].at) /\ ~Going(at)
<1>1. /\ payment' \in [Form!Payments -> Tries]
      /\ payment'[p].at = at /\ payment'[p].fate = fate /\ payment'[p].mount = payment[p].mount
      /\ \A q \in Form!Payments : q # p => payment'[q] = payment[q]
  BY DEF FormInv, Tries
<1>2. \A q \in Form!Payments : payment'[q].mount = payment[q].mount
  BY <1>1
<1>3. \A q \in Form!Payments : IsLatest(q, payment', mount') <=> IsLatest(q, payment, mount)
  BY <1>2 DEF IsLatest
<1>4. ASSUME ~reopened' PROVE ShownIsTrue'
  <2>1. ShownIsTrue
    BY <1>4 DEF FormInv
  <2>2. CASE ends
    <3>1. IsLatest(p, payment, mount) /\ \A q \in Form!Payments :
            IsLatest(q, payment, mount) => q = p
      BY <2>1, <2>2, WebsiteAssumption DEF ShownIsTrue, IsLatest, Form!Payments, Form!FormAssumption
    <3> QED BY <1>1, <1>3, <2>1, <2>2, <3>1 DEF ShownIsTrue
  <2>3. CASE ~ends
    <3>1. shown' = shown
      BY <2>3
    <3> QED BY ZenonT(30), <1>1, <1>2, <1>3, <2>1, <2>3, <3>1 DEF ShownIsTrue
  <2> QED BY <2>2, <2>3
<1> QED BY <1>1, <1>2, <1>4 DEF FormInv

LEMMA FormInvInductive == FormInv /\ [Form!Next]_Form!vars => FormInv'
<1> SUFFICES ASSUME FormInv, [Form!Next]_Form!vars PROVE FormInv'
  OBVIOUS
<1>0. payment \in [Form!Payments -> Tries]
  BY DEF FormInv
<1>1. CASE UNCHANGED Form!vars
  BY <1>1 DEF Form!vars, FormInv, ShownIsTrue, IsLatest
<1>2. CASE Form!Open
  <2>1. UNCHANGED <<app, mount, payment, clicked>> /\ shown' = "idle"
        /\ (~reopened' => ~reopened /\ Form!Here = {})
    BY <1>2 DEF Form!Open
  <2>2. ~reopened' => ShownIsTrue'
    BY <2>1 DEF FormInv, ShownIsTrue, Form!Here, Form!UnderWay, Going
  <2> QED BY <2>1, <2>2 DEF FormInv
<1>3. CASE Form!Close
  BY <1>3 DEF Form!Close, FormInv, ShownIsTrue, IsLatest
<1>4. CASE Form!Remount
  <2>1. mount' = mount + 1 /\ shown' = "idle" /\ UNCHANGED <<app, payment, clicked>>
    BY <1>4 DEF Form!Remount
  <2>2. /\ mount \in Nat \ {0} /\ mount' \in Nat \ {0}
        /\ \A p \in Form!Payments : payment[p].mount \in Nat /\ payment[p].mount < mount'
    BY <1>0, <2>1 DEF FormInv, Tries
  <2>3. ShownIsTrue'
    BY <2>1, <2>2 DEF ShownIsTrue
  <2> QED BY <2>1, <2>2, <2>3 DEF FormInv
<1>5. CASE Form!Send
  BY <1>5, SendFormInv
\* The other actions are steps of one payment.
<1>6. ASSUME NEW p \in Form!Payments
      PROVE  /\ payment[p] \in Tries /\ payment[p].at \in {"none", "building", "polling", "thrown", "over"}
             /\ payment[p].fate \in {"none", "unknown", "paid", "refused"}
             /\ payment[p].at = "building" => payment[p].fate = "none"
             /\ \A at : [payment EXCEPT ![p].at = at] =
                         [payment EXCEPT ![p].at = at, ![p].fate = payment[p].fate]
             /\ \A fate : [payment EXCEPT ![p].fate = fate] =
                           [payment EXCEPT ![p].at = payment[p].at, ![p].fate = fate]
  BY <1>0 DEF FormInv, Tries
<1>7. ASSUME NEW p \in Form!Payments, NEW sent \in BOOLEAN, Form!Submit(p, sent) PROVE FormInv'
  <2>1. payment[p].at = "building" /\ UNCHANGED <<app, mount, clicked, reopened>>
    BY <1>7 DEF Form!Submit
  <2>2. CASE payment' = [payment EXCEPT ![p].at = "polling", ![p].fate = "unknown"] /\ UNCHANGED shown
    BY <1>6, <2>1, <2>2, StepFormInv DEF Going
  <2>3. ASSUME NEW fate \in {"none", "unknown"}, Form!Say(p, "failed"),
               payment' = [payment EXCEPT ![p].at = "thrown", ![p].fate = fate]
        PROVE  FormInv'
    BY <1>6, <2>1, <2>3, StepFormInv DEF Form!Say, Going
  <2> QED BY <1>7, <2>2, <2>3 DEF Form!Submit
<1>8. ASSUME NEW p \in Form!Payments, NEW fate \in {"paid", "refused"}, Form!Execute(p, fate)
      PROVE  FormInv'
  <2>1. payment[p].fate = "unknown" /\ UNCHANGED <<app, mount, shown, clicked, reopened>>
        /\ payment' = [payment EXCEPT ![p].at = payment[p].at, ![p].fate = fate]
    BY <1>6, <1>8 DEF Form!Execute
  <2> QED BY <1>6, <2>1, StepFormInv DEF Going
<1>9. ASSUME NEW p \in Form!Payments, Form!Polled(p) \/ Form!TimeOut(p) \/ Form!Expire(p)
      PROVE  FormInv'
  <2>1. payment[p].at = "polling" /\ UNCHANGED <<app, mount, clicked, reopened>>
        /\ payment' = [payment EXCEPT ![p].at = "over", ![p].fate = payment[p].fate]
    BY <1>6, <1>9 DEF Form!Polled, Form!TimeOut, Form!Expire
  <2>2. /\ payment[p].mount # mount => shown' = shown
        /\ payment[p].mount = mount =>
             /\ shown' \in {"sent", "failed", "lost"}
             /\ shown' = "sent" => payment[p].fate = "paid"
             /\ shown' = "failed" /\ app = "website" => payment[p].fate = "refused"
    BY <1>9 DEF Form!Polled, Form!TimeOut, Form!Expire, Form!Say
  <2> QED BY <1>6, <2>1, <2>2, StepFormInv DEF Going
<1> QED BY <1>1, <1>2, <1>3, <1>4, <1>5, <1>7, <1>8, <1>9 DEF Form!Next, Form!PaymentStep

LEMMA FormInvariance == Form!Spec => []FormInv
<1>1. Form!Init => FormInv
  BY DEF Form!Init, Form!NoPayment, FormInv, Tries, ShownIsTrue, Going
<1> QED BY <1>1, FormInvInductive, PTL DEF Form!Spec

\* What the form shows is true of the payment just made: a click is one payment,
\* "sent" is paid, and the website says "failed" of nothing that may be paid but
\* a send that threw.
THEOREM VerdictsAreTrue == MCSpec => []VerdictIsTrue
<1>1. FormInv => VerdictIsTrue
  <2> SUFFICES ASSUME FormInv, ~reopened
               PROVE  /\ Form!Cardinality(Form!Here) = (IF shown = "sending" THEN 1 ELSE 0)
                      /\ shown = "sent" => payment[Form!Latest].fate = "paid"
                      /\ shown = "failed" /\ app = "website" =>
                           payment[Form!Latest].at = "thrown" \/ payment[Form!Latest].fate = "refused"
    BY DEF VerdictIsTrue, Form!VerdictIsTrue
  <2>1. ShownIsTrue
    BY DEF FormInv
  <2>2. Form!Cardinality(Form!Here) = Cardinality(Form!Here)
    BY DEF Form!Cardinality, Cardinality
  <2>3. CASE shown = "sending"
    <3>1. PICK p \in Form!Payments : Going(payment[p].at) /\ payment[p].mount = mount
      BY <2>1, <2>3 DEF ShownIsTrue
    <3>2. \A q \in Form!Payments : Going(payment[q].at) /\ payment[q].mount = mount => q = p
      BY <2>1, <3>1, WebsiteAssumption DEF ShownIsTrue, IsLatest, Form!Payments, Form!FormAssumption
    <3>3. Form!Here = {p}
      BY <3>1, <3>2 DEF Form!Here, Form!UnderWay, Going
    <3>4. Cardinality({p}) = 1
      BY FS_Singleton
    <3> QED BY <2>2, <2>3, <3>3, <3>4
  <2>4. CASE shown # "sending"
    <3>1. Form!Here = {}
      BY <2>1, <2>4 DEF ShownIsTrue, Form!Here, Form!UnderWay, Going
    <3>2. CASE shown = "sent"
      BY <2>1, <2>2, <3>1, <3>2, LatestIsOne, FS_EmptySet DEF ShownIsTrue
    <3>3. CASE shown # "sent"
      BY <2>1, <2>2, <2>4, <3>1, <3>3, LatestIsOne, FS_EmptySet DEF ShownIsTrue
    <3> QED BY <3>2, <3>3
  <2> QED BY <2>3, <2>4
<1> QED BY <1>1, FormInvariance, FormBehaves, PTL

-----------------------------------------------------------------------------
-----------------------------------------------------------------------------
\* The explorer's list of blocks.

\* The instance's Cardinality is the library's.
LEMMA PagesCardinality == \A X : Pages!Cardinality(X) = Cardinality(X)
BY DEF Cardinality, Pages!Cardinality

\* Elements are numbered by how many are newer.
LEMMA Ranks ==
  ASSUME NEW X \in SUBSET Nat, IsFiniteSet(X)
  PROVE  /\ \A s \in X : Pages!NewerThan(s, X) \in 0 .. Cardinality(X) - 1
         /\ \A s, t \in X : s < t => Pages!NewerThan(t, X) < Pages!NewerThan(s, X)
         /\ \A i \in 0 .. Cardinality(X) - 1 : \E s \in X : Pages!NewerThan(s, X) = i
<1> DEFINE Newer(s) == {t \in X : t > s}
           rank == [s \in X |-> Pages!NewerThan(s, X)]
<1>0. \A s \in X : s \in Nat
  OBVIOUS
<1>1. \A s : /\ Pages!NewerThan(s, X) = Cardinality(Newer(s))
             /\ IsFiniteSet(Newer(s)) /\ Cardinality(Newer(s)) \in Nat
  BY FS_Subset, FS_CardinalityType, PagesCardinality DEF Pages!NewerThan
<1>2. Cardinality(X) \in Nat
  BY FS_CardinalityType
<1>3. ASSUME NEW s \in X PROVE Pages!NewerThan(s, X) \in 0 .. Cardinality(X) - 1
  <2>1. Newer(s) \subseteq X /\ Newer(s) # X
    OBVIOUS
  <2>2. Cardinality(Newer(s)) <= Cardinality(X) /\ Cardinality(Newer(s)) # Cardinality(X)
    BY <2>1, FS_Subset
  <2> HIDE DEF Newer
  <2> QED BY <1>1, <1>2, <2>2
<1>4. ASSUME NEW s \in X, NEW t \in X, s < t
      PROVE  Pages!NewerThan(t, X) < Pages!NewerThan(s, X)
  <2>1. Newer(t) \subseteq Newer(s) /\ t \in Newer(s) /\ t \notin Newer(t)
    <3>1. \A u \in X : u > t => u > s
      BY <1>0, <1>4
    <3>2. t > s /\ ~(t > t)
      BY <1>0, <1>4
    <3> QED BY <3>1, <3>2
  <2>2. /\ Cardinality(Newer(t)) <= Cardinality(Newer(s))
        /\ Cardinality(Newer(t)) # Cardinality(Newer(s))
    BY <1>1, <2>1, FS_Subset
  <2> HIDE DEF Newer
  <2> QED BY <1>1, <2>2
<1>5. rank \in Injection(X, 0 .. Cardinality(X) - 1)
  <2>1. rank \in [X -> 0 .. Cardinality(X) - 1]
    BY <1>3
  <2>2. ASSUME NEW s \in X, NEW t \in X, rank[s] = rank[t] PROVE s = t
    <3>1. ~(s < t) /\ ~(t < s)
      BY <1>3, <1>4, <2>2
    <3> QED BY <3>1
  <2> QED BY <2>1, <2>2, Fun_IsInj
<1>6. IsFiniteSet(0 .. Cardinality(X) - 1) /\ Cardinality(0 .. Cardinality(X) - 1) = Cardinality(X)
  <2>1. /\ IsFiniteSet(0 .. Cardinality(X) - 1)
        /\ Cardinality(0 .. Cardinality(X) - 1) =
             IF 0 > Cardinality(X) - 1 THEN 0 ELSE (Cardinality(X) - 1) - 0 + 1
    <3>1. 0 \in Int /\ Cardinality(X) - 1 \in Int
      BY <1>2
    <3> QED BY ONLY <3>1, FS_Interval
  <2> QED BY <1>2, <2>1
<1>7. rank \in Surjection(X, 0 .. Cardinality(X) - 1)
  BY <1>5, <1>6, FS_Injection
<1>8. \A i \in 0 .. Cardinality(X) - 1 : \E s \in X : rank[s] = i
  <2> HIDE DEF rank
  <2> QED BY <1>7 DEF Surjection
<1> QED BY <1>3, <1>4, <1>8

\* The sorted sequence of a set.
LEMMA NewestFirstSorts ==
  ASSUME NEW X \in SUBSET Nat, IsFiniteSet(X)
  PROVE  /\ Pages!NewestFirst(X) \in Seq(X)
         /\ \A i, j \in DOMAIN Pages!NewestFirst(X) :
              i < j => Pages!NewestFirst(X)[i] > Pages!NewestFirst(X)[j]
         /\ \A s \in X : \E i \in DOMAIN Pages!NewestFirst(X) : Pages!NewestFirst(X)[i] = s
<1> DEFINE q == Pages!NewestFirst(X)
<1>0. \A s \in X : s \in Nat
  OBVIOUS
<1>1. Cardinality(X) \in Nat
  BY FS_CardinalityType
<1>2. q = [i \in 1 .. Cardinality(X) |-> CHOOSE s \in X : Pages!NewerThan(s, X) = i - 1]
  BY PagesCardinality DEF Pages!NewestFirst
<1>3. ASSUME NEW i \in 1 .. Cardinality(X)
      PROVE  q[i] \in X /\ Pages!NewerThan(q[i], X) = i - 1
  <2>1. i - 1 \in 0 .. Cardinality(X) - 1
    BY <1>1
  <2>2. \E s \in X : Pages!NewerThan(s, X) = i - 1
    BY <2>1, Ranks
  <2>3. q[i] = CHOOSE s \in X : Pages!NewerThan(s, X) = i - 1
    BY <1>2
  <2> QED BY <2>2, <2>3
<1> HIDE DEF q
<1>4. q \in Seq(X) /\ DOMAIN q = 1 .. Cardinality(X)
  <2>1. DOMAIN q = 1 .. Cardinality(X) /\ q = [i \in DOMAIN q |-> q[i]]
    BY <1>2
  <2>2. q \in [1 .. Cardinality(X) -> X]
    BY <1>3, <2>1
  <2> QED BY <1>1, <2>1, <2>2, IsASeq
<1>5. ASSUME NEW i \in DOMAIN q, NEW j \in DOMAIN q, i < j PROVE q[i] > q[j]
  <2>1. /\ q[i] \in X /\ q[j] \in X
        /\ Pages!NewerThan(q[i], X) = i - 1 /\ Pages!NewerThan(q[j], X) = j - 1
    BY <1>3, <1>4
  <2>2. i - 1 < j - 1 /\ i - 1 # j - 1 /\ ~(j - 1 < i - 1)
    BY <1>4, <1>5
  <2>3. ~(q[i] < q[j]) /\ q[i] # q[j]
    <3>1. \A s, t \in X : s < t => Pages!NewerThan(t, X) < Pages!NewerThan(s, X)
      BY Ranks
    <3>2. q[i] < q[j] => j - 1 < i - 1
      BY <2>1, <3>1
    <3> QED BY <2>1, <2>2, <3>2
  <2>4. q[i] \in Nat /\ q[j] \in Nat
    BY <1>0, <2>1
  <2> QED BY <2>3, <2>4
<1>6. ASSUME NEW s \in X PROVE \E i \in DOMAIN q : q[i] = s
  <2>1. Pages!NewerThan(s, X) \in 0 .. Cardinality(X) - 1
    BY Ranks
  <2>2. PICK i \in 1 .. Cardinality(X) : i - 1 = Pages!NewerThan(s, X)
    <3>1. Pages!NewerThan(s, X) + 1 \in 1 .. Cardinality(X)
          /\ (Pages!NewerThan(s, X) + 1) - 1 = Pages!NewerThan(s, X)
      BY <1>1, <2>1
    <3> QED BY <3>1
  <2>3. q[i] \in X /\ Pages!NewerThan(q[i], X) = Pages!NewerThan(s, X)
    BY <1>3, <2>2
  <2>4. ~(q[i] < s) /\ ~(s < q[i])
    <3>1. \A x, y \in 0 .. Cardinality(X) - 1 : x = y => ~(x < y)
      BY <1>1
    <3> QED BY <2>1, <2>3, <3>1, Ranks
  <2>5. q[i] \in Nat /\ s \in Nat
    BY <1>0, <2>3
  <2>6. q[i] = s
    BY <2>4, <2>5
  <2> QED BY <1>4, <2>6
<1> QED BY <1>4, <1>5, <1>6 DEF q

\* The newest of a set are some of it, and all that are as new as one of them.
LEMMA NewestIsAnEnd ==
  ASSUME NEW X \in SUBSET Nat, IsFiniteSet(X), NEW n \in Nat \ {0}
  PROVE  /\ Pages!Newest(X, n) \subseteq X /\ IsFiniteSet(Pages!Newest(X, n))
         /\ \A s \in Pages!Newest(X, n), t \in X : s <= t => t \in Pages!Newest(X, n)
         /\ X # {} => Pages!Newest(X, n) # {}
<1>1. Pages!Newest(X, n) \subseteq X /\ IsFiniteSet(Pages!Newest(X, n))
  BY FS_Subset DEF Pages!Newest
<1>2. ASSUME NEW s \in Pages!Newest(X, n), NEW t \in X, s <= t PROVE t \in Pages!Newest(X, n)
  <2>1. s \in X /\ Pages!NewerThan(s, X) < n
    BY DEF Pages!Newest
  <2>2. Pages!NewerThan(t, X) < n
    <3>1. CASE s = t
      BY <2>1, <3>1
    <3>2. CASE s < t
      <4>1. Pages!NewerThan(t, X) < Pages!NewerThan(s, X) /\ Cardinality(X) \in Nat
            /\ Pages!NewerThan(t, X) \in 0 .. Cardinality(X) - 1
            /\ Pages!NewerThan(s, X) \in 0 .. Cardinality(X) - 1
        BY <2>1, <3>2, Ranks, FS_CardinalityType
      <4> QED BY <2>1, <4>1
    <3> QED BY <1>2, <2>1, <3>1, <3>2
  <2> QED BY <2>2 DEF Pages!Newest
<1>3. ASSUME X # {} PROVE Pages!Newest(X, n) # {}
  <2>1. Cardinality(X) \in Nat /\ Cardinality(X) # 0
    BY <1>3, FS_CardinalityType, FS_EmptySet
  <2>2. 0 \in 0 .. Cardinality(X) - 1
    BY <2>1
  <2>3. PICK s \in X : Pages!NewerThan(s, X) = 0
    BY <2>2, Ranks
  <2> QED BY <2>3 DEF Pages!Newest
<1> QED BY <1>1, <1>2, <1>3

\* Adding a poll's blocks, or a page, keeps the list in order and without gaps
\* because the cursor is where the list ends and everything between its head and
\* the cursor is in it.
Falls == \A i, j \in DOMAIN Pages!List : i < j => Pages!List[i] > Pages!List[j]
EndsAtCursor ==
  /\ cursor # 0 => \A i \in DOMAIN Pages!List : Pages!List[i] >= cursor
  /\ cursor # 0 /\ ~exhausted /\ Pages!List # <<>> => cursor = Pages!List[Len(Pages!List)]
RequestIsNext == loading # 0 => loading = cursor /\ ~exhausted
NoGaps ==
  ~faulty /\ blocks # <<>> =>
    \A s \in DOMAIN mined :
      /\ mined[s] /\ s <= Pages!List[1]
      /\ IF cursor # 0 THEN s >= cursor ELSE s >= Pages!List[Len(Pages!List)]
      => \E i \in DOMAIN Pages!List : Pages!List[i] = s
NothingFound ==
  ~faulty /\ exhausted /\ Pages!List # <<>> =>
    Pages!Found(Pages!List[Len(Pages!List)], {}) = {}

PagesTypes ==
  /\ mined \in Seq(BOOLEAN) /\ blocks \in Seq(Nat) /\ older \in Seq(Nat)
  /\ \A i \in DOMAIN blocks : blocks[i] \in DOMAIN mined
  /\ \A i \in DOMAIN older : older[i] \in DOMAIN mined
  /\ cursor \in 0 .. Len(mined) /\ loading \in 0 .. Len(mined)

PagesInv ==
  /\ PagesTypes
  /\ ~crossed => Falls /\ EndsAtCursor /\ RequestIsNext /\ NoGaps /\ NothingFound

LEMMA ListPoints ==
  ASSUME PagesTypes
  PROVE  /\ Pages!List \in Seq(Nat) /\ Len(blocks) \in Nat /\ Len(older) \in Nat
         /\ Len(Pages!List) = Len(blocks) + Len(older)
         /\ DOMAIN Pages!List = 1 .. Len(blocks) + Len(older)
         /\ DOMAIN blocks = 1 .. Len(blocks) /\ DOMAIN older = 1 .. Len(older)
         /\ \A i \in 1 .. Len(blocks) : Pages!List[i] = blocks[i]
         /\ \A i \in 1 .. Len(older) : Pages!List[Len(blocks) + i] = older[i]
         /\ \A i \in DOMAIN Pages!List : Pages!List[i] \in DOMAIN mined
         /\ Len(mined) \in Nat /\ DOMAIN mined = 1 .. Len(mined)
         /\ Pages!List # <<>> <=> Len(Pages!List) \in DOMAIN Pages!List
<1>1. blocks \in Seq(Nat) /\ older \in Seq(Nat) /\ mined \in Seq(BOOLEAN)
  BY DEF PagesTypes
<1>2. /\ Pages!List \in Seq(Nat) /\ Len(blocks) \in Nat /\ Len(older) \in Nat
      /\ Len(Pages!List) = Len(blocks) + Len(older)
      /\ DOMAIN Pages!List = 1 .. Len(blocks) + Len(older)
      /\ DOMAIN blocks = 1 .. Len(blocks) /\ DOMAIN older = 1 .. Len(older)
      /\ \A i \in 1 .. Len(blocks) : Pages!List[i] = blocks[i]
      /\ \A i \in 1 .. Len(older) : Pages!List[Len(blocks) + i] = older[i]
  BY <1>1 DEF Pages!List
<1>3. ASSUME NEW i \in DOMAIN Pages!List PROVE Pages!List[i] \in DOMAIN mined
  <2>1. CASE i \in 1 .. Len(blocks)
    BY <1>2, <2>1 DEF PagesTypes
  <2>2. CASE i \notin 1 .. Len(blocks)
    <3>1. i - Len(blocks) \in 1 .. Len(older) /\ Len(blocks) + (i - Len(blocks)) = i
      BY <1>2, <2>2
    <3>2. Pages!List[i] = older[i - Len(blocks)]
      BY <1>2, <3>1
    <3> QED BY <1>2, <3>1, <3>2 DEF PagesTypes
  <2> QED BY <2>1, <2>2
<1>4. Len(mined) \in Nat /\ DOMAIN mined = 1 .. Len(mined)
  BY <1>1
<1>5. Pages!List # <<>> <=> Len(Pages!List) \in DOMAIN Pages!List
  BY <1>2
<1> QED BY <1>2, <1>3, <1>4, <1>5

\* How far a page's batches reach.
REACH == MAX_BATCHES * SIGS_LIMIT

LEMMA Reach ==
  /\ REACH \in Nat \ {0} /\ (MAX_BATCHES - 1) * SIGS_LIMIT \in Nat
  /\ RECENT \in Nat \ {0} /\ PAGE_BLOCKS \in Nat \ {0}
<1>1. /\ MAX_BATCHES \in Nat \ {0} /\ SIGS_LIMIT \in Nat \ {0}
      /\ RECENT \in Nat \ {0} /\ PAGE_BLOCKS \in Nat \ {0}
  BY WebsiteAssumption DEF WebsiteAssumption, Pages!PagesAssumption
<1>2. \A x, y \in Nat \ {0} : x * y \in Nat \ {0} /\ (x - 1) * y \in Nat
  OBVIOUS
<1> QED BY <1>1, <1>2 DEF REACH

LEMMA ScannedSignatures ==
  ASSUME NEW before \in Nat \ {0}
  PROVE  /\ Pages!Scanned(before) \subseteq 1 .. before - 1
         /\ \A s \in Pages!Scanned(before), t \in 1 .. before - 1 :
              s <= t => t \in Pages!Scanned(before)
         /\ Pages!ScanEnd(before) \in 0 .. before - 1
         /\ Pages!ScanEnd(before) # 0 => Pages!ScanEnd(before) \in Pages!Scanned(before)
<1> DEFINE X == Pages!Scanned(before)
<1>1. X = {s \in 1 .. before - 1 : s + REACH >= before}
  BY DEF Pages!Scanned, REACH
<1>2. X \subseteq 1 .. before - 1 /\ \A s \in X, t \in 1 .. before - 1 : s <= t => t \in X
  BY <1>1, Reach
<1>3. CASE before - 1 <= (MAX_BATCHES - 1) * SIGS_LIMIT
  <2>1. Pages!ScanEnd(before) = 0
    BY <1>3 DEF Pages!ScanEnd
  <2> QED BY <1>2, <2>1
<1>4. CASE ~(before - 1 <= (MAX_BATCHES - 1) * SIGS_LIMIT)
  <2>1. Pages!ScanEnd(before) = CHOOSE s \in X : \A t \in X : s <= t
    BY <1>4 DEF Pages!ScanEnd
  <2>2. before - 1 \in Nat \ {0}
    BY <1>4, Reach
  <2>3. \E s \in X : \A t \in X : s <= t
    <3>1. CASE before <= REACH
      <4>1. 1 \in X /\ \A t \in X : 1 <= t
        BY <1>1, <2>2, <3>1, Reach
      <4> QED BY <4>1
    <3>2. CASE ~(before <= REACH)
      <4>1. before - REACH \in X /\ \A t \in X : before - REACH <= t
        BY <1>1, <2>2, <3>2, Reach
      <4> QED BY <4>1
    <3> QED BY <3>1, <3>2
  <2>4. Pages!ScanEnd(before) \in X
    <3> HIDE DEF X
    <3> QED BY <2>1, <2>3
  <2> QED BY <1>2, <2>4
<1> QED BY <1>2, <1>3, <1>4

\* fetchBlocksPage: a page is in order and below its cursor, the next one starts
\* below it, and what was mined in between is on it, if no lookup failed.
IsPage(page, before, lost) ==
  LET b == page.blocks IN
  /\ b \in Seq(Nat) /\ page.next \in 0 .. before - 1
  /\ \A i, j \in DOMAIN b : i < j => b[i] > b[j]
  /\ \A i \in DOMAIN b : b[i] \in 1 .. before - 1
  /\ b # <<>> => page.next = b[Len(b)]
  /\ lost = {} =>
       /\ b = <<>> => Pages!Found(before, {}) = {}
       /\ page.next # 0 => \A s \in page.next .. before - 1 :
                             mined[s] => \E i \in DOMAIN b : b[i] = s

LEMMA PagesArePages ==
  ASSUME PagesTypes, NEW before \in 1 .. Len(mined), NEW lost
  PROVE  IsPage(Pages!Page(before, lost), before, lost)
<1> DEFINE X == (Pages!MinedBefore(before) \cap Pages!Scanned(before)) \ lost
           F == Pages!Found(before, lost)
           b == Pages!NewestFirst(F)
           page == Pages!Page(before, lost)
<1>1. before \in Nat \ {0} /\ mined \in Seq(BOOLEAN) /\ Len(mined) \in Nat
  BY DEF PagesTypes
<1>2. /\ Pages!MinedBefore(before) \subseteq 1 .. before - 1
      /\ \A s \in 1 .. before - 1 : mined[s] <=> s \in Pages!MinedBefore(before)
  BY DEF Pages!MinedBefore
<1>3. X \subseteq 1 .. before - 1 /\ X \in SUBSET Nat /\ IsFiniteSet(X)
  <2>1. X \subseteq 1 .. before - 1 /\ 1 .. before - 1 \subseteq Nat
    BY <1>1, <1>2
  <2>2. IsFiniteSet(1 .. before - 1)
    BY <1>1, FS_Interval
  <2> QED BY <2>1, <2>2, FS_Subset
<1>4. /\ F = Pages!Newest(X, PAGE_BLOCKS) /\ F \subseteq X /\ IsFiniteSet(F)
      /\ \A s \in F, t \in X : s <= t => t \in F
      /\ X # {} => F # {}
  <2>1. F = Pages!Newest(X, PAGE_BLOCKS)
    BY DEF Pages!Found
  <2> HIDE DEF X, F
  <2> QED BY <1>3, <2>1, Reach, NewestIsAnEnd
<1>5. F \subseteq 1 .. before - 1 /\ F \in SUBSET Nat
  BY <1>3, <1>4
<1>6. /\ b \in Seq(F) /\ \A i, j \in DOMAIN b : i < j => b[i] > b[j]
      /\ \A s \in F : \E i \in DOMAIN b : b[i] = s
  <2> HIDE DEF F
  <2> QED BY <1>4, <1>5, NewestFirstSorts
<1>7. /\ page.blocks = b
      /\ page.next = IF b # <<>> THEN Pages!Last(b) ELSE Pages!ScanEnd(before)
  BY DEF Pages!Page
<1> HIDE DEF page, b
<1>8. /\ b \in Seq(Nat) /\ \A i \in DOMAIN b : b[i] \in F
      /\ b # <<>> => Len(b) \in DOMAIN b
      /\ Pages!Last(b) = b[Len(b)]
  <2>1. b \in Seq(Nat) /\ \A i \in DOMAIN b : b[i] \in F
    BY <1>5, <1>6
  <2>2. b # <<>> => Len(b) \in DOMAIN b
    BY <2>1
  <2> QED BY <2>1, <2>2 DEF Pages!Last
<1>9. b = <<>> => F = {}
  BY <1>6
<1> HIDE DEF F
<1>10. b # <<>> => page.next = b[Len(b)] /\ page.next \in F
  BY <1>7, <1>8
<1>11. page.next \in 0 .. before - 1
  <2>1. CASE b # <<>>
    <3>1. page.next \in 1 .. before - 1
      BY <1>5, <1>10, <2>1
    <3> QED BY <1>1, <3>1
  <2>2. CASE b = <<>>
    <3>1. Pages!ScanEnd(before) \in 0 .. before - 1
      BY <1>1, ScannedSignatures
    <3> QED BY <1>7, <2>2, <3>1
  <2> QED BY <2>1, <2>2
<1>12. ASSUME lost = {}, page.next # 0, NEW s \in page.next .. before - 1, mined[s]
       PROVE  \E i \in DOMAIN b : b[i] = s
  <2>1. page.next \in Pages!Scanned(before)
    BY <1>1, <1>4, <1>7, <1>10, <1>12, ScannedSignatures
  <2>2. s \in 1 .. before - 1 /\ page.next <= s
    BY <1>1, <1>11, <1>12
  <2>3. s \in X
    BY <1>1, <1>2, <1>12, <2>1, <2>2, ScannedSignatures
  <2>4. CASE b = <<>>
    BY <1>4, <1>9, <2>3, <2>4
  <2>5. CASE b # <<>>
    <3>1. s \in F
      BY <1>4, <1>10, <2>2, <2>3, <2>5
    <3> QED BY <1>6, <3>1
  <2> QED BY <2>4, <2>5
<1>13. lost = {} /\ b = <<>> => Pages!Found(before, {}) = {}
  BY <1>9 DEF F
<1> QED BY <1>5, <1>6, <1>7, <1>8, <1>10, <1>11, <1>12, <1>13 DEF IsPage, page

\* The poll and the chain leave the list as it is, or start it over; a page goes on
\* where it ends.
LEMMA LoadedStands ==
  ASSUME PagesInv, NEW page, NEW lost, Pages!Loaded(page), IsPage(page, loading, lost),
         ~faulty' => ~faulty /\ lost = {}
  PROVE  PagesInv'
<1> DEFINE b == page.blocks
           n == Len(Pages!List)
<1>1. /\ loading # 0 /\ loading' = 0 /\ older' = older \o b /\ cursor' = page.next
      /\ exhausted' = (exhausted \/ b = <<>> \/ page.next = 0)
      /\ UNCHANGED <<mined, blocks, crossed>>
  BY DEF Pages!Loaded
<1>2. /\ b \in Seq(Nat) /\ page.next \in 0 .. loading - 1
      /\ \A i, j \in DOMAIN b : i < j => b[i] > b[j]
      /\ \A i \in DOMAIN b : b[i] \in 1 .. loading - 1
      /\ b # <<>> => page.next = b[Len(b)]
      /\ lost = {} =>
           /\ b = <<>> => Pages!Found(loading, {}) = {}
           /\ page.next # 0 => \A s \in page.next .. loading - 1 :
                                 mined[s] => \E i \in DOMAIN b : b[i] = s
  BY DEF IsPage
<1>3. PagesTypes /\ loading \in 1 .. Len(mined) /\ Len(mined) \in Nat
      /\ DOMAIN mined = 1 .. Len(mined)
  BY <1>1, ListPoints DEF PagesInv, PagesTypes
<1> HIDE DEF b
<1>4. /\ Pages!List \in Seq(Nat) /\ n \in Nat /\ DOMAIN Pages!List = 1 .. n
      /\ Len(b) \in Nat /\ DOMAIN b = 1 .. Len(b) /\ (b # <<>> <=> Len(b) # 0)
      /\ \A i \in 1 .. n : Pages!List[i] \in DOMAIN mined
      /\ (Pages!List # <<>> <=> n # 0)
      /\ (blocks # <<>> => Pages!List # <<>>)
  <2>1. b \in Seq(Nat) /\ PagesTypes
    BY <1>2, <1>3
  <2>2. Len(b) \in Nat /\ DOMAIN b = 1 .. Len(b) /\ (b # <<>> <=> Len(b) # 0)
    BY <2>1
  <2>3. /\ Pages!List \in Seq(Nat) /\ n \in Nat /\ DOMAIN Pages!List = 1 .. n
        /\ \A i \in 1 .. n : Pages!List[i] \in DOMAIN mined
        /\ Len(blocks) \in Nat /\ Len(older) \in Nat /\ n = Len(blocks) + Len(older)
    <3>1. /\ Pages!List \in Seq(Nat) /\ Len(blocks) \in Nat /\ Len(older) \in Nat
          /\ n = Len(blocks) + Len(older) /\ DOMAIN Pages!List = 1 .. Len(blocks) + Len(older)
          /\ \A i \in DOMAIN Pages!List : Pages!List[i] \in DOMAIN mined
      BY <2>1, ListPoints
    <3> HIDE DEF n
    <3> QED BY <3>1
  <2>4. blocks # <<>> => Len(blocks) # 0
    BY <2>1 DEF PagesTypes
  <2>5. Pages!List # <<>> <=> n # 0
    BY <2>3
  <2> HIDE DEF n
  <2> QED BY <2>2, <2>3, <2>4, <2>5
<1>5. Pages!List' = Pages!List \o b
  <2>1. blocks \in Seq(Nat) /\ older \in Seq(Nat) /\ b \in Seq(Nat)
    BY <1>2, <1>3 DEF PagesTypes
  <2>2. (blocks \o older) \o b = blocks \o (older \o b)
    BY <2>1, ConcatAssociative
  <2> QED BY <1>1, <2>2 DEF Pages!List
<1> DEFINE L == Pages!List
<1>6. /\ Pages!List' \in Seq(Nat) /\ Len(Pages!List') = n + Len(b)
      /\ DOMAIN Pages!List' = 1 .. n + Len(b)
      /\ \A i \in 1 .. n : Pages!List'[i] = L[i]
      /\ \A i \in 1 .. Len(b) : Pages!List'[n + i] = b[i]
  BY <1>2, <1>4, <1>5
<1> HIDE DEF n
<1>7. \A i \in DOMAIN Pages!List' :
        \/ i \in 1 .. n /\ Pages!List'[i] = L[i]
        \/ i - n \in 1 .. Len(b) /\ Pages!List'[i] = b[i - n]
  <2> SUFFICES ASSUME NEW i \in DOMAIN Pages!List', i \notin 1 .. n
               PROVE  i - n \in 1 .. Len(b) /\ Pages!List'[i] = b[i - n]
    BY <1>6
  <2>1. i - n \in 1 .. Len(b) /\ n + (i - n) = i
    BY <1>4, <1>6
  <2> QED BY <1>6, <2>1
<1>8. PagesTypes'
  <2>1. older' \in Seq(Nat) /\ \A i \in DOMAIN older' : older'[i] \in DOMAIN mined
    <3>1. older \in Seq(Nat) /\ \A i \in DOMAIN older : older[i] \in DOMAIN mined
      BY <1>3 DEF PagesTypes
    <3>2. /\ older' \in Seq(Nat) /\ Len(older) \in Nat /\ DOMAIN older = 1 .. Len(older)
          /\ DOMAIN older' = 1 .. Len(older) + Len(b)
          /\ \A i \in 1 .. Len(older) : older'[i] = older[i]
          /\ \A i \in 1 .. Len(b) : older'[Len(older) + i] = b[i]
      BY <1>1, <1>2, <3>1
    <3>3. ASSUME NEW i \in DOMAIN older', i \notin 1 .. Len(older)
          PROVE  older'[i] \in DOMAIN mined
      <4>1. i - Len(older) \in 1 .. Len(b) /\ Len(older) + (i - Len(older)) = i
        BY SMTT(30), <1>4, <3>2, <3>3
      <4>2. older'[i] = b[i - Len(older)]
        BY <3>2, <4>1
      <4>3. b[i - Len(older)] \in 1 .. loading - 1
        BY <1>2, <1>4, <4>1
      <4> QED BY <1>3, <4>2, <4>3
    <3> QED BY <3>1, <3>2, <3>3
  <2>2. cursor' \in 0 .. Len(mined) /\ loading' \in 0 .. Len(mined)
    BY <1>1, <1>2, <1>3
  <2> QED BY <1>1, <1>3, <2>1, <2>2 DEF PagesTypes
<1> SUFFICES ASSUME ~crossed
             PROVE  Falls' /\ EndsAtCursor' /\ RequestIsNext' /\ NoGaps' /\ NothingFound'
  BY <1>1, <1>8 DEF PagesInv
<1>9. /\ Falls /\ EndsAtCursor /\ NoGaps /\ loading = cursor /\ cursor # 0 /\ ~exhausted
  BY <1>1 DEF PagesInv, RequestIsNext
<1>10. \A i \in 1 .. n : L[i] >= loading /\ L[i] \in Nat
  BY SMTT(30), <1>3, <1>4, <1>9 DEF EndsAtCursor
<1>11. \A i \in 1 .. Len(b) : b[i] < loading /\ b[i] \in Nat
  BY <1>2, <1>3, <1>4
<1>12. Falls'
  <2> SUFFICES ASSUME NEW i \in DOMAIN Pages!List', NEW j \in DOMAIN Pages!List', i < j
               PROVE  Pages!List'[i] > Pages!List'[j]
    BY DEF Falls
  <2>0. i \in Int /\ j \in Int
    BY <1>4, <1>6
  <2>1. CASE j \in 1 .. n
    <3>1. i \in 1 .. n
      BY <1>4, <1>6, <2>1
    <3> QED BY <1>4, <1>6, <1>9, <2>1, <3>1 DEF Falls
  <2>2. CASE j \notin 1 .. n /\ i \in 1 .. n
    <3>1. j - n \in 1 .. Len(b) /\ Pages!List'[j] = b[j - n] /\ Pages!List'[i] = L[i]
      BY <1>6, <1>7, <2>2
    <3>2. L[i] >= loading /\ L[i] \in Nat /\ b[j - n] < loading /\ b[j - n] \in Nat
      BY <1>10, <1>11, <2>2, <3>1
    <3> QED BY <1>3, <3>1, <3>2
  <2>3. CASE j \notin 1 .. n /\ i \notin 1 .. n
    <3>1. /\ j - n \in 1 .. Len(b) /\ Pages!List'[j] = b[j - n]
          /\ i - n \in 1 .. Len(b) /\ Pages!List'[i] = b[i - n]
      BY <1>7, <2>3
    <3>2. i - n < j - n
      BY <1>4, <2>0
    <3> QED BY <1>2, <1>4, <3>1, <3>2
  <2> QED BY <2>1, <2>2, <2>3
<1>13. RequestIsNext'
  BY <1>1 DEF RequestIsNext
<1>14. CASE b # <<>>
  <2>1. /\ Len(b) \in 1 .. Len(b) /\ page.next = b[Len(b)] /\ page.next \in 1 .. loading - 1
    BY <1>2, <1>4, <1>14
  <2>2. ~exhausted' /\ cursor' = page.next /\ cursor' # 0
    <3>1. page.next # 0
      BY <1>3, <2>1
    <3> QED BY <1>1, <1>9, <1>14, <3>1, Zenon
  <2>3. Len(Pages!List') = n + Len(b) /\ Pages!List'[n + Len(b)] = cursor'
    BY <1>6, <2>1, <2>2
  <2>4. \A i \in 1 .. Len(b) : b[i] >= b[Len(b)]
    <3> SUFFICES ASSUME NEW i \in 1 .. Len(b) PROVE b[i] >= b[Len(b)]
      OBVIOUS
    <3>1. CASE i = Len(b)
      BY <1>11, <2>1, <3>1
    <3>2. CASE i < Len(b)
      <4>1. i \in DOMAIN b /\ Len(b) \in DOMAIN b
        BY <1>4, <2>1
      <4>2. b[i] > b[Len(b)]
        BY <1>2, <3>2, <4>1
      <4> QED BY <1>11, <2>1, <4>2
    <3>3. \A x \in Nat : i = x \/ i < x \/ i \notin 1 .. x
      OBVIOUS
    <3> QED BY <1>4, <3>1, <3>2, <3>3
  <2>5. \A i \in DOMAIN Pages!List' : Pages!List'[i] >= cursor'
    <3> SUFFICES ASSUME NEW i \in DOMAIN Pages!List' PROVE Pages!List'[i] >= cursor'
      OBVIOUS
    <3>1. CASE i \in 1 .. n /\ Pages!List'[i] = L[i]
      <4>1. L[i] >= loading /\ L[i] \in Nat
        BY <1>10, <3>1
      <4> QED BY <1>3, <2>1, <2>2, <3>1, <4>1
    <3>2. CASE i - n \in 1 .. Len(b) /\ Pages!List'[i] = b[i - n]
      BY <2>1, <2>2, <2>4, <3>2
    <3> QED BY <1>7, <3>1, <3>2
  <2>6. EndsAtCursor'
    BY <2>3, <2>5 DEF EndsAtCursor
  <2>7. NothingFound'
    BY <2>2 DEF NothingFound
  <2>8. NoGaps'
    <3> SUFFICES ASSUME ~faulty', blocks # <<>>, NEW s \in DOMAIN mined, mined[s],
                        s <= Pages!List'[1], s >= cursor'
                 PROVE  \E i \in DOMAIN Pages!List' : Pages!List'[i] = s
      BY <1>1, <2>2 DEF NoGaps
    <3>1. n # 0 /\ Pages!List'[1] = L[1]
      <4>1. n # 0
        BY <1>4
      <4> QED BY <1>4, <1>6, <4>1
    <3>2. CASE s >= loading
      <4>1. PICK i \in DOMAIN L : L[i] = s
        BY <1>9, <3>1, <3>2 DEF NoGaps
      <4> QED BY <1>4, <1>6, <4>1
    <3>3. CASE ~(s >= loading)
      <4>1. s \in page.next .. loading - 1 /\ lost = {} /\ page.next # 0
        BY <1>3, <2>1, <2>2, <3>3
      <4>2. PICK i \in 1 .. Len(b) : b[i] = s
        BY <1>2, <1>4, <4>1
      <4>3. n + i \in DOMAIN Pages!List' /\ Pages!List'[n + i] = s
        BY <1>4, <1>6, <4>2
      <4> QED BY <4>3
    <3> QED BY <3>2, <3>3
  <2> QED BY <1>12, <1>13, <2>6, <2>7, <2>8
<1>15. CASE b = <<>>
  <2>1. Pages!List' = L /\ exhausted' /\ cursor' = page.next
    <3>1. Pages!List' = L
      BY <1>4, <1>5, <1>15, ConcatEmptySeq
    <3> QED BY <1>1, <1>15, <3>1, Zenon
  <2>2. EndsAtCursor'
    <3>1. \A i \in 1 .. n : L[i] >= page.next
      BY <1>2, <1>3, <1>10
    <3> QED BY <1>4, <2>1, <3>1 DEF EndsAtCursor
  <2>3. NothingFound'
    <3> SUFFICES ASSUME ~faulty', L # <<>> PROVE Pages!Found(L[n], {})' = {}
      BY <2>1 DEF NothingFound, n
    <3>1. L[n] = loading
      BY <1>9 DEF EndsAtCursor, n
    <3>2. Pages!Found(L[n], {}) = {}
      BY <1>2, <1>15, <3>1
    <3>3. (L[n])' = L[n]
      BY <2>1 DEF n
    <3> HIDE DEF L, n
    <3> QED BY <1>1, <3>2, <3>3 DEF Pages!Found, Pages!Newest, Pages!NewerThan,
              Pages!MinedBefore, Pages!Scanned
  <2>4. NoGaps'
    <3> SUFFICES ASSUME ~faulty', blocks # <<>>, NEW s \in DOMAIN mined, mined[s], s <= L[1],
                        IF page.next # 0 THEN s >= page.next ELSE s >= L[n]
                 PROVE  \E i \in DOMAIN L : L[i] = s
      BY <1>1, <2>1 DEF NoGaps, n
    <3>1. n \in 1 .. n
      BY <1>4
    <3>2. s >= loading
      <4>1. CASE page.next # 0
        <5>1. ~(s \in page.next .. loading - 1)
          BY <1>2, <1>4, <1>15, <4>1
        <5> QED BY <1>2, <1>3, <4>1, <5>1
      <4>2. CASE page.next = 0
        <5>1. L[n] >= loading /\ L[n] \in Nat /\ s >= L[n]
          BY <1>10, <3>1, <4>2
        <5> QED BY <1>3, <5>1
      <4> QED BY <4>1, <4>2
    <3> QED BY <1>9, <3>2 DEF NoGaps
  <2> QED BY <1>12, <1>13, <2>2, <2>3, <2>4
<1> QED BY <1>14, <1>15

\* The poll's blocks are the newest of a prefix of the chain.
LEMMA RecentPoints ==
  ASSUME mined \in Seq(BOOLEAN), NEW length \in 0 .. Len(mined)
  PROVE  LET b == Pages!RecentBlocks(length) IN
         /\ b \in Seq(Nat) /\ \A i, j \in DOMAIN b : i < j => b[i] > b[j]
         /\ \A i \in DOMAIN b : b[i] \in 1 .. length
         /\ b # <<>> => \A s \in 1 .. length :
              mined[s] /\ s >= b[Len(b)] => \E i \in DOMAIN b : b[i] = s
<1> DEFINE X == Pages!MinedBefore(length + 1)
           F == Pages!Newest(X, RECENT)
           b == Pages!RecentBlocks(length)
<1>1. Len(mined) \in Nat /\ length \in Nat /\ (length + 1) - 1 = length
  OBVIOUS
<1>2. X \subseteq 1 .. length /\ \A s \in 1 .. length : mined[s] <=> s \in X
  BY <1>1 DEF Pages!MinedBefore
<1>3. X \in SUBSET Nat /\ IsFiniteSet(X)
  <2>1. IsFiniteSet(1 .. length) /\ 1 .. length \subseteq Nat
    BY <1>1, FS_Interval
  <2> QED BY <1>2, <2>1, FS_Subset
<1>4. b = Pages!NewestFirst(F)
  BY DEF Pages!RecentBlocks
<1> HIDE DEF b, X
<1>5. F \subseteq X /\ IsFiniteSet(F) /\ \A s \in F, t \in X : s <= t => t \in F
  BY <1>3, Reach, NewestIsAnEnd
<1> HIDE DEF F
<1>6. /\ b \in Seq(F) /\ \A i, j \in DOMAIN b : i < j => b[i] > b[j]
      /\ \A s \in F : \E i \in DOMAIN b : b[i] = s
  BY <1>3, <1>4, <1>5, NewestFirstSorts
<1>7. b \in Seq(Nat) /\ (\A i \in DOMAIN b : b[i] \in F) /\ (b # <<>> => Len(b) \in DOMAIN b)
  <2>1. F \subseteq Nat
    BY <1>3, <1>5
  <2>2. Len(b) \in Nat /\ DOMAIN b = 1 .. Len(b) /\ \A i \in 1 .. Len(b) : b[i] \in F
    BY <1>6, ElementOfSeq, LenProperties
  <2>3. b \in Seq(Nat)
    BY <1>6, <2>1, SeqMonotonic
  <2>4. b # <<>> => Len(b) # 0
    BY <1>6, EmptySeq
  <2> QED BY <2>2, <2>3, <2>4
<1>8. ASSUME b # <<>>, NEW s \in 1 .. length, mined[s], s >= b[Len(b)]
      PROVE  \E i \in DOMAIN b : b[i] = s
  <2>1. b[Len(b)] \in F /\ s \in X
    BY <1>2, <1>7, <1>8
  <2>2. b[Len(b)] <= s
    BY <1>8
  <2> QED BY <1>5, <1>6, <2>1, <2>2
<1>9. \A i \in DOMAIN b : b[i] \in 1 .. length
  BY <1>2, <1>5, <1>7
<1> QED BY <1>6, <1>7, <1>8, <1>9 DEF b

\* The list is started over.
LEMMA StartsOver ==
  ASSUME mined \in Seq(BOOLEAN), mined' = mined, NEW length \in 0 .. Len(mined),
         blocks' = Pages!RecentBlocks(length), older' = <<>>,
         cursor' = IF blocks' = <<>> THEN 0 ELSE blocks'[Len(blocks')],
         loading' \in 0 .. Len(mined), ~exhausted', ~crossed' => loading' = 0
  PROVE  PagesInv'
<1>1. /\ blocks' \in Seq(Nat)
      /\ \A i, j \in DOMAIN blocks' : i < j => blocks'[i] > blocks'[j]
      /\ \A i \in DOMAIN blocks' : blocks'[i] \in 1 .. length
      /\ blocks' # <<>> => \A s \in 1 .. length :
           mined[s] /\ s >= blocks'[Len(blocks')] => \E i \in DOMAIN blocks' : blocks'[i] = s
  BY RecentPoints
<1>2. Len(mined) \in Nat /\ DOMAIN mined = 1 .. Len(mined) /\ 1 .. length \subseteq DOMAIN mined
  OBVIOUS
<1>3. Pages!List' = blocks'
  BY <1>1, ConcatEmptySeq DEF Pages!List
<1>4. Len(blocks') \in Nat /\ DOMAIN blocks' = 1 .. Len(blocks')
      /\ (blocks' # <<>> => Len(blocks') \in DOMAIN blocks' /\ 1 \in DOMAIN blocks')
  BY <1>1
<1>5. blocks' # <<>> => cursor' = blocks'[Len(blocks')] /\ cursor' \in 1 .. length
  BY <1>1, <1>4
<1>6. PagesTypes'
  <2>1. cursor' \in 0 .. Len(mined)
    BY <1>2, <1>5
  <2>2. older' \in Seq(Nat) /\ DOMAIN older' = {}
    OBVIOUS
  <2>3. \A i \in DOMAIN blocks' : blocks'[i] \in DOMAIN mined
    BY <1>1, <1>2
  <2> QED BY <1>1, <2>1, <2>2, <2>3 DEF PagesTypes
<1>7. Falls'
  BY <1>1, <1>3 DEF Falls
<1>8. \A i \in DOMAIN blocks' : blocks'[i] >= blocks'[Len(blocks')]
  <2> SUFFICES ASSUME NEW i \in DOMAIN blocks' PROVE blocks'[i] >= blocks'[Len(blocks')]
    OBVIOUS
  <2>1. Len(blocks') \in DOMAIN blocks' /\ blocks'[i] \in Nat
    BY <1>1, <1>4
  <2>2. i = Len(blocks') \/ i < Len(blocks')
    BY <1>4
  <2>3. i < Len(blocks') => blocks'[i] > blocks'[Len(blocks')]
    BY <1>1, <2>1
  <2>4. i < Len(blocks') => blocks'[i] >= blocks'[Len(blocks')]
    BY <1>1, <2>1, <2>3
  <2> QED BY <2>1, <2>2, <2>4
<1>9. EndsAtCursor'
  BY <1>3, <1>4, <1>5, <1>8 DEF EndsAtCursor
<1>10. NoGaps'
  <2> SUFFICES ASSUME blocks' # <<>>, NEW s \in DOMAIN mined, mined[s], s <= blocks'[1], s >= cursor'
               PROVE  \E i \in DOMAIN blocks' : blocks'[i] = s
    BY <1>3, <1>5 DEF NoGaps
  <2>1. blocks'[1] \in 1 .. length
    BY <1>1, <1>4
  <2>2. s \in 1 .. length
    BY <1>2, <2>1
  <2> QED BY <1>1, <1>5, <2>2
<1>11. NothingFound' /\ (~crossed' => RequestIsNext')
  BY DEF NothingFound, RequestIsNext
<1> QED BY <1>6, <1>7, <1>9, <1>10, <1>11 DEF PagesInv

\* An empty poll blanks the newest blocks only.
LEMMA Blanked ==
  ASSUME PagesInv, blocks' = <<>>, UNCHANGED <<mined, older, cursor, loading, exhausted, crossed, faulty>>
  PROVE  PagesInv'
<1>1. /\ PagesTypes /\ older \in Seq(Nat) /\ Len(blocks) \in Nat /\ Len(older) \in Nat
      /\ DOMAIN older = 1 .. Len(older)
      /\ Len(Pages!List) = Len(blocks) + Len(older)
      /\ DOMAIN Pages!List = 1 .. Len(blocks) + Len(older)
      /\ \A i \in 1 .. Len(older) : Pages!List[Len(blocks) + i] = older[i]
  BY ListPoints DEF PagesInv, PagesTypes
<1>2. Pages!List' = older
  BY <1>1, ConcatEmptySeq DEF Pages!List
<1>3. PagesTypes'
  <2>1. blocks' \in Seq(Nat) /\ DOMAIN blocks' = {}
    OBVIOUS
  <2> QED BY <1>1, <2>1 DEF PagesTypes
<1> SUFFICES ASSUME ~crossed, Falls, EndsAtCursor, RequestIsNext, NothingFound
             PROVE  Falls' /\ EndsAtCursor' /\ RequestIsNext' /\ NoGaps' /\ NothingFound'
  BY <1>3 DEF PagesInv
<1>4. \A i \in DOMAIN older : /\ Len(blocks) + i \in DOMAIN Pages!List
                              /\ Pages!List[Len(blocks) + i] = older[i]
  BY <1>1
<1>5. older # <<>> => Pages!List # <<>> /\ Pages!List[Len(Pages!List)] = older[Len(older)]
  <2> SUFFICES ASSUME older # <<>>
               PROVE  Pages!List # <<>> /\ Pages!List[Len(Pages!List)] = older[Len(older)]
    OBVIOUS
  <2>1. Len(older) \in DOMAIN older
    BY <1>1
  <2> QED BY <1>1, <1>4, <2>1
<1>6. Falls'
  <2> SUFFICES ASSUME NEW i \in DOMAIN older, NEW j \in DOMAIN older, i < j
               PROVE  older[i] > older[j]
    BY <1>2 DEF Falls
  <2>1. Len(blocks) + i < Len(blocks) + j
    BY <1>1
  <2> QED BY <1>4, <2>1 DEF Falls
<1>7. EndsAtCursor'
  BY <1>2, <1>4, <1>5 DEF EndsAtCursor
<1>8. NothingFound'
  <2> SUFFICES ASSUME ~faulty, exhausted, older # <<>>
               PROVE  Pages!Found(older[Len(older)], {})' = {}
    BY <1>2 DEF NothingFound
  <2>1. Pages!Found(older[Len(older)], {}) = {}
    BY <1>5 DEF NothingFound
  <2> QED BY <2>1 DEF Pages!Found, Pages!Newest, Pages!NewerThan, Pages!MinedBefore, Pages!Scanned
<1> QED BY <1>6, <1>7, <1>8 DEF RequestIsNext, NoGaps

\* A transaction is confirmed, newer than everything in the list.
LEMMA Confirmed ==
  ASSUME PagesInv, NEW mines \in BOOLEAN, Pages!Append1(mines)
  PROVE  PagesInv'
<1>1. /\ mined' = Append(mined, mines)
      /\ UNCHANGED <<blocks, older, cursor, exhausted, loading, crossed, faulty>>
  BY DEF Pages!Append1, Pages!shown
<1>2. PagesTypes /\ mined \in Seq(BOOLEAN)
  BY DEF PagesInv, PagesTypes
<1>3. /\ mined' \in Seq(BOOLEAN) /\ Len(mined) \in Nat /\ Len(mined') = Len(mined) + 1
      /\ DOMAIN mined = 1 .. Len(mined) /\ DOMAIN mined' = 1 .. Len(mined) + 1
      /\ \A s \in 1 .. Len(mined) : mined'[s] = mined[s]
      /\ 0 .. Len(mined) \subseteq 0 .. Len(mined')
      /\ DOMAIN mined \subseteq DOMAIN mined'
  BY <1>1, <1>2
<1>4. PagesTypes'
  BY <1>1, <1>2, <1>3 DEF PagesTypes
<1>5. Pages!List' = Pages!List
  BY <1>1 DEF Pages!List
<1>6. /\ \A i \in DOMAIN Pages!List : Pages!List[i] \in 1 .. Len(mined)
      /\ Pages!List # <<>> => Len(Pages!List) \in DOMAIN Pages!List
      /\ blocks # <<>> => 1 \in DOMAIN Pages!List
  <2>1. blocks # <<>> => Len(blocks) # 0
    BY <1>2 DEF PagesTypes
  <2> QED BY <1>2, <1>3, <2>1, ListPoints
<1> SUFFICES ASSUME ~crossed, Falls, EndsAtCursor, RequestIsNext, NoGaps, NothingFound
             PROVE  Falls' /\ EndsAtCursor' /\ RequestIsNext' /\ NoGaps' /\ NothingFound'
  BY <1>1, <1>4 DEF PagesInv
<1>7. Falls' /\ EndsAtCursor' /\ RequestIsNext'
  BY <1>1, <1>5 DEF Falls, EndsAtCursor, RequestIsNext
<1>8. NoGaps'
  <2> SUFFICES ASSUME ~faulty, blocks # <<>>, NEW s \in DOMAIN mined', mined'[s], s <= Pages!List[1],
                      IF cursor # 0 THEN s >= cursor ELSE s >= Pages!List[Len(Pages!List)]
               PROVE  \E i \in DOMAIN Pages!List : Pages!List[i] = s
    BY <1>1, <1>5 DEF NoGaps
  <2>1. Pages!List[1] \in 1 .. Len(mined)
    BY <1>6
  <2>2. s \in DOMAIN mined /\ mined[s]
    BY <1>3, <2>1
  <2> QED BY <2>2 DEF NoGaps
<1>9. NothingFound'
  <2> SUFFICES ASSUME ~faulty, exhausted, Pages!List # <<>>,
                      NEW last, last = Pages!List[Len(Pages!List)]
               PROVE  Pages!Found(last, {})' = {}
    BY <1>1, <1>5 DEF NothingFound
  <2>1. Pages!Found(last, {}) = {}
    BY DEF NothingFound
  <2>2. last \in 1 .. Len(mined)
    BY <1>6
  <2>3. Pages!MinedBefore(last)' = Pages!MinedBefore(last)
    BY <1>3, <2>2 DEF Pages!MinedBefore
  <2>4. Pages!Found(last, {})' = Pages!Found(last, {})
    BY <2>3 DEF Pages!Found, Pages!Newest, Pages!NewerThan, Pages!Scanned
  <2> QED BY <2>1, <2>4
<1> QED BY <1>7, <1>8, <1>9

LEMMA PagesInvInductive == PagesInv /\ [Pages!Next]_Pages!vars => PagesInv'
<1> SUFFICES ASSUME PagesInv, [Pages!Next]_Pages!vars PROVE PagesInv'
  OBVIOUS
<1>0. PagesTypes /\ mined \in Seq(BOOLEAN) /\ loading \in 0 .. Len(mined) /\ Len(mined) \in Nat
  BY DEF PagesInv, PagesTypes
<1>1. ASSUME UNCHANGED <<mined, blocks, older, cursor, exhausted, crossed, faulty>>,
             loading' \in {0, cursor}, loading' # 0 => (loading' = loading \/ ~exhausted)
      PROVE  PagesInv'
  <2>1. Pages!List' = Pages!List
    BY <1>1 DEF Pages!List
  <2>2. \A s : Pages!Found(s, {})' = Pages!Found(s, {})
    BY <1>1 DEF Pages!Found, Pages!Newest, Pages!NewerThan, Pages!MinedBefore, Pages!Scanned
  <2>3. PagesTypes'
    BY <1>1 DEF PagesInv, PagesTypes
  <2>4. ~crossed' => Falls' /\ EndsAtCursor' /\ NoGaps'
    BY <1>1, <2>1 DEF PagesInv, Falls, EndsAtCursor, NoGaps
  <2>5. ~crossed' => RequestIsNext'
    BY <1>1 DEF PagesInv, RequestIsNext
  <2>6. ~crossed' => NothingFound'
    BY <1>1, <2>1, <2>2 DEF PagesInv, NothingFound
  <2> QED BY <2>3, <2>4, <2>5, <2>6 DEF PagesInv
<1>2. CASE UNCHANGED Pages!vars
  <2>1. UNCHANGED <<mined, blocks, older, cursor, loading, exhausted, crossed, faulty>>
    BY <1>2 DEF Pages!vars
  <2>2. UNCHANGED <<Pages!List>> /\ \A s : Pages!Found(s, {})' = Pages!Found(s, {})
    BY <2>1 DEF Pages!List, Pages!Found, Pages!Newest, Pages!NewerThan, Pages!MinedBefore,
         Pages!Scanned
  <2> QED BY <2>1, <2>2 DEF PagesInv, PagesTypes, Falls, EndsAtCursor, RequestIsNext, NoGaps,
       NothingFound
<1>3. ASSUME NEW mines \in BOOLEAN, Pages!Append1(mines) PROVE PagesInv'
  BY <1>3, Confirmed
<1>4. CASE Pages!LoadOlder
  BY <1>1, <1>4 DEF Pages!LoadOlder, Pages!shown
<1>5. CASE Pages!LoadFails
  BY <1>1, <1>5 DEF Pages!LoadFails, Pages!shown
<1>6. CASE Pages!LoadedWell
  <2>1. Pages!Loaded(Pages!Page(loading, {})) /\ faulty' = faulty
    BY <1>6 DEF Pages!LoadedWell
  <2>2. loading \in 1 .. Len(mined)
    BY <1>0, <2>1 DEF Pages!Loaded
  <2> QED BY <1>0, <2>1, <2>2, PagesArePages, LoadedStands
<1>7. CASE Pages!LoadedFaulty
  <2>1. loading \in 1 .. Len(mined) /\ faulty'
    BY <1>0, <1>7 DEF Pages!LoadedFaulty, Pages!Loaded
  <2>2. ASSUME NEW lost, Pages!Loaded(Pages!Page(loading, lost)) PROVE PagesInv'
    BY <1>0, <2>1, <2>2, PagesArePages, LoadedStands
  <2>3. CASE Pages!Loaded([blocks |-> <<>>, next |-> 0])
    <3>1. IsPage([blocks |-> <<>>, next |-> 0], loading, {0})
      BY <2>1, <1>0 DEF IsPage
    <3> QED BY <2>1, <2>3, <3>1, LoadedStands
  <2> QED BY <1>7, <2>2, <2>3 DEF Pages!LoadedFaulty
<1>8. ASSUME NEW length \in 0 .. Len(mined), Pages!Tick(length) PROVE PagesInv'
  <2>1. blocks' = Pages!RecentBlocks(length) /\ mined' = mined /\ loading' = loading
    BY <1>8 DEF Pages!Tick
  <2>2. CASE blocks' = <<>>
    BY <1>8, <2>1, <2>2, Blanked DEF Pages!Tick
  <2>3. CASE blocks' # <<>>
    <3>1. /\ older' = <<>> /\ ~exhausted' /\ cursor' = blocks'[Len(blocks')]
          /\ ~crossed' => loading' = 0
      BY <1>8, <2>1, <2>3 DEF Pages!Tick, Pages!Last
    <3> QED BY <1>0, <2>1, <2>3, <3>1, StartsOver
  <2> QED BY <2>2, <2>3
<1> QED BY <1>2, <1>3, <1>4, <1>5, <1>6, <1>7, <1>8 DEF Pages!Next

LEMMA PagesBehaves == MCSpec => Pages!Spec
<1>1. MCInit => Pages!Init
  BY DEF MCInit
<1>2. [MCNext]_mcVars => [Pages!Next]_Pages!vars
  <2> SUFFICES ASSUME [MCNext]_mcVars PROVE [Pages!Next]_Pages!vars
    OBVIOUS
  <2>1. Pages!Next \/ UNCHANGED pagesVars
    BY DEF MCNext, mcVars
  <2> QED BY <2>1 DEF pagesVars, Pages!vars
<1> QED BY <1>1, <1>2, PTL DEF MCSpec, Pages!Spec

LEMMA PagesStart == Pages!Init => PagesInv
<1> SUFFICES ASSUME Pages!Init PROVE PagesInv
  OBVIOUS
<1> DEFINE b == Pages!RecentBlocks(Len(mined))
<1>1. mined \in Seq(BOOLEAN) /\ Len(mined) \in Nat /\ DOMAIN mined = 1 .. Len(mined)
  <2>1. PICK n \in Nat : mined \in [1 .. n -> BOOLEAN]
    BY WebsiteAssumption DEF Pages!Init, WebsiteAssumption, Pages!PagesAssumption
  <2>2. mined \in Seq(BOOLEAN)
    BY <2>1, IsASeq
  <2> QED BY <2>2
<1>2. /\ blocks = b /\ older = <<>> /\ loading = 0 /\ ~exhausted
      /\ cursor = IF blocks = <<>> THEN 0 ELSE blocks[Len(blocks)]
  BY DEF Pages!Init, Pages!Last
<1>3. Len(mined) \in 0 .. Len(mined)
  BY <1>1
<1>4. /\ blocks \in Seq(Nat) /\ \A i, j \in DOMAIN blocks : i < j => blocks[i] > blocks[j]
      /\ \A i \in DOMAIN blocks : blocks[i] \in 1 .. Len(mined)
      /\ blocks # <<>> => \A s \in 1 .. Len(mined) :
           mined[s] /\ s >= blocks[Len(blocks)] => \E i \in DOMAIN blocks : blocks[i] = s
  BY <1>1, <1>2, <1>3, RecentPoints
<1>5. Pages!List = blocks
  BY <1>2, <1>4, ConcatEmptySeq DEF Pages!List
<1>6. Len(blocks) \in Nat /\ DOMAIN blocks = 1 .. Len(blocks)
      /\ (blocks # <<>> => Len(blocks) \in DOMAIN blocks)
  BY <1>4
<1>7. blocks # <<>> => cursor = blocks[Len(blocks)] /\ cursor \in 1 .. Len(mined)
  BY <1>2, <1>4, <1>6
<1>8. PagesTypes
  <2>1. older \in Seq(Nat) /\ DOMAIN older = {}
    BY <1>2
  <2>2. cursor \in 0 .. Len(mined)
    BY <1>1, <1>2, <1>7
  <2> QED BY <1>1, <1>2, <1>4, <2>1, <2>2 DEF PagesTypes
<1>9. \A i \in DOMAIN blocks : blocks[i] >= blocks[Len(blocks)]
  <2> SUFFICES ASSUME NEW i \in DOMAIN blocks PROVE blocks[i] >= blocks[Len(blocks)]
    OBVIOUS
  <2>1. Len(blocks) \in DOMAIN blocks /\ blocks[i] \in Nat
    BY <1>4, <1>6
  <2>2. i = Len(blocks) \/ i < Len(blocks)
    BY <1>6
  <2>3. i < Len(blocks) => blocks[i] > blocks[Len(blocks)]
    BY <1>4, <2>1
  <2>4. i < Len(blocks) => blocks[i] >= blocks[Len(blocks)]
    BY <1>4, <2>1, <2>3
  <2> QED BY <2>1, <2>2, <2>4
<1>10. Falls /\ EndsAtCursor
  BY <1>2, <1>4, <1>5, <1>6, <1>7, <1>9 DEF Falls, EndsAtCursor
<1>11. NoGaps
  BY <1>1, <1>4, <1>5, <1>7 DEF NoGaps
<1>12. RequestIsNext /\ NothingFound
  BY <1>2 DEF RequestIsNext, NothingFound
<1> QED BY <1>8, <1>10, <1>11, <1>12 DEF PagesInv

\* The pages of the explorer join, however many blocks, pages and polls: unless a
\* poll came between a request and its answer the list is in order, without
\* failures it has no gap, and it ends only where a scan found nothing.
THEOREM PagesAlwaysJoin == MCSpec => []PagesJoin
<1>1. PagesInv => PagesJoin
  <2> SUFFICES ASSUME PagesInv, ~crossed PROVE PagesJoin
    BY DEF PagesJoin, Pages!PagesJoin
  <2>1. Falls /\ EndsAtCursor /\ NoGaps /\ NothingFound /\ PagesTypes
    BY DEF PagesInv
  <2>2. /\ Pages!Last(Pages!List) = Pages!List[Len(Pages!List)]
        /\ Pages!List \in Seq(Nat)
        /\ (Pages!List # <<>> => Len(Pages!List) \in DOMAIN Pages!List)
        /\ \A i \in DOMAIN Pages!List : Pages!List[i] \in Nat
        /\ cursor \in Nat
        /\ (blocks # <<>> => Pages!List # <<>>)
        /\ (Pages!List # <<>> => Head(Pages!List) = Pages!List[1] /\ 1 \in DOMAIN Pages!List)
    <3>1. blocks # <<>> => Len(blocks) # 0
      BY <2>1 DEF PagesTypes
    <3>2. Pages!List \in Seq(Nat) /\ Len(Pages!List) = Len(blocks) + Len(older)
          /\ Len(blocks) \in Nat /\ Len(older) \in Nat
          /\ (Pages!List # <<>> <=> Len(Pages!List) \in DOMAIN Pages!List)
      BY <2>1, ListPoints
    <3>3. blocks # <<>> => Pages!List # <<>>
      BY <3>1, <3>2
    <3>4. cursor \in Nat
      BY <2>1 DEF PagesTypes
    <3> QED BY <3>2, <3>3, <3>4 DEF Pages!Last
  <2>3. ~faulty /\ blocks # <<>> =>
          \A s \in DOMAIN mined :
            mined[s] /\ Pages!List[Len(Pages!List)] < s /\ s < Pages!List[1] =>
              \E i \in DOMAIN Pages!List : Pages!List[i] = s
    <3> SUFFICES ASSUME ~faulty, blocks # <<>>, NEW s \in DOMAIN mined, mined[s],
                        Pages!List[Len(Pages!List)] < s, s < Pages!List[1]
                 PROVE  \E i \in DOMAIN Pages!List : Pages!List[i] = s
      OBVIOUS
    <3>1. s \in Nat /\ Pages!List[1] \in Nat /\ Pages!List[Len(Pages!List)] \in Nat
      BY <2>1, <2>2 DEF PagesTypes
    <3>2. s <= Pages!List[1] /\ s >= Pages!List[Len(Pages!List)]
      BY <3>1
    <3>3. cursor # 0 => s >= cursor
      <4>1. cursor # 0 => Pages!List[Len(Pages!List)] >= cursor
        BY <2>1, <2>2 DEF EndsAtCursor
      <4> QED BY <2>2, <3>1, <3>2, <4>1
    <3> QED BY <2>1, <3>2, <3>3 DEF NoGaps
  <2> QED BY <2>1, <2>2, <2>3 DEF PagesJoin, Pages!PagesJoin, Falls, NothingFound
<1> QED BY <1>1, PagesStart, PagesInvInductive, PagesBehaves, PTL DEF Pages!Spec

-----------------------------------------------------------------------------
\* The explorer's derived views.

\* Blocks of a list, and rows of the leaderboard.
ViewBlocks == [winner : Miners, ts : Nat \ {0}, height : Nat, reward : Nat]
ViewRows == [miner : Miners, blocks : Nat, reward : Nat, lastSeen : Nat, lastHeight : Nat]

\* The blocks of a list that a miner won.
WonBy(list, miner) == {k \in DOMAIN list : list[k].winner = miner}

\* The rows are right for the first n blocks of a list: one for every winner, with
\* the number of those that are the winner's.
RowsRight(rows, list, n) ==
  /\ rows \in Seq(ViewRows)
  /\ \A i, j \in DOMAIN rows : rows[i].miner = rows[j].miner => i = j
  /\ \A i \in DOMAIN rows : rows[i].blocks = Cardinality((1 .. n) \cap WonBy(list, rows[i].miner))
  /\ \A k \in 1 .. n : \E i \in DOMAIN rows : rows[i].miner = list[k].winner

LEMMA CountedRow ==
  ASSUME NEW row \in ViewRows, NEW block \in ViewBlocks
  PROVE  /\ Views!Counted(row, block) \in ViewRows
         /\ Views!Counted(row, block).miner = row.miner
         /\ Views!Counted(row, block).blocks = row.blocks + 1
<1> DEFINE b == row.blocks + 1
           r == row.reward + block.reward
           t == IF block.ts > row.lastSeen THEN block.ts ELSE row.lastSeen
           h == IF block.height > row.lastHeight THEN block.height ELSE row.lastHeight
<1>1. b \in Nat /\ r \in Nat /\ t \in Nat /\ h \in Nat
  BY DEF ViewRows, ViewBlocks
<1>2. Views!Counted(row, block)
        = [row EXCEPT !.blocks = b, !.reward = r, !.lastSeen = t, !.lastHeight = h]
  BY DEF Views!Counted
<1>3. b = row.blocks + 1
  OBVIOUS
<1> HIDE DEF b, r, t, h
<1>4. ASSUME NEW new,
             new = [row EXCEPT !.blocks = b, !.reward = r, !.lastSeen = t, !.lastHeight = h]
      PROVE  new \in ViewRows /\ new.miner = row.miner /\ new.blocks = b
  BY <1>1, <1>4 DEF ViewRows
<1> QED BY <1>2, <1>3, <1>4, Zenon

LEMMA FirstViewRow ==
  ASSUME NEW block \in ViewBlocks
  PROVE  /\ Views!FirstRow(block) \in ViewRows
         /\ Views!FirstRow(block).miner = block.winner
         /\ Views!FirstRow(block).blocks = 1
BY DEF Views!FirstRow, ViewRows, ViewBlocks

LEMMA AddedBlock ==
  ASSUME NEW rows \in Seq(ViewRows), NEW block \in ViewBlocks
  PROVE  /\ Views!AddBlock(rows, block) \in Seq(ViewRows)
         /\ (\E i \in DOMAIN rows : rows[i].miner = block.winner) =>
              /\ DOMAIN Views!AddBlock(rows, block) = DOMAIN rows
              /\ \A i \in DOMAIN rows :
                   Views!AddBlock(rows, block)[i]
                     = IF rows[i].miner = block.winner THEN Views!Counted(rows[i], block) ELSE rows[i]
         /\ ~(\E i \in DOMAIN rows : rows[i].miner = block.winner) =>
              Views!AddBlock(rows, block) = Append(rows, Views!FirstRow(block))
<1>1. CASE \E i \in DOMAIN rows : rows[i].miner = block.winner
  <2> DEFINE new == [i \in DOMAIN rows |->
                       IF rows[i].miner = block.winner THEN Views!Counted(rows[i], block) ELSE rows[i]]
  <2>1. Views!AddBlock(rows, block) = new
    BY <1>1 DEF Views!AddBlock
  <2>2. DOMAIN rows = 1 .. Len(rows) /\ Len(rows) \in Nat /\ \A i \in DOMAIN rows : rows[i] \in ViewRows
    OBVIOUS
  <2>3. \A i \in DOMAIN rows : Views!Counted(rows[i], block) \in ViewRows
    BY <2>2, CountedRow
  <2>4. new \in [1 .. Len(rows) -> ViewRows]
    BY <2>2, <2>3
  <2>5. new \in Seq(ViewRows)
    <3> HIDE DEF new
    <3> QED BY <2>2, <2>4, SeqDef
  <2> QED BY <1>1, <2>1, <2>2, <2>5
<1>2. CASE ~(\E i \in DOMAIN rows : rows[i].miner = block.winner)
  <2>1. Views!AddBlock(rows, block) = Append(rows, Views!FirstRow(block))
    BY <1>2 DEF Views!AddBlock
  <2>2. Append(rows, Views!FirstRow(block)) \in Seq(ViewRows)
    BY FirstViewRow
  <2> QED BY <1>2, <2>1, <2>2
<1> QED BY <1>1, <1>2

\* Another block keeps the rows right.
LEMMA RightRowsStayRight ==
  ASSUME NEW list \in Seq(ViewBlocks), NEW n \in 0 .. Len(list) - 1,
         NEW rows, RowsRight(rows, list, n)
  PROVE  RowsRight(Views!AddBlock(rows, list[n + 1]), list, n + 1)
<1> DEFINE b == list[n + 1]
           new == Views!AddBlock(rows, b)
           count(m, k) == Cardinality((1 .. k) \cap WonBy(list, m))
<1>1. n \in Nat /\ n + 1 \in DOMAIN list /\ b \in ViewBlocks /\ b.winner \in Miners
      /\ 1 .. n + 1 = (1 .. n) \cup {n + 1}
  <2>1. n \in Nat /\ n + 1 \in DOMAIN list /\ 1 .. n + 1 = (1 .. n) \cup {n + 1}
    OBVIOUS
  <2>2. b \in ViewBlocks
    BY <2>1
  <2> QED BY <2>1, <2>2 DEF ViewBlocks
<1>2. rows \in Seq(ViewRows) /\ DOMAIN rows = 1 .. Len(rows) /\ Len(rows) \in Nat
      /\ \A i \in DOMAIN rows : rows[i] \in ViewRows /\ rows[i].blocks \in Nat
  <2>1. rows \in Seq(ViewRows)
    BY DEF RowsRight
  <2>2. DOMAIN rows = 1 .. Len(rows) /\ Len(rows) \in Nat /\ \A i \in DOMAIN rows : rows[i] \in ViewRows
    BY <2>1
  <2>3. \A r \in ViewRows : r.blocks \in Nat
    BY DEF ViewRows
  <2> QED BY <2>1, <2>2, <2>3
<1>3. ASSUME NEW m
      PROVE  count(m, n) \in Nat /\ count(m, n + 1) = count(m, n) + IF m = b.winner THEN 1 ELSE 0
  <2>1. n + 1 \in WonBy(list, m) <=> m = b.winner
    BY <1>1 DEF WonBy
  <2> QED BY <1>1, <2>1, OneMoreElement
<1>4. CASE \E i \in DOMAIN rows : rows[i].miner = b.winner
  <2>1. /\ new \in Seq(ViewRows) /\ DOMAIN new = DOMAIN rows
        /\ \A i \in DOMAIN rows :
             new[i] = IF rows[i].miner = b.winner THEN Views!Counted(rows[i], b) ELSE rows[i]
    BY <1>1, <1>2, <1>4, AddedBlock
  <2>2. ASSUME NEW i \in DOMAIN rows
        PROVE  /\ new[i].miner = rows[i].miner
               /\ new[i].blocks = rows[i].blocks + IF rows[i].miner = b.winner THEN 1 ELSE 0
    <3>1. /\ Views!Counted(rows[i], b).miner = rows[i].miner
          /\ Views!Counted(rows[i], b).blocks = rows[i].blocks + 1
      BY <1>1, <1>2, CountedRow
    <3> HIDE DEF new, b
    <3> QED BY <1>2, <2>1, <3>1
  <2> HIDE DEF new
  <2>3. \A i, j \in DOMAIN new : new[i].miner = new[j].miner => i = j
    BY <2>1, <2>2 DEF RowsRight
  <2>4. ASSUME NEW i \in DOMAIN new PROVE new[i].blocks = count(new[i].miner, n + 1)
    <3>1. rows[i].blocks = count(rows[i].miner, n) /\ rows[i].blocks \in Nat
      BY <1>2, <2>1 DEF RowsRight
    <3>2. count(rows[i].miner, n + 1)
            = count(rows[i].miner, n) + IF rows[i].miner = b.winner THEN 1 ELSE 0
      BY <1>3
    <3> HIDE DEF count, b
    <3> QED BY <2>1, <2>2, <3>1, <3>2
  <2>5. ASSUME NEW k \in 1 .. n + 1 PROVE \E i \in DOMAIN new : new[i].miner = list[k].winner
    <3>1. CASE k \in 1 .. n
      BY <2>1, <2>2, <3>1 DEF RowsRight
    <3>2. CASE k = n + 1
      BY <1>4, <2>1, <2>2, <3>2
    <3> QED BY <1>1, <3>1, <3>2
  <2> QED BY <2>1, <2>3, <2>4, <2>5 DEF RowsRight, new
<1>5. CASE ~(\E i \in DOMAIN rows : rows[i].miner = b.winner)
  <2> DEFINE f == Views!FirstRow(b)
  <2>1. new = Append(rows, f) /\ f \in ViewRows /\ f.miner = b.winner /\ f.blocks = 1
    BY <1>1, <1>2, <1>5, AddedBlock, FirstViewRow
  <2> HIDE DEF new, f
  <2>2. /\ new \in Seq(ViewRows) /\ DOMAIN new = (DOMAIN rows) \cup {Len(rows) + 1}
        /\ Len(rows) + 1 \notin DOMAIN rows
        /\ new[Len(rows) + 1] = f /\ \A i \in DOMAIN rows : new[i] = rows[i]
    BY <1>2, <2>1
  <2>3. \A i, j \in DOMAIN new : new[i].miner = new[j].miner => i = j
    BY <1>5, <2>1, <2>2 DEF RowsRight
  <2>4. ASSUME NEW i \in DOMAIN new PROVE new[i].blocks = count(new[i].miner, n + 1)
    <3>1. CASE i \in DOMAIN rows
      <4>1. rows[i].blocks = count(rows[i].miner, n) /\ rows[i].miner # b.winner
            /\ rows[i].blocks \in Nat
        BY <1>2, <1>5, <3>1 DEF RowsRight
      <4>2. count(rows[i].miner, n + 1) = count(rows[i].miner, n) + 0
        BY <1>3, <4>1
      <4> HIDE DEF count, b
      <4> QED BY <2>2, <3>1, <4>1, <4>2
    <3>2. CASE i = Len(rows) + 1
      <4>1. (1 .. n) \cap WonBy(list, b.winner) = {}
        <5> SUFFICES ASSUME NEW k \in 1 .. n, k \in WonBy(list, b.winner) PROVE FALSE
          OBVIOUS
        <5>1. list[k].winner = b.winner
          BY DEF WonBy
        <5> QED BY <1>5, <5>1 DEF RowsRight
      <4>2. count(b.winner, n) = 0
        BY <4>1, FS_EmptySet
      <4>3. count(b.winner, n + 1) = 0 + 1
        BY <1>3, <4>2
      <4> HIDE DEF count, b
      <4> QED BY <2>1, <2>2, <3>2, <4>3
    <3> QED BY <2>2, <3>1, <3>2
  <2>5. ASSUME NEW k \in 1 .. n + 1 PROVE \E i \in DOMAIN new : new[i].miner = list[k].winner
    <3>1. CASE k \in 1 .. n
      BY <2>2, <3>1 DEF RowsRight
    <3>2. CASE k = n + 1
      BY <2>1, <2>2, <3>2
    <3> QED BY <1>1, <3>1, <3>2
  <2> QED BY <2>2, <2>3, <2>4, <2>5 DEF RowsRight, new
<1> QED BY <1>4, <1>5

\* The rows of a whole list are right.
LEMMA RowsAreRight ==
  ASSUME NEW list \in Seq(ViewBlocks)
  PROVE  RowsRight(Views!Rows(list), list, Len(list))
<1> DEFINE N == Len(list)
           V == Seq(ViewRows)
           none == <<>>
           step == [n \in 1 .. N |-> [x \in V |-> Views!AddBlock(x, list[n])]]
           Def(g) == g = [n \in 0 .. N |-> IF n = 0 THEN <<>> ELSE Views!AddBlock(g[n - 1], list[n])]
           after == CHOOSE g : Def(g)
<1>1. N \in Nat /\ \A n \in 1 .. N : list[n] \in ViewBlocks
  OBVIOUS
<1>2. PICK f \in [0 .. N -> V] : f[0] = none /\ \A n \in 1 .. N : f[n] = step[n][f[n - 1]]
  <2>1. none \in V
    OBVIOUS
  <2>2. \A n \in 1 .. N : \A x \in V : Views!AddBlock(x, list[n]) \in V
    BY <1>1, AddedBlock
  <2>3. step \in [1 .. N -> [V -> V]]
    <3> HIDE DEF V, N
    <3> QED BY <2>2
  <2> HIDE DEF V, N, step, none
  <2>4. PICK f \in [0 .. N -> V] : ComputedBy(f, none, N, step)
    BY <1>1, <2>1, <2>3, ListRecursion
  <2> QED BY <2>4 DEF ComputedBy
<1>3. \A n \in 0 .. N : f[n] = IF n = 0 THEN <<>> ELSE Views!AddBlock(f[n - 1], list[n])
  <2> SUFFICES ASSUME NEW n \in 1 .. N PROVE f[n] = Views!AddBlock(f[n - 1], list[n])
    BY <1>1, <1>2
  <2>1. n - 1 \in 0 .. N
    BY <1>1
  <2>2. f[n - 1] \in V
    <3> HIDE DEF V, N
    <3> QED BY <2>1, <1>2
  <2> HIDE DEF V, N
  <2> QED BY <1>2, <2>2
<1>4. Def(f)
  <2> HIDE DEF V, N
  <2> QED BY <1>3
<1>5. Def(after)
  <2> HIDE DEF Def
  <2> QED BY <1>4
<1>6. Views!Rows(list) = after[N]
  BY DEF Views!Rows
<1> HIDE DEF after
<1>7. \A n \in 0 .. N : RowsRight(after[n], list, n)
  <2> DEFINE T == {n \in 0 .. N : RowsRight(after[n], list, n)}
  <2>1. 0 \in T
    <3>1. after[0] = <<>> /\ 0 \in 0 .. N
      BY <1>1, <1>5
    <3>2. RowsRight(<<>>, list, 0)
      BY DEF RowsRight
    <3> QED BY <3>1, <3>2
  <2>2. ASSUME NEW n \in 0 .. N - 1, n \in T PROVE n + 1 \in T
    <3>1. after[n + 1] = Views!AddBlock(after[n], list[n + 1]) /\ n + 1 \in 0 .. N
      <4>1. n + 1 \in 0 .. N /\ n + 1 # 0 /\ (n + 1) - 1 = n
        BY <1>1
      <4> HIDE DEF N
      <4> QED BY <1>5, <4>1
    <3>2. RowsRight(after[n], list, n)
      BY <2>2
    <3>3. RowsRight(Views!AddBlock(after[n], list[n + 1]), list, n + 1)
      BY <3>2, RightRowsStayRight
    <3> QED BY <3>1, <3>3
  <2> HIDE DEF T, N
  <2>3. \A n \in 0 .. N : n \in T
    BY <1>1, <2>1, <2>2, BoundedInduction
  <2> QED BY <2>3 DEF T
<1> QED BY <1>1, <1>6, <1>7

LEMMA ViewsCardinality == \A X : Views!Cardinality(X) = Cardinality(X)
BY DEF Cardinality, Views!Cardinality

\* The order of the sort is strict and total.
LEMMA RowOrder ==
  ASSUME NEW rows \in Seq(ViewRows)
  PROVE  /\ \A i \in DOMAIN rows : i \notin Views!Before(rows, i) /\ Views!Before(rows, i) \subseteq DOMAIN rows
         /\ \A i, j \in DOMAIN rows :
              /\ i # j => i \in Views!Before(rows, j) \/ j \in Views!Before(rows, i)
              /\ i \in Views!Before(rows, j) => /\ Views!Before(rows, i) \subseteq Views!Before(rows, j)
                                          /\ rows[i].blocks >= rows[j].blocks
<1>1. \A i \in DOMAIN rows : i \in Nat /\ rows[i].blocks \in Nat
  <2>1. DOMAIN rows = 1 .. Len(rows) /\ Len(rows) \in Nat /\ \A i \in DOMAIN rows : rows[i] \in ViewRows
    OBVIOUS
  <2>2. \A r \in ViewRows : r.blocks \in Nat
    BY DEF ViewRows
  <2> QED BY <2>1, <2>2
<1>2. ASSUME NEW i \in DOMAIN rows, NEW j \in DOMAIN rows, i \in Views!Before(rows, j)
      PROVE  Views!Before(rows, i) \subseteq Views!Before(rows, j) /\ rows[i].blocks >= rows[j].blocks
  BY <1>1, <1>2 DEF Views!Before
<1>3. \A i, j \in DOMAIN rows : i # j => i \in Views!Before(rows, j) \/ j \in Views!Before(rows, i)
  BY <1>1 DEF Views!Before
<1>4. \A i \in DOMAIN rows : i \notin Views!Before(rows, i) /\ Views!Before(rows, i) \subseteq DOMAIN rows
  BY <1>1 DEF Views!Before
<1> QED BY <1>2, <1>3, <1>4

\* The rows are numbered by how many come before.
LEMMA RowRanks ==
  ASSUME NEW rows \in Seq(ViewRows)
  PROVE  /\ \A i \in DOMAIN rows : Views!Cardinality(Views!Before(rows, i)) \in 0 .. Len(rows) - 1
         /\ \A i, j \in DOMAIN rows :
              i \in Views!Before(rows, j) =>
                Views!Cardinality(Views!Before(rows, i)) < Views!Cardinality(Views!Before(rows, j))
         /\ \A n \in 0 .. Len(rows) - 1 :
              \E i \in DOMAIN rows : Views!Cardinality(Views!Before(rows, i)) = n
<1> DEFINE N == Len(rows)
           before(i) == Views!Before(rows, i)
           rank == [i \in 1 .. N |-> Cardinality(before(i))]
<1>1. N \in Nat /\ DOMAIN rows = 1 .. N
  OBVIOUS
<1>2. IsFiniteSet(1 .. N) /\ Cardinality(1 .. N) = N
  BY <1>1, FS_Interval
<1>3. \A i \in 1 .. N : /\ before(i) \subseteq 1 .. N /\ i \notin before(i)
                        /\ IsFiniteSet(before(i)) /\ Cardinality(before(i)) \in Nat
  BY <1>1, <1>2, RowOrder, FS_Subset, FS_CardinalityType
<1> HIDE DEF before
<1>4. ASSUME NEW i \in 1 .. N PROVE rank[i] \in 0 .. N - 1
  <2>1. before(i) \subseteq 1 .. N /\ before(i) # 1 .. N
    BY <1>3
  <2>2. Cardinality(before(i)) <= N /\ Cardinality(before(i)) # N
    BY <1>2, <2>1, FS_Subset
  <2> QED BY <1>1, <1>3, <2>2
<1>5. ASSUME NEW i \in 1 .. N, NEW j \in 1 .. N, i \in before(j) PROVE rank[i] < rank[j]
  <2>1. before(i) \subseteq before(j) /\ before(i) # before(j)
    BY <1>1, <1>3, <1>5, RowOrder DEF before
  <2>2. Cardinality(before(i)) <= Cardinality(before(j)) /\ Cardinality(before(i)) # Cardinality(before(j))
    BY <1>3, <2>1, FS_Subset
  <2> QED BY <1>3, <2>2
<1>6. rank \in Surjection(1 .. N, 0 .. N - 1)
  <2>1. rank \in Injection(1 .. N, 0 .. N - 1)
    <3>1. rank \in [1 .. N -> 0 .. N - 1]
      BY <1>4
    <3>2. ASSUME NEW i \in 1 .. N, NEW j \in 1 .. N, rank[i] = rank[j] PROVE i = j
      <4>1. ~(i \in before(j)) /\ ~(j \in before(i))
        <5>1. ~(rank[i] < rank[j]) /\ ~(rank[j] < rank[i])
          <6> HIDE DEF rank
          <6>1. rank[i] \in Int /\ rank[j] \in Int
            BY <1>1, <1>4
          <6> QED BY <3>2, <6>1
        <5> HIDE DEF rank
        <5> QED BY <1>5, <5>1
      <4> QED BY <1>1, <4>1, RowOrder DEF before
    <3> QED BY <3>1, <3>2, Fun_IsInj
  <2>2. IsFiniteSet(0 .. N - 1) /\ Cardinality(0 .. N - 1) = N
    <3>1. /\ IsFiniteSet(0 .. N - 1)
          /\ Cardinality(0 .. N - 1) = IF 0 > N - 1 THEN 0 ELSE (N - 1) - 0 + 1
      <4>1. N - 1 \in Int
        BY <1>1
      <4> HIDE DEF N, rank
      <4> QED BY <4>1, FS_Interval
    <3> QED BY <1>1, <3>1
  <2> HIDE DEF rank, N
  <2> QED BY <1>2, <2>1, <2>2, FS_Injection
<1>7. \A n \in 0 .. N - 1 : \E i \in 1 .. N : rank[i] = n
  <2> HIDE DEF rank
  <2> QED BY <1>6 DEF Surjection
<1>8. \A i \in 1 .. N : rank[i] = Views!Cardinality(Views!Before(rows, i))
  BY ViewsCardinality DEF before
<1> HIDE DEF rank
<1>9. ASSUME NEW i \in DOMAIN rows, NEW j \in DOMAIN rows, i \in Views!Before(rows, j)
      PROVE  Views!Cardinality(Views!Before(rows, i)) < Views!Cardinality(Views!Before(rows, j))
  BY <1>1, <1>5, <1>8, <1>9 DEF before
<1>10. \A n \in 0 .. Len(rows) - 1 : \E i \in DOMAIN rows : Views!Cardinality(Views!Before(rows, i)) = n
  BY <1>1, <1>7, <1>8
<1>11. \A i \in DOMAIN rows : Views!Cardinality(Views!Before(rows, i)) \in 0 .. Len(rows) - 1
  BY <1>1, <1>4, <1>8
<1> QED BY <1>9, <1>10, <1>11

\* at says which row each place of the sorted list has.
Places(rows, at) ==
  /\ at \in [DOMAIN rows -> DOMAIN rows]
  /\ \A p \in DOMAIN rows : Views!Sorted(rows)[p] = rows[at[p]]
  /\ \A p, q \in DOMAIN rows : at[p] = at[q] => p = q
  /\ \A i \in DOMAIN rows : \E p \in DOMAIN rows : at[p] = i
  /\ \A p, q \in DOMAIN rows : p < q => rows[at[p]].blocks >= rows[at[q]].blocks

\* The sort puts each row in one place, by blocks.
LEMMA SortedRows ==
  ASSUME NEW rows \in Seq(ViewRows)
  PROVE  /\ Views!Sorted(rows) \in Seq(ViewRows) /\ Len(Views!Sorted(rows)) = Len(rows)
         /\ \E at : Places(rows, at)
<1> DEFINE N == Len(rows)
           rank(i) == Views!Cardinality(Views!Before(rows, i))
           at == [p \in 1 .. N |-> CHOOSE i \in DOMAIN rows : rank(i) = p - 1]
<1>1. N \in Nat /\ DOMAIN rows = 1 .. N
  OBVIOUS
<1>2. \A i \in 1 .. N : rank(i) \in 0 .. N - 1
  BY <1>1, RowRanks
<1>3. \A p \in 1 .. N : at[p] \in 1 .. N /\ rank(at[p]) = p - 1
  <2> SUFFICES ASSUME NEW p \in 1 .. N PROVE at[p] \in 1 .. N /\ rank(at[p]) = p - 1
    OBVIOUS
  <2>1. p - 1 \in 0 .. N - 1
    BY <1>1
  <2>2. \E i \in DOMAIN rows : rank(i) = p - 1
    BY <2>1, RowRanks
  <2> HIDE DEF rank
  <2>3. at[p] = CHOOSE i \in DOMAIN rows : rank(i) = p - 1
    OBVIOUS
  <2> QED BY <1>1, <2>2, <2>3
<1>4. Views!Sorted(rows) = [p \in 1 .. N |-> rows[at[p]]]
  <2>1. \A p \in 1 .. N : at[p] = CHOOSE i \in DOMAIN rows : rank(i) = p - 1
    OBVIOUS
  <2>2. Views!Sorted(rows) = [p \in 1 .. N |-> rows[CHOOSE i \in DOMAIN rows : rank(i) = p - 1]]
    BY <1>1 DEF Views!Sorted
  <2> HIDE DEF at, rank
  <2> QED BY <2>1, <2>2
<1>5. at \in [DOMAIN rows -> DOMAIN rows]
  <2> HIDE DEF rank
  <2>1. at = [p \in 1 .. N |-> at[p]]
    OBVIOUS
  <2> HIDE DEF at
  <2> QED BY <1>1, <1>3, <2>1
<1> HIDE DEF at, rank
<1>6. \A p, q \in DOMAIN rows : at[p] = at[q] => p = q
  BY <1>1, <1>3
<1>7. ASSUME NEW i \in DOMAIN rows PROVE \E p \in DOMAIN rows : at[p] = i
  <2>1. rank(i) + 1 \in DOMAIN rows /\ (rank(i) + 1) - 1 = rank(i)
    BY <1>1, <1>2
  <2>2. PICK p \in DOMAIN rows : p - 1 = rank(i)
    BY <2>1
  <2>3. at[p] \in DOMAIN rows /\ rank(at[p]) = rank(i)
    BY <1>1, <1>3, <2>2
  <2>4. \A x, y \in 0 .. N - 1 : x = y => ~(x < y)
    OBVIOUS
  <2>5. ~(at[p] \in Views!Before(rows, i)) /\ ~(i \in Views!Before(rows, at[p]))
    BY <1>1, <1>2, <2>3, <2>4, RowRanks DEF rank
  <2> QED BY <2>3, <2>5, RowOrder
<1>8. ASSUME NEW p \in DOMAIN rows, NEW q \in DOMAIN rows, p < q
      PROVE  rows[at[p]].blocks >= rows[at[q]].blocks
  <2>1. at[p] \in DOMAIN rows /\ at[q] \in DOMAIN rows /\ at[p] # at[q]
    BY <1>1, <1>3, <1>6, <1>8
  <2>2. rank(at[p]) = p - 1 /\ rank(at[q]) = q - 1 /\ ~(q - 1 < p - 1)
    BY <1>1, <1>3, <1>8
  <2>3. ~(at[q] \in Views!Before(rows, at[p]))
    BY <2>1, <2>2, RowRanks DEF rank
  <2> QED BY <2>1, <2>3, RowOrder
<1>9. Views!Sorted(rows) \in Seq(ViewRows) /\ Len(Views!Sorted(rows)) = N
  <2>1. \A p \in 1 .. N : rows[at[p]] \in ViewRows
    BY <1>1, <1>3
  <2>2. Views!Sorted(rows) \in [1 .. N -> ViewRows]
    BY <1>4, <2>1
  <2>3. Views!Sorted(rows) \in Seq(ViewRows)
    BY <1>1, <2>2, SeqDef
  <2>4. DOMAIN Views!Sorted(rows) = 1 .. N
    BY <1>4
  <2> QED BY <1>1, <2>3, <2>4
<1>10. Places(rows, at)
  BY <1>1, <1>4, <1>5, <1>6, <1>7, <1>8 DEF Places
<1> QED BY <1>9, <1>10

LEMMA ViewsConstants == MINUTE \in Nat \ {0} /\ BUCKET_COUNT \in Nat \ {0} /\ TOP \in Nat \ {0}
BY WebsiteAssumption DEF WebsiteAssumption, Views!ViewsAssumption

\* The leaderboard of any list of blocks.
LEMMA BoardIsRight ==
  ASSUME NEW list \in Seq(ViewBlocks), NEW board, board = Views!Leaderboard(list)
  PROVE  /\ \A i \in DOMAIN board : board[i].blocks = Cardinality(WonBy(list, board[i].miner))
         /\ \A i, j \in DOMAIN board : board[i].miner = board[j].miner => i = j
         /\ \A m : (\A i \in DOMAIN board : board[i].miner # m) =>
              \A i \in DOMAIN board : Cardinality(WonBy(list, m)) <= board[i].blocks
<1> DEFINE rows == Views!Rows(list)
           sorted == Views!Sorted(rows)
           n == IF Len(sorted) < TOP THEN Len(sorted) ELSE TOP
<1>1. RowsRight(rows, list, Len(list))
  BY RowsAreRight
<1>2. board = SubSeq(sorted, 1, n)
  BY DEF Views!Leaderboard
<1> HIDE DEF rows
<1>3. rows \in Seq(ViewRows) /\ Len(rows) \in Nat /\ DOMAIN rows = 1 .. Len(rows)
  BY <1>1 DEF RowsRight
<1>4. sorted \in Seq(ViewRows) /\ Len(sorted) = Len(rows)
  BY <1>3, SortedRows
<1>5. PICK at : Places(rows, at)
  BY <1>3, SortedRows
<1> HIDE DEF sorted
<1>6. n \in Nat /\ n <= Len(rows)
  BY <1>3, <1>4, ViewsConstants
<1> HIDE DEF n
<1>7. DOMAIN board = 1 .. n /\ \A p \in 1 .. n : board[p] = sorted[p]
  <2>1. \A i \in 1 .. n : sorted[i] \in ViewRows
    BY <1>3, <1>4, <1>6
  <2>2. /\ SubSeq(sorted, 1, n) \in Seq(ViewRows)
        /\ Len(SubSeq(sorted, 1, n)) = IF 1 <= n THEN n - 1 + 1 ELSE 0
        /\ \A i \in 1 .. n - 1 + 1 : SubSeq(sorted, 1, n)[i] = sorted[1 + i - 1]
    <3>1. 1 \in Int /\ n \in Int
      BY <1>6
    <3> QED BY <2>1, <3>1, SubSeqProperties
  <2>3. DOMAIN board = 1 .. n
    BY <1>2, <1>6, <2>2
  <2>4. \A i \in 1 .. n : i \in 1 .. n - 1 + 1 /\ 1 + i - 1 = i
    BY <1>6
  <2>5. \A i \in 1 .. n : board[i] = sorted[1 + i - 1]
    BY <1>2, <2>2, <2>4
  <2> QED BY <2>3, <2>4, <2>5
<1>8. ASSUME NEW p \in DOMAIN board
      PROVE  p \in DOMAIN rows /\ at[p] \in DOMAIN rows /\ board[p] = rows[at[p]]
  <2>1. p \in DOMAIN rows
    BY <1>3, <1>6, <1>7
  <2> QED BY <1>5, <1>7, <2>1 DEF Places, sorted
<1>9. \A m : (1 .. Len(list)) \cap WonBy(list, m) = WonBy(list, m)
  BY DEF WonBy
<1>10. \A i \in DOMAIN rows : rows[i].blocks = Cardinality(WonBy(list, rows[i].miner))
  BY <1>1, <1>9 DEF RowsRight
<1>11. \A i \in DOMAIN board : board[i].blocks = Cardinality(WonBy(list, board[i].miner))
  BY <1>8, <1>10
<1>12. \A i, j \in DOMAIN board : board[i].miner = board[j].miner => i = j
  <2> SUFFICES ASSUME NEW i \in DOMAIN board, NEW j \in DOMAIN board, board[i].miner = board[j].miner
               PROVE  i = j
    OBVIOUS
  <2>1. at[i] = at[j]
    BY <1>1, <1>8 DEF RowsRight
  <2> QED BY <1>5, <1>8, <2>1 DEF Places
<1>13. ASSUME NEW m, \A i \in DOMAIN board : board[i].miner # m, NEW p \in DOMAIN board
       PROVE  Cardinality(WonBy(list, m)) <= board[p].blocks
  <2>1. board[p].blocks \in Nat
    <3>1. rows[at[p]] \in ViewRows
      BY <1>3, <1>8
    <3> QED BY <1>8, <3>1 DEF ViewRows
  <2>2. CASE WonBy(list, m) = {}
    BY <2>1, <2>2, FS_EmptySet
  <2>3. CASE WonBy(list, m) # {}
    <3>1. PICK k \in DOMAIN list : list[k].winner = m
      BY <2>3 DEF WonBy
    <3>2. PICK j \in DOMAIN rows : rows[j].miner = m
      BY <1>1, <3>1 DEF RowsRight
    <3>3. PICK q \in DOMAIN rows : at[q] = j
      BY <1>5 DEF Places
    <3>4. q \notin DOMAIN board
      BY <1>8, <1>13, <3>2, <3>3
    <3>5. p < q
      BY <1>3, <1>6, <1>7, <3>4
    <3>6. rows[at[p]].blocks >= rows[at[q]].blocks
      BY <1>5, <1>8, <3>5 DEF Places
    <3>7. rows[j].blocks = Cardinality(WonBy(list, m))
      BY <1>10, <3>2
    <3>8. rows[j].blocks \in Nat
      <4>1. rows[j] \in ViewRows
        BY <1>3
      <4> QED BY <4>1 DEF ViewRows
    <3> QED BY <1>8, <2>1, <3>3, <3>6, <3>7, <3>8
  <2> QED BY <2>2, <2>3
<1> QED BY <1>11, <1>12, <1>13

\* A quotient, by what it says of multiples.
LEMMA Quotient ==
  ASSUME NEW a \in Int, NEW q \in Int
  PROVE  /\ a \div MINUTE \in Int
         /\ a \div MINUTE = q <=> q * MINUTE <= a /\ a < q * MINUTE + MINUTE
<1> DEFINE d == a \div MINUTE
<1>1. MINUTE \in Nat \ {0}
  BY ViewsConstants
<1>2. d \in Int /\ d * MINUTE <= a /\ a < d * MINUTE + MINUTE
  BY <1>1, SMTT(30)
<1> HIDE DEF d
<1>3. ASSUME NEW x \in Int, NEW y \in Int, x < y PROVE x * MINUTE + MINUTE <= y * MINUTE
  <2>1. (x + 1) * MINUTE <= y * MINUTE
    BY <1>1, <1>3, SMTT(30)
  <2> QED BY <1>1, <2>1, SMTT(30)
<1>4. ASSUME q * MINUTE <= a, a < q * MINUTE + MINUTE PROVE d = q
  <2>1. q * MINUTE \in Int /\ d * MINUTE \in Int
    BY <1>1, <1>2
  <2>2. ~(d < q) /\ ~(q < d)
    BY <1>1, <1>2, <1>3, <1>4, <2>1
  <2> QED BY <1>2, <2>2
<1> QED BY <1>2, <1>4 DEF d

\* A block is counted in the bucket of its minute, if there is one.
EndOf(time, i) == Views!LastBucketStart(time) - (BUCKET_COUNT - i) * MINUTE
InBucket(block, time, i) ==
  block.ts > EndOf(time, i) - MINUTE /\ block.ts <= EndOf(time, i)

LEMMA BucketOf ==
  ASSUME NEW block \in ViewBlocks, NEW time \in Int, NEW i \in 1 .. BUCKET_COUNT
  PROVE  /\ Views!Offset(time, block.ts) \in Int /\ block.ts # 0
         /\ BUCKET_COUNT - Views!Offset(time, block.ts) = i <=> InBucket(block, time, i)
<1> DEFINE start == Views!LastBucketStart(time)
           back == (BUCKET_COUNT - i) * MINUTE
<1>1. /\ MINUTE \in Nat \ {0} /\ BUCKET_COUNT \in Nat \ {0}
      /\ block.ts \in Nat \ {0} /\ BUCKET_COUNT - i \in Int
  BY ViewsConstants DEF ViewBlocks
<1>2. start \in Int
  <2>1. time \div MINUTE \in Int
    BY Quotient
  <2> QED BY <1>1, <2>1 DEF Views!LastBucketStart
<1>3. back \in Int
  BY <1>1
<1>4. EndOf(time, i) = start - back
  BY DEF EndOf
<1> HIDE DEF start
<1>5. start - block.ts \in Int
  BY <1>1, <1>2
<1>6. /\ Views!Offset(time, block.ts) \in Int
      /\ Views!Offset(time, block.ts) = BUCKET_COUNT - i
           <=> back <= start - block.ts /\ start - block.ts < back + MINUTE
  BY <1>1, <1>5, Quotient DEF Views!Offset, start
<1> HIDE DEF back
<1> QED BY <1>1, <1>2, <1>3, <1>4, <1>6 DEF InBucket

\* The buckets are right for the first n blocks of a list.
MinedIn(list, time, i) == {k \in DOMAIN list : InBucket(list[k], time, i)}

BucketsRight(counts, list, time, n) ==
  /\ counts \in [1 .. BUCKET_COUNT -> Nat]
  /\ \A i \in 1 .. BUCKET_COUNT : counts[i] = Cardinality((1 .. n) \cap MinedIn(list, time, i))

LEMMA CountedBlock ==
  ASSUME NEW counts \in [1 .. BUCKET_COUNT -> Nat], NEW block \in ViewBlocks, NEW time \in Int
  PROVE  /\ Views!CountBlock(counts, block, time) \in [1 .. BUCKET_COUNT -> Nat]
         /\ \A i \in 1 .. BUCKET_COUNT :
              Views!CountBlock(counts, block, time)[i]
                = counts[i] + IF InBucket(block, time, i) THEN 1 ELSE 0
<1> DEFINE offset == Views!Offset(time, block.ts)
           new == Views!CountBlock(counts, block, time)
<1>1. BUCKET_COUNT \in Nat \ {0} /\ 1 \in 1 .. BUCKET_COUNT
  BY ViewsConstants
<1>2. offset \in Int /\ block.ts # 0
  BY <1>1, BucketOf
<1>3. \A i \in 1 .. BUCKET_COUNT : BUCKET_COUNT - offset = i <=> InBucket(block, time, i)
  BY BucketOf
<1>4. new = IF offset < 0 \/ offset >= BUCKET_COUNT THEN counts
            ELSE [counts EXCEPT ![BUCKET_COUNT - offset] = @ + 1]
  BY <1>2 DEF Views!CountBlock
<1> HIDE DEF new, offset
<1>5. CASE offset < 0 \/ offset >= BUCKET_COUNT
  <2>1. \A i \in 1 .. BUCKET_COUNT : ~InBucket(block, time, i)
    BY <1>1, <1>2, <1>3, <1>5
  <2>2. new = counts /\ \A i \in 1 .. BUCKET_COUNT : counts[i] + 0 = counts[i]
    BY <1>4, <1>5
  <2> QED BY <2>1, <2>2 DEF new
<1>6. CASE ~(offset < 0 \/ offset >= BUCKET_COUNT)
  <2> DEFINE b == BUCKET_COUNT - offset
  <2>1. b \in 1 .. BUCKET_COUNT
    BY <1>1, <1>2, <1>6
  <2>2. new = [counts EXCEPT ![b] = @ + 1]
    BY <1>4, <1>6
  <2> HIDE DEF b
  <2>3. /\ new \in [1 .. BUCKET_COUNT -> Nat]
        /\ \A i \in 1 .. BUCKET_COUNT : new[i] = counts[i] + IF b = i THEN 1 ELSE 0
    BY <2>1, <2>2
  <2> QED BY <1>3, <2>3 DEF new, b
<1> QED BY <1>5, <1>6

\* The buckets of a whole list.
LEMMA BucketsAreRight ==
  ASSUME NEW list \in Seq(ViewBlocks), NEW time \in Int
  PROVE  BucketsRight(Views!BlocksPerMinute(list, time), list, time, Len(list))
<1> DEFINE N == Len(list)
           V == [1 .. BUCKET_COUNT -> Nat]
           none == [i \in 1 .. BUCKET_COUNT |-> 0]
           step == [n \in 1 .. N |-> [x \in V |-> Views!CountBlock(x, list[n], time)]]
           Def(g) == g = [n \in 0 .. N |-> IF n = 0 THEN [i \in 1 .. BUCKET_COUNT |-> 0]
                                           ELSE Views!CountBlock(g[n - 1], list[n], time)]
           after == CHOOSE g : Def(g)
<1>1. N \in Nat /\ \A n \in 1 .. N : list[n] \in ViewBlocks
  OBVIOUS
<1>2. PICK f \in [0 .. N -> V] : f[0] = none /\ \A n \in 1 .. N : f[n] = step[n][f[n - 1]]
  <2>1. none \in V
    OBVIOUS
  <2>2. \A n \in 1 .. N : \A x \in V : Views!CountBlock(x, list[n], time) \in V
    BY <1>1, CountedBlock
  <2>3. step \in [1 .. N -> [V -> V]]
    <3> HIDE DEF V, N
    <3> QED BY <2>2
  <2> HIDE DEF V, N, step, none
  <2>4. PICK f \in [0 .. N -> V] : ComputedBy(f, none, N, step)
    BY <1>1, <2>1, <2>3, ListRecursion
  <2> QED BY <2>4 DEF ComputedBy
<1>3. \A n \in 0 .. N : f[n] = IF n = 0 THEN none ELSE Views!CountBlock(f[n - 1], list[n], time)
  <2> SUFFICES ASSUME NEW n \in 1 .. N PROVE f[n] = Views!CountBlock(f[n - 1], list[n], time)
    BY <1>1, <1>2
  <2>1. n - 1 \in 0 .. N
    BY <1>1
  <2>2. f[n - 1] \in V
    <3> HIDE DEF V, N
    <3> QED BY <2>1, <1>2
  <2> HIDE DEF V, N
  <2> QED BY <1>2, <2>2
<1>4. Def(f)
  <2> HIDE DEF V, N
  <2> QED BY <1>3
<1>5. Def(after)
  <2> HIDE DEF Def
  <2> QED BY <1>4
<1>6. Views!BlocksPerMinute(list, time) = after[N]
  BY DEF Views!BlocksPerMinute
<1> HIDE DEF after
<1>7. \A n \in 0 .. N : BucketsRight(after[n], list, time, n)
  <2> DEFINE T == {n \in 0 .. N : BucketsRight(after[n], list, time, n)}
  <2>1. 0 \in T
    <3>1. after[0] = none /\ 0 \in 0 .. N
      BY <1>1, <1>5
    <3>2. \A i \in 1 .. BUCKET_COUNT : (1 .. 0) \cap MinedIn(list, time, i) = {}
      OBVIOUS
    <3>3. BucketsRight(none, list, time, 0)
      BY <3>2, FS_EmptySet DEF BucketsRight
    <3> QED BY <3>1, <3>3
  <2>2. ASSUME NEW n \in 0 .. N - 1, n \in T PROVE n + 1 \in T
    <3> DEFINE new == Views!CountBlock(after[n], list[n + 1], time)
    <3>1. n + 1 \in 1 .. N /\ n + 1 \in 0 .. N /\ n + 1 # 0 /\ (n + 1) - 1 = n /\ n \in Nat
      <4>1. N \in Nat
        BY <1>1
      <4> HIDE DEF N
      <4> QED BY ONLY <4>1, n \in 0 .. N - 1
    <3>2. after[n + 1] = new
      <4> HIDE DEF N
      <4> QED BY <1>5, <3>1
    <3>3. /\ after[n] \in V
          /\ \A i \in 1 .. BUCKET_COUNT :
               after[n][i] = Cardinality((1 .. n) \cap MinedIn(list, time, i))
      BY <2>2 DEF BucketsRight
    <3>4. /\ new \in V
          /\ \A i \in 1 .. BUCKET_COUNT :
               new[i] = after[n][i] + IF InBucket(list[n + 1], time, i) THEN 1 ELSE 0
      <4>1. after[n] \in [1 .. BUCKET_COUNT -> Nat] /\ list[n + 1] \in ViewBlocks /\ time \in Int
        BY <1>1, <3>1, <3>3
      <4> QED BY ONLY <4>1, CountedBlock
    <3> HIDE DEF new
    <3>5. ASSUME NEW i \in 1 .. BUCKET_COUNT
          PROVE  new[i] = Cardinality((1 .. n + 1) \cap MinedIn(list, time, i))
      <4>1. n + 1 \in MinedIn(list, time, i) <=> InBucket(list[n + 1], time, i)
        BY <3>1 DEF MinedIn
      <4>2. Cardinality((1 .. n + 1) \cap MinedIn(list, time, i))
              = Cardinality((1 .. n) \cap MinedIn(list, time, i))
                + IF n + 1 \in MinedIn(list, time, i) THEN 1 ELSE 0
        BY <3>1, OneMoreElement
      <4>3. new[i] = after[n][i] + IF InBucket(list[n + 1], time, i) THEN 1 ELSE 0
        BY <3>4
      <4>4. after[n][i] = Cardinality((1 .. n) \cap MinedIn(list, time, i))
        BY <3>3
      <4> QED BY ONLY <4>1, <4>2, <4>3, <4>4
    <3> QED BY <3>1, <3>2, <3>4, <3>5 DEF BucketsRight
  <2> HIDE DEF T, N
  <2>3. \A n \in 0 .. N : n \in T
    BY <1>1, <2>1, <2>2, BoundedInduction
  <2> QED BY <2>3 DEF T
<1> QED BY <1>1, <1>6, <1>7

\* The inductive invariant: the views are computed from a list of blocks.
ViewsInv == records \in Seq(ViewBlocks) /\ now \in Int

LEMMA ViewsStart == MCInit => ViewsInv
<1> SUFFICES ASSUME MCInit PROVE ViewsInv
  OBVIOUS
<1>1. PICK n \in Nat : records \in Views!RecentBlockRecords(n, Miners, 1 .. MAX_NOW)
  BY DEF MCInit, ViewsInit
<1>2. PICK w \in [1 .. n -> Miners], t \in [1 .. n -> 1 .. MAX_NOW] :
        records = [i \in 1 .. n |-> [winner |-> w[i], ts |-> t[i], height |-> n - i, reward |-> 1]]
  <2> DEFINE Times == {t \in [1 .. n -> 1 .. MAX_NOW] : \A i \in 1 .. n - 1 : t[i] >= t[i + 1]}
             list(w, t) == [i \in 1 .. n |->
                              [winner |-> w[i], ts |-> t[i], height |-> n - i, reward |-> 1]]
  <2>1. records \in {list(w, t) : w \in [1 .. n -> Miners], t \in Times}
    <3>1. Views!RecentBlockRecords(n, Miners, 1 .. MAX_NOW)
            = {list(w, t) : w \in [1 .. n -> Miners], t \in Times}
      BY ONLY DEF Views!RecentBlockRecords
    <3> HIDE DEF list, Times
    <3> QED BY <1>1, <3>1
  <2>2. \A t \in Times : t \in [1 .. n -> 1 .. MAX_NOW]
    OBVIOUS
  <2> HIDE DEF list, Times
  <2>3. \E w \in [1 .. n -> Miners], t \in [1 .. n -> 1 .. MAX_NOW] : records = list(w, t)
    BY <2>1, <2>2
  <2> QED BY <2>3 DEF list
<1>3. \A i \in 1 .. n : n - i \in Nat /\ w[i] \in Miners /\ t[i] \in Nat \ {0}
  OBVIOUS
<1>4. \A i \in 1 .. n :
        [winner |-> w[i], ts |-> t[i], height |-> n - i, reward |-> 1] \in ViewBlocks
  BY <1>3 DEF ViewBlocks
<1>5. records \in [1 .. n -> ViewBlocks]
  BY <1>2, <1>4
<1>6. records \in Seq(ViewBlocks)
  BY <1>5, SeqDef
<1>7. now \in Int
  <2>1. now = IF records = <<>> THEN 1 ELSE records[1].ts
    BY DEF MCInit, ViewsInit
  <2>2. records # <<>> => records[1] \in ViewBlocks
    BY <1>6
  <2> QED BY <2>1, <2>2 DEF ViewBlocks
<1> QED BY <1>6, <1>7 DEF ViewsInv

LEMMA ViewsInvInductive == ViewsInv /\ [MCNext]_mcVars => ViewsInv'
<1> SUFFICES ASSUME ViewsInv, [MCNext]_mcVars PROVE ViewsInv'
  OBVIOUS
<1>1. Later \/ UNCHANGED viewVars
  BY DEF MCNext, mcVars
<1> QED BY <1>1 DEF Later, viewVars, ViewsInv

\* The derived views agree with the blocks, however many miners, blocks, rows and
\* buckets: the leaderboard shows each miner's own count and leaves out nobody with
\* more, and a bucket counts each block of its minute once.
THEOREM ViewsAgreeWithTheBlocks == MCSpec => []ViewsAgree
<1>1. ViewsInv => ViewsAgree
  <2> SUFFICES ASSUME ViewsInv PROVE ViewsAgree
    OBVIOUS
  <2> DEFINE board == Views!Leaderboard(records)
             counts == Views!BlocksPerMinute(records, now)
  <2>1. records \in Seq(ViewBlocks) /\ now \in Int /\ DOMAIN records = 1 .. Len(records)
    BY DEF ViewsInv
  <2>2. \A m : WonBy(records, m) = BlocksOf(m)
    BY DEF WonBy, BlocksOf
  <2>3. /\ \A i \in DOMAIN board : board[i].blocks = Cardinality(BlocksOf(board[i].miner))
        /\ \A i, j \in DOMAIN board : board[i].miner = board[j].miner => i = j
        /\ \A m : (\A i \in DOMAIN board : board[i].miner # m) =>
             \A i \in DOMAIN board : Cardinality(BlocksOf(m)) <= board[i].blocks
    BY <2>1, <2>2, BoardIsRight
  <2>4. ASSUME NEW i \in 1 .. BUCKET_COUNT
        PROVE  counts[i] = Cardinality({k \in DOMAIN records :
                             /\ records[k].ts > EndOf(now, i) - MINUTE
                             /\ records[k].ts <= EndOf(now, i)})
    <3>1. counts[i] = Cardinality((1 .. Len(records)) \cap MinedIn(records, now, i))
      BY <2>1, BucketsAreRight DEF BucketsRight
    <3>2. (1 .. Len(records)) \cap MinedIn(records, now, i)
            = {k \in DOMAIN records : /\ records[k].ts > EndOf(now, i) - MINUTE
                                      /\ records[k].ts <= EndOf(now, i)}
      BY <2>1 DEF MinedIn, InBucket
    <3> QED BY <3>1, <3>2
  <2> HIDE DEF board, counts
  <2>5. \A i \in DOMAIN board : \A m \in Miners \ {board[j].miner : j \in DOMAIN board} :
          Cardinality(BlocksOf(m)) <= board[i].blocks
    BY <2>3
  <2> QED BY <2>3, <2>4, <2>5 DEF ViewsAgree, EndOf, board, counts
<1> QED BY <1>1, ViewsStart, ViewsInvInductive, PTL DEF MCSpec

=============================================================================
