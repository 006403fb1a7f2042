---------------------------- MODULE MinerEngine ----------------------------
(***************************************************************************)
(* The browser miner: the engine (clients/website/src/lib/miner-engine.ts) *)
(* and the dashboard that starts and stops it (components/MineDashboard).  *)
(*                                                                         *)
(* A call of startMiner is a session.  It probes for a GPU, then runs a    *)
(* supervisor that polls the config, and any number of LANES: a lane is    *)
(* one chain of dispatchTo calls on a solver slot (job, answer, target     *)
(* check, submission, next job), or the full-GPU loop.  `busy` is meant to *)
(* keep a slot to one lane, but a lane that pauses after an error or waits *)
(* for a digest is not busy, so the supervisor may start a second one.     *)
(* JavaScript runs from one await to the next without interruption: an     *)
(* action is such a stretch.  A session goes on after stop() until its     *)
(* awaits have settled, next to the session started after it.              *)
(*                                                                         *)
(* Mining never closes once it is open, and the start button waits for it: *)
(* the engine's wait for an open vault is never taken.  A config read that *)
(* fails changes nothing and is left out.                                  *)
(***************************************************************************)
EXTENDS RoundChain, SequencesExt

CONSTANTS
  Slots,         \* worker slots of a session (workerCount)
  GPU,           \* the slot of the full-GPU loop
  MAX_LANES,     \* bound of the model: lanes alive at once, over all sessions
  MAX_SESSIONS,  \* bound of the model: calls of startMiner
  MAX_HEIGHT     \* bound of the model: rounds that close

ASSUME EngineAssumption ==
  /\ IsFiniteSet(Slots) /\ GPU \notin Slots
  /\ MAX_LANES \in Nat /\ MAX_SESSIONS \in Nat /\ MAX_HEIGHT \in Nat

Sessions == 1 .. MAX_SESSIONS
Heights == 0 .. MAX_HEIGHT  \* a round that could be won in the model is below MAX_HEIGHT
NoConfig == MAX_HEIGHT + 1
NoSession == 0

\* A lane is known by its session, its slot and a number: two lanes of one
\* slot are told apart, a third is beyond the model.
Lanes == (Sessions \X Slots \X {1, 2}) \cup (Sessions \X {GPU} \X {1})
SessionOf(l) == l[1]
SlotOf(l) == l[2]

VARIABLES
  \* -- the dashboard --
  started,        \* sessions started so far
  running,        \* the dashboard's `running`
  handle,         \* minerHandle.current: a session, or NoSession
  \* -- per session --
  stopped, tier, supervisor, currentConfig, submitting,
  busy,           \* slot -> whether its last job is out
  gpuQueue,       \* lanes whose leaf pass on the GPU is not released yet
  fate,           \* of the submitted transaction: unknown, ok, err
  \* -- lanes, transactions, credits --
  lane,           \* lane -> its next step and the round of its config
  adrift,         \* rounds of transactions given up: they may still execute
  credits         \* round -> number of onBlockMined calls

dashVars == <<started, running, handle>>
supVars == <<stopped, tier, supervisor, currentConfig>>
txVars == <<fate, adrift, credits>>
vars == <<chainVars, dashVars, supVars, submitting, busy, gpuQueue, lane, txVars>>

NoLane == [at |-> "none", h |-> NoConfig]

SubmitSteps == {"preparing", "polling", "sorry"}
Steps == {"none", "top", "leaves", "solving", "paused", "checking"} \cup SubmitSteps

TypeOK ==
  /\ height \in Heights /\ ours \subseteq Heights
  /\ started \in 0 .. MAX_SESSIONS
  /\ running \in BOOLEAN
  /\ handle \in Sessions \cup {NoSession}
  /\ stopped \in [Sessions -> BOOLEAN]
  /\ tier \in [Sessions -> {"cpu", "hybrid", "fullgpu"}]
  /\ supervisor \in [Sessions -> {"none", "probe", "fetch", "advance", "done"}]
  /\ currentConfig \in [Sessions -> Heights \cup {NoConfig}]
  /\ submitting \in [Sessions -> BOOLEAN]
  /\ busy \in [Sessions -> [Slots -> BOOLEAN]]
  /\ gpuQueue \in [Sessions -> Seq(Lanes)]
  /\ fate \in [Sessions -> {"unknown", "ok", "err"}]
  /\ lane \in [Lanes -> [at : Steps, h : Heights \cup {NoConfig}]]
  /\ \A l \in Lanes :
       lane[l].at \in {"leaves", "solving", "checking"} \cup SubmitSteps => lane[l].h \in Heights
  /\ adrift \subseteq Heights
  /\ credits \in [Heights -> Nat]

Init ==
  /\ ChainInit
  /\ started = 0 /\ running = FALSE /\ handle = NoSession
  /\ stopped = [s \in Sessions |-> FALSE]
  /\ tier = [s \in Sessions |-> "cpu"]
  /\ supervisor = [s \in Sessions |-> "none"]
  /\ currentConfig = [s \in Sessions |-> NoConfig]
  /\ submitting = [s \in Sessions |-> FALSE]
  /\ busy = [s \in Sessions |-> [k \in Slots |-> FALSE]]
  /\ gpuQueue = [s \in Sessions |-> <<>>]
  /\ fate = [s \in Sessions |-> "unknown"]
  /\ lane = [l \in Lanes |-> NoLane]
  /\ adrift = {}
  /\ credits = [h \in Heights |-> 0]

-----------------------------------------------------------------------------
(* The dashboard. *)

\* start(): the button is there while nothing runs.
Start ==
  /\ ~running
  /\ started < MAX_SESSIONS
  /\ started' = started + 1
  /\ running' = TRUE
  /\ handle' = started'
  /\ supervisor' = [supervisor EXCEPT ![started'] = "probe"]
  /\ UNCHANGED <<chainVars, stopped, tier, currentConfig, submitting, busy, gpuQueue, lane, txVars>>

\* stop(), from the button or when the component unmounts (a locked wallet, a
\* page left): the workers are terminated with their jobs, the GPU destroyed.
\* The tier and the busy flags have no reader left and are forgotten.
Stop ==
  /\ running
  /\ stopped' = [stopped EXCEPT ![handle] = TRUE]
  /\ lane' = [l \in Lanes |->
       IF SessionOf(l) = handle /\ SlotOf(l) # GPU /\ lane[l].at = "solving"
       THEN NoLane ELSE lane[l]]
  /\ running' = FALSE
  /\ handle' = NoSession
  /\ UNCHANGED <<chainVars, started, tier, supervisor, currentConfig, submitting, busy, gpuQueue, txVars>>

-----------------------------------------------------------------------------
(* Lanes: what happens to a lane at the end of a stretch. *)

Goto(l, step) == lane' = [lane EXCEPT ![l].at = step]

\* A lane that has no use for its config any more.
Waits(step) == [at |-> step, h |-> NoConfig]

\* dispatchTo: a job with this config; in the hybrid tier it queues for the GPU.
Job(s, h) == [at |-> IF tier[s] = "hybrid" THEN "leaves" ELSE "solving", h |-> h]

\* `if (stopped) return`, or the end of the full-GPU loop.
Ends(l) ==
  /\ stopped[SessionOf(l)]
  /\ lane' = [lane EXCEPT ![l] = NoLane]
  /\ UNCHANGED <<busy, gpuQueue>>

\* `if (!stopped && currentConfig) dispatchTo(slot, currentConfig)`
Redispatch(l) ==
  LET s == SessionOf(l) IN
  /\ ~stopped[s] /\ SlotOf(l) # GPU
  /\ lane' = [lane EXCEPT ![l] = Job(s, currentConfig[s])]
  /\ busy' = [busy EXCEPT ![s][SlotOf(l)] = TRUE]
  /\ gpuQueue' = IF tier[s] = "hybrid"
                 THEN [gpuQueue EXCEPT ![s] = Append(@, l)] ELSE gpuQueue

\* Back to the head of the full-GPU loop.
LoopsOn(l) ==
  /\ ~stopped[SessionOf(l)] /\ SlotOf(l) = GPU
  /\ lane' = [lane EXCEPT ![l] = Waits("top")]
  /\ UNCHANGED <<busy, gpuQueue>>

Resume(l) == Ends(l) \/ Redispatch(l) \/ LoopsOn(l)

-----------------------------------------------------------------------------
(* The supervisor. *)

Alive == {l \in Lanes : lane[l].at # "none"}

\* The probe settles on a tier and the supervisor wakes up; in the full-GPU
\* tier it starts the loop, which has its first look at the config later.
Probe(s, t) ==
  /\ supervisor[s] = "probe"
  /\ tier' = IF stopped[s] THEN tier ELSE [tier EXCEPT ![s] = t]
  /\ supervisor' = [supervisor EXCEPT ![s] = IF stopped[s] THEN "done" ELSE "fetch"]
  /\ IF t = "fullgpu" /\ ~stopped[s]
     THEN /\ Cardinality(Alive) < MAX_LANES
          /\ lane' = [lane EXCEPT ![<<s, GPU, 1>>] = Waits("top")]
     ELSE UNCHANGED lane
  /\ UNCHANGED <<chainVars, dashVars, stopped, currentConfig, submitting, busy, gpuQueue, txVars>>

\* The slots the supervisor's round finds idle, with a lane to put the job in.
Idle(s) ==
  {k \in Slots : /\ ~stopped[s] /\ ~submitting[s] /\ tier[s] # "fullgpu"
                 /\ ~busy[s][k]
                 /\ \E i \in 1 .. 2 : lane[<<s, k, i>>].at = "none"}

\* `for (const slot of slots) if (!slot.busy && !submitting) dispatchTo(..)`
Kick(s, h) ==
  \E D \in SUBSET Idle(s) :
    LET FreeLane(k) == <<s, k, IF lane[<<s, k, 1>>].at = "none" THEN 1 ELSE 2>>
        new == {FreeLane(k) : k \in D}
    IN  /\ Cardinality(D) = (LET room == MAX_LANES - Cardinality(Alive)
                                 idle == Cardinality(Idle(s))
                             IN  IF idle < room THEN idle ELSE room)
        /\ lane' = [l \in Lanes |-> IF l \in new THEN Job(s, h) ELSE lane[l]]
        /\ busy' = [busy EXCEPT ![s] = [k \in Slots |-> busy[s][k] \/ k \in D]]
        /\ IF tier[s] = "hybrid"
           THEN \E q \in SetToSeqs(new) : gpuQueue' = [gpuQueue EXCEPT ![s] = @ \o q]
           ELSE UNCHANGED gpuQueue

\* The config arrives.  A round that has not moved since the last look may
\* have stalled (75 s, 30 s between attempts): then advance_empty_round first.
Fetch(s) ==
  /\ supervisor[s] = "fetch"
  /\ currentConfig' = [currentConfig EXCEPT ![s] = ConfigRead]
  /\ \/ /\ Kick(s, ConfigRead)
        /\ UNCHANGED supervisor
     \/ /\ currentConfig[s] = ConfigRead /\ ~submitting[s]
        /\ supervisor' = [supervisor EXCEPT ![s] = "advance"]
        /\ UNCHANGED <<lane, busy, gpuQueue>>
  /\ UNCHANGED <<chainVars, dashVars, stopped, tier, submitting, txVars>>

\* advance_empty_round was confirmed, or refused; the slots get the config the
\* round was found stalled with.
Advance(s) ==
  /\ supervisor[s] = "advance"
  /\ \/ height < MAX_HEIGHT /\ OthersClose
     \/ UNCHANGED chainVars
  /\ Kick(s, currentConfig[s])
  /\ supervisor' = [supervisor EXCEPT ![s] = "fetch"]
  /\ UNCHANGED <<dashVars, stopped, tier, currentConfig, submitting,
                 txVars>>

\* `while (!stopped)`; the last reader of currentConfig is gone.
SupervisorEnds(s) ==
  /\ supervisor[s] = "fetch" /\ stopped[s]
  /\ supervisor' = [supervisor EXCEPT ![s] = "done"]
  /\ currentConfig' = [currentConfig EXCEPT ![s] = NoConfig]
  /\ UNCHANGED <<chainVars, dashVars, stopped, tier, submitting, busy, gpuQueue, lane, txVars>>

-----------------------------------------------------------------------------
(* Jobs and their answers. *)

laneVars == <<lane, busy, gpuQueue>>

\* What a lane's step leaves alone, apart from laneVars and the submission.
OtherVars == <<chainVars, dashVars, supVars>>

SetBusy(l, b) ==
  busy' = IF SlotOf(l) = GPU THEN busy ELSE [busy EXCEPT ![SessionOf(l)][SlotOf(l)] = b]

Pause(l) == lane' = [lane EXCEPT ![l] = Waits("paused")]

\* Mutant: the pass is released only when it succeeded.
ReleaseOnSuccess(l, passed) ==
  /\ gpuQueue[SessionOf(l)] # <<>> /\ Head(gpuQueue[SessionOf(l)]) = l
  /\ gpuQueue' = IF passed THEN [gpuQueue EXCEPT ![SessionOf(l)] = Tail(@)] ELSE gpuQueue

\* runGpuLeaves: passes wait for the one before, which releases the GPU when
\* it is through, whether it succeeded or threw.
ReleaseGpu(l, passed) ==
  /\ gpuQueue[SessionOf(l)] # <<>> /\ Head(gpuQueue[SessionOf(l)]) = l
  /\ gpuQueue' = [gpuQueue EXCEPT ![SessionOf(l)] = Tail(@)]

\* Mutant: the job is posted without another look at `stopped`.
LeavesPosted(l, passed) ==
  /\ lane[l].at = "leaves"
  /\ ReleaseGpu(l, passed)
  /\ IF passed THEN Goto(l, "solving") /\ UNCHANGED busy
               ELSE Pause(l) /\ SetBusy(l, FALSE)
  /\ UNCHANGED <<OtherVars, submitting, txVars>>

\* The leaf pass settles: the job is posted to the worker; a failed pass is
\* tried again after a pause, and the slot is not busy in the meantime.
Leaves(l, passed) ==
  /\ lane[l].at = "leaves"
  /\ ReleaseGpu(l, passed)
  /\ \/ passed /\ ~stopped[SessionOf(l)] /\ Goto(l, "solving") /\ UNCHANGED busy
     \/ passed /\ stopped[SessionOf(l)] /\ lane' = [lane EXCEPT ![l] = NoLane] /\ UNCHANGED busy
     \/ ~passed /\ Pause(l) /\ SetBusy(l, FALSE)
  /\ UNCHANGED <<OtherVars, submitting, txVars>>

\* The timer of an error pause.
PauseOver(l) ==
  /\ lane[l].at = "paused"
  /\ Resume(l)
  /\ UNCHANGED <<OtherVars, submitting, txVars>>

\* A worker's answer, "error" or "no-solution", or a GPU pass without any
\* candidate or that threw.
NoSolution(l) ==
  /\ lane[l].at = "solving"
  /\ \/ Resume(l)
     \/ /\ SlotOf(l) # GPU /\ ~stopped[SessionOf(l)]
        /\ Pause(l) /\ SetBusy(l, FALSE) /\ UNCHANGED gpuQueue
  /\ UNCHANGED <<OtherVars, submitting, txVars>>

\* A solution: its digest is awaited.  The full-GPU loop has no look at
\* `stopped` here; a worker's answer cannot come after stop().
Solved(l) ==
  /\ lane[l].at = "solving"
  /\ Goto(l, "checking") /\ SetBusy(l, FALSE)
  /\ UNCHANGED <<OtherVars, gpuQueue, submitting, txVars>>

\* Above target, or below it while a submission is pending: dropped.
Drop(l) ==
  /\ lane[l].at = "checking"
  /\ Resume(l)
  /\ UNCHANGED <<OtherVars, submitting, txVars>>

\* Mutant: no look at the flag after the digest's await.
SubmitUnchecked(l) ==
  /\ lane[l].at = "checking"
  /\ submitting' = [submitting EXCEPT ![SessionOf(l)] = TRUE]
  /\ Goto(l, "preparing")
  /\ UNCHANGED <<OtherVars, busy, gpuQueue, txVars>>

\* Below target and nothing pending: this lane submits, stopped or not.
Submit(l) ==
  /\ lane[l].at = "checking"
  /\ ~submitting[SessionOf(l)]
  /\ submitting' = [submitting EXCEPT ![SessionOf(l)] = TRUE]
  /\ Goto(l, "preparing")
  /\ UNCHANGED <<OtherVars, busy, gpuQueue, txVars>>

\* Token program, transaction, blockhash, signature and sendRawTransaction: on
\* an error the transaction may have been sent all the same.
Send(l, sent) ==
  /\ lane[l].at = "preparing"
  /\ \/ /\ sent /\ Goto(l, "polling")
        /\ UNCHANGED adrift
     \/ /\ ~sent /\ Goto(l, "sorry")
        /\ adrift' \in {adrift, adrift \cup {lane[l].h}}
  /\ UNCHANGED <<OtherVars, busy, gpuQueue, submitting, fate, credits>>

\* The submission is over: the finally block lowers the flag and goes on.
Finish(l) ==
  /\ submitting' = [submitting EXCEPT ![SessionOf(l)] = FALSE]
  /\ Resume(l)

\* The poll is over: nobody will look at the transaction's status again.
PollOver(l) == fate' = [fate EXCEPT ![SessionOf(l)] = "unknown"]

\* Mutant: any status of the signature counts as confirmed.
ConfirmedWithAnyStatus(l) ==
  /\ lane[l].at = "polling"
  /\ fate[SessionOf(l)] # "unknown"
  /\ credits' = [credits EXCEPT ![lane[l].h] = @ + 1]
  /\ PollOver(l)
  /\ Finish(l)
  /\ UNCHANGED <<OtherVars, adrift>>

\* waitForSignature: confirmed, the block is credited.
Confirmed(l) ==
  /\ lane[l].at = "polling"
  /\ fate[SessionOf(l)] = "ok"
  /\ credits' = [credits EXCEPT ![lane[l].h] = @ + 1]
  /\ PollOver(l)
  /\ Finish(l)
  /\ UNCHANGED <<OtherVars, adrift>>

\* Mutant: any status of the signature counts as failed.
FailedWithAnyStatus(l) ==
  /\ lane[l].at = "polling"
  /\ fate[SessionOf(l)] # "unknown"
  /\ PollOver(l)
  /\ Goto(l, "sorry")
  /\ UNCHANGED <<OtherVars, busy, gpuQueue, submitting, adrift, credits>>

\* Failed on chain (classifyMineFailure names the reason): thrown and caught.
Failed(l) ==
  /\ lane[l].at = "polling"
  /\ fate[SessionOf(l)] = "err"
  /\ PollOver(l)
  /\ Goto(l, "sorry")
  /\ UNCHANGED <<OtherVars, busy, gpuQueue, submitting, adrift, credits>>

\* A transaction that did not fail may have won, or still win.
GiveUp(l) ==
  adrift' = IF fate[SessionOf(l)] = "err" THEN adrift ELSE adrift \cup {lane[l].h}

\* No status within 90 s, for it never landed, landed unseen, or lands later.
Lost(l) ==
  /\ lane[l].at = "polling"
  /\ GiveUp(l)
  /\ PollOver(l)
  /\ Finish(l)
  /\ UNCHANGED <<OtherVars, credits>>

\* The 600 ms after a failed submission are over.
SorryOver(l) ==
  /\ lane[l].at = "sorry"
  /\ Finish(l)
  /\ UNCHANGED <<OtherVars, txVars>>

\* The head of the full-GPU loop, with a config and nothing pending.
GpuTop(l) ==
  LET s == SessionOf(l) IN
  /\ lane[l].at = "top"
  /\ \/ Ends(l)
     \/ /\ ~stopped[s] /\ currentConfig[s] # NoConfig /\ ~submitting[s]
        /\ lane' = [lane EXCEPT ![l] = [at |-> "solving", h |-> currentConfig[s]]]
        /\ UNCHANGED <<busy, gpuQueue>>
  /\ UNCHANGED <<OtherVars, submitting, txVars>>

-----------------------------------------------------------------------------
(* The cluster: rounds close, and sent transactions execute or never do. *)

Polling(s) == {l \in Lanes : SessionOf(l) = s /\ lane[l].at = "polling"}

Execute(s, l) ==
  /\ l \in Polling(s) /\ fate[s] = "unknown"
  /\ \/ height < MAX_HEIGHT /\ Win(lane[l].h) /\ fate' = [fate EXCEPT ![s] = "ok"]
     \/ UNCHANGED chainVars /\ fate' = [fate EXCEPT ![s] = "err"]
  /\ UNCHANGED <<dashVars, supVars, submitting, laneVars, adrift, credits>>

ExecuteAdrift(h) ==
  /\ h \in adrift /\ height < MAX_HEIGHT
  /\ Win(h)
  /\ UNCHANGED <<dashVars, supVars, submitting, laneVars, txVars>>

RoundCloses ==
  /\ height < MAX_HEIGHT
  /\ OthersClose
  /\ UNCHANGED <<dashVars, supVars, submitting, laneVars, txVars>>

-----------------------------------------------------------------------------
LaneStep(l) ==
  \/ \E passed \in BOOLEAN : Leaves(l, passed)
  \/ PauseOver(l) \/ NoSolution(l) \/ Solved(l) \/ Drop(l) \/ Submit(l)
  \/ \E sent \in BOOLEAN : Send(l, sent)
  \/ Confirmed(l) \/ Failed(l) \/ Lost(l) \/ SorryOver(l) \/ GpuTop(l)

SupervisorStep(s) ==
  \/ \E t \in {"cpu", "hybrid", "fullgpu"} : Probe(s, t)
  \/ Fetch(s) \/ Advance(s) \/ SupervisorEnds(s)

Next ==
  \/ Start \/ Stop
  \/ \E s \in Sessions : SupervisorStep(s) \/ \E l \in Lanes : Execute(s, l)
  \/ \E l \in Lanes : LaneStep(l)
  \/ \E h \in adrift : ExecuteAdrift(h)
  \/ RoundCloses

Spec == Init /\ [][Next]_vars

-----------------------------------------------------------------------------
Submitters(s) == {l \in Lanes : SessionOf(l) = s /\ lane[l].at \in SubmitSteps}

\* Check-then-set: the flag is up exactly while one lane, and only one, is
\* between its target check and the end of its submission, whichever slots,
\* pauses and restarts led there; two submissions never overlap.
OneSubmission ==
  \A s \in Sessions :
    /\ submitting[s] <=> Submitters(s) # {}
    /\ \A k, l \in Submitters(s) : k = l

\* onBlockMined tells the truth: it is called at most once for a round, and
\* only for a round our miner won, though a stale, repeated or late
\* transaction of another lane or session may be about the same round.
CreditsAreReal ==
  \A h \in Heights : credits[h] <= 1 /\ (credits[h] = 1 => h \in ours)

\* A won round is not forgotten: it is credited, its transaction is being
\* polled, or that transaction had been given up (lost after 90 s, or its send
\* had failed), which is the one way a win goes uncredited.
NoWinForgotten ==
  \A h \in ours :
    \/ credits[h] = 1
    \/ h \in adrift
    \/ \E l \in Lanes : /\ lane[l] = [at |-> "polling", h |-> h]
                        /\ fate[SessionOf(l)] = "ok"

\* After stop() no solver is given work: a stopped session starts no job,
\* whatever answer, pause, pass or poll was under way.
QuietAfterStop ==
  [][\A l \in Lanes :
       stopped[SessionOf(l)] /\ lane[l].at # lane'[l].at
         => lane'[l].at \notin {"leaves", "solving", "top"}]_vars

\* The promise chain of GPU passes holds exactly the lanes that wait for a pass
\* or run one, each once: a pass that throws does not keep the GPU, so the
\* lanes behind it get their turn.
GpuTurns ==
  \A s \in Sessions :
    /\ Range(gpuQueue[s]) = {l \in Lanes : SessionOf(l) = s /\ lane[l].at = "leaves"}
    /\ IsInjective(gpuQueue[s])
=============================================================================
