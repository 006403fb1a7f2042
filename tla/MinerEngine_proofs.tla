------------------------- MODULE MinerEngine_proofs -------------------------
(***************************************************************************)
(* Proofs about the browser miner, for any slots, lanes and sessions.      *)
(*                                                                         *)
(* The argument.  Most steps of a lane only move it between the places     *)
(* outside a submission (PlainStep), and the supervisor only adds lanes    *)
(* there (KickedLanes, MovesOutside).  The submission's own steps are      *)
(* taken one by one.  That a credit is real needs to know that a status is *)
(* that of the one lane that polls (FateIsPolled), that an ok one is of a  *)
(* round won and not credited yet, and that two sessions' ok transactions  *)
(* are of different rounds (OkIsAWin): the second could not have executed, *)
(* for the first closed the round.                                         *)
(***************************************************************************)
EXTENDS MinerEngine, TLAPS, SequenceTheorems, FiniteSetTheorems

USE EngineAssumption

LaneState == [at : Steps, h : Heights \cup {NoConfig}]
HasConfig == {"leaves", "solving", "checking"} \cup SubmitSteps

\* A lane that will start a job finds a config.
ConfigKnown ==
  /\ \A s \in Sessions : supervisor[s] = "advance" => currentConfig[s] \in Heights
  /\ \A l \in Lanes : lane[l].at # "none" /\ SlotOf(l) # GPU /\ ~stopped[SessionOf(l)]
                        => currentConfig[SessionOf(l)] \in Heights

\* A session has lanes only after its probe.
LanesAfterProbe ==
  /\ \A s \in Sessions : supervisor[s] # "none" => s <= started
  /\ \A l \in Lanes : lane[l].at # "none" =>
       supervisor[SessionOf(l)] \in {"fetch", "advance", "done"}

\* A known status is the status of a transaction that is polled.
FateIsPolled ==
  \A s \in Sessions : fate[s] # "unknown" => \E l \in Lanes : l \in Polling(s)

\* Rounds are won before they close; a transaction that succeeded won its round,
\* is not credited yet, and is the only one polled that did.
OkIsAWin ==
  /\ \A h \in ours : h < height
  /\ \A l \in Lanes :
       lane[l].at = "polling" /\ fate[SessionOf(l)] = "ok" =>
         /\ lane[l].h \in ours /\ credits[lane[l].h] = 0
         /\ \A k \in Lanes \ {l} :
              lane[k].at = "polling" /\ fate[SessionOf(k)] = "ok" => lane[k].h # lane[l].h

\* The inductive invariants: of the types, and of the submissions.
TInv == TypeOK /\ ConfigKnown
SInv == OneSubmission /\ FateIsPolled /\ OkIsAWin /\ CreditsAreReal /\ NoWinForgotten

-----------------------------------------------------------------------------
(* Lanes *)

LEMMA LaneFacts ==
  /\ \A l \in Lanes : SessionOf(l) \in Sessions /\ SlotOf(l) \in Slots \cup {GPU}
  /\ \A s \in Sessions : <<s, GPU, 1>> \in Lanes /\ SessionOf(<<s, GPU, 1>>) = s
                         /\ SlotOf(<<s, GPU, 1>>) = GPU
  /\ \A s \in Sessions, k \in Slots, i \in {1, 2} :
       <<s, k, i>> \in Lanes /\ SessionOf(<<s, k, i>>) = s /\ SlotOf(<<s, k, i>>) = k
  /\ GPU \notin Slots
BY DEF Lanes, SessionOf, SlotOf

\* Bounds of the model are numbers, and a round or NoConfig is one.
LEMMA HeightFacts ==
  /\ MAX_HEIGHT \in Nat /\ Heights = 0 .. MAX_HEIGHT /\ NoConfig \notin Heights
  /\ Sessions = 1 .. MAX_SESSIONS /\ NoSession \notin Sessions
BY DEF Heights, NoConfig, Sessions, NoSession

\* What a resumed lane does next: it ends, starts a job with the session's config,
\* or goes to the head of the full-GPU loop; the last two not after stop().
LEMMA Resumed ==
  ASSUME TInv, NEW l \in Lanes, lane[l].at # "none", Resume(l)
  PROVE  /\ \E x \in LaneState :
              /\ lane' = [lane EXCEPT ![l] = x]
              /\ x.at \in {"none", "leaves", "solving", "top"}
              /\ x.at \in HasConfig => x.h \in Heights
              /\ stopped[SessionOf(l)] => x.at = "none"
         /\ busy' \in [Sessions -> [Slots -> BOOLEAN]]
         /\ gpuQueue' \in [Sessions -> Seq(Lanes)]
<1> USE LaneFacts, HeightFacts
<1>1. CASE Ends(l)
  <2>1. NoLane \in LaneState /\ NoLane.at = "none"
    BY DEF NoLane, LaneState, Steps
  <2> QED BY <1>1, <2>1 DEF Ends, TInv, TypeOK, HasConfig, SubmitSteps
<1>2. CASE Redispatch(l)
  <2> DEFINE x == Job(SessionOf(l), currentConfig[SessionOf(l)])
  <2>1. currentConfig[SessionOf(l)] \in Heights
    BY <1>2 DEF Redispatch, TInv, ConfigKnown
  <2>2. x \in LaneState /\ x.at \in {"leaves", "solving"} /\ x.h \in Heights
    BY <2>1 DEF Job, LaneState, Steps
  <2>3. busy' \in [Sessions -> [Slots -> BOOLEAN]]
    BY <1>2 DEF Redispatch, TInv, TypeOK
  <2>4. gpuQueue' \in [Sessions -> Seq(Lanes)]
    BY <1>2, AppendProperties DEF Redispatch, TInv, TypeOK
  <2> QED BY <1>2, <2>2, <2>3, <2>4 DEF Redispatch
<1>3. CASE LoopsOn(l)
  <2>1. Waits("top") \in LaneState /\ Waits("top").at = "top"
    BY DEF Waits, LaneState, Steps
  <2> QED BY <1>3, <2>1 DEF LoopsOn, TInv, TypeOK, HasConfig, SubmitSteps
<1> QED BY <1>1, <1>2, <1>3 DEF Resume

\* What the supervisor's kick does: it starts jobs, in lanes that were free, of a
\* session that is not stopped.
LEMMA KickedLanes ==
  ASSUME TypeOK, NEW s \in Sessions, NEW h \in Heights, Kick(s, h)
  PROVE  /\ \E new \in SUBSET Lanes :
              /\ \A l \in new : lane[l].at = "none" /\ SessionOf(l) = s /\ SlotOf(l) # GPU
              /\ new # {} => ~stopped[s]
              /\ lane' = [l \in Lanes |-> IF l \in new THEN Job(s, h) ELSE lane[l]]
         /\ busy' \in [Sessions -> [Slots -> BOOLEAN]]
         /\ gpuQueue' \in [Sessions -> Seq(Lanes)]
<1> USE LaneFacts, HeightFacts
<1> DEFINE FreeLane(k) == <<s, k, IF lane[<<s, k, 1>>].at = "none" THEN 1 ELSE 2>>
           newOf(D) == {FreeLane(k) : k \in D}
<1>1. PICK D \in SUBSET Idle(s) :
        /\ lane' = [l \in Lanes |-> IF l \in newOf(D) THEN Job(s, h) ELSE lane[l]]
        /\ busy' = [busy EXCEPT ![s] = [k \in Slots |-> busy[s][k] \/ k \in D]]
        /\ IF tier[s] = "hybrid"
           THEN \E q \in SetToSeqs(newOf(D)) : gpuQueue' = [gpuQueue EXCEPT ![s] = @ \o q]
           ELSE UNCHANGED gpuQueue
  BY DEF Kick
<1>2. /\ D \subseteq Slots
      /\ \A k \in D : /\ ~stopped[s]
                      /\ \E i \in 1 .. 2 : lane[<<s, k, i>>].at = "none"
  BY DEF Idle
<1>3. ASSUME NEW k \in D
      PROVE  /\ FreeLane(k) \in Lanes /\ lane[FreeLane(k)].at = "none"
             /\ SessionOf(FreeLane(k)) = s /\ SlotOf(FreeLane(k)) # GPU
  <2>1. PICK i \in 1 .. 2 : lane[<<s, k, i>>].at = "none"
    BY <1>2
  <2>2. i = 1 \/ i = 2
    BY <2>1
  <2>3. k \in Slots
    BY <1>2
  <2>4. CASE lane[<<s, k, 1>>].at = "none"
    BY <2>3, <2>4
  <2>5. CASE lane[<<s, k, 1>>].at # "none"
    BY <2>1, <2>2, <2>3, <2>5
  <2> QED BY <2>4, <2>5
<1> HIDE DEF FreeLane
<1>4. newOf(D) \subseteq Lanes
  BY <1>3
<1>5. busy' \in [Sessions -> [Slots -> BOOLEAN]]
  BY <1>1 DEF TypeOK
<1>6. gpuQueue' \in [Sessions -> Seq(Lanes)]
  <2>1. CASE tier[s] # "hybrid"
    BY <1>1, <2>1 DEF TypeOK
  <2>2. CASE tier[s] = "hybrid"
    <3>1. PICK q \in SetToSeqs(newOf(D)) : gpuQueue' = [gpuQueue EXCEPT ![s] = @ \o q]
      BY <1>1, <2>2
    <3>2. IsFiniteSet(newOf(D))
      <4>1. IsFiniteSet(D)
        BY <1>2, FS_Subset
      <4> DEFINE f == [k \in D |-> FreeLane(k)]
      <4>2. f \in Surjection(D, newOf(D))
        BY Zenon DEF Surjection
      <4> QED BY <4>1, <4>2, FS_Surjection, Zenon
    <3>3. Cardinality(newOf(D)) \in Nat
      BY <3>2, FS_CardinalityType
    <3>4. q \in Seq(Lanes)
      <4>1. q \in [1 .. Cardinality(newOf(D)) -> newOf(D)]
        BY <3>1 DEF SetToSeqs
      <4>2. q \in [1 .. Cardinality(newOf(D)) -> Lanes]
        BY <4>1, <1>4
      <4>3. Seq(Lanes) = UNION {[1 .. n -> Lanes] : n \in Nat}
        BY SeqDef, Zenon
      <4> QED BY ONLY <4>2, <4>3, <3>3, Zenon
    <3>5. gpuQueue[s] \o q \in Seq(Lanes)
      BY <3>4, ConcatProperties DEF TypeOK
    <3> QED BY <3>1, <3>5 DEF TypeOK
  <2> QED BY <2>1, <2>2
<1>7. \A l \in newOf(D) : lane[l].at = "none" /\ SessionOf(l) = s /\ SlotOf(l) # GPU
  BY <1>3
<1>8. newOf(D) # {} => ~stopped[s]
  BY <1>2
<1> HIDE DEF newOf
<1> QED BY <1>1, <1>4, <1>5, <1>6, <1>7, <1>8

-----------------------------------------------------------------------------
(* Types *)

LEMMA InitTInv == Init => TInv
<1> USE LaneFacts, HeightFacts
<1>1. NoLane \in LaneState /\ NoLane.at = "none"
  BY DEF NoLane, LaneState, Steps
<1>2. 0 \in Heights
  BY DEF Heights
<1>3. ASSUME Init PROVE TypeOK
  <2>1. gpuQueue \in [Sessions -> Seq(Lanes)]
    BY <1>3, EmptySeq DEF Init
  <2>2. height \in Heights /\ ours \subseteq Heights
    BY <1>2, <1>3 DEF Init, ChainInit
  <2>3. lane \in [Lanes -> LaneState] /\ \A l \in Lanes : lane[l].at = "none"
    BY <1>1, <1>3 DEF Init
  <2>5. started \in 0 .. MAX_SESSIONS
    BY <1>3 DEF Init
  <2>6. running \in BOOLEAN /\ handle = NoSession
    BY <1>3 DEF Init
  <2>4. /\ stopped \in [Sessions -> BOOLEAN]
        /\ tier \in [Sessions -> {"cpu", "hybrid", "fullgpu"}]
        /\ supervisor \in [Sessions -> {"none", "probe", "fetch", "advance", "done"}]
        /\ currentConfig \in [Sessions -> Heights \cup {NoConfig}]
        /\ submitting \in [Sessions -> BOOLEAN]
        /\ busy \in [Sessions -> [Slots -> BOOLEAN]]
        /\ fate \in [Sessions -> {"unknown", "ok", "err"}]
        /\ adrift = {} /\ credits \in [Heights -> Nat]
    BY <1>3 DEF Init
  <2> QED BY <2>1, <2>2, <2>3, <2>4, <2>5, <2>6 DEF TypeOK, LaneState, SubmitSteps
<1>4. ASSUME Init PROVE ConfigKnown
  BY <1>1, <1>4 DEF Init, ConfigKnown
<1> QED BY <1>3, <1>4 DEF TInv

\* A kick leaves the lanes well-typed, and those it starts have a config.
LEMMA KickTypes ==
  ASSUME TInv, NEW s \in Sessions, NEW h \in Heights, Kick(s, h),
         \/ currentConfig' = [currentConfig EXCEPT ![s] = h]
         \/ currentConfig' = currentConfig /\ currentConfig[s] = h,
         UNCHANGED stopped
  PROVE  /\ lane' \in [Lanes -> LaneState]
         /\ \A l \in Lanes : lane'[l].at \in HasConfig => lane'[l].h \in Heights
         /\ \A l \in Lanes : lane'[l].at # "none" /\ SlotOf(l) # GPU /\ ~stopped'[SessionOf(l)]
                               => currentConfig'[SessionOf(l)] \in Heights
<1>1. PICK new \in SUBSET Lanes :
        /\ \A l \in new : lane[l].at = "none" /\ SessionOf(l) = s /\ SlotOf(l) # GPU
        /\ new # {} => ~stopped[s]
        /\ lane' = [l \in Lanes |-> IF l \in new THEN Job(s, h) ELSE lane[l]]
  <2>1. TypeOK
    BY DEF TInv
  <2> QED BY <2>1, KickedLanes, Zenon
<1> USE LaneFacts, HeightFacts
<1>2. Job(s, h) \in LaneState /\ Job(s, h).h = h
  BY DEF Job, LaneState, Steps
<1>3. \A u \in Sessions : currentConfig'[u] = IF u = s THEN h ELSE currentConfig[u]
  BY DEF TInv, TypeOK
<1>4. lane \in [Lanes -> LaneState]
  BY DEF TInv, TypeOK, LaneState
<1>5. lane' \in [Lanes -> LaneState]
  BY <1>1, <1>2, <1>4
<1>6. \A l \in Lanes : lane'[l].at \in HasConfig => lane'[l].h \in Heights
  BY <1>1, <1>2, <1>4 DEF TInv, TypeOK, HasConfig
<1>7. \A l \in Lanes : lane'[l].at # "none" /\ SlotOf(l) # GPU /\ ~stopped'[SessionOf(l)]
                         => currentConfig'[SessionOf(l)] \in Heights
  BY <1>1, <1>3, <1>4 DEF TInv, ConfigKnown
<1> QED BY <1>5, <1>6, <1>7

\* A step that moves one lane to a well-typed place.
LEMMA MoveTypes ==
  ASSUME TInv, NEW l \in Lanes, lane[l].at # "none",
         NEW x \in LaneState, lane' = [lane EXCEPT ![l] = x],
         x.at \in HasConfig => x.h \in Heights,
         busy' \in [Sessions -> [Slots -> BOOLEAN]], gpuQueue' \in [Sessions -> Seq(Lanes)],
         submitting' \in [Sessions -> BOOLEAN], fate' \in [Sessions -> {"unknown", "ok", "err"}],
         adrift' \subseteq Heights, credits' \in [Heights -> Nat],
         UNCHANGED OtherVars
  PROVE  TInv'
<1> USE LaneFacts, HeightFacts DEF OtherVars, chainVars, dashVars, supVars
<1>1. lane' \in [Lanes -> LaneState]
      /\ \A k \in Lanes : lane'[k] = IF k = l THEN x ELSE lane[k]
  BY DEF TInv, TypeOK, LaneState
<1>2. \A k \in Lanes : lane'[k].at \in HasConfig => lane'[k].h \in Heights
  BY <1>1 DEF TInv, TypeOK, HasConfig
<1>3. TypeOK'
  BY <1>1, <1>2 DEF TInv, TypeOK, LaneState, HasConfig
<1>4. ConfigKnown'
  BY <1>1 DEF TInv, ConfigKnown
<1> QED BY <1>3, <1>4 DEF TInv

\* The same, for a lane that resumes.
LEMMA ResumeTypes ==
  ASSUME TInv, NEW l \in Lanes, lane[l].at # "none", Resume(l),
         submitting' \in [Sessions -> BOOLEAN], fate' \in [Sessions -> {"unknown", "ok", "err"}],
         adrift' \subseteq Heights, credits' \in [Heights -> Nat],
         UNCHANGED OtherVars
  PROVE  TInv'
BY Resumed, MoveTypes

\* Places of a lane with the round of its config.
LEMMA Places ==
  ASSUME TypeOK, NEW l \in Lanes, NEW place \in Steps
  PROVE  /\ [lane EXCEPT ![l].at = place] = [lane EXCEPT ![l] = [at |-> place, h |-> lane[l].h]]
         /\ [at |-> place, h |-> lane[l].h] \in LaneState
         /\ Waits(place) \in LaneState
         /\ lane[l].at \in HasConfig => lane[l].h \in Heights
<1>1. lane[l] \in LaneState
  BY DEF TypeOK, LaneState
<1>2. [lane[l] EXCEPT !.at = place] = [at |-> place, h |-> lane[l].h]
  BY <1>1 DEF LaneState
<1>3. [lane EXCEPT ![l].at = place] = [lane EXCEPT ![l] = [at |-> place, h |-> lane[l].h]]
  BY <1>2
<1>4. [at |-> place, h |-> lane[l].h] \in LaneState /\ Waits(place) \in LaneState
  BY <1>1 DEF LaneState, Waits
<1>5. lane[l].at \in HasConfig => lane[l].h \in Heights
  BY DEF TypeOK, HasConfig
<1> QED BY <1>3, <1>4, <1>5

LEMMA LaneTypes ==
  ASSUME TInv, NEW l \in Lanes, LaneStep(l)
  PROVE  TInv'
<1> USE LaneFacts, HeightFacts
<1>t. TypeOK
  BY DEF TInv
<1>s. {"none", "top", "leaves", "solving", "paused", "checking",
       "preparing", "polling", "sorry"} \subseteq Steps
  BY DEF Steps, SubmitSteps
<1>c. HasConfig = {"leaves", "solving", "checking", "preparing", "polling", "sorry"}
  BY DEF HasConfig, SubmitSteps
<1>n. NoLane \in LaneState /\ NoLane.at = "none"
  BY <1>s DEF NoLane, LaneState
<1>p. Waits("paused") \in LaneState /\ Waits("paused").at = "paused"
  BY <1>s DEF Waits, LaneState
<1>b. \A b \in BOOLEAN : SetBusy(l, b) => busy' \in [Sessions -> [Slots -> BOOLEAN]]
  BY <1>t DEF SetBusy, TypeOK
<1>u. UNCHANGED <<submitting, txVars>> =>
        /\ submitting' \in [Sessions -> BOOLEAN] /\ fate' \in [Sessions -> {"unknown", "ok", "err"}]
        /\ adrift' \subseteq Heights /\ credits' \in [Heights -> Nat]
  BY <1>t DEF TypeOK, txVars
<1>q. UNCHANGED gpuQueue => gpuQueue' \in [Sessions -> Seq(Lanes)]
  BY <1>t DEF TypeOK
<1>e. UNCHANGED busy => busy' \in [Sessions -> [Slots -> BOOLEAN]]
  BY <1>t DEF TypeOK
<1>1. ASSUME NEW passed \in BOOLEAN, Leaves(l, passed) PROVE TInv'
  <2>1. gpuQueue' \in [Sessions -> Seq(Lanes)]
    BY <1>t, <1>1, HeadTailProperties DEF Leaves, ReleaseGpu, TypeOK
  <2>2. PICK x \in LaneState : /\ lane' = [lane EXCEPT ![l] = x]
                               /\ x.at \in HasConfig => x.h \in Heights
    <3>1. CASE Goto(l, "solving")
      <4>1. lane' = [lane EXCEPT ![l] = [at |-> "solving", h |-> lane[l].h]]
        BY <1>s, <1>t, <3>1, Places DEF Goto
      <4>2. [at |-> "solving", h |-> lane[l].h] \in LaneState /\ lane[l].h \in Heights
        BY <1>1, <1>s, <1>c, <1>t, Places DEF Leaves
      <4> QED BY <4>1, <4>2
    <3>2. CASE Pause(l)
      BY <1>p, <1>c, <3>2 DEF Pause
    <3>3. CASE lane' = [lane EXCEPT ![l] = NoLane]
      BY <1>n, <1>c, <3>3
    <3> QED BY <1>1, <3>1, <3>2, <3>3 DEF Leaves
  <2>3. busy' \in [Sessions -> [Slots -> BOOLEAN]]
    BY <1>1, <1>b, <1>e DEF Leaves
  <2> QED BY <1>1, <1>u, <2>1, <2>2, <2>3, MoveTypes DEF Leaves
<1>2. CASE PauseOver(l)
  BY <1>2, <1>u, ResumeTypes DEF PauseOver
<1>3. CASE NoSolution(l)
  <2>1. CASE Resume(l)
    BY <1>3, <1>u, <2>1, ResumeTypes DEF NoSolution
  <2>2. CASE Pause(l) /\ SetBusy(l, FALSE) /\ UNCHANGED gpuQueue
    BY <1>3, <1>u, <1>p, <1>b, <1>q, <1>c, <2>2, MoveTypes DEF NoSolution, Pause
  <2> QED BY <1>3, <2>1, <2>2 DEF NoSolution
<1>4. CASE Solved(l)
  <2>1. lane' = [lane EXCEPT ![l] = [at |-> "checking", h |-> lane[l].h]]
    BY <1>4, <1>s, <1>t, Places DEF Solved, Goto
  <2>2. [at |-> "checking", h |-> lane[l].h] \in LaneState /\ lane[l].h \in Heights
    BY <1>4, <1>s, <1>c, <1>t, Places DEF Solved
  <2> QED BY <1>4, <1>u, <1>b, <1>q, <2>1, <2>2, MoveTypes DEF Solved
<1>5. CASE Drop(l)
  BY <1>5, <1>u, ResumeTypes DEF Drop
<1>6. CASE Submit(l)
  <2>1. lane' = [lane EXCEPT ![l] = [at |-> "preparing", h |-> lane[l].h]]
    BY <1>6, <1>s, <1>t, Places DEF Submit, Goto
  <2>2. [at |-> "preparing", h |-> lane[l].h] \in LaneState /\ lane[l].h \in Heights
    BY <1>6, <1>s, <1>c, <1>t, Places DEF Submit
  <2>3. submitting' \in [Sessions -> BOOLEAN] /\ fate' \in [Sessions -> {"unknown", "ok", "err"}]
        /\ adrift' \subseteq Heights /\ credits' \in [Heights -> Nat]
    BY <1>6, <1>t DEF Submit, TypeOK, txVars
  <2> QED BY <1>6, <1>e, <1>q, <2>1, <2>2, <2>3, MoveTypes DEF Submit
<1>7. ASSUME NEW sent \in BOOLEAN, Send(l, sent) PROVE TInv'
  <2>1. PICK place \in {"polling", "sorry"} : Goto(l, place)
    BY <1>7 DEF Send
  <2>2. lane' = [lane EXCEPT ![l] = [at |-> place, h |-> lane[l].h]]
    BY <2>1, <1>s, <1>t, Places DEF Goto
  <2>3. [at |-> place, h |-> lane[l].h] \in LaneState /\ lane[l].h \in Heights
    BY <1>7, <1>s, <1>c, <1>t, Places DEF Send
  <2>4. submitting' \in [Sessions -> BOOLEAN] /\ fate' \in [Sessions -> {"unknown", "ok", "err"}]
        /\ adrift' \subseteq Heights /\ credits' \in [Heights -> Nat]
    BY <1>7, <1>t, <2>3 DEF Send, TypeOK
  <2> QED BY <1>7, <1>e, <1>q, <2>2, <2>3, <2>4, MoveTypes DEF Send
<1>8. CASE Confirmed(l) \/ Lost(l) \/ SorryOver(l)
  <2>1. lane[l].h \in Heights /\ lane[l].at # "none" /\ Resume(l)
    <3>1. lane[l].at \in {"polling", "sorry"} /\ Resume(l)
      BY <1>8 DEF Confirmed, Lost, SorryOver, Finish
    <3> QED BY <1>s, <1>t, <1>c, <3>1, Places
  <2>2. submitting' \in [Sessions -> BOOLEAN] /\ fate' \in [Sessions -> {"unknown", "ok", "err"}]
    BY <1>8, <1>t DEF Confirmed, Lost, SorryOver, Finish, PollOver, TypeOK, txVars
  <2>3. adrift' \subseteq Heights /\ credits' \in [Heights -> Nat]
    <3> USE DEF TypeOK
    <3>1. CASE Confirmed(l)
      BY <1>t, <2>1, <3>1 DEF Confirmed
    <3>2. CASE Lost(l)
      BY <1>t, <2>1, <3>2 DEF Lost, GiveUp
    <3>3. CASE SorryOver(l)
      BY <1>t, <3>3 DEF SorryOver, txVars
    <3> QED BY <1>8, <3>1, <3>2, <3>3
  <2>4. UNCHANGED OtherVars
    BY <1>8 DEF Confirmed, Lost, SorryOver
  <2> QED BY <2>1, <2>2, <2>3, <2>4, ResumeTypes
<1>9. CASE Failed(l)
  <2>1. lane' = [lane EXCEPT ![l] = [at |-> "sorry", h |-> lane[l].h]]
    BY <1>9, <1>s, <1>t, Places DEF Failed, Goto
  <2>2. [at |-> "sorry", h |-> lane[l].h] \in LaneState /\ lane[l].h \in Heights
    BY <1>9, <1>s, <1>c, <1>t, Places DEF Failed
  <2>3. submitting' \in [Sessions -> BOOLEAN] /\ fate' \in [Sessions -> {"unknown", "ok", "err"}]
        /\ adrift' \subseteq Heights /\ credits' \in [Heights -> Nat]
    BY <1>9, <1>t DEF Failed, PollOver, TypeOK
  <2> QED BY <1>9, <1>e, <1>q, <2>1, <2>2, <2>3, MoveTypes DEF Failed
<1>10. CASE GpuTop(l)
  <2>1. CASE Ends(l)
    BY <1>10, <1>u, <2>1, ResumeTypes DEF GpuTop, Resume
  <2>2. CASE ~Ends(l)
    <3> DEFINE x == [at |-> "solving", h |-> currentConfig[SessionOf(l)]]
    <3>1. lane' = [lane EXCEPT ![l] = x] /\ UNCHANGED <<busy, gpuQueue>>
      BY <1>10, <2>2 DEF GpuTop
    <3>2. x \in LaneState /\ x.h \in Heights
      BY <1>10, <2>2, <1>s, <1>t DEF GpuTop, TypeOK, LaneState
    <3> QED BY <1>10, <1>u, <1>e, <1>q, <3>1, <3>2, MoveTypes DEF GpuTop
  <2> QED BY <2>1, <2>2
<1> QED BY <1>1, <1>2, <1>3, <1>4, <1>5, <1>6, <1>7, <1>8, <1>9, <1>10 DEF LaneStep

LEMMA SupervisorTypes ==
  ASSUME TInv, NEW s \in Sessions, SupervisorStep(s)
  PROVE  TInv'
<1> USE LaneFacts, HeightFacts
<1>1. ASSUME NEW t \in {"cpu", "hybrid", "fullgpu"}, Probe(s, t) PROVE TInv'
  <2>1. Waits("top") \in LaneState /\ Waits("top").at = "top"
    BY DEF Waits, LaneState, Steps
  <2>2. \/ UNCHANGED lane
        \/ lane' = [lane EXCEPT ![<<s, GPU, 1>>] = Waits("top")]
    BY <1>1 DEF Probe
  <2>3. lane' \in [Lanes -> LaneState]
        /\ \A k \in Lanes : lane'[k] = lane[k] \/ (SlotOf(k) = GPU /\ lane'[k] = Waits("top"))
    <3>1. lane \in [Lanes -> LaneState]
      BY DEF TInv, TypeOK, LaneState
    <3> DEFINE g == <<s, GPU, 1>>
    <3>2. g \in Lanes /\ SlotOf(g) = GPU
      OBVIOUS
    <3>3. UNCHANGED lane \/ lane' = [lane EXCEPT ![g] = Waits("top")]
      BY <2>2
    <3> HIDE DEF g
    <3> QED BY <2>1, <3>1, <3>2, <3>3
  <2>4. TypeOK'
    BY <1>1, <2>1, <2>3 DEF Probe, TInv, TypeOK, LaneState, SubmitSteps, chainVars, dashVars, txVars
  <2>5. ConfigKnown'
    BY <1>1, <2>3 DEF Probe, TInv, TypeOK, ConfigKnown
  <2> QED BY <2>4, <2>5 DEF TInv
<1>2. ASSUME NEW h \in Heights, Kick(s, h), TypeOK,
             UNCHANGED <<ours, dashVars, stopped, tier, submitting, txVars>>,
             height' \in Heights,
             supervisor' = supervisor \/ supervisor' = [supervisor EXCEPT ![s] = "fetch"],
             \/ currentConfig' = [currentConfig EXCEPT ![s] = h]
             \/ currentConfig' = currentConfig /\ currentConfig[s] = h
      PROVE  TInv'
  <2>1. /\ lane' \in [Lanes -> LaneState]
        /\ \A l \in Lanes : lane'[l].at \in HasConfig => lane'[l].h \in Heights
        /\ \A l \in Lanes : lane'[l].at # "none" /\ SlotOf(l) # GPU /\ ~stopped'[SessionOf(l)]
                              => currentConfig'[SessionOf(l)] \in Heights
    BY <1>2, KickTypes
  <2>2. busy' \in [Sessions -> [Slots -> BOOLEAN]] /\ gpuQueue' \in [Sessions -> Seq(Lanes)]
    BY <1>2, KickedLanes
  <2>3. \A u \in Sessions : currentConfig'[u] = IF u = s THEN h ELSE currentConfig[u]
    BY <1>2 DEF TypeOK
  <2>4. /\ currentConfig' \in [Sessions -> Heights \cup {NoConfig}]
        /\ supervisor' \in [Sessions -> {"none", "probe", "fetch", "advance", "done"}]
        /\ \A u \in Sessions : supervisor'[u] = "advance" => supervisor[u] = "advance"
    <3>1. currentConfig' \in [Sessions -> Heights \cup {NoConfig}]
      <4>1. CASE currentConfig' = currentConfig
        BY <1>2, <4>1 DEF TypeOK
      <4>2. CASE currentConfig' = [currentConfig EXCEPT ![s] = h]
        BY <1>2, <4>2 DEF TypeOK
      <4> QED BY <1>2, <4>1, <4>2
    <3>2. /\ supervisor' \in [Sessions -> {"none", "probe", "fetch", "advance", "done"}]
          /\ \A u \in Sessions : supervisor'[u] = "advance" => supervisor[u] = "advance"
      <4>1. CASE supervisor' = supervisor
        BY <1>2, <4>1 DEF TypeOK
      <4>2. CASE supervisor' = [supervisor EXCEPT ![s] = "fetch"]
        BY <1>2, <4>2 DEF TypeOK
      <4> QED BY <1>2, <4>1, <4>2
    <3> QED BY <3>1, <3>2
  <2>5. \A u \in Sessions : supervisor'[u] = "advance" => currentConfig'[u] \in Heights
    BY <2>3, <2>4 DEF TInv, ConfigKnown
  <2>6. TypeOK'
    BY <1>2, <2>1, <2>2, <2>4 DEF TypeOK, LaneState, HasConfig, dashVars, txVars
  <2> QED BY <2>1, <2>5, <2>6 DEF TInv, ConfigKnown
<1>3. CASE Fetch(s)
  <2>1. height \in Heights /\ TypeOK
    BY DEF TInv, TypeOK
  <2>2. CASE Kick(s, ConfigRead) /\ UNCHANGED supervisor
    BY <1>2, <1>3, <2>1, <2>2 DEF Fetch, ConfigRead, chainVars
  <2>3. CASE supervisor' = [supervisor EXCEPT ![s] = "advance"] /\ UNCHANGED <<lane, busy, gpuQueue>>
    <3>1. \A u \in Sessions : currentConfig'[u] = IF u = s THEN height ELSE currentConfig[u]
      BY <1>3, <2>1 DEF Fetch, ConfigRead, TypeOK
    <3>2. TypeOK'
      BY <1>3, <2>1, <2>3 DEF Fetch, ConfigRead, TypeOK, chainVars, dashVars, txVars
    <3>3. ConfigKnown'
      BY <1>3, <2>1, <2>3, <3>1 DEF Fetch, TypeOK, TInv, ConfigKnown
    <3> QED BY <3>2, <3>3 DEF TInv
  <2> QED BY <1>3, <2>2, <2>3 DEF Fetch
<1>4. CASE Advance(s)
  <2>1. currentConfig[s] \in Heights /\ TypeOK
    BY <1>4 DEF Advance, TInv, ConfigKnown
  <2>2. height' \in Heights /\ UNCHANGED ours
    BY <1>4, <2>1 DEF Advance, OthersClose, chainVars, TypeOK
  <2> QED BY <1>2, <1>4, <2>1, <2>2 DEF Advance
<1>5. CASE SupervisorEnds(s)
  <2>1. TypeOK
    BY DEF TInv
  <2>2. TypeOK'
    BY <1>5, <2>1 DEF SupervisorEnds, TypeOK, chainVars, dashVars, txVars
  <2>3. ConfigKnown'
    BY <1>5, <2>1 DEF SupervisorEnds, TInv, ConfigKnown, TypeOK
  <2> QED BY <2>2, <2>3 DEF TInv
<1> QED BY <1>1, <1>3, <1>4, <1>5 DEF SupervisorStep

\* A round that is won closes, and was open.
LEMMA WinTypes ==
  ASSUME TypeOK, height < MAX_HEIGHT, NEW h, Win(h)
  PROVE  h = height /\ h \in Heights /\ height' \in Heights /\ ours' \subseteq Heights
<1>1. h = height /\ height' = height + 1 /\ ours' = ours \cup {h}
  BY DEF Win
<1>2. height \in 0 .. MAX_HEIGHT /\ ours \subseteq Heights
  BY HeightFacts DEF TypeOK
<1>3. height + 1 \in 0 .. MAX_HEIGHT
  BY <1>2, HeightFacts
<1> QED BY <1>1, <1>2, <1>3, HeightFacts

\* The dashboard and the cluster.
LEMMA OtherTypes ==
  ASSUME TInv,
         \/ Start \/ Stop \/ RoundCloses
         \/ \E s \in Sessions, l \in Lanes : Execute(s, l)
         \/ \E h \in adrift : ExecuteAdrift(h)
  PROVE  TInv'
<1> USE LaneFacts, HeightFacts DEF chainVars, dashVars, supVars, laneVars, txVars
<1>t. TypeOK
  BY DEF TInv
<1>1. CASE Start
  <2>1. started' \in Sessions
    BY <1>t, <1>1 DEF Start, TypeOK
  <2>2. TypeOK'
    BY <1>t, <1>1, <2>1 DEF Start, TypeOK
  <2>3. ConfigKnown'
    BY <1>t, <1>1, <2>1 DEF Start, TypeOK, TInv, ConfigKnown
  <2> QED BY <2>2, <2>3 DEF TInv
<1>2. CASE Stop
  <2>1. NoLane \in LaneState /\ NoLane.at = "none"
    BY DEF NoLane, LaneState, Steps
  <2>2. lane' \in [Lanes -> LaneState] /\ \A l \in Lanes : lane'[l] \in {lane[l], NoLane}
    BY <1>t, <1>2, <2>1 DEF Stop, TypeOK, LaneState
  <2>3. stopped' \in [Sessions -> BOOLEAN] /\ \A s \in Sessions : ~stopped'[s] => ~stopped[s]
    BY <1>t, <1>2 DEF Stop, TypeOK
  <2>4. TypeOK'
    BY <1>t, <1>2, <2>1, <2>2, <2>3 DEF Stop, TypeOK, LaneState, SubmitSteps
  <2>5. ConfigKnown'
    BY <1>2, <2>1, <2>2, <2>3 DEF Stop, TInv, ConfigKnown
  <2> QED BY <2>4, <2>5 DEF TInv
<1>3. CASE RoundCloses
  BY <1>t, <1>3 DEF RoundCloses, OthersClose, TInv, TypeOK, ConfigKnown
<1>4. ASSUME NEW s \in Sessions, NEW l \in Lanes, Execute(s, l) PROVE TInv'
  <2>1. height' \in Heights /\ ours' \subseteq Heights /\ fate' \in [Sessions -> {"unknown", "ok", "err"}]
    <3>1. fate' \in [Sessions -> {"unknown", "ok", "err"}]
      BY <1>t, <1>4 DEF Execute, TypeOK
    <3>2. CASE height < MAX_HEIGHT /\ Win(lane[l].h)
      BY <1>t, <3>1, <3>2, WinTypes
    <3>3. CASE UNCHANGED chainVars
      BY <1>t, <3>1, <3>3 DEF TypeOK
    <3> QED BY <1>4, <3>2, <3>3 DEF Execute
  <2>2. TypeOK'
    BY <1>t, <1>4, <2>1 DEF Execute, TypeOK
  <2>3. ConfigKnown'
    BY <1>4 DEF Execute, TInv, ConfigKnown
  <2> QED BY <2>2, <2>3 DEF TInv
<1>5. ASSUME NEW h \in adrift, ExecuteAdrift(h) PROVE TInv'
  <2>1. height' \in Heights /\ ours' \subseteq Heights
    BY <1>t, <1>5, WinTypes DEF ExecuteAdrift
  <2>2. TypeOK'
    BY <1>t, <1>5, <2>1 DEF ExecuteAdrift, TypeOK
  <2>3. ConfigKnown'
    BY <1>5 DEF ExecuteAdrift, TInv, ConfigKnown
  <2> QED BY <2>2, <2>3 DEF TInv
<1> QED BY <1>1, <1>2, <1>3, <1>4, <1>5

LEMMA NextTInv == TInv /\ [Next]_vars => TInv'
<1> SUFFICES ASSUME TInv, [Next]_vars PROVE TInv'
  OBVIOUS
<1>1. CASE Next
  BY <1>1, LaneTypes, SupervisorTypes, OtherTypes DEF Next
<1>2. CASE UNCHANGED vars
  BY <1>2 DEF vars, chainVars, dashVars, supVars, txVars, TInv, TypeOK, ConfigKnown
<1> QED BY <1>1, <1>2

-----------------------------------------------------------------------------
(* Steps of a lane change no other lane. *)

LEMMA LaneAlone ==
  ASSUME TInv, NEW l \in Lanes, LaneStep(l)
  PROVE  /\ lane[l].at # "none" /\ UNCHANGED OtherVars
         /\ \A k \in Lanes : k # l => lane'[k] = lane[k]
         /\ stopped[SessionOf(l)] => lane'[l].at \notin {"leaves", "solving", "top"}
<1>t. TypeOK /\ lane \in [Lanes -> LaneState]
  BY DEF TInv, TypeOK, LaneState
<1>n. NoLane.at = "none" /\ Waits("paused").at = "paused"
  BY DEF NoLane, Waits
<1>m. ASSUME NEW x, lane' = [lane EXCEPT ![l] = x]
      PROVE  lane'[l] = x /\ \A k \in Lanes : k # l => lane'[k] = lane[k]
  BY <1>t, <1>m
<1>g. ASSUME NEW place \in {"checking", "preparing", "polling", "sorry"}, Goto(l, place)
      PROVE  /\ \A k \in Lanes : k # l => lane'[k] = lane[k]
             /\ lane'[l].at = place
  <2>1. place \in Steps
    BY DEF Steps, SubmitSteps
  <2> QED BY <1>g, <1>m, <1>t, <2>1, Places DEF Goto
<1>r. ASSUME lane[l].at # "none", Resume(l)
      PROVE  /\ \A k \in Lanes : k # l => lane'[k] = lane[k]
             /\ stopped[SessionOf(l)] => lane'[l].at = "none"
  <2>1. PICK x \in LaneState : /\ lane' = [lane EXCEPT ![l] = x]
                               /\ stopped[SessionOf(l)] => x.at = "none"
    BY <1>r, Resumed
  <2> QED BY <1>m, <2>1
<1>1. ASSUME NEW passed \in BOOLEAN, Leaves(l, passed)
      PROVE  /\ \A k \in Lanes : k # l => lane'[k] = lane[k]
             /\ stopped[SessionOf(l)] => lane'[l].at \notin {"leaves", "solving", "top"}
             /\ lane[l].at # "none" /\ UNCHANGED OtherVars
  <2>0. lane[l].at = "leaves" /\ UNCHANGED OtherVars
    BY <1>1 DEF Leaves
  <2>1. CASE ~stopped[SessionOf(l)] /\ Goto(l, "solving")
    BY <1>t, <2>0, <2>1 DEF Goto
  <2>2. CASE Pause(l)
    BY <1>m, <1>n, <2>0, <2>2 DEF Pause
  <2>3. CASE lane' = [lane EXCEPT ![l] = NoLane]
    BY <1>m, <1>n, <2>0, <2>3
  <2> QED BY <1>1, <2>1, <2>2, <2>3 DEF Leaves
<1>2. CASE PauseOver(l) \/ Drop(l) \/ Confirmed(l) \/ Lost(l) \/ SorryOver(l)
  <2>1. lane[l].at # "none" /\ Resume(l) /\ UNCHANGED OtherVars
    BY <1>2 DEF PauseOver, Drop, Confirmed, Lost, SorryOver, Finish
  <2> QED BY <1>r, <2>1
<1>3. CASE NoSolution(l)
  <2>1. lane[l].at # "none" /\ UNCHANGED OtherVars
    BY <1>3 DEF NoSolution
  <2>2. CASE Resume(l)
    BY <1>r, <2>1, <2>2
  <2>3. CASE Pause(l)
    BY <1>m, <1>n, <2>1, <2>3 DEF Pause
  <2> QED BY <1>3, <2>2, <2>3 DEF NoSolution
<1>4. CASE Solved(l)
  BY <1>4, <1>g DEF Solved
<1>5. CASE Submit(l)
  BY <1>5, <1>g DEF Submit
<1>6. ASSUME NEW sent \in BOOLEAN, Send(l, sent)
      PROVE  /\ \A k \in Lanes : k # l => lane'[k] = lane[k]
             /\ lane'[l].at \notin {"leaves", "solving", "top"}
             /\ lane[l].at # "none" /\ UNCHANGED OtherVars
  BY <1>6, <1>g DEF Send
<1>7. CASE Failed(l)
  BY <1>7, <1>g DEF Failed
<1>8. CASE GpuTop(l)
  <2>1. lane[l].at # "none" /\ UNCHANGED OtherVars
    BY <1>8 DEF GpuTop
  <2>2. CASE Ends(l)
    BY <1>r, <2>1, <2>2 DEF Resume
  <2>3. CASE ~Ends(l)
    BY <1>8, <1>m, <2>1, <2>3 DEF GpuTop
  <2> QED BY <2>2, <2>3
<1> QED BY <1>1, <1>2, <1>3, <1>4, <1>5, <1>6, <1>7, <1>8 DEF LaneStep

LEMMA InitAfterProbe == Init => LanesAfterProbe
BY DEF Init, NoLane, LanesAfterProbe

LEMMA NextAfterProbe == TInv /\ LanesAfterProbe /\ [Next]_vars => LanesAfterProbe'
<1> SUFFICES ASSUME TInv, LanesAfterProbe, [Next]_vars PROVE LanesAfterProbe'
  OBVIOUS
<1> USE LaneFacts, HeightFacts
<1>t. TypeOK /\ lane \in [Lanes -> LaneState]
  BY DEF TInv, TypeOK, LaneState
<1>1. ASSUME NEW l \in Lanes, LaneStep(l) PROVE LanesAfterProbe'
  <2>1. /\ lane[l].at # "none" /\ UNCHANGED <<started, supervisor>>
        /\ \A k \in Lanes : k # l => lane'[k] = lane[k]
    BY <1>1, LaneAlone DEF OtherVars, dashVars, supVars
  <2> QED BY <2>1 DEF LanesAfterProbe
<1>2. ASSUME NEW s \in Sessions, SupervisorStep(s) PROVE LanesAfterProbe'
  <2>0. UNCHANGED started
    BY <1>2 DEF SupervisorStep, Probe, Fetch, Advance, SupervisorEnds, dashVars
  <2>s. ASSUME NEW l \in Lanes, lane'[l].at # "none" PROVE SessionOf(l) = s \/ lane'[l] = lane[l]
    <3>1. ASSUME NEW h \in Heights, Kick(s, h) PROVE SessionOf(l) = s \/ lane'[l] = lane[l]
      BY <1>t, <3>1, KickedLanes
    <3>2. ASSUME NEW t \in {"cpu", "hybrid", "fullgpu"}, Probe(s, t)
          PROVE  SessionOf(l) = s \/ lane'[l] = lane[l]
      BY <1>t, <3>2 DEF Probe
    <3>3. CASE Fetch(s)
      BY <1>t, <3>1, <3>3 DEF Fetch, ConfigRead, TypeOK
    <3>4. CASE Advance(s)
      BY <3>1, <3>4 DEF Advance, TInv, ConfigKnown
    <3>5. CASE SupervisorEnds(s)
      BY <3>5 DEF SupervisorEnds
    <3> QED BY <1>2, <3>2, <3>3, <3>4, <3>5 DEF SupervisorStep
  <2>1. supervisor'[s] \in {"fetch", "advance", "done"}
        /\ \A u \in Sessions : u # s => supervisor'[u] = supervisor[u]
    BY <1>2, <1>t DEF SupervisorStep, Probe, Fetch, Advance, SupervisorEnds, TypeOK
  <2>2. s <= started
    BY <1>2 DEF SupervisorStep, Probe, Fetch, Advance, SupervisorEnds, LanesAfterProbe
  <2> QED BY <2>0, <2>s, <2>1, <2>2 DEF LanesAfterProbe
<1>3. CASE Start
  <2>1. /\ started' = started + 1 /\ started' \in Sessions /\ started \in Nat /\ UNCHANGED lane
        /\ supervisor' = [supervisor EXCEPT ![started'] = "probe"]
    BY <1>3, <1>t DEF Start, TypeOK
  <2>2. \A u \in Sessions : supervisor'[u] = IF u = started' THEN "probe" ELSE supervisor[u]
    BY <1>t, <2>1 DEF TypeOK
  <2>3. supervisor[started'] = "none"
    BY <2>1 DEF LanesAfterProbe
  <2> QED BY <2>1, <2>2, <2>3 DEF LanesAfterProbe
<1>4. CASE Stop
  <2>1. /\ UNCHANGED <<started, supervisor>>
        /\ \A l \in Lanes : lane'[l] \in {lane[l], NoLane}
    BY <1>4 DEF Stop
  <2> QED BY <2>1 DEF LanesAfterProbe, NoLane
<1>5. CASE \/ RoundCloses \/ UNCHANGED vars
           \/ \E s \in Sessions, l \in Lanes : Execute(s, l)
           \/ \E h \in adrift : ExecuteAdrift(h)
  <2>1. UNCHANGED <<started, supervisor, lane>>
    BY <1>5 DEF RoundCloses, Execute, ExecuteAdrift, vars, dashVars, supVars, laneVars
  <2> QED BY <2>1 DEF LanesAfterProbe
<1> QED BY <1>1, <1>2, <1>3, <1>4, <1>5 DEF Next

-----------------------------------------------------------------------------
(* Submissions *)

LEMMA InitSInv == Init => SInv
<1> SUFFICES ASSUME Init PROVE SInv
  OBVIOUS
<1> USE LaneFacts, HeightFacts
<1>1. \A l \in Lanes : lane[l].at = "none"
  BY DEF Init, NoLane
<1>2. OneSubmission
  BY <1>1 DEF Init, OneSubmission, Submitters, SubmitSteps
<1>3. FateIsPolled /\ OkIsAWin /\ CreditsAreReal /\ NoWinForgotten
  BY <1>1 DEF Init, ChainInit, FateIsPolled, OkIsAWin, CreditsAreReal, NoWinForgotten
<1> QED BY <1>2, <1>3 DEF SInv

\* Steps in which no lane enters, leaves or goes on with a submission.
LEMMA MovesOutside ==
  ASSUME TInv, SInv,
         \A l \in Lanes : \/ lane'[l] = lane[l]
                          \/ lane[l].at \notin SubmitSteps /\ lane'[l].at \notin SubmitSteps,
         UNCHANGED <<submitting, txVars, ours>>, height' \in Heights, height' >= height
  PROVE  SInv'
<1> USE LaneFacts, HeightFacts
<1>1. \A l \in Lanes : /\ (lane'[l].at \in SubmitSteps <=> lane[l].at \in SubmitSteps)
                       /\ lane[l].at \in SubmitSteps => lane'[l] = lane[l]
  OBVIOUS
<1>2. \A l \in Lanes : lane[l].at = "polling" \/ lane'[l].at = "polling"
                         => lane'[l] = lane[l]
  BY <1>1 DEF SubmitSteps
<1>3. \A s \in Sessions : Polling(s)' = Polling(s) /\ Submitters(s)' = Submitters(s)
  BY <1>1, <1>2 DEF Polling, Submitters
<1>4. OneSubmission'
  BY <1>3 DEF SInv, OneSubmission
<1>5. FateIsPolled'
  BY <1>3 DEF SInv, FateIsPolled, txVars
<1>6. OkIsAWin'
  <2>1. \A h \in ours' : h < height'
    BY DEF SInv, OkIsAWin, TInv, TypeOK
  <2> QED BY <1>2, <2>1 DEF SInv, OkIsAWin, txVars
<1>7. CreditsAreReal'
  BY DEF SInv, CreditsAreReal, txVars
<1>8. NoWinForgotten'
  <2> SUFFICES ASSUME NEW h \in ours, credits[h] # 1, h \notin adrift
               PROVE  \E l \in Lanes : /\ lane'[l] = [at |-> "polling", h |-> h]
                                       /\ fate[SessionOf(l)] = "ok"
    BY DEF NoWinForgotten, txVars
  <2>1. PICK l \in Lanes : lane[l] = [at |-> "polling", h |-> h] /\ fate[SessionOf(l)] = "ok"
    BY DEF SInv, NoWinForgotten
  <2>2. lane'[l] = lane[l]
    BY <1>2, <2>1
  <2> QED BY <2>1, <2>2
<1> QED BY <1>4, <1>5, <1>6, <1>7, <1>8 DEF SInv

\* Steps by which a lane begins, goes on with, or ends its submission.
LEMMA MovesInside ==
  ASSUME TInv, OneSubmission, NEW l \in Lanes, NEW x \in LaneState, lane' = [lane EXCEPT ![l] = x],
         \/ /\ lane[l].at \in SubmitSteps /\ x.at \in SubmitSteps /\ submitting' = submitting
         \/ /\ ~submitting[SessionOf(l)] /\ x.at \in SubmitSteps
            /\ submitting' = [submitting EXCEPT ![SessionOf(l)] = TRUE]
         \/ /\ lane[l].at \in SubmitSteps /\ x.at \notin SubmitSteps
            /\ submitting' = [submitting EXCEPT ![SessionOf(l)] = FALSE]
  PROVE  OneSubmission'
<1> USE LaneFacts
<1>1. \A k \in Lanes : lane'[k] = IF k = l THEN x ELSE lane[k]
  BY DEF TInv, TypeOK
<1>2. \A s \in Sessions : s # SessionOf(l) =>
        Submitters(s)' = Submitters(s) /\ submitting'[s] = submitting[s]
  BY <1>1 DEF Submitters, TInv, TypeOK
<1>3. \A k \in Submitters(SessionOf(l)) : lane[l].at \in SubmitSteps => k = l
  BY DEF OneSubmission, Submitters
<1>4. ~submitting[SessionOf(l)] => Submitters(SessionOf(l)) = {}
  BY DEF OneSubmission
<1>5. Submitters(SessionOf(l))' = IF x.at \in SubmitSteps THEN {l} ELSE {}
  BY <1>1, <1>3, <1>4 DEF Submitters
<1>6. submitting'[SessionOf(l)] <=> x.at \in SubmitSteps
  <2>1. lane[l].at \in SubmitSteps => submitting[SessionOf(l)]
    BY DEF OneSubmission, Submitters
  <2> QED BY <2>1 DEF TInv, TypeOK
<1> QED BY <1>2, <1>5, <1>6 DEF OneSubmission

\* One session, one submission: its other lanes do not poll.
LEMMA OnePolls ==
  ASSUME OneSubmission, NEW k \in Lanes, NEW l \in Lanes,
         lane[k].at \in SubmitSteps, lane[l].at \in SubmitSteps, SessionOf(k) = SessionOf(l)
  PROVE  k = l
BY LaneFacts DEF OneSubmission, Submitters

-----------------------------------------------------------------------------
(* The steps of a submission *)

LEMMA SubmitSafe == ASSUME TInv, SInv, NEW l \in Lanes, Submit(l) PROVE SInv'
<1> USE LaneFacts, HeightFacts
<1> DEFINE x == [at |-> "preparing", h |-> lane[l].h]
<1>1. lane' = [lane EXCEPT ![l] = x] /\ x \in LaneState
  BY Places DEF Submit, Goto, TInv, Steps, SubmitSteps
<1>2. x.at \in SubmitSteps
  BY DEF SubmitSteps
<1>3. OneSubmission'
  BY <1>1, <1>2, MovesInside DEF Submit, SInv
<1>4. \A k \in Lanes : /\ (lane'[k].at = "polling" <=> lane[k].at = "polling")
                       /\ lane[k].at = "polling" => lane'[k] = lane[k]
  BY <1>1 DEF Submit, TInv, TypeOK
<1>5. UNCHANGED <<chainVars, txVars>>
  BY DEF Submit, OtherVars
<1>6. FateIsPolled' /\ OkIsAWin' /\ CreditsAreReal'
  BY <1>4, <1>5 DEF SInv, FateIsPolled, Polling, OkIsAWin, CreditsAreReal, chainVars, txVars
<1>7. NoWinForgotten'
  <2> SUFFICES ASSUME NEW h \in ours, credits[h] # 1, h \notin adrift
               PROVE  \E k \in Lanes : /\ lane'[k] = [at |-> "polling", h |-> h]
                                       /\ fate[SessionOf(k)] = "ok"
    BY <1>5 DEF NoWinForgotten, txVars, chainVars
  <2>1. PICK k \in Lanes : lane[k] = [at |-> "polling", h |-> h] /\ fate[SessionOf(k)] = "ok"
    BY DEF SInv, NoWinForgotten
  <2> QED BY <1>4, <2>1
<1> QED BY <1>3, <1>6, <1>7 DEF SInv

LEMMA SendSafe ==
  ASSUME TInv, SInv, NEW l \in Lanes, NEW sent \in BOOLEAN, Send(l, sent)
  PROVE  SInv'
<1> USE LaneFacts, HeightFacts
<1>1. PICK place \in {"polling", "sorry"} : Goto(l, place)
  BY DEF Send
<1> DEFINE x == [at |-> place, h |-> lane[l].h]
<1>2. lane' = [lane EXCEPT ![l] = x] /\ x \in LaneState /\ x.at \in SubmitSteps
  BY <1>1, Places DEF Goto, TInv, Steps, SubmitSteps
<1>3. lane[l].at = "preparing" /\ lane[l].at \in SubmitSteps
  BY DEF Send, SubmitSteps
<1>4. OneSubmission'
  BY <1>2, <1>3, MovesInside DEF Send, SInv
<1>5. \A k \in Lanes : k # l => lane'[k] = lane[k]
  BY <1>2 DEF TInv, TypeOK
<1>6. UNCHANGED <<chainVars, fate, credits>> /\ adrift \subseteq adrift'
  BY DEF Send, OtherVars
\* the status is not known before the transaction is polled
<1>7. fate[SessionOf(l)] = "unknown"
  <2>1. \A k \in Lanes : lane[k].at = "polling" => SessionOf(k) # SessionOf(l)
    BY <1>3, OnePolls DEF SInv, SubmitSteps
  <2> QED BY <2>1 DEF SInv, FateIsPolled, Polling
<1>8. FateIsPolled' /\ OkIsAWin' /\ CreditsAreReal'
  <2>1. FateIsPolled'
    BY <1>3, <1>5, <1>6 DEF SInv, FateIsPolled, Polling
  <2>2. OkIsAWin'
    BY <1>5, <1>6, <1>7 DEF SInv, OkIsAWin, chainVars
  <2>3. CreditsAreReal'
    BY <1>6 DEF SInv, CreditsAreReal, chainVars
  <2> QED BY <2>1, <2>2, <2>3
<1>9. NoWinForgotten'
  <2> SUFFICES ASSUME NEW h \in ours, credits[h] # 1, h \notin adrift
               PROVE  \E k \in Lanes : /\ lane'[k] = [at |-> "polling", h |-> h]
                                       /\ fate[SessionOf(k)] = "ok"
    BY <1>6 DEF NoWinForgotten, chainVars
  <2>1. PICK k \in Lanes : lane[k] = [at |-> "polling", h |-> h] /\ fate[SessionOf(k)] = "ok"
    BY DEF SInv, NoWinForgotten
  <2> QED BY <1>5, <1>7, <2>1
<1> QED BY <1>4, <1>8, <1>9 DEF SInv

\* The end of a poll, whatever it found: the lane polls no more, and its session's
\* status is forgotten.
LEMMA PollEnds ==
  ASSUME TInv, SInv, NEW l \in Lanes, lane[l].at = "polling", PollOver(l),
         NEW x \in LaneState, lane' = [lane EXCEPT ![l] = x], x.at # "polling",
         UNCHANGED chainVars, adrift \subseteq adrift',
         credits' \in [Heights -> Nat],
         \A h \in Heights : credits'[h] = credits[h]
                              \/ (fate[SessionOf(l)] = "ok" /\ h = lane[l].h /\ credits'[h] = 1),
         fate[SessionOf(l)] = "ok" => lane[l].h \in adrift' \/ credits'[lane[l].h] = 1
  PROVE  FateIsPolled' /\ OkIsAWin' /\ CreditsAreReal' /\ NoWinForgotten'
<1> USE LaneFacts, HeightFacts
<1>1. \A k \in Lanes : k # l => lane'[k] = lane[k]
  BY DEF TInv, TypeOK
<1>2. \A k \in Lanes : lane'[k].at = "polling" => k # l /\ lane[k].at = "polling"
  BY <1>1 DEF TInv, TypeOK
<1>3. \A k \in Lanes : k # l /\ lane[k].at = "polling" => SessionOf(k) # SessionOf(l)
  BY OnePolls DEF SInv, SubmitSteps
<1>4. fate'[SessionOf(l)] = "unknown"
      /\ \A s \in Sessions : s # SessionOf(l) => fate'[s] = fate[s]
  BY DEF PollOver, TInv, TypeOK
<1>5. FateIsPolled'
  <2> SUFFICES ASSUME NEW s \in Sessions, fate'[s] # "unknown"
               PROVE  \E k \in Lanes : SessionOf(k) = s /\ lane'[k].at = "polling"
    BY DEF FateIsPolled, Polling
  <2>1. s # SessionOf(l) /\ fate[s] # "unknown"
    BY <1>4
  <2>2. PICK k \in Lanes : SessionOf(k) = s /\ lane[k].at = "polling"
    BY <2>1 DEF SInv, FateIsPolled, Polling
  <2> QED BY <1>1, <2>1, <2>2
<1>6. OkIsAWin'
  <2>1. \A h \in ours' : h < height'
    BY DEF SInv, OkIsAWin, chainVars
  <2> SUFFICES ASSUME NEW k \in Lanes, lane'[k].at = "polling", fate'[SessionOf(k)] = "ok"
               PROVE  /\ lane'[k].h \in ours' /\ credits'[lane'[k].h] = 0
                      /\ \A j \in Lanes \ {k} :
                           lane'[j].at = "polling" /\ fate'[SessionOf(j)] = "ok"
                             => lane'[j].h # lane'[k].h
    BY <2>1 DEF OkIsAWin
  <2>2. k # l /\ lane'[k] = lane[k] /\ lane[k].at = "polling" /\ fate[SessionOf(k)] = "ok"
    BY <1>1, <1>2, <1>3, <1>4
  <2>3. lane[k].h \in ours /\ credits[lane[k].h] = 0 /\ lane[k].h \in Heights
    BY <2>2 DEF SInv, OkIsAWin, TInv, TypeOK
  <2>4. fate[SessionOf(l)] = "ok" => lane[k].h # lane[l].h
    BY <2>2 DEF SInv, OkIsAWin
  <2>5. credits'[lane[k].h] = 0
    BY <2>3, <2>4
  <2>6. ASSUME NEW j \in Lanes \ {k}, lane'[j].at = "polling", fate'[SessionOf(j)] = "ok"
        PROVE  lane'[j].h # lane'[k].h
    <3>1. j # l /\ lane'[j] = lane[j] /\ lane[j].at = "polling" /\ fate[SessionOf(j)] = "ok"
      BY <1>1, <1>2, <1>3, <1>4, <2>6
    <3> QED BY <2>2, <3>1 DEF SInv, OkIsAWin
  <2> QED BY <2>2, <2>3, <2>5, <2>6 DEF chainVars
<1>7. CreditsAreReal'
  <2> SUFFICES ASSUME NEW h \in Heights
               PROVE  credits'[h] <= 1 /\ (credits'[h] = 1 => h \in ours)
    BY DEF CreditsAreReal, chainVars
  <2>1. CASE credits'[h] = credits[h]
    BY <2>1 DEF SInv, CreditsAreReal
  <2>2. CASE fate[SessionOf(l)] = "ok" /\ h = lane[l].h /\ credits'[h] = 1
    BY <2>2 DEF SInv, OkIsAWin
  <2> QED BY <2>1, <2>2
<1>8. NoWinForgotten'
  <2> SUFFICES ASSUME NEW h \in ours, credits'[h] # 1, h \notin adrift'
               PROVE  \E k \in Lanes : /\ lane'[k] = [at |-> "polling", h |-> h]
                                       /\ fate'[SessionOf(k)] = "ok"
    BY DEF NoWinForgotten, chainVars
  <2>1. h \in Heights
    BY DEF TInv, TypeOK
  <2>2. credits[h] # 1 /\ h \notin adrift
    BY <2>1
  <2>3. PICK k \in Lanes : lane[k] = [at |-> "polling", h |-> h] /\ fate[SessionOf(k)] = "ok"
    BY <2>2 DEF SInv, NoWinForgotten
  <2>4. k # l
    BY <2>3
  <2>5. SessionOf(k) # SessionOf(l)
    BY <1>3, <2>3, <2>4
  <2>6. lane'[k] = [at |-> "polling", h |-> h] /\ fate'[SessionOf(k)] = "ok"
    BY <1>1, <1>4, <2>3, <2>4, <2>5
  <2> QED BY <2>6
<1> QED BY <1>5, <1>6, <1>7, <1>8

LEMMA ConfirmedSafe == ASSUME TInv, SInv, NEW l \in Lanes, Confirmed(l) PROVE SInv'
<1> USE LaneFacts, HeightFacts
<1>1. lane[l].at = "polling" /\ fate[SessionOf(l)] = "ok" /\ PollOver(l) /\ UNCHANGED <<chainVars, adrift>>
  BY DEF Confirmed, OtherVars
<1>2. lane[l].h \in Heights /\ credits[lane[l].h] = 0
  BY <1>1 DEF TInv, TypeOK, SubmitSteps, SInv, OkIsAWin
<1>3. credits' = [credits EXCEPT ![lane[l].h] = 1]
  BY <1>2 DEF Confirmed
<1>4. PICK x \in LaneState : /\ lane' = [lane EXCEPT ![l] = x]
                             /\ x.at \in {"none", "leaves", "solving", "top"}
  BY <1>1, Resumed DEF Confirmed, Finish
<1>5. x.at \notin SubmitSteps /\ lane[l].at \in SubmitSteps
  BY <1>1, <1>4 DEF SubmitSteps
<1>6. OneSubmission'
  BY <1>4, <1>5, MovesInside DEF Confirmed, Finish, SInv
<1>7. /\ credits' \in [Heights -> Nat] /\ credits'[lane[l].h] = 1
      /\ \A h \in Heights : credits'[h] = credits[h] \/ (h = lane[l].h /\ credits'[h] = 1)
  BY <1>2, <1>3 DEF TInv, TypeOK
<1>8. FateIsPolled' /\ OkIsAWin' /\ CreditsAreReal' /\ NoWinForgotten'
  BY <1>1, <1>4, <1>7, PollEnds
<1> QED BY <1>6, <1>8 DEF SInv

LEMMA LostSafe == ASSUME TInv, SInv, NEW l \in Lanes, Lost(l) PROVE SInv'
<1> USE LaneFacts, HeightFacts
<1>1. /\ lane[l].at = "polling" /\ PollOver(l) /\ UNCHANGED <<chainVars, credits>>
      /\ adrift \subseteq adrift' /\ (fate[SessionOf(l)] = "ok" => lane[l].h \in adrift')
  BY DEF Lost, GiveUp, OtherVars
<1>2. PICK x \in LaneState : /\ lane' = [lane EXCEPT ![l] = x]
                             /\ x.at \in {"none", "leaves", "solving", "top"}
  BY <1>1, Resumed DEF Lost, Finish
<1>3. x.at \notin SubmitSteps /\ lane[l].at \in SubmitSteps
  BY <1>1, <1>2 DEF SubmitSteps
<1>4. OneSubmission'
  BY <1>2, <1>3, MovesInside DEF Lost, Finish, SInv
<1>5. credits' \in [Heights -> Nat] /\ \A h \in Heights : credits'[h] = credits[h]
  BY <1>1 DEF TInv, TypeOK
<1>6. FateIsPolled' /\ OkIsAWin' /\ CreditsAreReal' /\ NoWinForgotten'
  BY <1>1, <1>2, <1>5, PollEnds
<1> QED BY <1>4, <1>6 DEF SInv

LEMMA FailedSafe == ASSUME TInv, SInv, NEW l \in Lanes, Failed(l) PROVE SInv'
<1> USE LaneFacts, HeightFacts
<1> DEFINE x == [at |-> "sorry", h |-> lane[l].h]
<1>1. /\ lane[l].at = "polling" /\ fate[SessionOf(l)] = "err" /\ PollOver(l)
      /\ UNCHANGED <<chainVars, adrift, credits, submitting>>
  BY DEF Failed, OtherVars
<1>2. lane' = [lane EXCEPT ![l] = x] /\ x \in LaneState /\ x.at = "sorry"
  BY Places DEF Failed, Goto, TInv, Steps, SubmitSteps
<1>3. x.at \in SubmitSteps /\ lane[l].at \in SubmitSteps
  BY <1>1, <1>2 DEF SubmitSteps
<1>4. OneSubmission'
  BY <1>1, <1>2, <1>3, MovesInside DEF SInv
<1>5. credits' \in [Heights -> Nat] /\ \A h \in Heights : credits'[h] = credits[h]
  BY <1>1 DEF TInv, TypeOK
<1>6. FateIsPolled' /\ OkIsAWin' /\ CreditsAreReal' /\ NoWinForgotten'
  BY <1>1, <1>2, <1>5, PollEnds
<1> QED BY <1>4, <1>6 DEF SInv

LEMMA SorryOverSafe == ASSUME TInv, SInv, NEW l \in Lanes, SorryOver(l) PROVE SInv'
<1> USE LaneFacts, HeightFacts
<1>1. lane[l].at = "sorry" /\ UNCHANGED <<chainVars, txVars>>
  BY DEF SorryOver, OtherVars
<1>2. PICK x \in LaneState : /\ lane' = [lane EXCEPT ![l] = x]
                             /\ x.at \in {"none", "leaves", "solving", "top"}
  BY <1>1, Resumed DEF SorryOver, Finish
<1>3. x.at \notin SubmitSteps /\ lane[l].at \in SubmitSteps
  BY <1>1, <1>2 DEF SubmitSteps
<1>4. OneSubmission'
  BY <1>2, <1>3, MovesInside DEF SorryOver, Finish, SInv
<1>5. \A k \in Lanes : /\ (lane'[k].at = "polling" <=> lane[k].at = "polling")
                       /\ lane[k].at = "polling" => lane'[k] = lane[k]
  BY <1>1, <1>2 DEF TInv, TypeOK
<1>6. FateIsPolled' /\ OkIsAWin' /\ CreditsAreReal'
  BY <1>1, <1>5 DEF SInv, FateIsPolled, Polling, OkIsAWin, CreditsAreReal, chainVars, txVars
<1>7. NoWinForgotten'
  <2> SUFFICES ASSUME NEW h \in ours, credits[h] # 1, h \notin adrift
               PROVE  \E k \in Lanes : /\ lane'[k] = [at |-> "polling", h |-> h]
                                       /\ fate[SessionOf(k)] = "ok"
    BY <1>1 DEF NoWinForgotten, txVars, chainVars
  <2>1. PICK k \in Lanes : lane[k] = [at |-> "polling", h |-> h] /\ fate[SessionOf(k)] = "ok"
    BY DEF SInv, NoWinForgotten
  <2> QED BY <1>5, <2>1
<1> QED BY <1>4, <1>6, <1>7 DEF SInv

-----------------------------------------------------------------------------
(* The cluster *)

\* A polled transaction executes: it wins the open round, which nobody can have
\* won before, or it fails.
LEMMA ExecuteSafe ==
  ASSUME TInv, SInv, NEW s \in Sessions, NEW l \in Lanes, Execute(s, l)
  PROVE  SInv'
<1> USE LaneFacts, HeightFacts
<1>1. /\ SessionOf(l) = s /\ lane[l].at = "polling" /\ fate[s] = "unknown"
      /\ UNCHANGED <<submitting, lane, adrift, credits>>
  BY DEF Execute, Polling, laneVars
<1>2. \A k \in Lanes : k # l /\ lane[k].at = "polling" => SessionOf(k) # s
  BY <1>1, OnePolls DEF SInv, SubmitSteps
<1>3. OneSubmission'
  BY <1>1 DEF SInv, OneSubmission, Submitters
<1>4. \A u \in Sessions : u # s => fate'[u] = fate[u]
  BY DEF Execute, TInv, TypeOK
<1>5. FateIsPolled'
  BY <1>1, <1>4 DEF SInv, FateIsPolled, Polling
<1>6. CASE UNCHANGED chainVars /\ fate' = [fate EXCEPT ![s] = "err"]
  <2>1. fate'[s] = "err"
    BY <1>6 DEF TInv, TypeOK
  <2>2. OkIsAWin'
    <3>1. \A k \in Lanes : fate'[SessionOf(k)] = "ok" => fate[SessionOf(k)] = "ok"
      BY <1>4, <2>1
    <3> QED BY <1>1, <1>6, <3>1 DEF SInv, OkIsAWin, chainVars
  <2>3. CreditsAreReal'
    BY <1>1, <1>6 DEF SInv, CreditsAreReal, chainVars
  <2>4. NoWinForgotten'
    BY <1>1, <1>4, <1>6 DEF SInv, NoWinForgotten, chainVars
  <2> QED BY <1>3, <1>5, <2>2, <2>3, <2>4 DEF SInv
<1>7. CASE height < MAX_HEIGHT /\ Win(lane[l].h) /\ fate' = [fate EXCEPT ![s] = "ok"]
  <2>1. lane[l].h = height /\ ours' = ours \cup {height} /\ height' = height + 1 /\ height \in Heights
    BY <1>7 DEF Win, TInv, TypeOK
  <2>2. height \notin ours /\ \A h \in ours : h < height
    BY <2>1 DEF SInv, OkIsAWin
  <2>3. credits[height] = 0
    BY <2>1, <2>2 DEF SInv, CreditsAreReal, TInv, TypeOK
  <2>4. fate'[s] = "ok"
    BY <1>7 DEF TInv, TypeOK
  <2>5. \A k \in Lanes : k # l /\ lane[k].at = "polling" /\ fate'[SessionOf(k)] = "ok" =>
          fate[SessionOf(k)] = "ok" /\ lane[k].h \in ours /\ lane[k].h # height
    BY <1>2, <1>4, <2>2 DEF SInv, OkIsAWin
  <2>6. OkIsAWin'
    <3>1. \A h \in ours' : h < height'
      BY <2>1, <2>2 DEF TInv, TypeOK
    <3>2. ASSUME NEW k \in Lanes, lane[k].at = "polling", fate'[SessionOf(k)] = "ok"
          PROVE  /\ lane[k].h \in ours' /\ credits[lane[k].h] = 0
                 /\ \A j \in Lanes \ {k} :
                      lane[j].at = "polling" /\ fate'[SessionOf(j)] = "ok" => lane[j].h # lane[k].h
      <4>1. CASE k = l
        BY <2>1, <2>3, <2>5, <4>1
      <4>2. CASE k # l
        <5>1. fate[SessionOf(k)] = "ok" /\ lane[k].h \in ours /\ lane[k].h # height
          BY <2>5, <3>2, <4>2
        <5>2. credits[lane[k].h] = 0
          BY <3>2, <5>1 DEF SInv, OkIsAWin
        <5>3. ASSUME NEW j \in Lanes \ {k}, lane[j].at = "polling", fate'[SessionOf(j)] = "ok"
              PROVE  lane[j].h # lane[k].h
          <6>1. CASE j = l
            BY <2>1, <5>1, <6>1
          <6>2. CASE j # l
            <7>1. fate[SessionOf(j)] = "ok"
              BY <2>5, <5>3, <6>2
            <7> QED BY <3>2, <5>1, <5>3, <7>1 DEF SInv, OkIsAWin
          <6> QED BY <6>1, <6>2
        <5> QED BY <2>1, <5>1, <5>2, <5>3
      <4> QED BY <4>1, <4>2
    <3> QED BY <1>1, <3>1, <3>2 DEF OkIsAWin
  <2>7. CreditsAreReal'
    BY <1>1, <2>1 DEF SInv, CreditsAreReal
  <2>8. NoWinForgotten'
    <3> SUFFICES ASSUME NEW h \in ours', credits[h] # 1, h \notin adrift
                 PROVE  \E k \in Lanes : /\ lane[k] = [at |-> "polling", h |-> h]
                                         /\ fate'[SessionOf(k)] = "ok"
      BY <1>1 DEF NoWinForgotten
    <3>1. CASE h = height
      <4>1. lane[l] = [at |-> "polling", h |-> h]
        BY <1>1, <2>1, <3>1 DEF TInv, TypeOK
      <4> QED BY <1>1, <2>4, <4>1
    <3>2. CASE h # height
      <4>1. PICK k \in Lanes : lane[k] = [at |-> "polling", h |-> h] /\ fate[SessionOf(k)] = "ok"
        BY <2>1, <3>2 DEF SInv, NoWinForgotten
      <4>2. SessionOf(k) # s
        BY <1>1, <4>1
      <4> QED BY <1>4, <4>1, <4>2
    <3> QED BY <3>1, <3>2
  <2> QED BY <1>3, <1>5, <2>6, <2>7, <2>8 DEF SInv
<1> QED BY <1>6, <1>7 DEF Execute

\* One that was given up executes after all.
LEMMA AdriftSafe ==
  ASSUME TInv, SInv, NEW h \in adrift, ExecuteAdrift(h)
  PROVE  SInv'
<1> USE LaneFacts, HeightFacts
<1>1. /\ h = height /\ ours' = ours \cup {h} /\ height' = height + 1 /\ height \in Heights
      /\ UNCHANGED <<submitting, lane, fate, adrift, credits>>
  BY DEF ExecuteAdrift, Win, laneVars, txVars, TInv, TypeOK
<1>2. OneSubmission' /\ FateIsPolled'
  BY <1>1 DEF SInv, OneSubmission, Submitters, FateIsPolled, Polling
<1>3. OkIsAWin'
  <2>1. \A r \in ours' : r < height'
    BY <1>1 DEF SInv, OkIsAWin, TInv, TypeOK
  <2> QED BY <1>1, <2>1 DEF SInv, OkIsAWin
<1>4. CreditsAreReal'
  BY <1>1 DEF SInv, CreditsAreReal
<1>5. NoWinForgotten'
  BY <1>1 DEF SInv, NoWinForgotten
<1> QED BY <1>2, <1>3, <1>4, <1>5 DEF SInv

-----------------------------------------------------------------------------
(* All the other steps happen outside of submissions. *)

\* A lane that moves from one place outside a submission to another.
LEMMA LaneOutside ==
  ASSUME TInv, SInv, NEW l \in Lanes, NEW x, lane' = [lane EXCEPT ![l] = x],
         lane[l].at \notin SubmitSteps, x.at \notin SubmitSteps,
         UNCHANGED <<OtherVars, submitting, txVars>>
  PROVE  SInv'
<1>1. \A k \in Lanes : \/ lane'[k] = lane[k]
                       \/ lane[k].at \notin SubmitSteps /\ lane'[k].at \notin SubmitSteps
  BY DEF TInv, TypeOK
<1>2. UNCHANGED ours /\ height' \in Heights /\ height' >= height
  BY HeightFacts DEF OtherVars, chainVars, TInv, TypeOK
<1> QED BY <1>1, <1>2, MovesOutside

LEMMA LaneSafe == ASSUME TInv, SInv, NEW l \in Lanes, LaneStep(l) PROVE SInv'
<1>s. /\ SubmitSteps = {"preparing", "polling", "sorry"}
      /\ {"none", "top", "leaves", "solving", "paused", "checking",
          "preparing", "polling", "sorry"} \subseteq Steps
  BY DEF Steps, SubmitSteps
<1>t. TypeOK
  BY DEF TInv
<1>n. NoLane.at = "none" /\ Waits("paused").at = "paused"
  BY DEF NoLane, Waits
<1>r. ASSUME lane[l].at \notin SubmitSteps, lane[l].at # "none", Resume(l),
             UNCHANGED <<OtherVars, submitting, txVars>>
      PROVE  SInv'
  <2>1. PICK x \in LaneState : /\ lane' = [lane EXCEPT ![l] = x]
                               /\ x.at \in {"none", "leaves", "solving", "top"}
    BY <1>r, Resumed
  <2>2. x.at \notin SubmitSteps
    BY <1>s, <2>1
  <2> QED BY <1>r, <2>1, <2>2, LaneOutside
<1>1. ASSUME NEW passed \in BOOLEAN, Leaves(l, passed) PROVE SInv'
  <2>1. lane[l].at \notin SubmitSteps /\ UNCHANGED <<OtherVars, submitting, txVars>>
    BY <1>1, <1>s DEF Leaves
  <2>2. CASE Goto(l, "solving")
    <3> DEFINE x == [at |-> "solving", h |-> lane[l].h]
    <3>1. lane' = [lane EXCEPT ![l] = x] /\ x.at \notin SubmitSteps
      BY <1>s, <1>t, <2>2, Places DEF Goto
    <3> QED BY <2>1, <3>1, LaneOutside
  <2>3. CASE Pause(l)
    BY <1>s, <1>n, <2>1, <2>3, LaneOutside DEF Pause
  <2>4. CASE lane' = [lane EXCEPT ![l] = NoLane]
    BY <1>s, <1>n, <2>1, <2>4, LaneOutside
  <2> QED BY <1>1, <2>2, <2>3, <2>4 DEF Leaves
<1>2. CASE PauseOver(l)
  BY <1>2, <1>r, <1>s DEF PauseOver
<1>3. CASE NoSolution(l)
  <2>1. lane[l].at = "solving" /\ UNCHANGED <<OtherVars, submitting, txVars>>
    BY <1>3 DEF NoSolution
  <2>2. CASE Resume(l)
    BY <1>r, <1>s, <2>1, <2>2
  <2>3. CASE Pause(l)
    BY <1>s, <1>n, <2>1, <2>3, LaneOutside DEF Pause
  <2> QED BY <1>3, <2>2, <2>3 DEF NoSolution
<1>4. CASE Solved(l)
  <2>1. /\ lane[l].at = "solving" /\ UNCHANGED <<OtherVars, submitting, txVars>>
        /\ lane' = [lane EXCEPT ![l] = [at |-> "checking", h |-> lane[l].h]]
    BY <1>4, <1>s, <1>t, Places DEF Solved, Goto
  <2>2. [at |-> "checking", h |-> lane[l].h].at \notin SubmitSteps /\ lane[l].at \notin SubmitSteps
    BY <1>s, <2>1
  <2> QED BY <2>1, <2>2, LaneOutside
<1>5. CASE Drop(l)
  BY <1>5, <1>r, <1>s DEF Drop
<1>6. CASE GpuTop(l)
  <2>1. lane[l].at = "top" /\ UNCHANGED <<OtherVars, submitting, txVars>>
    BY <1>6 DEF GpuTop
  <2>2. CASE Ends(l)
    BY <1>r, <1>s, <2>1, <2>2 DEF Resume
  <2>3. CASE ~Ends(l)
    <3> DEFINE x == [at |-> "solving", h |-> currentConfig[SessionOf(l)]]
    <3>1. lane' = [lane EXCEPT ![l] = x]
      BY <1>6, <2>3 DEF GpuTop
    <3>2. x.at \notin SubmitSteps /\ lane[l].at \notin SubmitSteps
      BY <1>s, <2>1
    <3> QED BY <2>1, <3>1, <3>2, LaneOutside
  <2> QED BY <2>2, <2>3
<1> QED BY <1>1, <1>2, <1>3, <1>4, <1>5, <1>6, SubmitSafe, SendSafe, ConfirmedSafe,
           FailedSafe, LostSafe, SorryOverSafe DEF LaneStep

LEMMA SupervisorSafe == ASSUME TInv, SInv, LanesAfterProbe, NEW s \in Sessions, SupervisorStep(s) PROVE SInv'
<1>s. SubmitSteps = {"preparing", "polling", "sorry"}
  BY DEF SubmitSteps
<1>t. TypeOK
  BY DEF TInv
<1>h. UNCHANGED height => height' \in Heights /\ height' >= height
  BY <1>t, HeightFacts DEF TypeOK
<1>k. ASSUME NEW h \in Heights, Kick(s, h), UNCHANGED <<submitting, txVars, ours>>,
             height' \in Heights, height' >= height
      PROVE  SInv'
  <2>1. PICK new \in SUBSET Lanes :
          /\ \A l \in new : lane[l].at = "none"
          /\ lane' = [l \in Lanes |-> IF l \in new THEN Job(s, h) ELSE lane[l]]
    <3>1. \E new \in SUBSET Lanes :
            /\ \A l \in new : lane[l].at = "none" /\ SessionOf(l) = s /\ SlotOf(l) # GPU
            /\ new # {} => ~stopped[s]
            /\ lane' = [l \in Lanes |-> IF l \in new THEN Job(s, h) ELSE lane[l]]
      BY <1>k, <1>t, KickedLanes
    <3> QED BY <3>1
  <2>2. Job(s, h).at \notin SubmitSteps
    BY <1>s DEF Job
  <2>3. \A l \in Lanes : \/ lane'[l] = lane[l]
                         \/ lane[l].at \notin SubmitSteps /\ lane'[l].at \notin SubmitSteps
    BY <1>s, <2>1, <2>2
  <2> QED BY <1>k, <2>3, MovesOutside
<1>1. ASSUME NEW t \in {"cpu", "hybrid", "fullgpu"}, Probe(s, t) PROVE SInv'
  <2>1. UNCHANGED <<chainVars, submitting, txVars>>
    BY <1>1 DEF Probe
  <2>2. \A l \in Lanes : lane'[l] = lane[l] \/ (lane[l].at = "none" /\ lane'[l].at = "top")
    <3>1. ASSUME NEW l \in Lanes, l = <<s, GPU, 1>> PROVE lane[l].at = "none"
      BY <1>1, <3>1, LaneFacts DEF Probe, LanesAfterProbe
    <3>2. CASE UNCHANGED lane
      BY <3>2
    <3>3. CASE lane' = [lane EXCEPT ![<<s, GPU, 1>>] = Waits("top")]
      <4>1. \A l \in Lanes : lane'[l] = IF l = <<s, GPU, 1>> THEN Waits("top") ELSE lane[l]
        BY <1>t, <3>3 DEF TypeOK
      <4>2. Waits("top").at = "top"
        BY DEF Waits
      <4> QED BY <3>1, <4>1, <4>2
    <3> QED BY <1>1, <3>2, <3>3 DEF Probe
  <2>3. UNCHANGED <<ours, height, submitting, txVars>>
    BY <2>1 DEF chainVars
  <2>4. \A l \in Lanes : \/ lane'[l] = lane[l]
                         \/ lane[l].at \notin SubmitSteps /\ lane'[l].at \notin SubmitSteps
    BY <1>s, <2>2
  <2> QED BY <1>h, <2>3, <2>4, MovesOutside
<1>2. CASE Fetch(s)
  <2>1. height \in Heights /\ UNCHANGED <<ours, height, submitting, txVars>>
    BY <1>2, <1>t DEF Fetch, chainVars, TypeOK
  <2>2. CASE Kick(s, ConfigRead)
    BY <1>h, <1>k, <2>1, <2>2 DEF ConfigRead
  <2>3. CASE UNCHANGED lane
    BY <1>h, <2>1, <2>3, MovesOutside
  <2> QED BY <1>2, <2>2, <2>3 DEF Fetch
<1>3. CASE Advance(s)
  <2>1. currentConfig[s] \in Heights
    BY <1>3 DEF Advance, TInv, ConfigKnown
  <2>2. UNCHANGED ours /\ height' \in Heights /\ height' >= height
    BY <1>3, <1>t, HeightFacts DEF Advance, OthersClose, chainVars, TypeOK
  <2> QED BY <1>3, <1>k, <2>1, <2>2 DEF Advance
<1>4. CASE SupervisorEnds(s)
  <2>1. UNCHANGED <<ours, height, submitting, txVars, lane>>
    BY <1>4 DEF SupervisorEnds, chainVars
  <2> QED BY <1>h, <2>1, MovesOutside
<1> QED BY <1>1, <1>2, <1>3, <1>4 DEF SupervisorStep

\* The dashboard and the cluster.
LEMMA OtherSafe ==
  ASSUME TInv, SInv,
         \/ Start \/ Stop \/ RoundCloses
         \/ \E s \in Sessions, l \in Lanes : Execute(s, l)
         \/ \E h \in adrift : ExecuteAdrift(h)
  PROVE  SInv'
<1>t. TypeOK
  BY DEF TInv
<1>1. CASE Start
  <2>1. UNCHANGED <<ours, height, submitting, txVars, lane>>
    BY <1>1 DEF Start, chainVars
  <2> QED BY <1>t, <2>1, HeightFacts, MovesOutside DEF TypeOK
<1>2. CASE Stop
  <2>1. UNCHANGED <<ours, height, submitting, txVars>>
    BY <1>2 DEF Stop, chainVars
  <2>2. \A l \in Lanes : lane'[l] = lane[l] \/ (lane[l].at = "solving" /\ lane'[l].at = "none")
    BY <1>2 DEF Stop, NoLane
  <2>3. \A l \in Lanes : \/ lane'[l] = lane[l]
                         \/ lane[l].at \notin SubmitSteps /\ lane'[l].at \notin SubmitSteps
    BY <2>2 DEF SubmitSteps
  <2>4. height' \in Heights /\ height' >= height
    BY <1>t, <2>1, HeightFacts DEF TypeOK
  <2> QED BY <2>1, <2>3, <2>4, MovesOutside
<1>3. CASE RoundCloses
  <2>1. UNCHANGED <<ours, submitting, txVars, lane>>
    BY <1>3 DEF RoundCloses, OthersClose, laneVars
  <2>2. height' \in Heights /\ height' >= height
    BY <1>3, <1>t, HeightFacts DEF RoundCloses, OthersClose, TypeOK
  <2> QED BY <2>1, <2>2, MovesOutside
<1> QED BY <1>1, <1>2, <1>3, ExecuteSafe, AdriftSafe

-----------------------------------------------------------------------------
(* The chain of GPU passes: lanes join it at its end and leave it at its head. *)

LEMMA AppendTurn ==
  ASSUME NEW S, NEW q \in Seq(S), NEW x \in S, IsInjective(q), x \notin Range(q)
  PROVE  IsInjective(Append(q, x)) /\ Range(Append(q, x)) = Range(q) \cup {x}
<1> DEFINE r == Append(q, x)
<1>1. /\ r \in Seq(S) /\ Len(r) = Len(q) + 1 /\ Len(q) \in Nat
      /\ \A i \in 1 .. Len(q) : r[i] = q[i]
      /\ r[Len(q) + 1] = x
  BY AppendProperties, LenProperties
<1>2. DOMAIN r = 1 .. Len(q) + 1 /\ DOMAIN q = 1 .. Len(q)
  BY <1>1, LenProperties
<1>3. \A i \in DOMAIN q : q[i] # x
  BY DEF Range
<1> HIDE DEF r
<1>4. IsInjective(r)
  BY <1>1, <1>2, <1>3 DEF IsInjective
<1>5. Range(r) = Range(q) \cup {x}
  <2>1. Range(r) = {r[i] : i \in 1 .. Len(q) + 1} /\ Range(q) = {q[i] : i \in 1 .. Len(q)}
    BY <1>2 DEF Range
  <2>2. 1 .. Len(q) + 1 = (1 .. Len(q)) \cup {Len(q) + 1}
    BY <1>1
  <2> QED BY <1>1, <2>1, <2>2
<1> QED BY <1>4, <1>5 DEF r

LEMMA TailTurn ==
  ASSUME NEW S, NEW q \in Seq(S), q # <<>>, IsInjective(q)
  PROVE  IsInjective(Tail(q)) /\ Range(Tail(q)) = Range(q) \ {Head(q)}
<1> DEFINE r == Tail(q)
<1>1. /\ r \in Seq(S) /\ Len(r) = Len(q) - 1 /\ Len(q) \in Nat \ {0}
      /\ \A i \in 1 .. Len(r) : r[i] = q[i + 1]
  BY HeadTailProperties, EmptySeq, LenProperties
<1>2. DOMAIN r = 1 .. Len(q) - 1 /\ DOMAIN q = 1 .. Len(q) /\ Head(q) = q[1]
  BY <1>1, LenProperties
<1> HIDE DEF r
<1>3. \A i, j \in 1 .. Len(q) : q[i] = q[j] => i = j
  BY <1>2 DEF IsInjective
<1>4. IsInjective(r)
  BY <1>1, <1>2, <1>3 DEF IsInjective
<1>5. Range(r) = Range(q) \ {q[1]}
  <2>1. Range(r) = {r[i] : i \in 1 .. Len(q) - 1} /\ Range(q) = {q[i] : i \in 1 .. Len(q)}
    BY <1>2 DEF Range
  <2>2. ASSUME NEW v \in Range(r) PROVE v \in Range(q) \ {q[1]}
    <3>1. PICK i \in 1 .. Len(q) - 1 : v = r[i]
      BY <2>1
    <3>2. v = q[i + 1] /\ i + 1 \in 1 .. Len(q) /\ i + 1 # 1 /\ 1 \in 1 .. Len(q)
      BY <1>1, <3>1
    <3> QED BY <1>3, <2>1, <3>2
  <2>3. ASSUME NEW v \in Range(q) \ {q[1]} PROVE v \in Range(r)
    <3>1. PICK i \in 1 .. Len(q) : v = q[i] /\ i # 1
      BY <2>1
    <3>2. i - 1 \in 1 .. Len(q) - 1 /\ (i - 1) + 1 = i
      BY <1>1, <3>1
    <3>3. r[i - 1] = v
      BY <1>1, <3>1, <3>2
    <3> QED BY <2>1, <3>2, <3>3
  <2> QED BY <2>2, <2>3
<1> QED BY <1>2, <1>4, <1>5 DEF r

LEMMA ConcatTurns ==
  ASSUME NEW S, NEW p \in Seq(S), NEW q \in Seq(S), IsInjective(p), IsInjective(q),
         Range(p) \cap Range(q) = {}
  PROVE  IsInjective(p \o q) /\ Range(p \o q) = Range(p) \cup Range(q)
<1> DEFINE r == p \o q
<1>1. /\ r \in Seq(S) /\ Len(r) = Len(p) + Len(q) /\ Len(p) \in Nat /\ Len(q) \in Nat
      /\ \A i \in 1 .. Len(p) + Len(q) : r[i] = IF i <= Len(p) THEN p[i] ELSE q[i - Len(p)]
  BY ConcatProperties, LenProperties
<1>2. DOMAIN r = 1 .. Len(p) + Len(q) /\ DOMAIN p = 1 .. Len(p) /\ DOMAIN q = 1 .. Len(q)
  BY <1>1, LenProperties
<1> HIDE DEF r
<1>3. /\ \A i \in 1 .. Len(p) : i \in DOMAIN r /\ r[i] = p[i]
      /\ \A j \in 1 .. Len(q) : Len(p) + j \in DOMAIN r /\ r[Len(p) + j] = q[j]
      /\ \A k \in DOMAIN r : k \in 1 .. Len(p) \/ \E j \in 1 .. Len(q) : k = Len(p) + j
  <2>1. ASSUME NEW k \in DOMAIN r, k \notin 1 .. Len(p)
        PROVE  k - Len(p) \in 1 .. Len(q) /\ k = Len(p) + (k - Len(p))
    BY <1>1, <1>2, <2>1
  <2>2. ASSUME NEW j \in 1 .. Len(q)
        PROVE  Len(p) + j \in DOMAIN r /\ r[Len(p) + j] = q[j]
    <3>1. Len(p) + j \in 1 .. Len(p) + Len(q) /\ ~(Len(p) + j <= Len(p)) /\ (Len(p) + j) - Len(p) = j
      BY <1>1
    <3> QED BY <1>1, <1>2, <3>1
  <2>3. \A i \in 1 .. Len(p) : i \in DOMAIN r /\ r[i] = p[i]
    BY <1>1, <1>2
  <2> QED BY <2>1, <2>2, <2>3
<1>4. IsInjective(r)
  <2> SUFFICES ASSUME NEW a \in DOMAIN r, NEW b \in DOMAIN r, r[a] = r[b] PROVE a = b
    BY DEF IsInjective
  <2>1. \A i \in 1 .. Len(p), j \in 1 .. Len(q) : p[i] # q[j]
    BY <1>2 DEF Range
  <2>2. CASE a \in 1 .. Len(p)
    <3>1. CASE b \in 1 .. Len(p)
      BY <1>2, <1>3, <2>2, <3>1 DEF IsInjective
    <3>2. CASE b \notin 1 .. Len(p)
      BY <1>3, <2>1, <2>2, <3>2
    <3> QED BY <3>1, <3>2
  <2>3. CASE a \notin 1 .. Len(p)
    <3>1. PICK i \in 1 .. Len(q) : a = Len(p) + i
      BY <1>3, <2>3
    <3>2. CASE b \in 1 .. Len(p)
      BY <1>3, <2>1, <3>1, <3>2
    <3>3. CASE b \notin 1 .. Len(p)
      <4>1. PICK j \in 1 .. Len(q) : b = Len(p) + j
        BY <1>3, <3>3
      <4>2. i = j
        BY <1>2, <1>3, <3>1, <4>1 DEF IsInjective
      <4> QED BY <3>1, <4>1, <4>2
    <3> QED BY <3>2, <3>3
  <2> QED BY <2>2, <2>3
<1>5. Range(r) = Range(p) \cup Range(q)
  <2>1. ASSUME NEW v \in Range(r) PROVE v \in Range(p) \cup Range(q)
    <3>1. PICK k \in DOMAIN r : v = r[k]
      BY DEF Range
    <3> QED BY <1>2, <1>3, <3>1 DEF Range
  <2>2. ASSUME NEW v \in Range(p) PROVE v \in Range(r)
    BY <1>2, <1>3 DEF Range
  <2>3. ASSUME NEW v \in Range(q) PROVE v \in Range(r)
    <3>1. PICK j \in 1 .. Len(q) : v = q[j]
      BY <1>2 DEF Range
    <3> QED BY <1>3, <3>1 DEF Range
  <2> QED BY <2>1, <2>2, <2>3
<1> QED BY <1>4, <1>5 DEF r

\* Any order of a finite set has each of its elements once.
LEMMA OrdersOfASet ==
  ASSUME NEW S, NEW new \in SUBSET S, IsFiniteSet(new), NEW q \in SetToSeqs(new)
  PROVE  q \in Seq(S) /\ IsInjective(q) /\ Range(q) = new
<1> DEFINE n == Cardinality(new)
<1>1. n \in Nat
  BY FS_CardinalityType
<1>2. q \in [1 .. n -> new] /\ \A i, j \in 1 .. n : i # j => q[i] # q[j]
  BY DEF SetToSeqs
<1>3. IsFiniteSet(1 .. n) /\ Cardinality(1 .. n) = n
  BY <1>1, FS_Interval
<1> HIDE DEF n
<1>4. q \in Seq(S)
  <2>1. q \in [1 .. n -> S]
    BY <1>2
  <2>2. Seq(S) = UNION {[1 .. k -> S] : k \in Nat}
    BY SeqDef, Zenon
  <2> QED BY ONLY <1>1, <2>1, <2>2, Zenon
<1>5. IsInjective(q)
  BY <1>2 DEF IsInjective
<1>6. q \in Injection(1 .. n, new)
  BY <1>2, <1>5 DEF Injection
<1>7. q \in Surjection(1 .. n, new)
  BY <1>3, <1>6, FS_Injection DEF n
<1>8. Range(q) = new
  BY <1>2, <1>7 DEF Surjection, Range
<1> QED BY <1>4, <1>5, <1>8

Waiting(s) == {l \in Lanes : SessionOf(l) = s /\ lane[l].at = "leaves"}

\* Nobody joins and nobody leaves.
LEMMA SameTurns ==
  ASSUME GpuTurns, UNCHANGED gpuQueue,
         \A l \in Lanes : lane'[l].at = "leaves" <=> lane[l].at = "leaves"
  PROVE  GpuTurns'
BY DEF GpuTurns

LEMMA ResumeTurns ==
  ASSUME TInv, GpuTurns, NEW l \in Lanes, lane[l].at \notin {"none", "leaves"}, Resume(l)
  PROVE  GpuTurns'
<1>t. TypeOK /\ lane \in [Lanes -> LaneState]
  BY DEF TInv, TypeOK, LaneState
<1>m. ASSUME NEW x, lane' = [lane EXCEPT ![l] = x]
      PROVE  lane'[l] = x /\ \A k \in Lanes : k # l => lane'[k] = lane[k]
  BY <1>t, <1>m
<1>1. CASE Ends(l) \/ LoopsOn(l)
  <2>1. lane' \in {[lane EXCEPT ![l] = NoLane], [lane EXCEPT ![l] = Waits("top")]} /\ UNCHANGED gpuQueue
    BY <1>1 DEF Ends, LoopsOn
  <2>2. NoLane.at = "none" /\ Waits("top").at = "top"
    BY DEF NoLane, Waits
  <2>3. lane'[l].at # "leaves" /\ \A k \in Lanes : k # l => lane'[k] = lane[k]
    BY <1>m, <2>1, <2>2
  <2> QED BY <2>1, <2>3, SameTurns
<1>2. CASE Redispatch(l)
  <2> DEFINE s == SessionOf(l)
             x == Job(s, currentConfig[s])
  <2>1. lane' = [lane EXCEPT ![l] = x] /\ s \in Sessions
    BY <1>2, LaneFacts DEF Redispatch
  <2>2. lane'[l] = x /\ \A k \in Lanes : k # l => lane'[k] = lane[k]
    BY <1>m, <2>1
  <2>3. CASE tier[s] # "hybrid"
    <3>1. x.at = "solving" /\ UNCHANGED gpuQueue
      BY <1>2, <2>3 DEF Job, Redispatch
    <3> QED BY <2>2, <3>1, SameTurns
  <2>4. CASE tier[s] = "hybrid"
    <3>1. x.at = "leaves" /\ gpuQueue' = [gpuQueue EXCEPT ![s] = Append(@, l)]
      BY <1>2, <2>4 DEF Job, Redispatch
    <3>2. gpuQueue[s] \in Seq(Lanes) /\ IsInjective(gpuQueue[s]) /\ Range(gpuQueue[s]) = Waiting(s)
      BY <1>t, <2>1 DEF TypeOK, GpuTurns, Waiting
    <3>3. l \notin Range(gpuQueue[s])
      BY <3>2 DEF Waiting
    <3>4. /\ IsInjective(Append(gpuQueue[s], l))
          /\ Range(Append(gpuQueue[s], l)) = Waiting(s) \cup {l}
      BY <3>2, <3>3, AppendTurn
    <3>5. \A u \in Sessions : gpuQueue'[u] = IF u = s THEN Append(gpuQueue[s], l) ELSE gpuQueue[u]
      BY <1>t, <2>1, <3>1 DEF TypeOK
    <3> HIDE DEF x
    <3>6. ASSUME NEW u \in Sessions
          PROVE  /\ Range(gpuQueue'[u]) = {k \in Lanes : SessionOf(k) = u /\ lane'[k].at = "leaves"}
                 /\ IsInjective(gpuQueue'[u])
      <4>1. CASE u = s
        BY <2>2, <3>1, <3>4, <3>5, <4>1 DEF Waiting
      <4>2. CASE u # s
        <5>1. \A k \in Lanes : SessionOf(k) = u => lane'[k] = lane[k]
          BY <2>2, <4>2
        <5> QED BY <3>5, <4>2, <5>1 DEF GpuTurns
      <4> QED BY <4>1, <4>2
    <3> QED BY <3>6 DEF GpuTurns
  <2> QED BY <2>3, <2>4
<1> QED BY <1>1, <1>2 DEF Resume

\* The kicked lanes join in some order.
LEMMA KickTurns ==
  ASSUME TypeOK, GpuTurns, NEW s \in Sessions, NEW h \in Heights, Kick(s, h)
  PROVE  GpuTurns'
<1> USE LaneFacts
<1> DEFINE FreeLane(k) == <<s, k, IF lane[<<s, k, 1>>].at = "none" THEN 1 ELSE 2>>
           newOf(D) == {FreeLane(k) : k \in D}
<1>1. PICK D \in SUBSET Idle(s) :
        /\ lane' = [l \in Lanes |-> IF l \in newOf(D) THEN Job(s, h) ELSE lane[l]]
        /\ IF tier[s] = "hybrid"
           THEN \E q \in SetToSeqs(newOf(D)) : gpuQueue' = [gpuQueue EXCEPT ![s] = @ \o q]
           ELSE UNCHANGED gpuQueue
  BY DEF Kick
<1>2. /\ D \subseteq Slots
      /\ \A k \in D : \E i \in 1 .. 2 : lane[<<s, k, i>>].at = "none"
  BY DEF Idle
<1>3. ASSUME NEW k \in D
      PROVE  /\ FreeLane(k) \in Lanes /\ lane[FreeLane(k)].at = "none"
             /\ SessionOf(FreeLane(k)) = s
  <2>1. PICK i \in 1 .. 2 : lane[<<s, k, i>>].at = "none"
    BY <1>2
  <2>2. i = 1 \/ i = 2
    BY <2>1
  <2>3. k \in Slots
    BY <1>2
  <2>4. CASE lane[<<s, k, 1>>].at = "none"
    BY <2>3, <2>4
  <2>5. CASE lane[<<s, k, 1>>].at # "none"
    BY <2>1, <2>2, <2>3, <2>5
  <2> QED BY <2>4, <2>5
<1> HIDE DEF FreeLane
<1>4. newOf(D) \in SUBSET Lanes /\ \A l \in newOf(D) : lane[l].at = "none" /\ SessionOf(l) = s
  BY <1>3
<1>5. IsFiniteSet(newOf(D))
  <2>1. IsFiniteSet(D)
    BY <1>2, FS_Subset
  <2> DEFINE f == [k \in D |-> FreeLane(k)]
  <2>2. f \in Surjection(D, newOf(D))
    BY Zenon DEF Surjection
  <2> QED BY <2>1, <2>2, FS_Surjection, Zenon
<1> DEFINE new == newOf(D)
<1>6. lane' = [l \in Lanes |-> IF l \in new THEN Job(s, h) ELSE lane[l]]
  BY <1>1
<1> HIDE DEF newOf
<1>7. CASE tier[s] # "hybrid"
  <2>1. Job(s, h).at = "solving" /\ UNCHANGED gpuQueue
    BY <1>1, <1>7 DEF Job
  <2> QED BY <1>4, <1>6, <2>1, SameTurns
<1>8. CASE tier[s] = "hybrid"
  <2>1. Job(s, h).at = "leaves"
    BY <1>8 DEF Job
  <2>2. PICK q \in SetToSeqs(new) : gpuQueue' = [gpuQueue EXCEPT ![s] = @ \o q]
    BY <1>1, <1>8
  <2>3. q \in Seq(Lanes) /\ IsInjective(q) /\ Range(q) = new
    BY <1>4, <1>5, OrdersOfASet
  <2>4. gpuQueue[s] \in Seq(Lanes) /\ IsInjective(gpuQueue[s]) /\ Range(gpuQueue[s]) = Waiting(s)
    BY DEF TypeOK, GpuTurns, Waiting
  <2>5. Waiting(s) \cap new = {}
    BY <1>4 DEF Waiting
  <2>6. IsInjective(gpuQueue[s] \o q) /\ Range(gpuQueue[s] \o q) = Waiting(s) \cup new
    BY <2>3, <2>4, <2>5, ConcatTurns
  <2>7. \A u \in Sessions : gpuQueue'[u] = IF u = s THEN gpuQueue[s] \o q ELSE gpuQueue[u]
    BY <2>2 DEF TypeOK
  <2>8. ASSUME NEW u \in Sessions
        PROVE  /\ Range(gpuQueue'[u]) = {l \in Lanes : SessionOf(l) = u /\ lane'[l].at = "leaves"}
               /\ IsInjective(gpuQueue'[u])
    <3>1. CASE u = s
      BY <1>4, <1>6, <2>1, <2>6, <2>7, <3>1 DEF Waiting
    <3>2. CASE u # s
      <4>1. \A l \in Lanes : SessionOf(l) = u => lane'[l] = lane[l]
        BY <1>4, <1>6, <3>2
      <4> QED BY <2>7, <3>2, <4>1 DEF GpuTurns
    <3> QED BY <3>1, <3>2
  <2> QED BY <2>8 DEF GpuTurns
<1> QED BY <1>7, <1>8

\* A pass that settles, well or not, leaves the GPU to the next.
LEMMA LeavesTurns ==
  ASSUME TInv, GpuTurns, NEW l \in Lanes, NEW passed \in BOOLEAN, Leaves(l, passed)
  PROVE  GpuTurns'
<1> DEFINE s == SessionOf(l)
           q == gpuQueue[s]
<1>t. TypeOK /\ lane \in [Lanes -> LaneState] /\ s \in Sessions
  BY LaneFacts DEF TInv, TypeOK, LaneState
<1>1. q \in Seq(Lanes) /\ IsInjective(q) /\ Range(q) = Waiting(s)
  BY <1>t DEF TypeOK, GpuTurns, Waiting
<1>2. q # <<>> /\ Head(q) = l /\ gpuQueue' = [gpuQueue EXCEPT ![s] = Tail(@)]
  BY DEF Leaves, ReleaseGpu
<1>3. IsInjective(Tail(q)) /\ Range(Tail(q)) = Waiting(s) \ {l}
  BY <1>1, <1>2, TailTurn
<1>4. \A u \in Sessions : gpuQueue'[u] = IF u = s THEN Tail(q) ELSE gpuQueue[u]
  BY <1>t, <1>2 DEF TypeOK
<1>5. lane'[l].at # "leaves" /\ \A k \in Lanes : k # l => lane'[k] = lane[k]
  <2>1. CASE Goto(l, "solving")
    BY <1>t, <2>1 DEF Goto, LaneState
  <2>2. CASE Pause(l) \/ lane' = [lane EXCEPT ![l] = NoLane]
    <3>1. NoLane.at = "none" /\ Waits("paused").at = "paused"
      BY DEF NoLane, Waits
    <3> QED BY <1>t, <2>2, <3>1 DEF Pause
  <2> QED BY <2>1, <2>2 DEF Leaves
<1>6. ASSUME NEW u \in Sessions
      PROVE  /\ Range(gpuQueue'[u]) = {k \in Lanes : SessionOf(k) = u /\ lane'[k].at = "leaves"}
             /\ IsInjective(gpuQueue'[u])
  <2>1. CASE u = s
    BY <1>3, <1>4, <1>5, <2>1 DEF Waiting
  <2>2. CASE u # s
    <3>1. \A k \in Lanes : SessionOf(k) = u => lane'[k] = lane[k]
      BY <1>5, <2>2
    <3> QED BY <1>4, <2>2, <3>1 DEF GpuTurns
  <2> QED BY <2>1, <2>2
<1> QED BY <1>6 DEF GpuTurns

LEMMA LaneTurns == ASSUME TInv, GpuTurns, NEW l \in Lanes, LaneStep(l) PROVE GpuTurns'
<1>t. TypeOK /\ lane \in [Lanes -> LaneState]
  BY DEF TInv, TypeOK, LaneState
<1>1. ASSUME NEW x, lane' = [lane EXCEPT ![l] = x], lane[l].at # "leaves", x.at # "leaves",
             UNCHANGED gpuQueue
      PROVE  GpuTurns'
  BY <1>t, <1>1, SameTurns
<1>2. ASSUME NEW place \in Steps, Goto(l, place), place # "leaves", lane[l].at # "leaves",
             UNCHANGED gpuQueue
      PROVE  GpuTurns'
  <2> DEFINE x == [at |-> place, h |-> lane[l].h]
  <2>1. lane' = [lane EXCEPT ![l] = x] /\ x.at # "leaves"
    BY <1>t, <1>2, Places DEF Goto
  <2> QED BY <1>1, <1>2, <2>1
<1>s. {"solving", "checking", "preparing", "polling", "sorry"} \subseteq Steps
  BY DEF Steps, SubmitSteps
<1>3. CASE PauseOver(l) \/ Drop(l) \/ Confirmed(l) \/ Lost(l) \/ SorryOver(l)
  <2>1. lane[l].at \notin {"none", "leaves"} /\ Resume(l)
    BY <1>3 DEF PauseOver, Drop, Confirmed, Lost, SorryOver, Finish
  <2> QED BY <2>1, ResumeTurns
<1>4. CASE NoSolution(l)
  <2>1. CASE Resume(l)
    BY <1>4, <2>1, ResumeTurns DEF NoSolution
  <2>2. CASE ~Resume(l)
    <3>1. Waits("paused").at = "paused"
      BY DEF Waits
    <3> QED BY <1>1, <1>4, <2>2, <3>1 DEF NoSolution, Pause
  <2> QED BY <2>1, <2>2
<1>5. CASE Solved(l)
  BY <1>2, <1>5, <1>s DEF Solved
<1>6. CASE Submit(l)
  BY <1>2, <1>6, <1>s DEF Submit
<1>7. ASSUME NEW sent \in BOOLEAN, Send(l, sent) PROVE GpuTurns'
  BY <1>2, <1>7, <1>s DEF Send
<1>8. CASE Failed(l)
  BY <1>2, <1>8, <1>s DEF Failed
<1>9. CASE GpuTop(l)
  <2>1. CASE Ends(l)
    BY <1>9, <2>1, ResumeTurns DEF GpuTop, Resume
  <2>2. CASE ~Ends(l)
    <3> DEFINE x == [at |-> "solving", h |-> currentConfig[SessionOf(l)]]
    <3>1. lane' = [lane EXCEPT ![l] = x] /\ lane[l].at = "top" /\ UNCHANGED gpuQueue
      BY <1>9, <2>2 DEF GpuTop
    <3>2. x.at # "leaves"
      OBVIOUS
    <3> HIDE DEF x
    <3> QED BY <1>1, <3>1, <3>2
  <2> QED BY <2>1, <2>2
<1> QED BY <1>3, <1>4, <1>5, <1>6, <1>7, <1>8, <1>9, LeavesTurns DEF LaneStep

LEMMA NextTurns == TInv /\ LanesAfterProbe /\ GpuTurns /\ [Next]_vars => GpuTurns'
<1> SUFFICES ASSUME TInv, LanesAfterProbe, GpuTurns, [Next]_vars PROVE GpuTurns'
  OBVIOUS
<1>t. TypeOK
  BY DEF TInv
<1>1. ASSUME NEW s \in Sessions, SupervisorStep(s) PROVE GpuTurns'
  <2>1. ASSUME NEW t \in {"cpu", "hybrid", "fullgpu"}, Probe(s, t) PROVE GpuTurns'
    <3>1. UNCHANGED gpuQueue
      BY <2>1 DEF Probe
    <3>2. \A l \in Lanes : lane'[l].at = "leaves" <=> lane[l].at = "leaves"
      <4>1. CASE UNCHANGED lane
        BY <4>1
      <4>2. CASE ~UNCHANGED lane
        <5>1. /\ supervisor[s] = "probe"
              /\ lane' = [lane EXCEPT ![<<s, GPU, 1>>] = Waits("top")]
          BY <2>1, <4>2 DEF Probe
        <5>2. lane[<<s, GPU, 1>>].at = "none" /\ Waits("top").at = "top"
          BY <5>1, LaneFacts DEF LanesAfterProbe, Waits
        <5>3. \A l \in Lanes : lane'[l] = IF l = <<s, GPU, 1>> THEN Waits("top") ELSE lane[l]
          BY <1>t, <5>1 DEF TypeOK
        <5> QED BY <5>2, <5>3
      <4> QED BY <4>1, <4>2
    <3> QED BY <3>1, <3>2, SameTurns
  <2>2. CASE Fetch(s)
    BY <1>t, <2>2, KickTurns, SameTurns DEF Fetch, ConfigRead, TypeOK
  <2>3. CASE Advance(s)
    BY <1>t, <2>3, KickTurns DEF Advance, TInv, ConfigKnown
  <2>4. CASE SupervisorEnds(s)
    BY <2>4, SameTurns DEF SupervisorEnds
  <2> QED BY <1>1, <2>1, <2>2, <2>3, <2>4 DEF SupervisorStep
<1>2. CASE Stop
  <2>1. \A l \in Lanes : lane'[l] = lane[l] \/ (lane[l].at = "solving" /\ lane'[l].at = "none")
    BY <1>2 DEF Stop, NoLane
  <2> QED BY <1>2, <2>1, SameTurns DEF Stop
<1>3. CASE \/ Start \/ RoundCloses \/ UNCHANGED vars
           \/ \E s \in Sessions, l \in Lanes : Execute(s, l)
           \/ \E h \in adrift : ExecuteAdrift(h)
  <2>1. UNCHANGED <<lane, gpuQueue>>
    BY <1>3 DEF Start, RoundCloses, Execute, ExecuteAdrift, laneVars, vars
  <2> QED BY <2>1, SameTurns
<1> QED BY <1>1, <1>2, <1>3, LaneTurns DEF Next

-----------------------------------------------------------------------------
EInv == TInv /\ LanesAfterProbe /\ SInv

LEMMA NextEInv == EInv /\ [Next]_vars => EInv'
<1> SUFFICES ASSUME TInv, LanesAfterProbe, SInv, [Next]_vars PROVE EInv'
  BY DEF EInv
<1>1. TInv' /\ LanesAfterProbe'
  BY NextTInv, NextAfterProbe
<1>2. CASE Next
  <2>1. SInv'
    BY <1>2, LaneSafe, SupervisorSafe, OtherSafe DEF Next
  <2> QED BY <1>1, <2>1 DEF EInv
<1>3. CASE UNCHANGED vars
  <2>1. UNCHANGED <<ours, height, submitting, txVars, lane>>
    BY <1>3 DEF vars, chainVars, txVars
  <2>2. height' \in Heights /\ height' >= height
    BY <2>1, HeightFacts DEF TInv, TypeOK
  <2>3. SInv'
    BY <2>1, <2>2, MovesOutside
  <2> QED BY <1>1, <2>3 DEF EInv
<1> QED BY <1>2, <1>3

LEMMA Invariance == Spec => []EInv
<1>1. Init => EInv
  BY InitTInv, InitAfterProbe, InitSInv DEF EInv
<1> QED BY <1>1, NextEInv, PTL DEF Spec

-----------------------------------------------------------------------------
\* The engine's and the dashboard's state is what the code takes it for, in every
\* interleaving of any number of slots, lanes and sessions.
THEOREM EngineTypeCorrect == Spec => []TypeOK
<1>1. EInv => TypeOK
  BY DEF EInv, TInv
<1> QED BY <1>1, Invariance, PTL

\* The submitting flag is up exactly while one lane submits: two submissions of a
\* session never overlap.
THEOREM SubmissionsNeverOverlap == Spec => []OneSubmission
<1>1. EInv => OneSubmission
  BY DEF EInv, SInv
<1> QED BY <1>1, Invariance, PTL

\* onBlockMined is called at most once for a round, and only for one we won.
THEOREM CreditsAreWins == Spec => []CreditsAreReal
<1>1. EInv => CreditsAreReal
  BY DEF EInv, SInv
<1> QED BY <1>1, Invariance, PTL

\* A won round is credited, or being polled, or its transaction was given up.
THEOREM WinsAreRemembered == Spec => []NoWinForgotten
<1>1. EInv => NoWinForgotten
  BY DEF EInv, SInv
<1> QED BY <1>1, Invariance, PTL

\* A stopped session starts no job: no lane of it ever moves to a leaf pass, a
\* solver or the head of the full-GPU loop.
THEOREM StoppedIsQuiet == Spec => QuietAfterStop
<1> DEFINE Quiet == \A l \in Lanes :
             stopped[SessionOf(l)] /\ lane[l].at # lane'[l].at
               => lane'[l].at \notin {"leaves", "solving", "top"}
<1>1. EInv /\ [Next]_vars => [Quiet]_vars
  <2> SUFFICES ASSUME EInv, Next, NEW l \in Lanes, stopped[SessionOf(l)], lane[l].at # lane'[l].at
               PROVE  lane'[l].at \notin {"leaves", "solving", "top"}
    OBVIOUS
  <2>t. TInv /\ TypeOK
    BY DEF EInv, TInv
  <2>1. ASSUME NEW k \in Lanes, LaneStep(k) PROVE lane'[l].at \notin {"leaves", "solving", "top"}
    BY <2>1, <2>t, LaneAlone
  <2>2. ASSUME NEW s \in Sessions, SupervisorStep(s)
        PROVE  lane'[l].at \notin {"leaves", "solving", "top"}
    <3>1. ASSUME NEW h \in Heights, Kick(s, h) PROVE FALSE
      BY <2>t, <3>1, KickedLanes
    <3>2. ASSUME NEW t \in {"cpu", "hybrid", "fullgpu"}, Probe(s, t) PROVE FALSE
      BY ZenonT(30), <2>t, <3>2, LaneFacts DEF Probe, TypeOK
    <3>3. CASE Fetch(s)
      BY <2>t, <3>1, <3>3 DEF Fetch, ConfigRead, TypeOK
    <3>4. CASE Advance(s)
      BY <2>t, <3>1, <3>4 DEF Advance, TInv, ConfigKnown
    <3>5. CASE SupervisorEnds(s)
      BY <3>5 DEF SupervisorEnds
    <3> QED BY <2>2, <3>2, <3>3, <3>4, <3>5 DEF SupervisorStep
  <2>3. CASE Stop
    BY <2>3 DEF Stop, NoLane
  <2>4. CASE \/ Start \/ RoundCloses
             \/ \E s \in Sessions, k \in Lanes : Execute(s, k)
             \/ \E h \in adrift : ExecuteAdrift(h)
    BY <2>4 DEF Start, RoundCloses, Execute, ExecuteAdrift, laneVars
  <2> QED BY <2>1, <2>2, <2>3, <2>4 DEF Next
<1>2. Spec => [][Quiet]_vars
  BY <1>1, Invariance, PTL DEF Spec
<1> QED BY <1>2 DEF QuietAfterStop

\* The chain of GPU passes holds exactly the lanes that wait for a pass or run one, each
\* once, whichever passes throw.
THEOREM PassesTakeTurns == Spec => []GpuTurns
<1>1. Init => GpuTurns
  <2> SUFFICES ASSUME Init PROVE GpuTurns
    OBVIOUS
  <2>1. \A s \in Sessions : gpuQueue[s] = <<>>
    BY DEF Init
  <2>2. \A l \in Lanes : lane[l].at = "none"
    BY DEF Init, NoLane
  <2>3. Range(<<>>) = {} /\ IsInjective(<<>>)
    BY DEF Range, IsInjective
  <2> QED BY <2>1, <2>2, <2>3 DEF GpuTurns
<1>2. EInv => TInv /\ LanesAfterProbe
  BY DEF EInv
<1>3. TInv /\ LanesAfterProbe /\ GpuTurns /\ [Next]_vars => GpuTurns'
  BY NextTurns
<1> QED BY <1>1, <1>2, <1>3, Invariance, PTL DEF Spec
=============================================================================
