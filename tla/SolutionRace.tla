---------------------------- MODULE SolutionRace ----------------------------
(***************************************************************************)
(* race_for_solution of the CLI miner (clients/cli-miner/src/main.rs; the  *)
(* GPU miner's race_for_solution_gpu has the same skeleton): one call      *)
(* spawns a worker per thread, each grinding nonces until its budget is    *)
(* spent or the shared stop flag is up; the first below-target solution is *)
(* taken from a channel of capacity one, and every worker is joined before *)
(* the call returns.                                                       *)
(*                                                                         *)
(* A worker's steps are the accesses other threads can see: the load of    *)
(* the stop flag, the blocking send, the store of the flag, the addition   *)
(* to the shared nonce counter.                                            *)
(***************************************************************************)
EXTENDS Integers, Sequences, FiniteSets, FiniteSetsExt

CONSTANTS
  Workers,        \* the spawned threads
  MaxPerThread,   \* nonce budget of a worker
  SlowSolves,     \* whether recv_timeout's 600 s can pass without a winner
  None            \* no winner

ASSUME RaceAssumption ==
  /\ IsFiniteSet(Workers) /\ Workers # {}
  /\ MaxPerThread \in Nat \ {0}
  /\ SlowSolves \in BOOLEAN
  /\ None \notin Workers

ChannelCapacity == 1

VARIABLES
  pc,       \* worker -> its next step
  tried,    \* worker -> nonces it has tried
  found,    \* worker -> whether it has found a below-target solution
  channel,  \* the bounded channel: the senders of the buffered solutions
  stop,     \* the shared AtomicBool
  total,    \* the shared AtomicU64 nonce counter
  caller,   \* next step of the calling thread
  winner,   \* what recv_timeout returned
  late      \* whether recv_timeout gave up on the clock

vars == <<pc, tried, found, channel, stop, total, caller, winner, late>>
workerVars == <<pc, tried, found>>
callerVars == <<caller, winner, late>>

TypeOK ==
  /\ pc \in [Workers -> {"test", "solve", "send", "raise", "count", "exited"}]
  /\ tried \in [Workers -> 0 .. MaxPerThread]
  /\ found \in [Workers -> BOOLEAN]
  /\ channel \in Seq(Workers) /\ Len(channel) <= ChannelCapacity
  /\ stop \in BOOLEAN
  /\ total \in Nat
  /\ caller \in {"recv", "raise", "join", "returned"}
  /\ winner \in Workers \cup {None}
  /\ late \in BOOLEAN

\* The call's set-up: shared state fresh, every worker spawned, the caller's
\* own sender dropped.
Init ==
  /\ pc = [w \in Workers |-> "test"]
  /\ tried = [w \in Workers |-> 0]
  /\ found = [w \in Workers |-> FALSE]
  /\ channel = <<>>
  /\ stop = FALSE
  /\ total = 0
  /\ caller = "recv"
  /\ winner = None
  /\ late = FALSE

Goto(w, step) == pc' = [pc EXCEPT ![w] = step]

\* while tried < max && !stop.load()
Test(w) ==
  /\ pc[w] = "test"
  /\ IF tried[w] < MaxPerThread /\ ~stop
     THEN Goto(w, "solve") ELSE Goto(w, "count")
  /\ UNCHANGED <<tried, found, channel, stop, total, callerVars>>

\* try_nonce and the target test: below target, or another nonce.
Solve(w, below) ==
  /\ pc[w] = "solve"
  /\ tried' = [tried EXCEPT ![w] = @ + 1]
  /\ found' = [found EXCEPT ![w] = below]
  /\ Goto(w, IF below THEN "send" ELSE "test")
  /\ UNCHANGED <<channel, stop, total, callerVars>>

\* Mutant: a channel without a buffer hands over to a waiting receiver only.
SendRendezvous(w) ==
  /\ pc[w] = "send"
  /\ caller = "recv" /\ channel = <<>>
  /\ channel' = Append(channel, w)
  /\ Goto(w, "raise")
  /\ UNCHANGED <<tried, found, stop, total, callerVars>>

\* tx.send blocks while the buffer is full.  It cannot fail: the receiver
\* lives until the call returns, after all workers were joined.
Send(w) ==
  /\ pc[w] = "send"
  /\ Len(channel) < ChannelCapacity
  /\ channel' = Append(channel, w)
  /\ Goto(w, "raise")
  /\ UNCHANGED <<tried, found, stop, total, callerVars>>

\* stop.store(true); break
Raise(w) ==
  /\ pc[w] = "raise"
  /\ stop' = TRUE
  /\ Goto(w, "count")
  /\ UNCHANGED <<tried, found, channel, total, callerVars>>

\* total.fetch_add(tried), and the closure ends, dropping its sender.
Count(w) ==
  /\ pc[w] = "count"
  /\ total' = total + tried[w]
  /\ Goto(w, "exited")
  /\ UNCHANGED <<tried, found, channel, stop, callerVars>>

AllExited == \A w \in Workers : pc[w] = "exited"

Recv ==
  /\ caller = "recv"
  /\ channel # <<>>
  /\ winner' = Head(channel)
  /\ channel' = Tail(channel)
  /\ caller' = "raise"
  /\ UNCHANGED <<workerVars, stop, total, late>>

\* Mutant: exited workers are taken for an unsuccessful race.
GiveUpWhenAllExited ==
  /\ caller = "recv"
  /\ AllExited
  /\ caller' = "raise"
  /\ UNCHANGED <<workerVars, channel, stop, total, winner, late>>

\* Every sender is gone and nothing is buffered.
RecvDisconnected ==
  /\ caller = "recv"
  /\ AllExited /\ channel = <<>>
  /\ caller' = "raise"
  /\ UNCHANGED <<workerVars, channel, stop, total, winner, late>>

RecvTimeout ==
  /\ SlowSolves
  /\ caller = "recv"
  /\ channel = <<>>
  /\ late' = TRUE
  /\ caller' = "raise"
  /\ UNCHANGED <<workerVars, channel, stop, total, winner>>

RaiseStop ==
  /\ caller = "raise"
  /\ stop' = TRUE
  /\ caller' = "join"
  /\ UNCHANGED <<workerVars, channel, total, winner, late>>

\* The joins return when every worker has exited; then the nonce counter is
\* read and the call returns.
Join ==
  /\ caller = "join"
  /\ AllExited
  /\ caller' = "returned"
  /\ UNCHANGED <<workerVars, channel, stop, total, winner, late>>

Returned ==
  /\ caller = "returned"
  /\ UNCHANGED vars

WorkerStep(w) ==
  \/ Test(w)
  \/ \E below \in BOOLEAN : Solve(w, below)
  \/ Send(w)
  \/ Raise(w)
  \/ Count(w)

CallerStep == Recv \/ RecvDisconnected \/ RecvTimeout \/ RaiseStop \/ Join

Next == (\E w \in Workers : WorkerStep(w)) \/ CallerStep \/ Returned

Spec == Init /\ [][Next]_vars

\* The operating system runs every thread that is not blocked.
FairSpec == Spec /\ WF_vars(CallerStep) /\ \A w \in Workers : WF_vars(WorkerStep(w))

-----------------------------------------------------------------------------
\* A solution is not lost: when the call returns without a winner and the
\* receiver did not give up on the clock, no worker had found one.
NoSolutionLost ==
  caller = "returned" /\ winner = None /\ ~late => \A w \in Workers : ~found[w]

\* More workers hold a solution than the buffer and the receiver can take.
Crowded ==
  Cardinality({w \in Workers : found[w]}) > ChannelCapacity + (IF late THEN 0 ELSE 1)

\* The call returns, unless it is blocked behind a crowd of solutions.
RaceReturns == <>(caller = "returned" \/ Crowded)

\* "Best-effort send" (main.rs:475): a worker that has a solution gets past
\* its send, whoever else has one.
SendIsBestEffort == \A w \in Workers : pc[w] = "send" ~> pc[w] # "send"
=============================================================================
