------------------------------ MODULE Indexer ------------------------------
(***************************************************************************)
(* scripts/indexer.ts: the process that copies the program's history into  *)
(* Redis.  Every await is a step, so the chain grows, and the process can  *)
(* die, between any two of them; Redis keeps what was written.             *)
(*                                                                         *)
(* A signature is its position in the chain, newest last.  Signatures are  *)
(* read in pages of PAGE, newest first, and processed oldest first within  *)
(* a page, in batches whose transactions are fetched together; each mined  *)
(* block is then written with several Redis commands, one await each.  Its *)
(* height and its time are its position as well, and its reward is taken   *)
(* to be, so that different blocks do not add up to the same sum.  The     *)
(* meta key, which nothing reads, is left out.                             *)
(***************************************************************************)
EXTENDS Integers, Sequences, FiniteSets, FiniteSetsExt

CONSTANTS
  Miners,      \* winners that appear in mined-block logs
  NoBlock,     \* a transaction that mined nothing
  PAGE,        \* getSignaturesForAddress limit (1000)
  BATCH_SIZE,  \* transactions fetched together (10)
  Faults,      \* the kinds of fault that may happen
  Paced,       \* whether at most PAGE signatures arrive between two ticks
  MAX_CHAIN,   \* bound of the model: signatures on the chain
  MAX_FAULTS   \* bound of the model: faults in a run

\* What may go wrong: the process dies ("crash"), or does so while REINDEX wipes
\* ("wipe"); a transaction cannot be fetched ("parse"); a Redis command fails, writing
\* ("write") or reading.
FaultKinds == {"crash", "wipe", "parse", "write", "read"}

ASSUME IndexerAssumption ==
  /\ NoBlock \notin Miners
  /\ PAGE \in Nat \ {0} /\ BATCH_SIZE \in Nat \ {0}
  /\ Faults \subseteq FaultKinds
  /\ Paced \in BOOLEAN
  /\ MAX_CHAIN \in Nat /\ MAX_FAULTS \in Nat

\* The Redis commands of indexBlock in their order.
Writes == <<"miners", "rewards", "lastSeen", "lastHeight", "rank", "recent", "blocksByHeight">>

VARIABLES
  chain,           \* what each signature mined: a winner or NoBlock
  snapshot,        \* config as last copied: how much of the chain it knows of
  miners,          \* HASH miner -> blocks
  rewards,         \* HASH miner -> sum of rewards
  lastSeen,        \* HASH miner -> time of last block, 0 when absent
  lastHeight,      \* HASH miner -> height of last block, 0 when absent
  rank,            \* ZSET miner -> blocks
  recent,          \* ZSET of blocks of the last hour
  blocksByHeight,  \* ZSET of block records
  cursor,          \* newest processed signature, 0 when absent
  mode,            \* what the process is doing
  reindex,         \* REINDEX=1 in its environment
  newestSig,       \* newest signature of the first backfill page
  before,          \* page boundary of a walk: only older signatures follow
  next, last,      \* the signatures of the page still to be processed
  short,           \* whether the page had fewer than PAGE signatures
  batch,           \* parsed blocks still to be written
  step,            \* next command of the oldest of them
  faults,          \* kind of fault -> how often it has happened
  \* -- history variables, which no step of the code reads --
  unmigrated,      \* blocks up to here were counted by a version without block
                   \* records, and no walk has recorded them all since
  halfWiped        \* a REINDEX died when it had removed counts and not the cursor,
                   \* and no other has removed the cursor since

aggregate == <<miners, rewards, lastSeen, lastHeight, rank, recent>>
redis == <<snapshot, aggregate, blocksByHeight, cursor>>
walk == <<newestSig, before, next, last, short>>
process == <<mode, reindex, walk, batch, step>>
history == <<unmigrated, halfWiped>>
recordKeys == <<snapshot, miners, rewards, lastSeen, lastHeight, rank, blocksByHeight>>
vars == <<chain, redis, process, faults, history>>

Mined(i) == chain[i] # NoBlock
BlocksOf(m, upTo) == {i \in 1 .. upTo : chain[i] = m}
RewardsOf(m, upTo) == SumSet(BlocksOf(m, upTo))

TypeOK ==
  /\ chain \in Seq(Miners \cup {NoBlock})
  /\ snapshot \in 0 .. Len(chain)
  /\ {miners, rewards, lastSeen, lastHeight, rank} \subseteq [Miners -> Nat]
  /\ recent \subseteq 1 .. Len(chain)
  /\ blocksByHeight \subseteq 1 .. Len(chain)
  /\ cursor \in 0 .. Len(chain)
  /\ mode \in {"down", "backfill", "check", "migrate", "idle", "poll", "tick"}
  /\ reindex \in BOOLEAN
  /\ newestSig \in 0 .. Len(chain)
  /\ before \in 0 .. Len(chain) + 1
  /\ next \in 1 .. Len(chain) + BATCH_SIZE
  /\ last \in 0 .. Len(chain)
  /\ short \in BOOLEAN
  /\ batch \subseteq 1 .. Len(chain)
  /\ step \in DOMAIN Writes
  /\ faults \in [FaultKinds -> 0 .. MAX_FAULTS]
  /\ unmigrated \in 0 .. Len(chain)
  /\ halfWiped \in BOOLEAN

\* A key of Redis that is not there: no miner has anything.
Nobody == [m \in Miners |-> 0]

NewestOf(S) == IF S = {} THEN 0 ELSE Max(S)

\* Redis is empty, or it is what a version that kept no block records, and met no
\* fault, left behind (the migration's case): it had counted the chain up to its
\* cursor.
Init ==
  /\ chain \in UNION {[1 .. n -> Miners \cup {NoBlock}] : n \in 0 .. MAX_CHAIN}
  /\ cursor \in 0 .. Len(chain)
  /\ Paced /\ cursor # 0 => Len(chain) <= cursor + PAGE
  /\ miners = [m \in Miners |-> Cardinality(BlocksOf(m, cursor))] /\ rank = miners
  /\ rewards = [m \in Miners |-> RewardsOf(m, cursor)]
  /\ lastSeen = [m \in Miners |-> NewestOf(BlocksOf(m, cursor))] /\ lastHeight = lastSeen
  /\ recent = {i \in 1 .. cursor : Mined(i)}
  /\ blocksByHeight = {}
  /\ snapshot = 0
  /\ unmigrated = cursor
  /\ halfWiped = FALSE
  /\ mode = "down"
  /\ reindex = FALSE
  /\ newestSig = 0 /\ before = 0
  /\ next = 1 /\ last = 0
  /\ short = FALSE
  /\ batch = {} /\ step = 1
  /\ faults = [kind \in FaultKinds |-> 0]

-----------------------------------------------------------------------------
\* A step that goes wrong uses up one of the faults of the run.
Fault(kind) ==
  /\ kind \in Faults
  /\ faults["crash"] + faults["wipe"] + faults["parse"] + faults["write"] + faults["read"]
       < MAX_FAULTS
  /\ faults' = [faults EXCEPT ![kind] = @ + 1]

FaultIf(fails, kind) == IF fails THEN Fault(kind) ELSE UNCHANGED faults

\* The newest signature that the next tick will not ask for again; a backfill
\* that has yet to begin will see the whole chain.
Anchor ==
  IF cursor # 0 THEN cursor
  ELSE IF mode = "down" \/ (mode = "backfill" /\ before = 0) THEN Len(chain)
  ELSE IF mode = "backfill" THEN newestSig
  ELSE 0

\* The environment: a transaction of the program is confirmed.
Append1(winner) ==
  /\ Len(chain) < MAX_CHAIN
  /\ Paced => Len(chain) < Anchor + PAGE
  /\ chain' = Append(chain, winner)
  /\ UNCHANGED <<redis, process, faults, history>>

\* REINDEX=1 wipes everything but the snapshot and the block records, with a del
\* per key, side by side: these keys are gone.
AggregatorKeys == {"miners", "rewards", "lastSeen", "lastHeight", "rank", "recent", "cursor"}

WipeAggregator(keys) ==
  LET Del(hash, key) == IF key \in keys THEN Nobody ELSE hash
  IN  /\ miners' = Del(miners, "miners") /\ rewards' = Del(rewards, "rewards")
      /\ lastSeen' = Del(lastSeen, "lastSeen") /\ lastHeight' = Del(lastHeight, "lastHeight")
      /\ rank' = Del(rank, "rank")
      /\ recent' = IF "recent" \in keys THEN {} ELSE recent
      /\ cursor' = IF "cursor" \in keys THEN 0 ELSE cursor
      /\ UNCHANGED <<snapshot, blocksByHeight>>
      /\ halfWiped' = IF cursor' = 0 THEN FALSE ELSE halfWiped \/ keys \ {"recent"} # {}

\* main: without a cursor the whole history is walked, otherwise the process
\* resumes.  A failed read of the cursor counts as no cursor.
Start(wipe, readFails) ==
  /\ mode = "down"
  /\ FaultIf(readFails, "read")
  /\ reindex' = wipe
  /\ IF wipe THEN WipeAggregator(AggregatorKeys) ELSE UNCHANGED <<redis, halfWiped>>
  /\ mode' = IF cursor' = 0 \/ readFails THEN "backfill" ELSE "check"
  /\ UNCHANGED <<chain, walk, batch, step, unmigrated>>

\* The process dies while it wipes, killed or because a del failed: of the keys any
\* may be gone.
WipeDies ==
  /\ mode = "down"
  /\ Fault("wipe")
  /\ \E keys \in SUBSET AggregatorKeys : WipeAggregator(keys)
  /\ UNCHANGED <<chain, process, unmigrated>>

PageDone == next > last /\ batch = {}

\* The walk or the tick is over, and its locals are gone.
LeavePage == before' = 0 /\ next' = 1 /\ last' = 0 /\ short' = FALSE

\* Mutant: `until` is taken to be inclusive.
TakePageInclusive(low, high) ==
  /\ next' = IF high - PAGE > low THEN high - PAGE + 1 ELSE IF low = 0 THEN 1 ELSE low
  /\ last' = high
  /\ short' = (high - low < PAGE)

\* The page of the newest PAGE signatures in low+1 .. high.
TakePage(low, high) ==
  /\ next' = IF high - PAGE > low THEN high - PAGE + 1 ELSE low + 1
  /\ last' = high
  /\ short' = (high - low < PAGE)

\* Mutant: the cursor is saved as soon as it is known.
WalkPageCursorFirst ==
  /\ mode \in {"backfill", "migrate"}
  /\ PageDone /\ ~short
  /\ LET high == IF before = 0 THEN Len(chain) ELSE before - 1
     IN  /\ TakePage(0, high)
         /\ newestSig' = IF before = 0 THEN high ELSE newestSig
         /\ cursor' = newestSig'
         /\ before' = next'
  /\ UNCHANGED <<chain, snapshot, aggregate, blocksByHeight, mode, reindex, batch, step,
                 faults, history>>

\* fullBackfill, backfillBlocksByHeight: the next older page, unless the
\* previous one was the last.
WalkPage ==
  /\ mode \in {"backfill", "migrate"}
  /\ PageDone /\ ~short
  /\ LET high == IF before = 0 THEN Len(chain) ELSE before - 1
     IN  /\ TakePage(0, high)
         /\ newestSig' = IF before = 0 THEN high ELSE newestSig
         /\ before' = next'
  /\ UNCHANGED <<chain, redis, mode, reindex, batch, step, faults, history>>

\* The blocks of the last hour, which began somewhere; the removal may fail too.
TrimRecent(hour) == recent' = {i \in recent : i > hour}

\* Mutant: the cursor is the newest signature of the page in hand.
BackfillDoneAtPage(hour) ==
  /\ mode = "backfill"
  /\ PageDone /\ short
  /\ cursor' = last
  /\ TrimRecent(hour)
  /\ mode' = "check"
  /\ LeavePage
  /\ unmigrated' = 0
  /\ UNCHANGED <<chain, recordKeys, reindex, newestSig, batch, step, faults, halfWiped>>

\* The end of fullBackfill: the cursor is the newest signature it began with.
\* What is trimmed after it was set does not depend on what happens in between.
BackfillDone(hour) ==
  /\ mode = "backfill"
  /\ PageDone /\ short
  /\ cursor' = IF newestSig # 0 THEN newestSig ELSE cursor
  /\ TrimRecent(hour)
  /\ mode' = "check"
  /\ LeavePage
  /\ unmigrated' = 0
  /\ UNCHANGED <<chain, recordKeys, reindex, newestSig, batch, step, faults, halfWiped>>

\* main's migration check; a failed zcard or hlen counts as an empty key.  REINDEX
\* is not read again in this process.
Check(failed) ==
  /\ mode = "check"
  /\ FaultIf(failed # {}, "read")
  /\ IF /\ blocksByHeight = {} \/ "zcard" \in failed
        /\ (\E m \in Miners : miners[m] > 0) /\ "hlen" \notin failed
        /\ ~reindex
     THEN mode' = "migrate"
     ELSE mode' = "idle"
  /\ reindex' = FALSE
  /\ UNCHANGED <<chain, redis, walk, batch, step, history>>

MigrateDone ==
  /\ mode = "migrate"
  /\ PageDone /\ short
  /\ mode' = "idle"
  /\ LeavePage
  /\ unmigrated' = 0
  /\ UNCHANGED <<chain, redis, reindex, newestSig, batch, step, faults, halfWiped>>

\* updateState, before the loop and first in every tick: the config is copied,
\* or the copy in Redis stays.
UpdateState(readFails) ==
  /\ mode = "idle"
  /\ FaultIf(readFails, "read")
  /\ snapshot' = IF readFails THEN snapshot ELSE Len(chain)
  /\ mode' = "poll"
  /\ UNCHANGED <<chain, aggregate, blocksByHeight, cursor, reindex, walk, batch, step, history>>

\* tick: one page of the signatures after the cursor.
Tick(readFails) ==
  /\ mode = "poll"
  /\ FaultIf(readFails, "read")
  /\ LET until == IF readFails THEN 0 ELSE cursor
     IN  until < Len(chain) /\ TakePage(until, Len(chain))
  /\ mode' = "tick"
  /\ UNCHANGED <<chain, redis, reindex, newestSig, before, batch, step, history>>

\* There is nothing after the cursor, or the signatures cannot be read.
TickEnds(readFails) ==
  /\ mode = "poll"
  /\ IF readFails THEN Fault("read") ELSE cursor = Len(chain) /\ UNCHANGED faults
  /\ mode' = "idle"
  /\ UNCHANGED <<chain, redis, reindex, walk, batch, step, history>>

\* Mutant: the cursor is the newest signature on the chain.
TickDoneAtTip(hour) ==
  /\ mode = "tick"
  /\ PageDone
  /\ cursor' = Len(chain)
  /\ TrimRecent(hour)
  /\ mode' = "idle"
  /\ LeavePage
  /\ UNCHANGED <<chain, recordKeys, reindex, newestSig, batch, step, faults, history>>

\* The end of tick: the newest signature of the page becomes the cursor.
TickDone(hour) ==
  /\ mode = "tick"
  /\ PageDone
  /\ cursor' = last
  /\ TrimRecent(hour)
  /\ mode' = "idle"
  /\ LeavePage
  /\ UNCHANGED <<chain, recordKeys, reindex, newestSig, batch, step, faults, history>>

\* The cursor cannot be written: tick throws and the loop carries on.
TickDoneFails ==
  /\ Fault("write")
  /\ mode = "tick"
  /\ PageDone
  /\ mode' = "idle"
  /\ LeavePage
  /\ UNCHANGED <<chain, redis, reindex, newestSig, batch, step, history>>

-----------------------------------------------------------------------------
\* processSigs: the transactions of the next batch are fetched.  One that the
\* RPC does not return, or that cannot be fetched, yields no block.
ParseBatch(lost) ==
  /\ next <= last /\ batch = {}
  /\ LET through == IF next + BATCH_SIZE - 1 > last THEN last ELSE next + BATCH_SIZE - 1
         blocks == {i \in next .. through : Mined(i)}
     IN  /\ lost \subseteq blocks
         /\ FaultIf(lost # {}, "parse")
         /\ batch' = blocks \ lost
         /\ next' = through + 1
  /\ step' = 1
  /\ UNCHANGED <<chain, redis, mode, reindex, newestSig, before, last, short, history>>

\* Blocks are written oldest first.
NextBlock ==
  /\ batch' = batch \ {Min(batch)}
  /\ step' = 1

\* One Redis command of indexBlock for block i.
Apply(write, i) ==
  LET m == chain[i]
      Add(hash, key, n) == IF write = key THEN [hash EXCEPT ![m] = @ + n] ELSE hash
      Put(hash, key) == IF write = key THEN [hash EXCEPT ![m] = i] ELSE hash
      Insert(zset, key) == IF write = key THEN zset \cup {i} ELSE zset
  IN  /\ miners' = Add(miners, "miners", 1)
      /\ rewards' = Add(rewards, "rewards", i)
      /\ lastSeen' = Put(lastSeen, "lastSeen")
      /\ lastHeight' = Put(lastHeight, "lastHeight")
      /\ rank' = Add(rank, "rank", 1)
      /\ recent' = Insert(recent, "recent")
      /\ blocksByHeight' = Insert(blocksByHeight, "blocksByHeight")
      /\ UNCHANGED <<snapshot, cursor>>

\* indexBlock: the next command of the oldest block, then the next block.
WriteNext ==
  /\ mode # "migrate"
  /\ batch # {}
  /\ Apply(Writes[step], Min(batch))
  /\ IF step = Len(Writes) THEN NextBlock ELSE step' = step + 1 /\ UNCHANGED batch
  /\ UNCHANGED <<chain, mode, reindex, walk, faults, history>>

\* A command throws, having been applied or not; processSigs logs it and goes
\* on with the next block.
WriteFails(applied) ==
  /\ Fault("write")
  /\ mode # "migrate"
  /\ batch # {}
  /\ IF applied THEN Apply(Writes[step], Min(batch)) ELSE UNCHANGED redis
  /\ NextBlock
  /\ UNCHANGED <<chain, mode, reindex, walk, history>>

\* backfillBlocksByHeight writes the block record only.
MigrateWrite ==
  /\ mode = "migrate"
  /\ batch # {}
  /\ Apply("blocksByHeight", Min(batch))
  /\ NextBlock
  /\ UNCHANGED <<chain, mode, reindex, walk, faults, history>>

\* The process dies: killed, or by an exception outside tick's try.
Crash ==
  /\ mode # "down"
  /\ Fault("crash")
  /\ mode' = "down"
  /\ reindex' = FALSE
  /\ newestSig' = 0 /\ LeavePage
  /\ batch' = {} /\ step' = 1
  /\ UNCHANGED <<chain, redis, history>>

Run ==
  \/ WalkPage \/ MigrateDone
  \/ \E hour \in 0 .. Len(chain) : BackfillDone(hour) \/ TickDone(hour)
  \/ \E failed \in SUBSET {"zcard", "hlen"} : Check(failed)
  \/ \E fails \in BOOLEAN : UpdateState(fails) \/ Tick(fails) \/ TickEnds(fails)
  \/ \E lost \in SUBSET (next .. last) : ParseBatch(lost)
  \/ WriteNext \/ MigrateWrite

Next ==
  \/ Run
  \/ \E wipe, fails \in BOOLEAN : Start(wipe, fails)
  \/ WipeDies
  \/ \E applied \in BOOLEAN : WriteFails(applied)
  \/ TickDoneFails
  \/ Crash
  \/ \E w \in Miners \cup {NoBlock} : Append1(w)

Spec == Init /\ [][Next]_vars

\* The event loop runs on, and the service manager restarts a dead process.
FairSpec ==
  /\ Spec
  /\ WF_vars(Run)
  /\ WF_vars(\E wipe, fails \in BOOLEAN : Start(wipe, fails))

-----------------------------------------------------------------------------
\* The calls that fail and whose failure the indexer only logs.
Swallowed == faults["parse"] + faults["write"] > 0

\* As long as nothing has gone wrong, the leaderboard counts each block up to
\* the cursor exactly once, although the chain grows between every two of the
\* indexer's awaits and whatever pages it is read in; counts, rewards and block
\* records agree, also those of blocks that were counted before there were records,
\* and the window of the last hour has no other blocks.  The last block of a miner
\* is its newest, except that a backfill, which reads older pages later, may leave
\* an older one until the miner mines again.  Whatever the config snapshot counts is
\* indexed when the tick is through.
CountedExactlyOnce ==
  mode = "idle" /\ (\A kind \in FaultKinds : faults[kind] = 0) =>
    /\ \A m \in Miners :
         LET own == BlocksOf(m, cursor) IN
         /\ miners[m] = Cardinality(own)
         /\ rewards[m] = RewardsOf(m, cursor)
         /\ rank[m] = miners[m]
         /\ own = {i \in blocksByHeight : i <= cursor /\ chain[i] = m}
         /\ own # {} => lastHeight[m] \in own
         /\ \A i \in own : i > lastHeight[m] => i <= newestSig
         /\ lastSeen[m] = lastHeight[m]
    /\ recent \subseteq blocksByHeight
    /\ snapshot <= cursor

\* Each block up to the cursor is counted, and is in every key of Redis.
FullyCounted ==
  \A m \in Miners :
    LET own == BlocksOf(m, cursor) IN
    /\ miners[m] >= Cardinality(own)
    /\ rewards[m] >= RewardsOf(m, cursor)
    /\ rank[m] >= Cardinality(own)
    /\ own # {} => lastHeight[m] # 0 /\ lastSeen[m] # 0

FullyRecorded ==
  {i \in unmigrated + 1 .. cursor : Mined(i)} \subseteq blocksByHeight

\* The cursor never passes a block that is not fully written: what a crash
\* interrupts, or a failed read repeats, is done again and never left out.  The code
\* is not safe in two places, which are excepted: a REINDEX that dies half-way may
\* leave the cursor without the counts, and a migration that is cut short is not
\* done again.
NothingSkipped ==
  mode = "idle" /\ ~Swallowed => (~halfWiped => FullyCounted) /\ FullyRecorded

\* Whatever fails, and however long a walk or a tick took while the chain grew,
\* the cursor never moves back, except that REINDEX=1 removes it.
CursorNeverBackwards ==
  [][cursor' >= cursor \/ (mode = "down" /\ cursor' = 0)]_vars

\* Every mined block reaches the explorer's record, however often the process
\* dies on the way; those that a version without records had counted do, unless a
\* crash or a failed read cuts their migration short.  (In the model the chain stops
\* growing, so that all of them are recorded in the end.)
EveryBlockIndexed ==
  <>[](\A i \in DOMAIN chain : Mined(i) =>
         \/ i \in blocksByHeight \/ Swallowed
         \/ i <= unmigrated /\ faults["crash"] + faults["wipe"] + faults["read"] > 0)

\* "each command is idempotent" (indexer.ts:235): a block that is written
\* again leaves the counts as they were.
NeverCountedTwice ==
  \A m \in Miners : miners[m] <= Cardinality(BlocksOf(m, Len(chain)))

=============================================================================
