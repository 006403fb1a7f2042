---------------------------- MODULE ExplorerViews ----------------------------
(***************************************************************************)
(* What the explorer computes from the newest blocks (lib/rpc.ts): the     *)
(* leaderboard and the blocks per minute.  A block is a record of its      *)
(* winner, height and unix time; lists are newest first.                   *)
(***************************************************************************)
EXTENDS Integers, Sequences, FiniteSets

CONSTANTS
  MINUTE,       \* length of a bucket, 60 s
  BUCKET_COUNT, \* buckets of the series, 30
  TOP           \* rows of the leaderboard, 20

ViewsAssumption ==
  {MINUTE, BUCKET_COUNT, TOP} \subseteq Nat \ {0}

\* fetchRecentBlockRecords: n blocks of miners, newest first, mined at any times.
RecentBlockRecords(n, miners, times) ==
  {[i \in 1 .. n |-> [winner |-> w[i], ts |-> t[i], height |-> n - i, reward |-> 1]] :
     w \in [1 .. n -> miners],
     t \in {t \in [1 .. n -> times] : \A i \in 1 .. n - 1 : t[i] >= t[i + 1]}}

\* The row of a miner after another of its blocks.
Counted(row, block) ==
  [row EXCEPT !.blocks = @ + 1, !.reward = @ + block.reward,
              !.lastSeen = IF block.ts > @ THEN block.ts ELSE @,
              !.lastHeight = IF block.height > @ THEN block.height ELSE @]

FirstRow(block) ==
  [miner |-> block.winner, blocks |-> 1, reward |-> block.reward,
   lastSeen |-> block.ts, lastHeight |-> block.height]

\* The Map of fetchLeaderboardUncached, in the order of its insertions.
AddBlock(rows, block) ==
  IF \E i \in DOMAIN rows : rows[i].miner = block.winner
  THEN [i \in DOMAIN rows |->
          IF rows[i].miner = block.winner THEN Counted(rows[i], block) ELSE rows[i]]
  ELSE Append(rows, FirstRow(block))

Rows(records) ==
  LET after[n \in 0 .. Len(records)] ==
        IF n = 0 THEN <<>> ELSE AddBlock(after[n - 1], records[n])
  IN after[Len(records)]

\* The rows that the sort puts before row i: it is by blocks, and stable.
Before(rows, i) ==
  {j \in DOMAIN rows : \/ rows[j].blocks > rows[i].blocks
                       \/ rows[j].blocks = rows[i].blocks /\ j < i}
Sorted(rows) ==
  [p \in DOMAIN rows |->
     rows[CHOOSE i \in DOMAIN rows : Cardinality(Before(rows, i)) = p - 1]]

\* fetchLeaderboardUncached.
Leaderboard(records) ==
  LET sorted == Sorted(Rows(records))
  IN SubSeq(sorted, 1, IF Len(sorted) < TOP THEN Len(sorted) ELSE TOP)

\* Start of the present minute, and the time stamps of the buckets, oldest first.
LastBucketStart(now) == (now \div MINUTE) * MINUTE
Stamp(now, i) == LastBucketStart(now) - (BUCKET_COUNT - i) * MINUTE

\* Mutant: the offset is rounded towards zero, as | 0 does.
OffsetTruncated(now, ts) ==
  LET diff == LastBucketStart(now) - ts
  IN IF diff < 0 THEN -((-diff) \div MINUTE) ELSE diff \div MINUTE

\* Minutes between a block and the present minute's start, rounded down: negative
\* for a block of the present minute.
Offset(now, ts) == (LastBucketStart(now) - ts) \div MINUTE

\* The buckets of fetchHashrateSeriesUncached.
CountBlock(buckets, block, now) ==
  LET offset == Offset(now, block.ts) IN
  IF block.ts = 0 \/ offset < 0 \/ offset >= BUCKET_COUNT THEN buckets
  ELSE [buckets EXCEPT ![BUCKET_COUNT - offset] = @ + 1]
BlocksPerMinute(records, now) ==
  LET after[n \in 0 .. Len(records)] ==
        IF n = 0 THEN [i \in 1 .. BUCKET_COUNT |-> 0]
        ELSE CountBlock(after[n - 1], records[n], now)
  IN after[Len(records)]
=============================================================================
