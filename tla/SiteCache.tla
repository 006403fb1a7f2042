------------------------------ MODULE SiteCache ------------------------------
(***************************************************************************)
(* How the all-time leaderboard reaches the explorer.  The indexer keeps   *)
(* it in Redis, a hash of blocks, a hash of rewards and a ranking, written *)
(* one after the other; the website assembles the rows (lib/rpc.ts), keeps *)
(* them in Redis for TTL (lib/cache.ts, filled by the first request that   *)
(* misses and by the cron route), puts them in the answer of /api/state,   *)
(* and the CDN keeps that answer for EDGE_FRESH and, while it revalidates, *)
(* EDGE_STALE.                                                             *)
(*                                                                         *)
(* Time is modelled by ages: what the code stores as an expiry or a time   *)
(* is here the time that has passed since, and Tick advances them all.     *)
(* The rows are those of one miner.  REINDEX=1, which removes the hashes   *)
(* and the ranking side by side, is left out.                              *)
(***************************************************************************)
EXTENDS Naturals

CONSTANTS
  Requests,    \* requests under way at a time, of users and of the cron
  TTL,         \* CACHE_TTL_SEC, 90 s
  EMPTY_TTL,   \* life of an empty list, 3 s
  EDGE_FRESH,  \* s-maxage of /api/state, 5 s
  EDGE_STALE,  \* its stale-while-revalidate, 30 s
  LATENCY,     \* the longest a request runs (the platform's maxDuration)
  MAX_BLOCKS,  \* bound of the model: blocks the indexer writes, repeats included
  None

CacheAssumption ==
  /\ {TTL, EMPTY_TTL, EDGE_FRESH} \subseteq Nat \ {0}
  /\ {EDGE_STALE, LATENCY, MAX_BLOCKS} \subseteq Nat

VARIABLES
  counted,   \* blocks in the indexer's hash of blocks
  rewarded,  \* blocks in its hash of rewards
  ranked,    \* blocks in its ranking
  writing,   \* which of the three it writes next
  entry,     \* Redis: the assembled rows
  edge,      \* the CDN: the answer of /api/state
  request    \* request -> what it is doing, for how long, and what it has read

store == <<counted, rewarded, ranked, writing>>
vars == <<store, entry, edge, request>>

\* Rows as they were read: how long ago, from where, and of how many blocks the
\* rewards are not in them, which is followed for rows of the ranking only. No rows:
\* the read failed, or there was nothing.
Oldest == TTL + EDGE_FRESH + EDGE_STALE + 2 * LATENCY
Rows == [age : 0 .. Oldest + 1, from : {"nowhere", "ranking", "hash"}, unpaid : 0 .. MAX_BLOCKS]
NoRows == [age |-> 0, from |-> "nowhere", unpaid |-> 0]
Found(place, count) == [age |-> 0, from |-> place, unpaid |-> count]
Blank(rows) == rows.from = "nowhere"

Idle == [at |-> "idle", of |-> "user", since |-> 0, rows |-> NoRows]

TypeOK ==
  /\ {counted, rewarded, ranked} \subseteq 0 .. MAX_BLOCKS
  /\ writing \in {"count", "reward", "rank"}
  /\ entry = None \/ entry \in [since : 0 .. TTL - 1, rows : Rows]
  /\ edge = None \/ edge \in [since : 0 .. EDGE_FRESH + EDGE_STALE - 1, rows : Rows]
  /\ request \in [Requests -> [at : {"idle", "rank", "hash", "side", "set", "answer"},
                               of : {"user", "cron"}, since : 0 .. LATENCY, rows : Rows]]

Init ==
  /\ counted = 0 /\ rewarded = 0 /\ ranked = 0 /\ writing = "count"
  /\ entry = None /\ edge = None
  /\ request = [r \in Requests |-> Idle]

-----------------------------------------------------------------------------
\* Mutant: the ranking is written before the rewards.
IndexRankFirst ==
  /\ \/ /\ writing = "count" /\ counted < MAX_BLOCKS
        /\ counted' = counted + 1 /\ writing' = "rank"
        /\ UNCHANGED <<rewarded, ranked>>
     \/ /\ writing = "rank"
        /\ ranked' = ranked + 1 /\ writing' = "reward"
        /\ UNCHANGED <<counted, rewarded>>
     \/ /\ writing = "reward"
        /\ rewarded' = rewarded + 1 /\ writing' = "count"
        /\ UNCHANGED <<counted, ranked>>
  /\ UNCHANGED <<entry, edge, request>>

\* The indexer's commands for a block, one await each.
Index ==
  /\ \/ /\ writing = "count" /\ counted < MAX_BLOCKS
        /\ counted' = counted + 1 /\ writing' = "reward"
        /\ UNCHANGED <<rewarded, ranked>>
     \/ /\ writing = "reward"
        /\ rewarded' = rewarded + 1 /\ writing' = "rank"
        /\ UNCHANGED <<counted, ranked>>
     \/ /\ writing = "rank"
        /\ ranked' = ranked + 1 /\ writing' = "count"
        /\ UNCHANGED <<counted, rewarded>>
  /\ UNCHANGED <<entry, edge, request>>

\* It dies, or a command fails: the block is begun anew, or left as it is.
IndexAgain ==
  /\ writing # "count"
  /\ writing' = "count"
  /\ UNCHANGED <<counted, rewarded, ranked, entry, edge, request>>

Goto(r, place, rows) ==
  request' = [request EXCEPT ![r].at = place, ![r].rows = rows]

\* cached(): a hit answers at once; a miss, or a Redis that cannot be reached,
\* runs the read.
Cached(r) ==
  /\ request[r].at = "idle"
  /\ \E reachable \in BOOLEAN :
       LET hit == reachable /\ entry # None IN
       request' = [request EXCEPT ![r] = [at |-> IF hit THEN "answer" ELSE "rank",
                     of |-> "user", since |-> 0, rows |-> IF hit THEN entry.rows ELSE NoRows]]
  /\ UNCHANGED <<store, entry, edge>>

\* The cron route: warm() always reads.
Refresh(r) ==
  /\ request[r].at = "idle"
  /\ request' = [request EXCEPT ![r] = [at |-> "rank", of |-> "cron", since |-> 0, rows |-> NoRows]]
  /\ UNCHANGED <<store, entry, edge>>

\* fetchAllTimeLeaderboardUncached: the ranking; a failed read counts as an
\* empty one, for which there is the hash.
Rank(r) ==
  /\ request[r].at = "rank"
  /\ \/ ranked > 0 /\ Goto(r, "side", Found("ranking", ranked))
     \/ Goto(r, "hash", NoRows)
  /\ UNCHANGED <<store, entry, edge>>

\* The hash of blocks; no miner in it, or a failure: no rows.
Hash(r) ==
  /\ request[r].at = "hash"
  /\ \/ counted > 0 /\ Goto(r, "side", Found("hash", 0))
     \/ Goto(r, "set", NoRows)
  /\ UNCHANGED <<store, entry, edge>>

\* Then the rewards of the miners found; a failure throws the rows away.
Side(r) ==
  /\ request[r].at = "side"
  /\ \/ Goto(r, "set", [request[r].rows EXCEPT !.unpaid = IF @ > rewarded THEN @ - rewarded ELSE 0])
     \/ Goto(r, "set", NoRows)
  /\ UNCHANGED <<store, entry, edge>>

\* Mutant: an empty list lives as long as any other.
LifeOfAny(rows) == TTL

\* The expiry of the entry that is written.
Life(rows) == IF Blank(rows) THEN EMPTY_TTL ELSE TTL

\* redis.set with its expiry (it may fail), whatever is there by now; the cron
\* route is done, a user's request goes on to its answer.
Set(r) ==
  /\ request[r].at = "set"
  /\ \/ entry' = [since |-> TTL - Life(request[r].rows), rows |-> request[r].rows]
     \/ UNCHANGED entry
  /\ request' = [request EXCEPT ![r] = IF @.of = "cron" THEN Idle ELSE [@ EXCEPT !.at = "answer"]]
  /\ UNCHANGED <<store, edge>>

\* fetchState: the indexer's snapshot, or null when there is none or Redis cannot
\* be reached.
StateRead == {"snapshot", "null"}

\* The answer of /api/state: the CDN keeps it unless the state could not be read.
Answer(r) ==
  /\ request[r].at = "answer"
  /\ \E state \in StateRead :
       edge' = IF state = "null" THEN edge ELSE [since |-> 0, rows |-> request[r].rows]
  /\ request' = [request EXCEPT ![r] = Idle]
  /\ UNCHANGED <<store, entry>>

\* A user's poll reaches the website only when the CDN's answer is not fresh.
Poll(r) == (edge # None => edge.since >= EDGE_FRESH) /\ Cached(r)

Older(rows) == [rows EXCEPT !.age = IF @ > Oldest THEN @ ELSE @ + 1]
AfterTick(held, life) ==
  IF held = None THEN None
  ELSE IF held.since + 1 >= life THEN None
  ELSE [since |-> held.since + 1, rows |-> Older(held.rows)]

\* A unit of time passes; no request runs longer than LATENCY.
Tick ==
  /\ \A r \in Requests : request[r].at # "idle" => request[r].since < LATENCY
  /\ entry' = AfterTick(entry, TTL)
  /\ edge' = AfterTick(edge, EDGE_FRESH + EDGE_STALE)
  /\ request' = [r \in Requests |->
                   IF request[r].at = "idle" THEN Idle
                   ELSE [request[r] EXCEPT !.since = @ + 1, !.rows =
                           IF request[r].at \in {"rank", "hash"} THEN @ ELSE Older(@)]]
  /\ UNCHANGED store

Next ==
  \/ Index \/ IndexAgain \/ Tick
  \/ \E r \in Requests :
       Poll(r) \/ Refresh(r) \/ Rank(r) \/ Hash(r) \/ Side(r) \/ Set(r) \/ Answer(r)

Spec == Init /\ [][Next]_vars

-----------------------------------------------------------------------------
\* What a user may be shown: the CDN's answer, and the ones about to be given.
Served ==
  {request[r].rows : r \in {r \in Requests : request[r].at = "answer"}}
    \cup (IF edge = None THEN {} ELSE {edge.rows})

\* However fills, refreshes and slow requests overlap, what a user is shown was
\* read within the life of the entry and of the CDN's answer and the time the
\* two requests took (an entry and the CDN's answer are given while they are
\* younger than that); an empty list, within the short life of empty entries.
\* (lib/cache.ts keeps empty results briefly so as not to lock in a broken page.)
ServedAge ==
  \A rows \in Served :
    rows.age <= (IF Blank(rows) THEN EMPTY_TTL ELSE TTL) - 1
                  + EDGE_FRESH + EDGE_STALE - 1 + 2 * LATENCY

\* A ranked row never shows blocks without their rewards, although the two are
\* written and read one after the other: the indexer writes the rewards first and
\* the website reads them last, also when the indexer dies in between.  (Rows of
\* the hash, for want of a ranking, may.)
RowsAreBacked ==
  \A rows \in Served : rows.from = "ranking" => rows.unpaid = 0
=============================================================================
