------------------------------ MODULE BlockPages ------------------------------
(***************************************************************************)
(* The explorer's list of blocks: the newest ones, which every poll of     *)
(* /api/state replaces, and the older ones the user loads page by page     *)
(* from /api/blocks (ExplorerDashboard.tsx over rpc.ts, fetchBlocksPage),  *)
(* which scans the program's signatures backwards from a cursor.           *)
(*                                                                         *)
(* A signature is its position in the chain; a transaction either mined a  *)
(* block or did not (failed transactions count as the latter).  The poll's *)
(* blocks come from the indexer by way of two caches, so any prefix of the *)
(* chain may be the one they were taken from; an answer of the CDN for an  *)
(* older page is one the server may give, for the history does not change. *)
(***************************************************************************)
EXTENDS Naturals, Sequences, FiniteSets, SequencesExt

CONSTANTS
  MAX_SIGS,     \* bound of the model: transactions of the program
  RECENT,       \* blocks in /api/state, 12
  PAGE_BLOCKS,  \* blocks in an older page, 20
  SIGS_LIMIT,   \* signatures read at a time, 200
  MAX_BATCHES   \* reads made for a page, 5

PagesAssumption ==
  /\ MAX_SIGS \in Nat
  /\ {RECENT, PAGE_BLOCKS, SIGS_LIMIT, MAX_BATCHES} \subseteq Nat \ {0}

VARIABLES
  mined,      \* position -> whether that transaction mined a block
  blocks,     \* the newest blocks shown, newest first
  older,      \* the older blocks shown
  cursor,     \* where the next page starts, 0 if nowhere
  loading,    \* the cursor of the request under way, 0 if none
  exhausted,  \* whether the list says that it is complete
  crossed,    \* a poll came between a request and its answer, and none since
  faulty      \* a page in the list was read with failures

shown == <<blocks, older, cursor, exhausted>>
vars == <<mined, blocks, older, cursor, loading, exhausted, crossed, faulty>>

Sigs == 1 .. MAX_SIGS

TypeOK ==
  /\ mined \in UNION {[1 .. n -> BOOLEAN] : n \in 0 .. MAX_SIGS}
  /\ \A i \in DOMAIN blocks : blocks[i] \in DOMAIN mined
  /\ Len(blocks) <= RECENT
  /\ \A i \in DOMAIN older : older[i] \in DOMAIN mined
  /\ {cursor, loading} \subseteq DOMAIN mined \cup {0}
  /\ {exhausted, crossed, faulty} \subseteq BOOLEAN

\* The newest n of a set of signatures, and all of them, newest first.
NewerThan(s, S) == Cardinality({t \in S : t > s})
Newest(S, n) == {s \in S : NewerThan(s, S) < n}
NewestFirst(S) ==
  [i \in 1 .. Cardinality(S) |-> CHOOSE s \in S : NewerThan(s, S) = i - 1]

MinedBefore(sig) == {s \in 1 .. sig - 1 : mined[s]}

\* fetchRecentBlocks, from a prefix of the chain.
RecentBlocks(length) == NewestFirst(Newest(MinedBefore(length + 1), RECENT))

Init ==
  /\ mined \in UNION {[1 .. n -> BOOLEAN] : n \in 0 .. MAX_SIGS}
  /\ blocks = RecentBlocks(Len(mined))
  /\ older = <<>>
  /\ cursor = IF blocks = <<>> THEN 0 ELSE Last(blocks)
  /\ loading = 0
  /\ exhausted = FALSE /\ crossed = FALSE /\ faulty = FALSE

\* A transaction of the program is confirmed.
Append1(mines) ==
  /\ Len(mined) < MAX_SIGS
  /\ mined' = Append(mined, mines)
  /\ UNCHANGED <<shown, loading, crossed, faulty>>

\* The signatures a page's batches may read, before the cursor, and the blocks
\* found in them; a lookup that finds no transaction leaves its block out.
Scanned(before) == {s \in 1 .. before - 1 : s + MAX_BATCHES * SIGS_LIMIT >= before}
Found(before, lost) == Newest((MinedBefore(before) \cap Scanned(before)) \ lost, PAGE_BLOCKS)

\* Where a scan that found nothing ended: nowhere, if its last batch was empty.
ScanEnd(before) ==
  IF before - 1 <= (MAX_BATCHES - 1) * SIGS_LIMIT THEN 0
  ELSE CHOOSE s \in Scanned(before) : \A t \in Scanned(before) : s <= t

\* fetchBlocksPage: the newest blocks found. The next page starts at the last of
\* them; when there is none, where the scan ended.
Page(before, lost) ==
  LET found == NewestFirst(Found(before, lost))
  IN [blocks |-> found, next |-> IF found # <<>> THEN Last(found) ELSE ScanEnd(before)]

\* loadOlder, up to its request.
LoadOlder ==
  /\ cursor # 0 /\ loading = 0 /\ ~exhausted
  /\ loading' = cursor
  /\ UNCHANGED <<mined, shown, crossed, faulty>>

\* The answer is appended to the list as it is by now.
Loaded(page) ==
  /\ loading # 0
  /\ loading' = 0
  /\ older' = older \o page.blocks
  /\ cursor' = page.next
  /\ exhausted' = (exhausted \/ page.blocks = <<>> \/ page.next = 0)
  /\ UNCHANGED <<mined, blocks, crossed>>

LoadedWell == Loaded(Page(loading, {})) /\ UNCHANGED faulty

\* Lookups that find nothing, or a failure: an empty page with no cursor.
LoadedFaulty ==
  /\ \/ \E lost \in SUBSET MinedBefore(loading) : Loaded(Page(loading, lost))
     \/ Loaded([blocks |-> <<>>, next |-> 0])
  /\ faulty' = TRUE

\* The request fails; the user can click again.
LoadFails ==
  /\ loading # 0
  /\ loading' = 0
  /\ UNCHANGED <<mined, shown, crossed, faulty>>

\* Mutant: the poll leaves the cursor where it was.
TickKeepsCursor(length) ==
  /\ blocks' = RecentBlocks(length)
  /\ IF blocks' = <<>> THEN UNCHANGED <<older, cursor, exhausted, faulty, crossed>>
     ELSE /\ older' = <<>> /\ exhausted' = FALSE /\ faulty' = FALSE
          /\ crossed' = (loading # 0)
          /\ UNCHANGED cursor
  /\ UNCHANGED <<mined, loading>>

\* The poll: new blocks start the list over; an empty answer blanks them only.
Tick(length) ==
  /\ blocks' = RecentBlocks(length)
  /\ IF blocks' = <<>> THEN UNCHANGED <<older, cursor, exhausted, faulty, crossed>>
     ELSE /\ older' = <<>> /\ exhausted' = FALSE /\ faulty' = FALSE
          /\ crossed' = (loading # 0)
          /\ cursor' = Last(blocks')
  /\ UNCHANGED <<mined, loading>>

Next ==
  \/ \E mines \in BOOLEAN : Append1(mines)
  \/ LoadOlder \/ LoadedWell \/ LoadedFaulty \/ LoadFails
  \/ \E length \in 0 .. Len(mined) : Tick(length)

Spec == Init /\ [][Next]_vars

-----------------------------------------------------------------------------
List == blocks \o older

\* The pages join: unless a poll came in between a request and its answer, the
\* list is ordered and repeats nothing, whatever lookups failed; without failures
\* it also leaves nothing out, however the pages' scans and the cursor met, and it
\* is said to be complete only where a whole scan found no older block.
PagesJoin ==
  ~crossed =>
    /\ \A i, j \in DOMAIN List : i < j => List[i] > List[j]
    /\ ~faulty /\ blocks # <<>> =>
         \A s \in DOMAIN mined :
           mined[s] /\ Last(List) < s /\ s < Head(List) => \E i \in DOMAIN List : List[i] = s
    /\ ~faulty /\ exhausted /\ List # <<>> => Found(Last(List), {}) = {}

\* The list says that it is complete only when it is. (rpc.ts:597-599: "Cap
\* iterations so a long history of empty rounds can't make a single page hang for
\* minutes. After this many batches we hand back what we've got and let the client
\* paginate further.")
ExhaustedMeansComplete ==
  exhausted /\ ~crossed /\ ~faulty /\ List # <<>> => MinedBefore(Last(List)) = {}
=============================================================================
