------------------------------ MODULE MCWebsite ------------------------------
(***************************************************************************)
(* The website's parts that share no state, side by side: the browser      *)
(* wallet, the transfer form, the mining page's gate, the caches of the    *)
(* leaderboard, the RPC proxy, the explorer's block list, and the views    *)
(* computed from the newest blocks.  A behaviour moves one of them, in the *)
(* states it has alone, while the others rest in an initial state.         *)
(***************************************************************************)
EXTENDS BrowserWallet, Integers, Sequences, FiniteSets

CONSTANTS
  MAX_PAYMENTS, MAX_MOUNTS,                                          \* SendForm
  Requests, TTL, EMPTY_TTL, EDGE_FRESH, EDGE_STALE, LATENCY, MAX_BLOCKS, \* SiteCache
  Calls, CACHE_TTL, RATE_WINDOW, RATE_MAX, UPSTREAM_MAX,             \* RpcProxy
  MAX_SIGS, RECENT, PAGE_BLOCKS, SIGS_LIMIT, MAX_BATCHES,            \* BlockPages
  Miners, MINUTE, BUCKET_COUNT, TOP, MAX_NOW, MAX_RECORDS            \* ExplorerViews

VARIABLES
  part,  \* which of the seven moves
  app, mount, open, shown, payment, clicked, reopened,                  \* SendForm
  opened, override, rpc, screen, hasRpc, config, sol, running, kept, editing,
  leaving, others,                                                               \* MinePage
  counted, rewarded, ranked, writing, entry, edge, request,             \* SiteCache
  bucket, cache, call, answered,                                        \* RpcProxy
  mined, blocks, older, cursor, loading, exhausted, crossed, faulty,    \* BlockPages
  records, now                                                          \* ExplorerViews

formVars == <<app, mount, open, shown, payment, clicked, reopened>>
mineVars == <<opened, override, rpc, screen, hasRpc, config, sol, running, kept, editing,
              leaving, others>>
cacheVars == <<counted, rewarded, ranked, writing, entry, edge, request>>
proxyVars == <<bucket, cache, call, answered>>
pagesVars == <<mined, blocks, older, cursor, loading, exhausted, crossed, faulty>>
viewVars == <<records, now>>
mcVars == <<part, vars, formVars, mineVars, cacheVars, proxyVars, pagesVars, viewVars>>

Form == INSTANCE SendForm WITH status <- shown
Mine == INSTANCE MinePage WITH saved <- kept
Cache == INSTANCE SiteCache
Proxy == INSTANCE RpcProxy
Pages == INSTANCE BlockPages
Views == INSTANCE ExplorerViews

ASSUME WebsiteAssumption ==
  /\ Form!FormAssumption /\ Cache!CacheAssumption /\ Proxy!ProxyAssumption
  /\ Pages!PagesAssumption /\ Views!ViewsAssumption

-----------------------------------------------------------------------------
ViewsInit ==
  /\ \E n \in 0 .. (IF part = "views" THEN MAX_RECORDS ELSE 0) :
       records \in Views!RecentBlockRecords(n, Miners, 1 .. MAX_NOW)
  /\ now = IF records = <<>> THEN 1 ELSE records[1].ts

Later == now < MAX_NOW /\ now' = now + 1 /\ UNCHANGED records

-----------------------------------------------------------------------------
MCInit ==
  /\ part \in {"wallet", "form", "mine", "cache", "proxy", "pages", "views"}
  /\ Init /\ (part # "wallet" => saved = {})
  /\ Form!Init /\ (part # "form" => app = "website")
  /\ Mine!Init /\ (part # "mine" => opened /\ override = "none")
  /\ Cache!Init
  /\ Proxy!Init
  /\ Pages!Init /\ (part # "pages" => mined = <<>>)
  /\ ViewsInit

MCNext ==
  /\ UNCHANGED part
  /\ \/ /\ part = "wallet" /\ Next
        /\ UNCHANGED <<formVars, mineVars, cacheVars, proxyVars, pagesVars, viewVars>>
     \/ /\ part = "form" /\ Form!Next
        /\ UNCHANGED <<vars, mineVars, cacheVars, proxyVars, pagesVars, viewVars>>
     \/ /\ part = "mine" /\ Mine!Next
        /\ UNCHANGED <<vars, formVars, cacheVars, proxyVars, pagesVars, viewVars>>
     \/ /\ part = "cache" /\ Cache!Next
        /\ UNCHANGED <<vars, formVars, mineVars, proxyVars, pagesVars, viewVars>>
     \/ /\ part = "proxy" /\ Proxy!Next
        /\ UNCHANGED <<vars, formVars, mineVars, cacheVars, pagesVars, viewVars>>
     \/ /\ part = "pages" /\ Pages!Next
        /\ UNCHANGED <<vars, formVars, mineVars, cacheVars, proxyVars, viewVars>>
     \/ /\ part = "views" /\ Later
        /\ UNCHANGED <<vars, formVars, mineVars, cacheVars, proxyVars, pagesVars>>

\* A form that rests has no payments, so its fairness asks for nothing.
MCSpec == MCInit /\ [][MCNext]_mcVars /\ Form!Fairness

-----------------------------------------------------------------------------
\* What the form shows is true of the payment just made (SendForm).
VerdictIsTrue == Form!VerdictIsTrue

\* A click gets its verdict (SendForm).
VerdictComes == Form!VerdictComes

\* Who mines does so on an endpoint of their own (MinePage).
MinesOnItsOwnRpc == Mine!MinesOnItsOwnRpc

\* What a user is shown of the leaderboard is recent (SiteCache).
ServedAge == Cache!ServedAge

\* A ranked row never shows blocks without their rewards (SiteCache).
RowsAreBacked == Cache!RowsAreBacked

\* What the proxy answers is recent, in whatever order answers arrive (RpcProxy).
AnswerAge == Proxy!AnswerAge

\* The pages of the block list join (BlockPages).
PagesJoin == Pages!PagesJoin

-----------------------------------------------------------------------------
BlocksOf(miner) == {i \in DOMAIN records : records[i].winner = miner}

\* The views agree with the blocks. The leaderboard shows each miner's own count,
\* and leaves out nobody who has more than one it shows. The series cuts the time up
\* to the start of the present minute into minutes, and each counts the blocks of its
\* own: none twice, none lost between two.  (What their stamps say: MCExplorerViews.)
ViewsAgree ==
  LET board == Views!Leaderboard(records)
      listed == {board[i].miner : i \in DOMAIN board}
      buckets == Views!BlocksPerMinute(records, now)
      End(i) == Views!LastBucketStart(now) - (BUCKET_COUNT - i) * MINUTE
  IN part = "views" =>
     /\ \A i \in DOMAIN board :
          /\ board[i].blocks = Cardinality(BlocksOf(board[i].miner))
          /\ \A j \in DOMAIN board : board[i].miner = board[j].miner => i = j
          /\ \A m \in Miners \ listed : Cardinality(BlocksOf(m)) <= board[i].blocks
     /\ \A i \in 1 .. BUCKET_COUNT :
          buckets[i] = Cardinality({k \in DOMAIN records :
                         /\ records[k].ts > End(i) - MINUTE
                         /\ records[k].ts <= End(i)})
=============================================================================
