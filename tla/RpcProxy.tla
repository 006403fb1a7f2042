------------------------------- MODULE RpcProxy -------------------------------
(***************************************************************************)
(* The website's RPC proxy (app/api/rpc/route.ts), as one client and one   *)
(* account see it: the client's sliding window of requests, and the cached *)
(* answer for the account.  Requests that miss go to the upstream node     *)
(* side by side; the node may serve them, and its answers arrive, in any   *)
(* order, and whichever arrives last stays in the cache.                   *)
(*                                                                         *)
(* Times are modelled as ages, which Tick advances (as in SiteCache).      *)
(***************************************************************************)
EXTENDS Naturals, Sequences

CONSTANTS
  Calls,        \* requests under way at a time
  CACHE_TTL,    \* CACHE_TTL_MS, 2 s
  RATE_WINDOW,  \* RATE_WINDOW_MS, 60 s
  RATE_MAX,     \* RATE_MAX_REQS, 1200
  UPSTREAM_MAX, \* the longest an upstream request takes
  None

ProxyAssumption ==
  {CACHE_TTL, RATE_WINDOW, RATE_MAX, UPSTREAM_MAX} \subseteq Nat \ {0}

VARIABLES
  bucket,    \* ages of the client's admitted requests, oldest first
  cache,     \* the answer kept: ages of the entry and of its content
  call,      \* call -> where it is, for how long, the age of its answer, and
             \* whether the answer is to be kept
  answered   \* the age of the content of the last answer given, at that moment

vars == <<bucket, cache, call, answered>>

Idle == [at |-> "idle", since |-> 0, age |-> 0, kept |-> FALSE]
Ages == 0 .. CACHE_TTL + UPSTREAM_MAX + 1

TypeOK ==
  /\ bucket \in UNION {[1 .. n -> 0 .. RATE_WINDOW] : n \in 0 .. RATE_MAX}
  /\ cache = None \/ cache \in [since : 0 .. CACHE_TTL, age : Ages]
  /\ call \in [Calls -> [at : {"idle", "upstream", "served"},
                         since : 0 .. UPSTREAM_MAX, age : 0 .. UPSTREAM_MAX,
                         kept : BOOLEAN]]
  /\ answered \in Ages

Init ==
  /\ bucket = <<>>
  /\ cache = None
  /\ call = [c \in Calls |-> Idle]
  /\ answered = 0

Recent(ages) == SelectSeq(ages, LAMBDA age : age < RATE_WINDOW)

\* rateLimit: the bucket afterwards. A refused request leaves no mark in it.
RateLimit ==
  IF Len(Recent(bucket)) >= RATE_MAX THEN Recent(bucket) ELSE Append(Recent(bucket), 0)

Admit ==
  /\ bucket' = RateLimit
  /\ Len(Recent(bucket)) < RATE_MAX

\* A request over the limit gets a 429.
Refuse ==
  /\ Len(Recent(bucket)) >= RATE_MAX
  /\ bucket' = RateLimit
  /\ UNCHANGED <<cache, call, answered>>

Fresh == IF cache = None THEN FALSE ELSE cache.since < CACHE_TTL

\* Mutant: an entry that is read is an entry that is used, and stays.
HitRefreshing ==
  /\ Fresh
  /\ Admit
  /\ answered' = cache.age
  /\ cache' = [cache EXCEPT !.since = 0]
  /\ UNCHANGED call

\* A request answered from the cache.
Hit ==
  /\ Fresh
  /\ Admit
  /\ answered' = cache.age
  /\ UNCHANGED <<cache, call>>

\* A single request that misses, or a batch, which skips the cache.
Forward(c, single) ==
  /\ call[c].at = "idle"
  /\ single => ~Fresh
  /\ Admit
  /\ call' = [call EXCEPT ![c] = [Idle EXCEPT !.at = "upstream", !.kept = single]]
  /\ UNCHANGED <<cache, answered>>

\* The node serves the request: it reads the account, or refuses in a JSON-RPC error,
\* which comes with HTTP 200 and is kept like the account. The content is of now.
Serve(c) ==
  /\ call[c].at = "upstream"
  /\ call' = [call EXCEPT ![c].at = "served"]
  /\ UNCHANGED <<bucket, cache, answered>>

\* The answer arrives: it is passed on and, if the request was a single one,
\* becomes the cache's, with the present as its time.
Arrive(c) ==
  /\ call[c].at = "served"
  /\ answered' = call[c].age
  /\ cache' = IF call[c].kept THEN [since |-> 0, age |-> call[c].age] ELSE cache
  /\ call' = [call EXCEPT ![c] = Idle]
  /\ UNCHANGED bucket

\* The fetch throws, which makes a 502, or the node answers with another HTTP status:
\* that is passed on and not kept.
Fail(c) ==
  /\ call[c].at # "idle"
  /\ call' = [call EXCEPT ![c] = Idle]
  /\ UNCHANGED <<bucket, cache, answered>>

Capped(age, max) == IF age >= max THEN max ELSE age + 1

Tick ==
  /\ \A c \in Calls : call[c].at # "idle" => call[c].since < UPSTREAM_MAX
  /\ bucket' = [i \in DOMAIN bucket |-> Capped(bucket[i], RATE_WINDOW)]
  /\ cache' = IF cache = None THEN None
              ELSE [since |-> Capped(cache.since, CACHE_TTL),
                    age |-> Capped(cache.age, CACHE_TTL + UPSTREAM_MAX + 1)]
  /\ call' = [c \in Calls |->
                IF call[c].at = "idle" THEN Idle
                ELSE [call[c] EXCEPT !.since = @ + 1,
                        !.age = IF call[c].at = "served" THEN @ + 1 ELSE @]]
  /\ UNCHANGED answered

Next ==
  \/ Refuse \/ Hit \/ Tick
  \/ \E c \in Calls : Serve(c) \/ Arrive(c) \/ Fail(c) \/ \E single \in BOOLEAN : Forward(c, single)

Spec == Init /\ [][Next]_vars

-----------------------------------------------------------------------------
\* An older answer may overwrite a newer one, with a fresh time: still, no client
\* is given content, the account or an error of the node, older than the life of an
\* entry and one upstream request.
AnswerAge == answered <= CACHE_TTL + UPSTREAM_MAX
=============================================================================
