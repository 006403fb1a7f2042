# Equium in TLA+

TLA+ modules of the Equium mining system, the TLC runs that check them on small
instances, and theorems about them that TLAPS proves for every value of the
constants. Paths are relative to the repository's root.

## 1. The system

Equium is a proof-of-work token on Solana. An on-chain program holds a fixed pool
of tokens and pays a scheduled reward to whoever submits the first Equihash
solution under the current target. Off-chain miners (CLI, desktop, GPU, two in the
browser) read the program's config account, solve, and submit. An indexer copies the
program's history into Redis, from which the website serves its explorer.

| Component | State it keeps | Operations | Talks to |
|---|---|---|---|
| On-chain program, `programs/equium` | config account (height, challenge, target, reward, boundaries, counters, flags), mineable vault | `initialize`, `fund_vault`, `mine`, `advance_empty_round`, `set_target`, `renounce_admin` | token program, Clock and SlotHashes sysvars |
| Equihash core, `crates/equihash-core` | none | input block, solver, verifier, target arithmetic | linked into program and miners |
| CLI miner, `clients/cli-miner` | one loop; per round a channel, a stop flag, a nonce counter | config read, watchdog, solution race, submit | RPC node |
| GPU miner, `clients/gpu-miner` | the same, plus GPU buffers | the same race, Wagner's rounds on the GPU; no watchdog | RPC node |
| Desktop miner, `clients/desktop-miner` | `AppState` behind a mutex, a stop flag per session, the wallet file; in the window: screens, wizard pages, copies of the miner's state | wallet, miner and transfer commands; mining threads; screens, polls, events | RPC node, disk |
| Browser mining engine, `clients/website/src/lib/miner-engine.ts` | sessions with solver slots, lanes, one GPU turn, a submitting flag, polls | probe, supervisor, dispatch, submit, poll, stop | web workers, GPU, RPC proxy |
| Browser GPU solver, `webgpu-wagner.ts`, `rounds.wgsl` | row buffers, bucket table | `runNonce` | GPU |
| Mining page and its RPC gate, `RpcGate.tsx`, `MineDashboard.tsx` | the endpoint saved by the user, the one captured at load | save, reload, start, stop | localStorage, engine |
| Browser wallet, `wallet-context.tsx`, `wallet-crypto.ts`, screens | the encrypted key, per tab the wallet's status | create, import, unlock, lock, forget | localStorage shared by tabs |
| Transfer form, `SendModal.tsx` (two), `sender.rs` | the payment under way and what is shown of it | send, poll, close, open again | RPC |
| Leaderboard caches, `lib/cache.ts`, `rpc.ts`, `/api/state`, cron | Redis entry, CDN answer | read-through, warm, poll | Redis, CDN |
| RPC proxy, `app/api/rpc/route.ts` | sliding windows, cached answers | single and batch requests | upstream RPC |
| Explorer, `ExplorerDashboard.tsx`, `rpc.ts`, `/api/blocks` | newest blocks, loaded older pages, a cursor | poll, load older; leaderboard and hashrate | RPC, caches |
| Indexer, `scripts/indexer.ts` | Redis hashes and sorted sets, a cursor | backfill, migration, tick | RPC node, Redis |
| Web miner, `clients/web-miner` | one loop per session, a worker | start, stop, solve, submit | RPC node |

What is hard about each, and what makes it correct:

- **Program.** A submission is solved against a config that may have changed when it
  lands, may land twice, or be re-signed by somebody else. A round must be won at most
  once, by its solver; the integer halving schedule must fit the pool with any mix of
  mined and empty rounds; empty rounds must cost a timeout each; the renouncement must
  be final; a stalled round must remain closable.
- **Arithmetic and solvers.** 256-bit scaling by limbs must equal the arithmetic on
  numbers; the GPU's bounded buckets may lose solutions but must not make up any.
- **Races of native miners.** Threads, a bounded channel, a stop flag and a receiver with
  a timeout: the call must return and lose no solution.
- **Miners in JavaScript.** Code runs from one await to the next; a session outlives
  the `stop` that ended it. One submission at a time, no block credited that was not
  won, no win forgotten, quiet after stop.
- **Desktop miner.** Sessions share one mutable state with their successors; the wallet
  file is written in place; answers and events reach screens that have changed.
- **Wallet, form, page.** Slow key derivations, payments without a verdict, other tabs:
  a key must not be lost, a verdict not be another payment's, a page not mine on an
  endpoint its user did not choose.
- **Caches, proxy, explorer.** Ages of caches in a row add up; answers arrive in any
  order; the pages of a list must join while its head moves.
- **Indexer.** Non-atomic sequences of Redis commands, a cursor saved at the end, process
  deaths and failing calls, a chain that grows between any two awaits.

## 2. Modules and how they correspond to the code

`PROJECT.json` maps every definition to its lines; this is the outline.

### The chain

**Schedule** - the pure functions of `schedule.rs`: reward at a height, boundaries,
the clamped retarget, over numbers.

**Equium** - the program. One variable per field of the config account that any
instruction reads, balances for the token accounts, the Clock sysvar, and
`pending`: the solutions found off-chain that may still reach the program. One
action per instruction; an instruction that fails reverts, so it has no step.
`MineVerdict` has the checks of `mine` in their order. A transaction that lands late,
again, or under another signer is `Mine` with an old, a used or another miner's solution:
`Mine` does not remove the solution from `pending`. Hashes are members of a small
set; a solution is valid for exactly one input block, the triple challenge, miner, height.

**Emission** and **RoundChain** - two abstract specifications of the program: the fixed
pool its holders rely on, and the numbered rounds its clients see. `RoundChain` is what
`WebMiner` and `MinerEngine` compose with, so that what they assume of the chain is
what the program has been shown to do.

**EquiumPromises** - what the program promises over time: the limits of the admin, rounds
that close, and the refinement mappings onto the two abstract specifications
(`ImplementsEmission`, `ImplementsRounds`). `MCEquium` checks the program from two sides, the
rounds of two miners and the powers of the admin; the variable `part` says of which one a
behaviour is.

**TargetLimbs** - `target.rs` as it computes, limb by limb, with `BASE` values a limb
(2^64 in the code). `MCMiners` compares it with `Schedule!ScaleTarget`, which is what
lets `Equium` work over numbers.

### The miners

**SolutionRace** - `race_for_solution` of the CLI miner, one action per access that
another thread can see. The GPU miner's function has the same skeleton.

**NativeMiners** - the main loops around it, of CLI and GPU miners on one chain: config read, the
CLI miner's empty-round watchdog, race, submission, give-up, `--max-blocks`. The chain counts slots and
the watchdog seconds, so the two pass independently.

**GpuWagner** - `runNonce` and the four kernels. A buffer is a set of rows; which thread
comes first decides only what a full bucket loses, which is a choice. The verifier's
conditions are a definition of their own, by which the candidates are judged.

**WebMiner** - `App.tsx`, `miner.ts` and the worker: sessions of one loop each; an action
is the code from one await to the next, including the transaction's fate on chain.

**MinerEngine** - the browser engine with its dashboard. A *lane* is one chain of
`dispatchTo` calls on a slot, or the full-GPU loop; `busy` is meant to keep a slot to
one lane, but a lane that pauses or awaits a digest is not busy, so the supervisor may
start a second, and the model has it. Three tiers, GPU turns through a promise chain, the
target check, the submission with its simulated or thrown failure, the poll of the status with
its deadline, the watchdog, stop and restart. Statistics are left out.

**DesktopMiner** - the Tauri commands (which never overlap), the mining threads of all
sessions, and the wallet file with a write that may stop half-way. `load_store` takes any error
of the read for "no wallet": `misread` says that the last `wallet_status` did so with a good
file, which puts up the wizard; `create_wallet` itself looks at no file. `hasty` is a
history variable: whether a session was started before the last one's thread had
cleared the shared state.

**DesktopScreens** - the window over it: which screen is shown, the wizard's pages, the
queue of commands, their answers and the miner's events, delivered one by one to a
screen that may have been replaced. `misread` is here too.

### The website and the indexer

**BrowserWallet** - the encrypted key in a storage that the tabs share, each tab's state, the
wizard. Setting up and unlocking are split at the key derivation: one under way is a *job* in
a slot, for it outlives more than its screen. Two unlocks of a tab may overlap, since Enter
does not ask whether one is under way. A link away from the mining page unmounts the provider
of the wallet's state while the tab goes on (`Leave`): an install then still writes the
storage and tells nobody (`PersistUnseen`), and the page may have been opened again before.
`raced` records that the user removed a wallet while it was being unlocked; `fresh` are the
tabs that read or wrote the storage after everybody else.

**SendForm** - one click is one payment; the form is closed, opened again and
unmounted while payments go on. `app` says whose form it is, for the two applications
answer an unconfirmed transfer differently.

**MinePage** - tabs with the gate, the dashboard and the endpoint each page captured when
it was loaded, over the localStorage they share. Storing an endpoint opens the gate at once;
the reload it asks for comes later (`leaving`), and until then the old page goes on with its
start button and the endpoint it had captured.

**SiteCache** - the leaderboard's way from the indexer's three Redis keys through the
read-through cache, the cron and the CDN. Times are ages.

**RpcProxy** - one client and one account: the sliding window, the cache, upstream requests
served and answered in any order. A JSON-RPC error with status 200 is an answer, and is cached;
only what is not OK, or was not received, fails.

**BlockPages** - the poll that replaces the newest blocks, the pages of older ones, and the scan
of signatures behind them.

**ExplorerViews** - leaderboard and blocks per minute as functions of the newest blocks.
`MCExplorerViews` lets blocks be mined while time passes.

**Indexer** - `scripts/indexer.ts`; every await is a step. Pages, batches, the order of the Redis
commands of a block, the cursor, the config snapshot, the window of the last hour, the migration,
`REINDEX=1`, and five kinds of fault. Redis is empty at first, or is what a version without
block records left behind, which is what the migration is for (`unmigrated`: how far those records
are still owed). The wipe is eight parallel `del`s: one that dies leaves any of the keys (`WipeDies`,
`halfWiped`).

Modules named `MC...` give the constants their values. `MCMiners`, `MCWebsite` and
`MCDesktopMiner` hold several modules that share no state: the variable `part` says which
one moves, the others rest in an initial state, so the reachable states are those of
each module alone and not their product. Operators commented "Mutant" are
mistaken forms of the definition that follows them: exchanging one for the other makes the
property that names it in `PROJECT.json` fail, which shows that the property depends on
that part of the code.

## 3. Runs

| Run | Shows | Instance |
|---|---|---|
| `equium` | no refusal for lack of funds; one winner per round, its solver; empty rounds are paced; refinement of Emission and of RoundChain; the renouncement is final, and so is then a dead target; rounds keep closing (liveness) | targets 0..3, epochs of 2 rounds, reward 2, pool exactly twice the first epoch, retarget every 3 rounds, three slots, timeout of one slot. *rounds*: two miners, two solutions in flight, any targets set, a steady clock. *governed*: one miner with one solution, two hashes, a renouncement, a clock that gains 2 or loses 1 per slot. 0.75M states |
| `miners` | no solution lost and the call returns; a win is reported and a stopped loop ends; no round stays open while a CLI miner runs (liveness); the GPU solves like the verifier; scaling is exact | three workers with three nonces; a CLI and a GPU miner, one round and the next; two web sessions, heights to 2; six tables of eight leaves, K = 3, buckets of 4, buffers of 12, three solutions; every target and ratio of four limbs of four values; 0.4M states |
| `engine` | one submission at a time; the GPU is taken in turns; credits are real; no win forgotten; quiet after stop | one slot with up to two lanes beside the full-GPU lane, two sessions, one round and the next; 1.6M states |
| `website` | installed keys were saved; views match the storage; verdicts are true and come (liveness); mining on one's own endpoint; ages of what is served; rewards behind ranked rows; pages join; views agree | two tabs, two keys, two key derivations at a time; two payments, two mounts; two requests with life 2, empty life 1, CDN 1+1, latency 1; two calls, rate window 3; six signatures; three miners, three records; 1.0M states |
| `indexer_sync` | exact counts, rewards, records and last blocks without faults; nothing skipped unless a failure was swallowed, and but for a half-done wipe and a migration cut short; the cursor never goes back; every block is indexed (liveness) | Redis empty or with counts and no records; three signatures, pages and batches of two, two faults of any kind; 2.2M states |
| `desktop_miner` | every miner can be stopped; statistics are of this session; unlocked implies on disk; stop is obeyed (liveness); the wallet shown for backup is the stored one, and the wizard writes over no wallet but one whose read failed; the dashboard catches up (liveness) | two wallets, two sessions, two blocks; two calls in the queue, two starts; 0.35M states |
| `race_blocked`, `web_false_credit`, `pages_end_early`, `indexer_double`, `desktop_restart`, `explorer_buckets` (violations) | section 4 | the smallest that shows it |

**Why the bounds are enough.** `equium` passes two halvings, down to reward zero, and
two retargets, with zero to three empty rounds in any places; two solutions in flight
are what is needed for one to make the other stale. Its challenge never changes: a
changing challenge can only make a stale solution fail earlier, so the height in the
input block alone tells rounds apart, the worst case (`RoundsWonOnce` covers every
derivation). There is every kind of target: zero, one (which halving turns to
zero), interior, and the largest, where doubling saturates; a window takes its proper time, twice that,
none, or less, and the negative clock step reaches the `max(0)` of the code.

In `miners` the third worker is what can block, the second session is the one a stopped
loop outlives, and the leaf tables were chosen to overfill a bucket in one round, in
two, to exceed the buffer (the pass throws), and to have more solutions than are returned;
limbs of four values exercise every carry, remainder and saturation, because the
algorithm depends on the width only through `BASE`. In `engine` two lanes on one slot are
the overlap `busy` does not exclude, two sessions the overlap of stop and restart, and one round
with a successor lets an older submission meet a newer one.

In `website` a second tab, derivation, payment, mount, request or call is what is needed for two to
overlap. A good entry outlives an empty one, the CDN has a fresh and a stale unit of time, and
a request may take one: the worst ages are reached (with a life of empty entries like that of the
others, `ServedAge` fails). Six signatures make two pages and a tail beside the newest
blocks, with a scan that ends at its batch limit. In `indexer_sync` a full and a
short page and a full and a short batch occur, the old counts reach any signature
of the chain, and two faults are what it takes to restart with a failed read beside an existing cursor,
to strike the recovery from the first, and to die after a wipe that died. Two sessions are enough for one desktop thread to outlive its stop; a
third shows the damage in `desktop_restart`.

**Deadlock.** A solution race, a call of `runNonce`, a session or a payment ends; elsewhere the
bounds end the model (`MAX_SLOT`, `MAX_SESSIONS`, `MAX_CHAIN`, ...). So the runs set `CHECK_DEADLOCK FALSE`, all but
`equium`, whose miners can go on solving in vain;
what must not get stuck is stated as liveness instead: `CallReturns`, `WindsDown`, `RoundsKeepClosing`,
`VerdictComes`, `StopIsObeyed`, `DashboardCatchesUp`, `EveryBlockIndexed`, `StalledRoundsClose`.

**Bounds by name.** `MAX_SLOT`, `TS_STEPS`, `MAX_PENDING` (Equium); `MaxPerThread`, which
is also the code's budget (SolutionRace); `MAX_SESSIONS`, `MAX_HEIGHT` (WebMiner,
MinerEngine, NativeMiners), `MAX_LANES` (MinerEngine); `MAX_PAYMENTS`, `MAX_MOUNTS` (SendForm); `MAX_BLOCKS`
(SiteCache, DesktopMiner); `MAX_SIGS` (BlockPages); `MAX_RECORDS`, `MAX_NOW` (ExplorerViews);
`MAX_CHAIN`, `MAX_FAULTS` (Indexer); `MAX_CALLS`, `MAX_STARTS` (DesktopScreens); `Jobs`, the slots
of key derivations (BrowserWallet).

**Fairness.** Equium: slots pass, and `advance_empty_round`, which is permissionless and
which the miners' watchdogs call, keeps being called; none for `mine`, for a miner need
never find a solution. SolutionRace: the scheduler runs each thread that is not blocked.
NativeMiners: time passes, RPC calls return, and a
miner that calls `advance_empty_round` again and again is heard in the end (strong fairness). WebMiner: the
event loop runs each loop, and RPC calls settle. SendForm: a payment's polls end at its
deadline. DesktopMiner: mining threads run, since their RPC calls and the solver have
timeouts and budgets. DesktopScreens: the main thread executes commands, answers and events are
delivered, polls go on. Indexer: the event loop runs on and the service manager restarts a dead
process. Nowhere is a user, a fault, or the growth of the chain under an obligation.

`Paced` in Indexer: `indexer_sync` assumes that at most one page (1,000 signatures in the code)
arrives between two ticks of some seconds; see the remarks for what happens otherwise.

## 4. Findings

Each is a run of kind "violation", whose property is a sentence of the repository.

1. `race_blocked` - `cli-miner/src/main.rs:475` calls the send best-effort; it blocks
   while the buffer of one is full, the receiver takes one message and stays alive until
   the joins, so a third simultaneous solution blocks its worker, and the caller, for ever.
2. `web_false_credit` - the web miner does not look at what `confirmTransaction` returns: a
   transaction that failed on chain is logged, and counted, as a mined block.
3. `pages_end_early` - a page whose scan found no block within its batches carries a
   cursor to go on from (`rpc.ts:597`), but the explorer takes every empty page for the end.
4. `indexer_double` - `indexer.ts:235` calls the commands idempotent; `hincrby` and
   `zincrby` are not, and a crash before the cursor is saved repeats them.
5. `desktop_restart` - `stop_mining` clears `running` before its thread has ended; the old
   thread's `mark_stopped` then clears the state of the next session, and a further
   start is accepted beside a miner that nothing can stop.
6. `explorer_buckets` - `rpc.ts:715` documents a bucket's time stamp as its start, and `rpc.ts:760` the series as
   ending "now"; the bucket counts the minute that ends at its stamp (787), and the present minute is in none.

### Remarks without a run

Met while modelling; the models contain the behaviour unless said otherwise.

*Program.* `README.md:42` has rewards halve "forever"; integer halving reaches zero at the
25th, after which `mine` always fails with `RewardZeroed`. The early cap
`acc[0] >= d << 64` of `scale_target` can never fire, since the carry limb is below 2^64.

*Browser engine.* `stop()` during the GPU probe leaves workers created later alive (not
modelled: they are given no work). "Another worker already won this round" (`miner-engine.ts:309`) also
drops a below-target solution when the submission under way is one of an earlier round. A stopped
session's submission may credit the counter of the next. The supervisor can start a second lane on
a slot (674). Worker `error` events are not handled.

*Web miner.* A worker created after `stop` lives on; the reward that is counted is that of the
config at the start (a stale closure in `App.tsx`).

*Wallet and form.* "Forget" during an unlock leaves a tab unlocked with nothing stored, where
lock does nothing (`wallet-context.tsx:147`); Enter starts a second unlock beside the first
(`UnlockScreen.tsx:59`), and the later one unlocks the wallet again if the user has locked it in between; leaving the page
while a wallet is being installed unmounts its provider, and a page opened before the install is through
says that there is none while it is stored, and offers to set up another over it; a setup in another tab overwrites the stored wallet; reopening
the form with a payment under way allows a second send and mixes their messages; the desktop form says "Send
failed" of an unconfirmed transfer.

*Mining page.* The gate's pattern ignores case, `clientRpcUrl`'s does not: "HTTPS://..." passes the
gate and mines on the shared proxy; so does a tab that was open when another saved the endpoint. Saving an endpoint opens the gate before the page is loaded again (`RpcGate.tsx:67`, 70), so until then the start button
starts the miner on the endpoint of before, the shared proxy the first time; removing one likewise lets a running
miner go on until then.
A failed balance read is shown as 0.

*Caches and explorer.* `/api/blocks` answers, empty ones of failed reads included, are kept for five
minutes; `/api/state` with empty lists but a state is kept by the CDN up to 35 s; a missed cron
leaves the cache cold (90 s against 120 s). An older upstream answer may overwrite a newer one in the proxy
(the age stays bounded); a batch counts as one request. The fallback list may show blocks without their rewards. A
poll discards the older pages loaded so far. A page that was requested before such a poll and arrives after it
is appended to the new list (`ExplorerDashboard.tsx:65` after the reset at 91), and its cursor taken over: the list
then skips or repeats what lies between, although the comment at 89 has the older pages cleared so that
they join. `PagesJoin` excepts this (`crossed`) and says nothing of such a list. The comment at `rpc.ts:83` speaks of data
some 90 s old; what the caches in a row allow, and `ServedAge` states, is more. The proxy caches an
upstream's JSON-RPC error that comes with status 200 like an answer (`route.ts:153`).

*Indexer.* A failed block write is logged and the cursor moves past it (`indexer.ts:346`, against
236 "the next run picks it up"): `NothingSkipped` excepts it, and the run `indexer_double` shows only the other half of
that comment, the commands that are not idempotent. A `REINDEX=1` that dies within its eight parallel `del`s (413-422)
may leave the cursor without the counts, which a restart without it never makes up for. A migration that was cut
short has left records, so it is not done again (477) and the older records are missing for good; nor is it done in a
process whose `hlen` fails. A tick reads one page, newest first, so after more than a page of arrivals the older ones are
never read (438, against "full block history", 4); a full backfill processes older pages after newer ones,
so a miner's `last_height` and `last_seen`, which the leaderboard shows (`ExplorerDashboard.tsx:512`), are
those of an older block until it mines again. `updateAllTimeAggregator` in `rpc.ts` is never called.

*Desktop.* `keystore.rs:3` says that the plaintext key lives only between unlock and lock; a mining thread keeps its copy
and goes on when the wallet is locked or removed. A thread that cannot be spawned leaves `running` set. `set_rpc_url` changes
memory even if the save fails. A wallet file that cannot be read for the moment counts as none
(`keystore.rs:182`): the wizard comes up, and its command, which looks at no file, writes over the good one.
After a hasty restart `running` is not whether a thread
works (finding 5): `DashboardCatchesUp` is about what the dashboard knows of `running`, and the exceptions of
`EveryMinerCanBeStopped` and `StatsAreOfThisSession` are what `desktop_restart` shows.

## 5. Proofs

Proved for all constants that satisfy the assumptions. Each group of components has its
theorems in a module of its own.

| Theorem | Says |
|---|---|
| *`Equium_proofs`* | any miners, schedule, challenge derivation and clock |
| `TypeCorrect` | `Spec => []TypeOK`: in particular balances never go below zero and targets stay within 256 bits |
| `SupplySafe` | `Spec => []SupplyInv` |
| `NeverRefused` | no solution of the open round is refused for lack of funds |
| `RoundsWonOnce` | each round is won at most once, by its solver, for every challenge derivation |
| `EmptyRoundsPaced` | every empty round has consumed a timeout since mining opened |
| `RenouncementIsFinal` | after the renouncement only a retarget boundary moves the target, by a factor between one half and two; a zero target is permanent and pays nobody |
| `RoundsImplemented` | the program implements RoundChain, the chain the models of the browser miners work on |
| `EmissionImplemented` | the program implements Emission: the halving step by step of `advance_round` pays at every height what the closed form of the schedule says |
| *`TargetLimbs_proofs`* | any width of a limb; in the code 64 bits |
| `ScaleTargetExact` | `scale_target` returns the saturated floor of target * num / den, for every target and ratio |
| `ScaleTargetFits` | no carry is lost, no dividend exceeds two limbs, no cast truncates a quotient |
| *`Miners_proofs`* | any workers, budgets, sessions, miners and rounds |
| `RaceTypeCorrect` | the channel stays within its capacity, no worker exceeds its budget |
| `SolutionsNotLost` | a call that returns without a winner and did not time out was made in vain |
| `LimbsScaleExactly` | the same arithmetic where `MCMiners` compares it with Schedule, with the order of targets |
| `GpuSolvesLikeTheVerifier` | `GpuSpec => []SolvesLikeTheVerifier`: what the GPU returns the verifier accepts, and unless a bucket was full it returns all of it up to its limit: any finite set of leaves, any hashes, any sizes, any odd number of rounds |
| `WinsAreReported` | a round the web miner won is reported, unless its transaction is under way or was given up; a native miner's counter is the number of rounds it won and has heard of. (It does not say that only such rounds are reported: `web_false_credit`.) |
| *`MinerEngine_proofs`* | any slots, lanes, sessions and rounds |
| `EngineTypeCorrect` | in particular a lane that is given work finds a config |
| `SubmissionsNeverOverlap` | the flag is up exactly while one lane of the session submits |
| `CreditsAreWins` | a block is credited at most once, and only if its round was won |
| `WinsAreRemembered` | a won round is credited, polled, or its transaction was given up |
| `StoppedIsQuiet` | no lane of a stopped session is given work again |
| `PassesTakeTurns` | one GPU pass at a time, in the order they were asked for, whichever of them throw |
| *`DesktopMiner_proofs`* | any wallets, sessions and blocks; any queue of commands and answers |
| `UnlockedStaysOnDisk` | an unlocked wallet is the one in the file, whatever write was interrupted and whatever read failed |
| `MinersCanBeStopped`, `StatsAreOwn` | with a user who waits for the last thread, the shared state belongs to the working thread |
| `TheWizardIsSafe` | the backup page shows the wallet that is in the file and unlocked, and the wizard writes over a wallet only after a read of that file failed |
| *`Website_proofs`* | any tabs, keys, payments, requests, calls, signatures and times |
| `WalletTypeCorrect` | `Spec => []TypeOK` of the browser wallet |
| `NoKeyIsLost` | whatever is stored, unlocked or signed with is held by the user elsewhere |
| `ViewsMatchTheStorage` | a key only while unlocked; it is the key that would be unlocked again, unless a wallet was removed during its unlock; a tab that read or wrote the storage last knows it |
| `VerdictsAreTrue` | what the form says is what happened to the payment just made, unless the form was opened again with one under way; "failed" means this on the website only, and a send that threw may have been paid |
| `MinersBringTheirRpc` | mining happens only on an endpoint its user entered, but for an endpoint another tab wrote, a scheme in capitals, and a page about to be loaded again |
| `ServedIsRecent` | the ages of the caches in a row add up to the bound and no more |
| `RankedRowsAreBacked` | a row that comes from the ranking never shows blocks without rewards |
| `AnswersAreRecent` | an answer of the proxy is no older than the cache's life and the slowest read together, in whatever order answers arrive |
| `PagesAlwaysJoin` | unless a poll came between a page's request and its answer, the explorer's list is in order; if no read failed it has no gaps; it ends where a scan found nothing |
| `ViewsAgreeWithTheBlocks` | the leaderboard shows each miner's own count and leaves out nobody with more; the buckets cut the time up to the present minute into minutes, and each counts the blocks of its own |
| *`Indexer_proofs`* | any page and batch size, any chain and faults |
| `CursorOnlyAdvances` | the cursor never moves back except by `REINDEX=1` |
| `NothingIsSkipped` | if arrivals are paced, and unless a failed fetch or write was swallowed: every block up to the cursor is counted, but for what a half-done `REINDEX` removed, and recorded, but for those of a migration cut short |
| `CountsAreExact` | if arrivals are paced, and without a crash or any failed read, fetch or write: every count, sum, record and rank is exactly that of the blocks up to the cursor, the migrated ones included |

**Assumptions.** `ScheduleAssumption` (intervals and the window length are positive naturals),
`EquiumAssumption` (types; the derivation of challenges yields challenges), and
`SupplyAssumption`: the pool is at least twice the first epoch's reward and fits a u64. The
code's constants satisfy it with equality: 18.9e12 = 2 * 378,000 * 25e6. `TargetLimbsAssumption`:
a limb has at least two values. `ScreensAssumption`: the answer of a failed command is not taken for a key
pair. `RaceAssumption`, `EngineAssumption`, `WalletAssumption`, `DesktopMinerAssumption`, `MinersAssumption`,
`WebsiteAssumption` and `IndexerAssumption` only say of which kind the constants are (sets
that do not overlap, positive sizes). For the GPU they are that leaves are finitely many numbers and the number
of rounds is odd, so that the last one writes to the buffer that is scanned (5 in the code). TLC evaluates all of them in the runs. `NothingIsSkipped` and
`CountsAreExact` have a premise, the constant `Paced`: between two ticks no more than a page (1,000
signatures in the code) is confirmed. Without it both are false, as the remarks of section 4 say of
`indexer.ts:438`.

**Argument, Equium.** `NeverExhausted` is not inductive. `SupplyInv` strengthens it by three parts:
`BoundariesAhead` (the next halving is the next multiple of the interval: without it the
number of rounds left at this reward is unknown), `SupplyCoversSchedule` (what was paid, plus the
rest of this epoch at its reward, plus one more whole epoch at this reward, which bounds all
later ones, fits in the pool) and `VaultHoldsTheRest` (vault and counter add up to the
pool). A round that stays in its epoch lowers the second term by the reward it pays; at a
boundary the second term is used up and one epoch at half the reward twice is at most the
third. `RoundWithinSchedule` states this step, `AdvanceRoundSupply` applies it, and
`SupplyInductive` goes through the actions. `PacingInv` adds to `EmptyRoundsArePaced` that no
round is skipped before mining opens. `ScaleTargetClamp` and `NextTargetClamp` bound
one retarget, saturation included. For Emission the code's reward, halved at each boundary,
must be the quotient of the first reward by a power of two: `RewardInv`, by `HalvedQuotient` (halving a
floor is the floor of the half) and `NextEpoch` (a boundary is where the epoch's number goes up).

**Argument, TargetLimbs.** A number is the value of its digits. `AlignedProductsExact`, `CarriesExact` and
`LongDivisionExact` say of the three loops what they leave of the value: the product, the product in proper
digits but for the first, and the floor of the quotient, with a remainder below the divisor at every step;
`FifthDigit` turns the test for a nonzero carry limb into the comparison with 2^256.

**Argument, Miners.** `RaceInv`: a worker that is past its send has left a solution in the
buffer, unless one was received or the receiver gave up; so an empty buffer with every
worker gone means that nobody found one. `FleetInv`: a transaction that succeeded has won its
round, rounds are won before the one that is open, and a miner's counter is the number of its rounds that it
has heard of; `CountStands` says when that number stays the same.

**Argument, GPU.** The verifier looks at a finished list of indices, the kernels never do: they compare
digits of hashes and drop them. `GpuInv` relates the two. The rows of round r are trees of r levels with
the hash that their leaves have after r digits were dropped (`RowsAt`), and as long as no bucket was full they are all of these. Soundness:
`MergedRows`, from `TreesJoin` (two trees that share no index, start in order and agree in the next digit make
a tree) and `HashOfJoin` (shifting out the digit gives the hash of the joined list). Completeness: `RowsAreMerged`, because a part of
a tree is a tree (`PartOfTree`), so every tree of a round is made of two rows of the one before, which the table has side by side.
Where the loop ends early, `NoRowsNoTrees`: a round without rows leaves no solution. Between them stand the positions of blocks within
blocks (`BlocksWithin`, `LevelMoved`) and the exclusive or of joined lists, which is the
parity of a sum (`DigitOfJoin`).

**Argument, MinerEngine.** Most steps move a lane between places outside a submission (`PlainStep`,
`MovesOutside`) and disturb nothing. That a credit is real needs three facts of the
polls: a known status belongs to the one lane of its session that polls (`FateIsPolled`), one that
says ok is of a round that was won and not credited yet, and the ok transactions of two sessions
are of different rounds (`OkIsAWin`), because the second could not have executed after the first closed
the round. That a lane finds a config (`ConfigKnown`) is what the types rest on, and that a session
has no lanes before its probe (`LanesAfterProbe`) is what `StoppedIsQuiet` rests on. `GpuTurns` is
inductive with these: lanes join the promise chain at its end, in any order when a page's
slots are started together (`OrdersOfASet`), and leave it at its head.

**Argument, DesktopMiner.** `WalletInv`: while the file is being written nothing is
unlocked, so an interrupted write can destroy only a file that was absent, unreadable, or misread,
and none that is unlocked. `MinerInv`: as long as no start was hasty, the only thread that can still touch the shared
state is the last session's (`LastSessionOnly`), so what it clears is its own; this is what
`desktop_restart` shows to fail otherwise. `WindowInv`: the commands do not ask whether there is a wallet
already, so the wizard must. While a wallet may come to be, or has come to be, something keeps the wizard's pages closed: the
one command that saves it, whose answer is still due (`Saving`), the request for its secret (`Exporting`),
the backup page (`Revealing`), or the refresh that will take the wizard away (`Occupied`).
An answer "needs-setup" on its way stays true until it is read (`StatusWasTrue`). All this is about a wallet that is
`Kept`: in the file, and not put aside by a read that failed.

**Argument, Website.** Wallet: a key is installed, or a view updated, after an await, from what was put aside
before. `WInv` adds to the properties that keys put aside were saved (`KeysPutAside`), that a
wizard has one install at a time, and that, unless the user removed a wallet meanwhile, an unlock has the blob its tab
knows and the wizard of an install is still shown or has gone with its provider (`JobsFitTheScreen`). Form: `ShownIsTrue` says which payment each message is of. Caches: `CacheInv`
bounds the age of what each stage holds by what the earlier ones allow, requests under way included.
Proxy: `CallInTime`, a request is at most one upstream read old, so its answer
is too, whichever comes last. Pages: `PagesInv`, unless a poll came between a request and its answer
the cursor is where the list ends and a request under way asks for it (`EndsAtCursor`,
`RequestIsNext`), and nothing between the list's head and the cursor is missing (`NoGaps`, which
speaks of the cursor and not of the last row, because a page without blocks moves only the cursor);
`PagesArePages` shows that a scan of batches with both its limits is such a page. Views: what two loops make
of the first n blocks is right for n blocks (`RowsRight`, `BucketsRight`), by induction over the list. The sort numbers
the rows by how many come before (`RowRanks`: as many numbers as rows, all different, so each is taken), so whoever is cut off
comes after whoever is shown; and a quotient rounded down is what its multiples say (`Quotient`), which puts a block into
the bucket whose minute it is in (`BucketOf`).

**Argument, Indexer.** `CursorInv`: what a walk or a tick will
write into the cursor is not older than the cursor it began with. The other two properties speak of
the idle process and are far from inductive: in between a walk has read some pages from the newest down, a
batch of one is in hand, and some of a block's seven commands are done. `Through` is what the process is through with,
`Written` adds for each command the block in hand; then `AtLeast` (whatever fails) and
`Exactly` (without faults) say of each key what it owes, and every step but the commands leaves `Written` as it is. Of the blocks
that were counted before there were records only those that a walk has passed are owed one (`RecordDue`), and after a wipe
that died the counts owe nothing until another has removed the cursor (`halfWiped`).
`Control` has what the variables of the walk mean, `Pacing` that no more than a page lies ahead, and
`Once` that without faults nothing is read twice.

**Induction.** The library states induction and recursion with an operator as a parameter, which the provers
cannot instantiate. `InductionLemmas` states them for sets and functions (`LeastNatural`, `Induction`,
`PrimitiveRecursion`, and `BoundedInduction` and `ListRecursion` for what is computed along a list), derived from the
library's theorem that finite sets are well founded. The powers of two of the schedule and of the trees, the sums of the
indexer's blocks and the explorer's rows and buckets rest on them.

**Only model-checked.** Liveness (`RoundsKeepClosing`, `CallReturns`, `WindsDown`, `VerdictComes`,
`StopIsObeyed`, `DashboardCatchesUp`, `EveryBlockIndexed`, `StalledRoundsClose`) is out of the prover's reach.
Every invariant of the passing runs has a theorem.

## 6. Hazards

`PROJECT.json` lists, at its line, what is hard to test in this code, with the properties
that cover it. The native GPU miner has no empty-round watchdog: `StalledRoundsClose` promises that no
round stays open only while a CLI miner runs, so a fleet of GPU miners alone may leave one open for ever.
The `max(0)` of a clock that steps back (`round.rs:74`) is in the model, but no property tells it from its
absence: a wrapped time would double the target, which the clamp allows.

## 7. What is not modelled, and why

- The GPU miner's own Wagner rounds (CUDA, WGSL), which are those of `GpuWagner`, and its device handling.
- The CPU solver: its rounds are those of `GpuWagner` without buckets. BLAKE2b, the compression of
  indices and key derivation are libraries or pure computations without branches of interest.
- Account constraints of Anchor beyond the signer and `has_one` checks: the runtime's.
- The indexer's `meta` key, which nothing reads.
- `REINDEX=1` as seen by the website, which removes keys in no particular order.
- The desktop miner's RPC setting: one file write.
- Statistics, logs, amounts, addresses, charts, share cards, static pages: no state that anything depends on.
- Tests, and the deployment and operator scripts, which run once.

## 8. Plan

1. Proofs: a theorem for each safety property that items 2 and 3 bring; liveness stays with TLC.
2. Two CLI miners and a GPU miner side by side in a run of their own: two watchdogs race for one
   stalled round, which today's instance has only as the anonymous others.
3. Indexer composed with `SiteCache`, with `REINDEX=1` as the website sees it.

## 9. Running

    tlc -workers 2 -config equium.cfg MCEquium
    tlapm Equium_proofs.tla     # and the other *_proofs modules
