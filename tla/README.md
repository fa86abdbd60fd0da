# snekwork in TLA+

Models, TLC runs and TLAPS proofs for snekwork: the programs that copy a Basilisk chain into
ClickHouse, compute prices and volumes over the copy and keep doing so across crashes, forks
and gaps in what an archive serves; the tools that repair the copy; the API that caches,
derives and reads what is in it; and the live feed that tells a browser about a new block.
Paths below are relative to the repository; line numbers are of the commit this directory
sits beside.

## 1. The system

`scripts/ingestion-supervisor.sh` is an endless shell loop. Each poll runs, in order,
`cleanup_stopped_raw`, `cleanup_stopped_main`, `cleanup_live_main`, `heal_live_raw_reorg`,
`recover_orphaned_raw`, `ensure_raw_workers`, `ensure_main_workers`, `ensure_live_main`. It
starts four kinds of container, and they never talk to one another. They share ClickHouse
tables, and the supervisor sees what `docker ps -a` prints. The API is one more process over
the same tables; browsers talk to it through nginx.

| part | state it keeps | operations | talks to |
| --- | --- | --- | --- |
| raw-live (`src/raw/indexer.ts`, live) | checkpoint of `raw-live`, raw tables | follow the chain behind the finality gate | chain, ClickHouse |
| raw range worker (`src/raw/indexer.ts`, bounded) | checkpoint of its pipeline, raw tables, its row in `raw_ingestion_ranges` | ingest, flush, checkpoint, validate, finalize | archive, ClickHouse |
| raw extraction (`src/raw/balance.ts`, in both) | `raw_balance_observations`, parser warnings | find candidates, read after the block, insert | node, ClickHouse |
| main-live (`src/indexer.ts`, live) | `indexer_state`, the six price tables | price every block above its start | chain or raw tables |
| main worker (`src/indexer.ts`, bounded) | the same, published once at the end | price a batch of finalized raw ranges | raw tables |
| supervisor | none of its own: container names, range rows, failure log | clean up, recover, launch, heal a reorg | docker, ClickHouse, chain |
| `Database` / `ClickHouseStore` (`src/db`, `src/store`) | batches in memory, deferred rows | add, flush, publish, checkpoint | ClickHouse |
| pool composition cache, KSM reference service (`src/pool`, `src/price`) | in-memory indexes | update, poll, reload, settle | chain, ClickHouse, exchanges |
| registry trackers (`src/registry`) | cache of the asset registry, `assets` | scan, compare, insert | chain, ClickHouse |
| tools (`src/cli.ts`, `src/ohlc`, `src/scripts`) | none | roll back, repair candles, repair volumes, snapshot balances | ClickHouse, node |
| API process (`api/src`) | single-flight cache, feed caches, head samplers, lock generations, swap queue cursor | read, refresh, drain, snapshot, push | ClickHouse, node, browsers |
| derivations runner (`api/src/derivations`) | staging twins, watermarks | rebuild, swap | ClickHouse |
| browser tab (`explorer-ui/src/live.ts`) | latest head, open feeds | listen, refetch, poll | API through nginx |

What is hard about each, and what makes it correct:

- **Raw backfill.** Five writers touch a range row and its log (worker, its error path, three
  phases of the script); everything may die between any two statements; the archive may
  skip blocks or change its mind about them. Correct: no range is taken twice, none is
  forgotten, "completed" means whole, retries are bounded but never given up.
- **raw-live, finality gate, reorg healing.** Reads of chain, checkpoint and stored hash are
  three calls while the follower goes on. Correct: what is rolled back has left the chain, an
  outage is never taken for a reorg, the tip recovers.
- **Balances.** Follower, range workers and snapshot script insert observations of one account
  in any order, after reads that may fail one by one. Correct: what is shown is the newest
  block's truth, or a warning says why not.
- **Price publication.** No transactions: a batch is a sequence of probes and inserts and a
  checkpoint at the end. Correct: no additive row twice, no block passed unwritten, a
  bounded range invisible until it is computed.
- **Price backfill.** The only record of a claim is a container's name and the minimum of a
  table that the claimants fill meanwhile. Correct: claims disjoint, no hole, genesis reached.
- **Prices and volumes of a block.** A bounded search over a graph of pools, of which only so
  many observations are kept; swap events that changed their meaning with the eras. Correct:
  the weighted median of all short paths; every fill once, at its block's prices.
- **Pool composition, KSM reference, registry.** Caches fed by events, scans, polls and reloads
  that overlap. Correct: a skipped block was quiet, a price never uses an anchor older than its
  tolerance, the shown label is the newest.
- **Tools.** Deletes and inserts beside running pipelines and views that only add. Correct:
  candles add up after any number of runs and deaths.
- **API caches, windows, queues, generations.** Late answers of abandoned attempts, values that
  seed over newer ones, limits that cut a page short, cursors saved after the rows. Correct:
  one computation per key, nothing older over something newer, a window shows what the
  whole history would, no swap is lost, a published generation is whole.
- **Derivations.** Jobs with a watermark and staging twins, replayed after a death with statements
  left on the server. Correct: readers see whole runs, none goes back, all converge.
- **Live feed.** A push, three caches and a tab that may be hidden or cut off. Correct: a
  refetch never gets a page from before the head it was pushed; a tab that is looked at catches up.

`PROJECT.json` lists every component, modelled or not, and the hazards at their lines.

## 2. Modules

| module | models | checked by | proved about in |
| --- | --- | --- | --- |
| `RawBackfill` | supervisor phases for raw ranges, the range worker, range rows, failure log | `backfill_live`, `backfill_forks` | `RawBackfill_proofs` |
| `RawLive` | raw-live behind the finality gate, `heal_live_raw_reorg` | `rawlive_follow` | `RawLive_proofs` |
| `RawBalances` | candidates, reads and rows of balances; the snapshot script | `pipelines_rows` | `Pipelines_proofs` |
| `PricePublication` | batch handler, `Database.transact`, `publishDeferred`, inserts of `ClickHouseStore` | `publish_range`, `tools_live` | `PricePublication_proofs` |
| `PublicationLedger` | its promise: a row once, the mark only over settled blocks | `publish_range` | `PricePublication_proofs` |
| `PriceTools` | rollback, candle repair, volume repair; extends `PricePublication` | `tools_live` | `PricePublication_proofs` |
| `MainBackfill` | supervisor phases for the price containers, main-live's start, the raw frontier below | `main_live` | `MainBackfill_proofs` |
| `KsmReference` | the reference table, its index, poll, reload, settle, backfill | `inputs_head` | `Pipelines_proofs` |
| `PriceInputs` | the loop over the blocks, composition cache, carried prices; extends `KsmReference` | `inputs_head` | `Pipelines_proofs` |
| `PriceGraph`, `BlockVolumes` | prices of a block from its pools; volumes of its fills at those prices | `pipelines_rows` | `Pipelines_proofs` |
| `AssetTable` | registry trackers and the assets table | `pipelines_rows` | `Pipelines_proofs` |
| `ApiCache`, `AccountDirectory` | the single-flight cache; the directory's persisted pages, seeds and refresh pass over it | `directory_pages` | `ApiCaches_proofs` |
| `ChainHead` | head sampler, timer, `/indexer` | `directory_pages` | `ApiCaches_proofs` |
| `LiveFeed` | poll, push, the three caches, the tab | `livefeed_push` | `ApiCaches_proofs` |
| `SwapQueue` | seed and drain of the account swap queue against ingestion | `api_reads` | `ApiReads_proofs` |
| `LockSnapshots` | generations of account locks, background refresh | `api_reads` | `ApiReads_proofs` |
| `ActivityWindow` | one window of the activity feed, round by round | `api_reads` | `ApiReads_proofs` |
| `LockTimeline` | tranches, the timeline of an account and the merges for a tag | `api_reads` | `ApiReads_proofs` |
| `ReferendumVotes` | the votes of a referendum as its page lists and tallies them | `api_reads` | `ApiReads_proofs` |
| `Derivations` | the runner, its cycle, staging twins and watermarks | `derivations_cycles` | `Derivations_proofs` |
| `MC*` | constants for TLC. `MCPipelines` (RawBalances, AssetTable, BlockVolumes), `MCApiCaches` (AccountDirectory, ChainHead) and `MCApiReads` (ActivityWindow, SwapQueue, LockSnapshots, LockTimeline, ReferendumVotes) put machines that share no state side by side, one per behaviour | | |

An action is one statement, command or `await` that another process can come between. Each
module's header says what a value stands for. Reads whose result only the reader itself can
change are merged with the command that uses them.

### RawBackfill

One function per table or per container attribute, indexed by range:

| variable | code |
| --- | --- |
| `status`, `aged` | `raw_ingestion_ranges FINAL`: status, and whether `updated_at` is older than the cooldown |
| `failures` | rows of `raw_ingestion_range_failures`, saturating at the retry limit, which is all the code compares with |
| `attempts` | history variable: containers started |
| `ckpt`, `raw` | `raw_ingestion_state`, and per height which chain the stored block belongs to |
| `live` | checkpoint of raw-live, the top of the frontier |
| `pc`, `pos`, `buf`, `chain` | the container: where its process is, last height, unflushed blocks, hash chain of `previousBlockHash` |
| `sup` | the script: phase, next command, range in hand, what its last listing returned |

`Boot` (connect and `markRangeRunning`), `Ingest` (one batch, with the parent-hash and gap
checks that are skipped on the first block of a run), `Flush`, `SaveCheckpoint`, `Validate`,
`Rethrow`, `FinalizeRange`, `Exit`; for the script `CleanupNext` ... `EndPoll`, each one
command. `Crash` kills a worker anywhere, with the status SIGKILL or SIGTERM leaves;
`SupervisorCrash` restarts the script. `Served` is the archive: it may skip blocks and may
serve another chain. The slot count of `Judge` and of `StartNextRange` is merged with the
command, since only the script starts a container.

### RawLive

The node is a lineage per height and a finalized head; a reorg replaces finalized blocks, which
is what `heal_live_raw_reorg` exists for. The follower is `pc`, position, previous hash, buffer
and the unanswered polls of its gate; the healer is a program counter and what its last read
returned, one call a step (`HealRead`, `HealCheck...`, `HealStored`, `HealCompare...`,
`HealInsert`, `HealRestart`). A call that is not answered is a step of its own. `Inv` says that the
follower is never started into the runner's hot-block path, that no checkpoint names an unstored
block, and that stored links hold under it; `RollbackJustified` that only a block which is not
on the chain is rolled back; `TipRecovers` that the checkpoint reaches the head again.

### RawBalances

The chain is a branch of block bodies (which accounts an event, a call, or nothing visible
touches); an amount is known by the block that set it. `Extract` computes candidates and reads
them after the block, each of which may fail; `InsertBlock`, `InsertChunk`, `InsertWarnings`,
`SaveMark` are the statements of a flush; `Heal` is what RawLive does to the checkpoint;
`Seed*` is `scripts/snapshot-balances.ts` page by page. `BalancesSound` says that what is shown is
what the chain had at the shown block, that a change somebody could have noticed is shown or
warned about, and that a pass of the snapshot script refreshes what exists. Where the history has
several workers, one stands for all, their ranges being disjoint.

### PricePublication, PublicationLedger and PriceTools

`written` counts how many inserts carried a row (1 for tables whose key replaces). `Batch`
adds what the handler computes (`RowsOf`): a block row always, prices when pools or the
anchor moved or on the first block of a run, volumes for swaps, an upgrade only against the
previous block of the same run. `Probe` and `Insert` take one chunk of one table in
`flushAll`'s order. `Checkpoint` closes the batch. `Crash` may come between any two of
them, and with `MaxLate` an insert the process had sent is finished by ClickHouse later
(`LateInsert`). `Deferred` is a bounded run, `Fresh` a pipeline without a checkpoint.

`PublicationLedger` is the promise. The mapping takes the rows that must not be doubled,
their count, and `Mark`: the checkpoint or, without one, the block before the first.

`PriceTools` adds the tools statement by statement, beside the live pipeline: `value` is what
is in a price row, `candles` what its views have summed up. A price that is deleted leaves its sum
behind until a tool clears it. `torn` and `dirty` are history variables for the two situations of
section 4 in which a second run cannot help; every other death can be repaired by running the
tool again, which is what `CandlesExact` and `CheckpointKept` say. One interval of three blocks
stands for the four candle tables, which are written side by side and never read each other.

### MainBackfill

`blocks` is the heights in the main table, whose minimum is the frontier; `mc` the bounded
containers by range; `live` main-live. `seed` and `done` stand for RawBackfill: ranges walk
down from the raw-live checkpoint of some poll in steps of `RANGE_SIZE`, complete in any
order, and a completed row can be marked failed again, which RawBackfill shows to happen.
A bounded run is `Compute` (all its batches, with the coverage assertion), `Publish` (block
rows in order, any prefix) and `Finish`. `Stop` is SIGTERM, after which the process exits
with 0 whatever it had done (`src/cli.ts:352`). A command of the script that fails ends it
(`set -e`), which is `SupervisorCrash`. `Undisturbed` says that neither has happened.

### KsmReference and PriceInputs

Time is counted in days, a close is known by its day, an intraday row by its quote. The index in
memory, a reload (query answered, index replaced later), the poll (ask, insert, settle one day
after another) and the backfill script overlap at every `await`. `PriceInputs` is the loop of
`src/indexer.ts` over it: `refresh`, `resolve` or `carried`; pools as the chain has them, as the
block's snapshot has them, and as the cache knows them; which seed the last resolved block used.
`Inv` says that a resolved block read its pools as they are (`PoolsExact`), and that only a quiet
block is skipped, and under the anchor it would have used (`CarriedQuiet`);
`ReferenceConverges` that index and closes catch up with the market. Batches are one block
long: a longer one is a run of batches between which the index does not age.

### PriceGraph and BlockVolumes

`PriceGraph` follows the queue of the breadth-first search entry by entry (`Follow`), with the cap
on observations and its replacement rule, and compares with a declarative definition over all paths
(`Paths`, `Walk`, `Observable`, `MedianPrice`), with the truncations of the code on integers. `seen`
is a history of every observation that was made. An asset keeps all that were made of it, or as many
as the cap allows and none better than those is left out (`RichestKept`, in every state); it has a price if and
only if one was made; and where no asset had more observations than the cap (`Dropped = {}`), one was
made for every path and each price is exactly the weighted median of all paths (`NoneLost`,
`PricesExact`). Where observations were dropped, paths behind one that was not kept may be passed
over, so the price is that of what was seen. `BlockVolumes` takes those prices and one block's
events in five eras: which event tells of a fill, when its amounts are the wrong way round, and what
becomes of an asset without a price. `BlockSound` is both: the prices are right in this sense, and
each fill is counted once on both its assets and for its trader.

### AssetTable

The chain's registry, the follower's tracker with its cache and snapshot comparison, a bounded
container with its own tracker, and the rows of `assets`, of which the one inserted last is shown.
`RegistrySound` says that the labels the follower knows are those of its block, unless nothing told
of the change and no scan has been due since, and that the row shown is the one it knows, unless
the backfill inserted after it. `overwritten`, `byNode` and `hidden` are history variables for
section 4.

### ApiCache and AccountDirectory

An entry says how long it is fresh and how long it may be served; a computation is a record in
`builds` that installs its value when it ends. The directory adds readers that seed a key from
`account_directory_snapshots`, the refresh pass, a computation that first looks for a persisted
page, and deaths. `Inv` is bound, single flight and tolerance; `SeedNeverOlder` forbids a
persisted page over a newer one; `PagesRecomputed` is the liveness the pass is there for.

### ChainHead and the reads of the API

- `ChainHead`: an attempt fails, answers late or never settles; a height is known by its age.
  `HeadSound` bounds the attempts at once and the age of what `/indexer` reports; `FreshAgain` says
  that a fresh height comes back whatever the node did before.
- `ActivityWindow`: rows of four families with their place, parties and marks; each round reads
  what its limits allow, folds what the rows of other families own, finds the cutoff, and is
  served, read deeper, or given up. Rows that arrive meanwhile are visible to any subset of the
  reads. `WindowSound` compares with the feed of the whole history, block by block.
- `SwapQueue`: flushes of the raw tables become visible table by table; a drainer looks up
  signers, inserts rows and then saves its cursor. `QueueSound` says that a swap at or below the
  cursor has its account rows, except those whose stamps and visibility were not in order.
- `LockSnapshots`: one map of the chain stands for the eleven that are read. A pass takes keys,
  values chunk by chunk (which may be lost), compares, inserts, verifies, flips the pointer and drops
  what nobody points at. `SnapshotsSound` says that what is published is whole and current.
- `LockTimeline`: what the locks of an account become, as tranches and as one timeline of
  overlapping locks, and the merges of several accounts for a tag, with the bounds on the dates kept
  apart. `TimelineSound` compares each with its definition at every instant.
- `ReferendumVotes`: extrinsics that vote, remove votes, or wrap such calls for other accounts, on
  the referendum of the page or another one, in the OpenGov and the Democracy pallet; how the page
  attributes the rows of an extrinsic to a referendum, an account and a vote. `VotesSound` compares
  with what the pallet holds for each account, the gauge with its tally, and the referendum that
  the feed names with the one the vote was cast in.

### Derivations

`now`, the source rows and when they become visible, what the price pipeline has reached, the live
table, its staging twin and the statements that run on the server, which outlive their process. What
is left of a cycle is a set of models, taken in the order of `JOBS` and of the months (`First`).
The price pipeline is two things, as for the code: `covered` is what the gate asks, whether the
month lies between the lowest and the highest row of `price_data.blocks`, and `priced` the rows whose
prices a valuation finds. Neither follows from the other: a range's block rows are flushed before
its prices, and containers that publish at once leave holes between the two heights, which
MainBackfill shows (`PricedRangeHasNoHole`, section 4). A month that is decided on may therefore be
valued before its prices are there.

`Inv` says that readers see the rows of one whole run, and that what a process takes for
rebuilt, whatever failed or died since, is what they find (`Remembered`; for each month,
`rebuilt` holds the process's watermark, how many rows could be counted when the month was decided on,
and how many of the month are held to be in place since); `NeverBack` that no run
replaces a newer one; `Converges` and `Settles` that what the watermarks can tell is counted in the
end and then left alone.

### LiveFeed

A page is the highest block it can show. The checkpoint, the poll of the API, the head it has
pushed, its probe and feed cache, nginx's cache by URL, and tabs with a stream, a visibility and a
fallback timer. A stream may be refused at any attempt (`Refused`): an `EventSource` that is answered
with anything but a 200, as by nginx with a 502 while the API restarts, is closed for good, and
`connectHead` makes no other while `source` holds the old one (`live.ts:106`, 115-118). `FeedSound`
says that a refetch keyed by a head never shows less than that head; `CatchesUp` that a tab that is
looked at gets to every block that lands, also the refused one, which has its timer alone.

The mutants of `PROJECT.json` stand beside the definitions they change in the modules, under
comments that say "Mutant": each is a plausible bug that the named property catches.

## 3. Runs

| run | bounds | shows |
| --- | --- | --- |
| `backfill_live` | 4 one-block ranges, 2 workers, limit 2, 1 death of worker or script, `FairSpec` | `NoHoles`, `SettledForever`, `HistoryCompletes` |
| `backfill_forks` | 2 chains, 2-block ranges, 1 death or fork, 1 skipped window, 1 failed insert | `Disjoint`, `CompletedIsWhole`, `CompletedDataStable`, `HotRetriesBounded` |
| `rawlive_follow` | 3 finalized blocks, 1 replacement, 1 death, 2 unanswered polls, depth 2, `FairSpec` | `Inv`, `RollbackJustified`, `TipRecovers` |
| `publish_range` | 3 blocks, 2 assets, bounded, chunks of two, 2 deaths, `FairSpec` | `ExactlyOnce`, `EventuallyPublished`, `ImplementsLedger` |
| `tools_live` | 3 blocks, 1 asset, 2 tools in a row, 1 death of each, 1 late insert | `Inv`, `CandlesExact`, `CheckpointKept` |
| `main_live` | established database at any height, head up to 3, 2 workers, 2 kills, 1 SIGTERM, 1 downgraded raw row, 1 death of the script, `FairSpec` | `ClaimsDisjoint`, `NoHole`, `HistoryPriced` |
| `pipelines_rows` | one of three machines. Balances: 3 blocks, 2 accounts, 1 fork, 1 pass of the script, 2 reads or processes that fail. Registry: 5 blocks, 1 asset beside the native one, 1 container. A block: four assets, up to five pools, 3 hops, 2 kept observations, 5 eras | `BalancesSound`, `RegistrySound`, `BlockSound` |
| `inputs_head` | 2 days, 1 quote, 1 pool, 1 failure or restart, `FairSpec` | `Inv`, `ReferenceConverges` |
| `directory_pages` | one of two machines, `AllFairSpec`. Directory: 2 keys, room for 1, 1 page, 1 reader, 1 death. Sampler: timeout 2, stale 2, queries of 1 | `Inv`, `SeedNeverOlder`, `PagesRecomputed`, `HeadSound`, `FreshAgain` |
| `livefeed_push` | 1 tab, 2 blocks, 1 break, restart or rollback, a refusal at any attempt to connect, `FairFeedSpec` | `FeedSound`, `CatchesUp` |
| `api_reads` | one of five machines. Window: 10 rows in 3 blocks and 2 that come in, 1 or 3 wanted. Queue: 3 swaps, 1 failure. Locks: 2 accounts, 1 change, 1 slip. Timelines: 2 accounts, 5 instants, 2 dates kept. Votes: 2 accounts, up to 3 acts, every pair in one extrinsic | `WindowSound`, `QueueSound`, `SnapshotsSound`, `TimelineSound`, `VotesSound` |
| `derivations_cycles` | 1 month, 1 whole model, 3 rows, 1 failure or death, `FairSpec` | `Inv`, `NeverBack`, `Converges`, `Settles` |

`Inv` of a module is its type invariant and the invariants named in its header.

Bounds appear in the guards and are named constants. They are small because every interesting
situation needs few actors. Two neighbouring ranges and one below them are the smallest history
with a hole; two-block ranges the smallest in which a worker dies in the middle, a window misses
a block and a checkpoint lies inside. A retry limit of two separates "failed once" from "blocked".
Chunks of two give a partial last chunk; one tool that dies and one that runs after it is every pair
of tools. A cache with room for one of two keys evicts at every turn. Two generations of a page, of
locks, of a model are an old and a new one; a third adds an order in which the older two do
not meet. A window whose tables are cut at depth 1 has every pair of families in which one reaches
deeper. Three hops over four assets are the shortest graph with two paths of different length to the
same asset and one path too long; two kept observations the smallest cap with a replacement and a
loser. Faults are one or two of each kind: a death, and a death during the recovery from it. Where a
theorem of section 5 covers every number of faults, processes or keys, as for the queue, the locks,
the directory, the sampler and the feeds, the run may be small: it is there for the actions, the
mutants and the liveness.

The deadlock check is on where the system polls for ever (RawBackfill, Derivations, PriceInputs,
LiveFeed); it is off where it may stop: a bounded publication ends, a directory nobody asks is at
rest, chains and clocks of the models have a last block and a last tick.

**Fairness** is weak fairness of processes that run: a container takes its next step, the script goes
on polling (its loop has no exit, and Docker restarts it), timers fire, wall-clock cooldowns pass, a
statement on the server ends, the chain finalizes what it has. Strong fairness stands only where the
code retries a call whose answer may fail in between: a gate or healer that asks the node again
(`RawLive`), an attempt of the sampler (`ChainHead`), a query of the directory that may fail and is
asked again by the next pass. In `directory_pages` each machine has its own fairness; `api_reads`
and `pipelines_rows` have safety properties only.

In `livefeed_push` a stream connects in the end unless it is refused; nothing makes it be refused or
not. Where a tab was refused (`Polling`), and only there, the caches also owe it to let go: the
probe lives 1.5 seconds (`explorerService.ts:967`) and a page in nginx two (`CACHE_CONTROL` of
`server.ts`), while the timer asks every six (`LIVE_MS`), so no poll meets what the one before left. Such a
tab shows the last block if it stays in view, as its timer does nothing while the tab is hidden
(`CatchesUp`, second conjunct). A tab loaded anew is another tab.
In `derivations_cycles` rows in flight arrive, the blocks table passes each month and prices follow, in
either order.

Nothing makes a fault, a new block or midnight happen, and faults are
finite, as they must be: a worker killed at every attempt never finishes.

## 4. Disagreements between the code and what it says

Found while modelling; each statement below is in the modules or is one of them with a conjunct
dropped. "TLC" names the cfg to start from, the constants to change, and the property TLC then
refutes; "reading" marks what was read and not modelled. Where a run's property needs an exception
to hold, the exception is named in the module and its row is here.

**Ingestion**

| what happens | TLC |
| --- | --- |
| `transact` saves the checkpoint at the end of the range before `finalizeRange` validates it (`src/raw/database.ts:69-88`). A range checkpointed with a missing block is only validated again on every retry (`src/raw/indexer.ts:299`), never re-read, against "archive gaps can heal later" (`scripts/ingestion-supervisor.sh:21`); the frontier stays blocked | `RawBackfill_live.cfg`, `Top=2`, `RANGE_SIZE=2`, 1 worker, `MaxFaults=0`, `MaxGaps=1`: `HistoryCompletes` |
| A worker failing validation on resume logs its failure twice and the script a third time (`src/raw/ranges.ts:319`, `src/raw/indexer.ts:304`, script 213), against "one row per failed attempt" (script 211) | the same, limit 3, `Spec`: `OneFailureRowPerAttempt` |
| A container that dies after finalizing makes the script overwrite "completed" with "failed" (script 184), against `tests/raw/ranges.test.ts:36`, which says so of `markRawRangeFailed` | `RawBackfill_live.cfg`: `CompletedNotDowngraded` |
| Two neighbours validating at once never compare their boundary (`src/raw/ranges.ts:257`), against "finalized only after block counts and parent links validate" (`README.md:120`) | `RawBackfill_forks.cfg`, one-block ranges: `BoundariesLinked` |
| A failed insert of the failed row loses a range without a row (script 202) | `RawBackfill_live.cfg`, `MaxInsertErrors=1`: `NoHoles` |
| A failed query of the range rows re-seeds the frontier (script 414), against "Once ranges exist they are lower" (script 415) | `RawBackfill_live.cfg`, `Top=4`, `MaxReadErrors=1`, `Spec`: `Disjoint` |
| The first block of a run has no parent check (`src/raw/indexer.ts:359`): a follower restarted across a reorg leaves a seam that no healer looks for; so does what a run without a checkpoint finds stored above its buffer | `LinkedBelow` without its exception for `seams`, or `MergedSeams` without `LeftAbove` |
| `docker restart` fails while the follower waits at its gate (script 806-807): it starts from its old position, above the row that was rolled back, and skips the span | the same |
| A failed insert of the script costs a range one attempt more than the limit, each time (script 179-216), against "Volume is tiny (one row per failed attempt)" (211) | `HotRetriesBounded` without `spent.inserts` |
| The healer may roll back a newer checkpoint on the strength of a row it read before (script 771) | `RollbackJustified` for the time of the insert instead of the pass |
| After a heal, rows of orphaned blocks stay and may hide others, against "re-indexing the forked span overwrites it" (script 797): the rows are keyed by account and height, and the new block may touch other accounts. At one height the larger `observation_id` wins | `BalancesSound` without `Orphaned` |
| A balance whose removal was missed (a failed read is one warning, never retried) is not corrected by `snapshot-balances.ts`, which "keeps dormant balances reasonably fresh": it reads what exists | `BalancesSound` without `~Exists` |
| An undecodable multi-asset event leaves a line on the console and no row in `raw_parser_warnings`; calls do get one | `BalancesSound`, `Noticed` for events |

**Prices**

| what happens | TLC |
| --- | --- |
| Without a checkpoint main-live resumes above `max(block_height)` (script 383), and block rows are flushed before prices: a death in between skips blocks, against `README.md:120` | `PricePublication_range.cfg`, `Deferred=FALSE`, `Assets={"BSX"}`, no upgrades, `MaxCrashes=1`: `CheckpointCovers` |
| An insert that outlives its client is not seen by the next probe (`src/store/clickhouseStore.ts:224`), against "what stop a replay from double-counting" (71) | `PricePublication_range.cfg`, `MaxLate=1`, `Spec`: `ExactlyOnce`, `NothingBeforeTheEnd`, `ImplementsLedger` |
| An upgrade at the first block of a run is never recorded (`src/indexer.ts:312`) | `PricePublication_range.cfg`, `Deferred=FALSE`: `UpgradesRecorded` |
| SIGTERM looks like success (`src/cli.ts:352`): the script removes the container of a half-published range (545), and nothing below the new minimum remembers the rest, against `README.md:30` | `MainBackfill_live.cfg`: `NoHole` without `Undisturbed` |
| A script that dies between removing and restarting a container forgets the range (550) | the same |
| A fresh price backfill may never start: the raw frontier is seeded by raw-live's checkpoint, main-live by the head it reads (681); if the second is higher, the block between them is in no raw range | `MainBackfill_live.cfg`, `RANGE_SIZE=1`, one range, one worker, `Established=FALSE`, no fault: `HistoryPriced` |
| A failed container is restarted without counting those that run (551), against "Keep up to MAIN_WORKERS" (649) | `MainBackfill_live.cfg`, one-block ranges: `WorkerCap` |
| The anchor is looked up twice per block (`src/indexer.ts:291`, `485`); what `lastSeedKey` remembers is the first, against 199-204: a block may be skipped although the prices in force came from another anchor | `CarriedQuiet` without its last two disjuncts |
| Native currency sent to a pool emits no `Tokens.Transfer`, and a migration at an upgrade drops the cache (324) without forcing the block: both may be skipped, against 199-200. A change of decimals likewise (reading) | the same |
| Blocks read from a snapshot never reach `processEvents` (415): the cached list is stale afterwards, and the next block read from the node uses it | `PoolsExact` without `~unseen` |
| The backfill script and a live settle may both write a day's close, with different prices, against "once stored, is never rewritten" (`scripts/backfill-ksm-reference.ts:29-31`) | reading |
| With more observations than the cap, what is kept depends on the order of arrival and need not be the richest of all paths (`src/price/graph.ts:205`) | `RichestKept` over all paths, `KEPT=2` |
| The volume of an asset without a price is left out of the price rows and kept in the account rows; an undecodable fill is a line on the console | `VolumesSound`, as modelled |
| Metadata published by a bounded container is older than the follower's and is shown over it, until the follower restarts or the asset changes, against "re-inserting them is a no-op after merge" (`src/store/clickhouseStore.ts:76`) | `Shown` without `overwritten` |
| A change (or a failed read of a location) that a node block inserted and the next snapshot block undoes is not inserted again (`src/indexer.ts:359`, `372`) | `Shown` without `hidden` |

**Tools**

| what happens | TLC |
| --- | --- |
| A rollback killed between deleting blocks and clearing candles cannot be healed by a second run: the range is read from the deleted blocks (`src/cli.ts:252-259`), and the replay doubles the candles | `CandlesExact` without `~torn` |
| A volume repair killed between `deletePriceKeys` and `insertPriceRows` loses the prices, and every second run throws | `CheckpointKept` without `~torn` |
| What the pipeline inserts between the clearing and the rebuilding of an interval counts twice; the lag protects only if it is at least a batch | `CandlesExact` without its last disjunct |
| A rollback to a block above the checkpoint moves the checkpoint up and skips blocks (`src/cli.ts:310`) | `Reached` replaced by `Height`: `CheckpointKept` |
| A chunk with a swap against an unpriced asset throws in `buildRepairedPriceRows`, against `repair-volume.ts:226-231` and `tests/scripts/repair-volume.test.ts:25-28` | constant `Exotic` |
| A rollback beside a running pipeline breaks both; the supervisor restarts a stopped main-live, so the script must be stopped too | `ToolsAlone=FALSE`: `Inv` |

**API and live feed**

| what happens | TLC |
| --- | --- |
| The pass that refreshes the directory is content with a young persisted page (`explorerService.ts:11893-11895`), against 11954-11955 | `RefreshRebuilds` |
| A persisted page is adopted as fresh for 30 minutes beyond its tolerance of 10 (12156-12158); if looking up and persisting both fail, the pass installs an older page | `SeedNeverOlder` within the tolerance only |
| `accountValueGenerationEpoch` (938) is never advanced, against 934-936 | reading |
| A tab whose stream was refused polls only at ticks that find it in view, and coming into view refetches nothing (`main.tsx:15`): looked at between two ticks and hidden at each, it stays behind | `CatchesUp` without its second conjunct |
| A stream that breaks while the hidden tab still owes a refetch is forgotten (`live.ts:41-48`) | `CatchesUpWhateverHappens` |
| "Only ever advances" (`live.ts:93-94`) does not hold after a reorg's rollback | as modelled, `LiveFeed` |
| An older answer of the chain head may overwrite a newer one, by at most a timeout | `ReportedRecent` without the timeout |
| A window keeps a table as complete back to the day of a cutoff that a later round moves to an older day: older rows are missing, against 385-389 | `WindowSound` without `CutShort` |
| Under an exact value floor a swap that pays for a send below the floor is shown as a trade; an owner dispatched by a hook below the oldest row of its table in the cutoff's block is not fetched | without `Unfolded`; event by event instead of block by block |
| The window for trades reads no sends, that for transfers has a branch of its own, against "ONE classification pass" (6690-6691); a filtered page ends early when duplicates shorten what it read (287-345) | reading |
| Queue rows whose stamps and visibility are not in order are passed by the drainer; hook swaps are named by a view that may come later; the seed leaves hook swaps out, against `accountSwapQueue.ts:3-5` | `QueueSound` without `late`, `unnamed`; `HandedOver` for all swaps |
| A lost chunk of values is published as accounts without locks, against `lockBreakdownService.ts:1073-1074`, 447-448 and `substrateRpc.ts:51-55`; the proxies have the same hole (`proxyMultisigService.ts:111-130`) | `SnapshotsSound` with `moved` alone exempt |
| An insert of the pointer that lands after a later pass compared puts an old generation back until the next pass | `SnapSpec`, `FLOOR=3`, `LastTick=4`, `MaxSlips=2`, without `Overtaken` |
| A request asks for the pointer in each of its three queries: its answer may mix two generations | reading |
| A vesting schedule frees balance between the dates of the timeline, against "the balance cannot free before that date" (`lockBreakdownService.ts:394-397`, 99-100) | `MinimumKnown` with a vesting |
| The gate of the months compares them with min and max of `price_data.blocks` (`jobs.ts:168-178`). Block rows come before prices, and two price containers leave a hole between min and max until the upper is done, against "Price backfill descends contiguously (supervisor), so coverage is monotone and each partition computes exactly once it is priceable" (134-136) and "the next contiguous block" (script 646-647). A month valued over a hole drops its unpriced rows, and nothing marks it again (one that wrote no row at all, the daemon's next restart does) | `MainBackfill_live.cfg`, one-block ranges, no fault: `PricedRangeHasNoHole`; `Converges` without `Overtaken` (`MonthsConverge`) |
| A month that nets to nothing is a candidate for ever, and one that was emptied is never rebuilt (`jobs.ts:121-122`) | `MonthsConverge` |
| A one-shot run beside the daemon passes the guard between its probe and its truncate (`jobs.ts:40-43` admits it); afterwards the watermark hides the emptied month | `Procs <- WithOneshot`, `Once <- Oneshot`: `Inv`, `Converges` |

**Governance**

| what happens | TLC |
| --- | --- |
| The page of a referendum takes every `Voted` event of an extrinsic whose calls name it: a batch that votes on two referenda shows the vote cast in the other one, though "a batch of five votes has five" (`governanceService.ts:664-665`) | `VotesSound` without `Entangled` |
| A wrapper that removes votes of several accounts on several referenda does lend one of them an account that voted on its sibling, against 860-861 | the same |
| A vote and its removal in one extrinsic are shown as a standing vote, against "an extrinsic holds at most one vote per account" (785-786) | `VotesSound` without `Twice` |
| Split votes and batches under a permit, and wrapped calls of the Democracy pallet or from before the pallet had events, are not seen | `VotesSound` without `Unseen` |
| After `ConfirmAborted` a referendum is shown as confirming for ever; page and directory disagree about an enactment that was retried, the one taking the first dispatch row and the other the last; a motion that is executed at once rewrites the status of a closed one with its hash; a reused tip hash drops the older tip; the gauge rounds where the pallet floors | reading |
## 5. Proofs

Eight modules hold theorems, each for every value of the constants its module's ASSUME allows: every
number of blocks, ranges, workers, keys, accounts, tabs, months, deaths and faults. "Assumes" is what
a theorem needs beyond that.

| module | theorem | says | assumes |
| --- | --- | --- | --- |
| `RawBackfill_proofs` | `TypeCorrect` | `Spec => []TypeOK` | - |
| | `WorkersCapped` | `Spec => []WorkerCap` | - |
| | `RangesDisjoint` | `Spec => []Disjoint` | `MaxReadErrors = 0` |
| | `CompletedRangesWhole` | `Spec => []CompletedIsWhole` | `MaxReadErrors = 0` |
| | `CompletedRangesStable` | `Spec => CompletedDataStable` | `MaxReadErrors = 0` |
| | `CompletedRangesSettled` | `Spec => SettledForever` | `MaxReadErrors = 0` |
| | `RetriesBounded` | `Spec => HotRetriesBounded` | `MaxReadErrors = 0` |
| | `HistoryHasNoHoles` | `Spec => []NoHoles` | `MaxReadErrors = MaxInsertErrors = 0` |
| `PricePublication_proofs` | `TypeCorrect` | `Spec => []TypeOK` | - |
| | `PricesBehindBlocks` | `Spec => []PricesHaveBlocks` | - |
| | `ReplayCountsOnce` | `Spec => []ExactlyOnce` | `MaxLate = 0` |
| | `NothingEarly` | `Spec => NothingBeforeTheEnd` | `MaxLate = 0` |
| | `CheckpointKeepsItsWord` | `Spec => []CheckpointCovers` | `AnchoredRun` |
| | `PublicationImplementsLedger` | `Spec => ImplementsLedger` | `AnchoredRun`, `MaxLate = 0` |
| | `ToolsTypeCorrect` | `ToolsSpec => []ToolsTypeOK` | - |
| | `ToolsKeepCheckpoint` | `ToolsSpec => []CheckpointKept` | `ToolsRun` |
| | `ToolsSafe` | `ToolsSpec => []Inv` | `ToolsRun`, `LagHolds` |
| | `CandlesAddUp` | `ToolsSpec => []CandlesExact` | `ToolsRun`, `LagHolds` |
| `MainBackfill_proofs` | `TypeCorrect` | `Spec => []TypeOK` | - |
| | `ClaimsNeverMeet` | `Spec => []ClaimsDisjoint` | - |
| | `LiveStaysAbove` | `Spec => []LiveAboveClaims` | - |
| | `HistoryHasNoHole` | `Spec => []NoHole` | - |
| `RawLive_proofs` | `TipSound` | `Spec => []Inv` | - |
| | `RollbacksJustified` | `Spec => RollbackJustified` | - |
| `Pipelines_proofs` | `BalancesTrue` | `BalanceSpec => []BalancesSound` | - |
| | `RegistryKept` | `AssetSpec => []RegistrySound` | - |
| | `BlocksOweNothing` | `Spec => []Inv` (PriceInputs) | - |
| | `BlockSafety` | `BlockSpec => []BlockSound` | - |
| `ApiCaches_proofs` | `CacheSound` | `Spec => []Inv` | - |
| | `SeedsNeverGoBack` | `Spec => SeedNeverOlder` | - |
| | `HeadIsRecent` | `HeadSpec => []HeadSound` | - |
| | `PushesServed` | `FeedSpec => []FeedSound` | - |
| `ApiReads_proofs` | `TypeCorrect` | `QueueSpec => []QueueTypeOK` | - |
| | `QueueLosesNothing` | `QueueSpec => []QueueSound` | - |
| | `GenerationsWhole` | `SnapSpec => []SnapshotsSound` | - |
| | `WindowsComplete` | `WindowSpec => []WindowSound` | - |
| | `TimelineSafety` | `LineSpec => []TimelineSound` | - |
| | `VotesSafety` | `VotesSpec => []VotesSound` | - |
| `Derivations_proofs` | `RunsWhole` | `Spec => []Inv` | `Alone` |
| | `NothingGoesBack` | `Spec => NeverBack` | `Alone` |

The assumptions, and why the theorems have them:

- `MaxReadErrors = 0`: the supervisor's queries do not fail. Section 4 shows `Disjoint` violated
  with one failed query, and the others rest on it. Failed inserts, deaths, forks and
  gaps are all allowed, but for `HistoryHasNoHoles`: section 4 shows `NoHoles` violated when the
  failed row of a range is not inserted.
- `MaxLate = 0`: no insert outlives its client. One that does may land in the next run, before it
  has computed anything (`NothingEarly`), and section 4 shows `ExactlyOnce` violated with
  one.
- `AnchoredRun`, a bounded run or a pipeline with a checkpoint (`Deferred \/ ~Fresh`): what it
  excludes is the fresh live pipeline of section 4, which violates `CheckpointCovers`.
- `ToolsRun` (`~Deferred /\ ~Fresh /\ ToolsAlone`): the tools run on the main tables, beside a live
  pipeline with a checkpoint that stands still during a rollback; section 4 shows what becomes
  of a rollback beside a running one. `LagHolds` (`BATCH <= SAFETY_LAG`): the lag of 100 blocks is no
  shorter than what the pipeline hands over at once.
- `Alone`, one process of the derivations runner, which may die and be started again any number of
  times beside what it has left on the server: `jobs.ts:40-43` admits that a second process
  may pass the probe at the wrong time, and section 4 shows `Inv` violated by one.

Where a property has an exception in its own text (`Undisturbed`, the seams of `LinkedBelow`, `late`
rows of the queue, `hidden` assets), section 4 says what happens without it. In each module the
induction has one step per action and is closed by PTL.

### RawBackfill

`TypeOK` is not inductive: a worker's start position is computed from its checkpoint, so
`TypeInv` adds that a checkpoint lies in its range and that a buffer lies between the start of
the range and the position (`WorkerPositions`). `SafetyInv` adds to it

- `ScriptInv`, what the script's last listing is still worth when it is used: it names only
  ranges that exist and never the one in hand, the frontier phase has none in hand, and
  recovery never holds a range that is completed and whose container is gone;
- `Disjoint` itself: the frontier is the minimum of all claims, so the next range lies
  below every one (`FrontierBelow`), and every other action takes no new range (`NoNewClaim`);
- `CheckpointInv`: a worker that validates, finalizes or has done so has its checkpoint at the
  end of its range; so has a completed range, whose worker can no longer be in the steps that
  write blocks. A worker restarted on a completed range therefore writes nothing;
- `TrustedInv`: a range that has passed validation, and every completed one, is `Whole`. No
  other worker can spoil it, because ranges are disjoint (`TrustedBlocksStable`).

`CompletedIsWhole` is part of `TrustedInv`; two action properties follow from `SafetyInv` at
each step. `HoleInv` adds to it that a range whose container is removed leaves a row
(`LeavesRow`), which is what a failed insert would break, and that ranges are below raw-live; then
what anybody knows of has no gap, because a launch takes the range right under the lowest one
(`FrontierLeavesNoHole`). `HotInv` counts: an attempt that has ended is in the failure log, or
about to be, or cost a failed insert (`AttemptsInv`); the first statement of `HotRetriesBounded`
allowed one attempt more in all, and the proof showed that each failed insert costs one. The cap needs its own invariant, `CapInv`: in the steps "restart" and "start",
between the slot check and the start, one slot is free.

### PricePublication

`TypeOK` is inductive. The others strengthen it separately, so that each theorem assumes no more
than it needs:

- `OnceInv`: what the last probe found missing is still missing when the insert comes. This
  is where a late insert would break in.
- `AtTheEnd`: a bounded run reaches the statements that write only at its last block.
- `ChunkSettled`: a row of the chunk in hand is about to be inserted or is stored, so `Insert`
  settles the whole chunk.
- `BlocksFirst`: a price or volume row that is stored, or still on its way, has its block row
  stored; one that is buffered has it stored or buffered beside it; one in the chunk in hand
  has it stored, because `flushAll` begins with the block rows.
- `CoverInv`: while a process runs, everything owed up to its position is stored or buffered,
  and at the checkpoint the buffer is empty. A restart keeps it (`RestartCovered`), and here
  a live pipeline without a checkpoint would not.

The refinement rests on their conjunction with `MarkInv` (the mark never passes the position, and
a bounded run does not move it before it is done): `Insert` is the ledger's `Write`,
`Checkpoint` is its `Settle` or a stutter, everything else stutters.

### PriceTools

`ToolsType` keeps the tool on the path of its kind. Three invariants, each kept by the pipeline and
by the tools apart:

- `KeptRows`: what is owed is stored, buffered, or taken out by a tool that will put it back
  (`Gone`: all above the target of a rollback, the volumes of the chunk in hand and of the chunks a
  dead repair will do again, the prices of the chunk in hand). `torn` marks the deaths after which it
  will not.
- `VisibleInv`: a rollback leaves no row above its target in the tables it has been through
  (`RolledBack`), so blocks go last; a repair adds only rows of blocks that are there.
- `LagInv`: the pipeline only writes above its checkpoint and at most a batch above it, also after a
  rollback; so the safe tip lies at or below the checkpoint (`SafeTipBelow`), and an interval fed during a
  rebuild has a block above the range of the repair.

`CandleInv` follows each candle through a tool. While a repair is at work every candle of its range
may be spoilt (`Suspect`) until the table has been filled again, and one that is cleared holds
nothing or has been fed (`RepairedCandle`); outside the range nothing changes. In a rollback the
candles below the target stay exact, but for the interval between clearing and restoring; those above
it are all in the range read from the blocks (`RolledCandle`), because a candle that holds anything
still has the block row that leads to it (`Traced`). That last fact is what a death loses
once the blocks are deleted and before the candles are cleared, and why `torn` is set there.

### MainBackfill

`ClaimInv` strengthens the two properties with

- `ListInv`: what the script listed for cleanup is still there;
- `ClaimsBelow`: the block table reaches at least up to every claim, and so does main-live's
  checkpoint. This is why a main-live that is started again at its checkpoint, or without one
  at the top of the table (`LiveStart`), comes out above every claim;
- `LiveInTable`: the checkpoint and the last flush are in the table, and main-live leaves no
  gap below itself, so a launch below the minimum of the table is below main-live too.

`LaunchBelow` is the core of it: a launch takes the blocks right under everything that is claimed
or written, and nothing else makes a claim (`NoNewClaim`). No fault needs to be excluded: the
holes of section 4 lose blocks, they never make two containers meet.

`NoHole` needs two facts more while `Undisturbed`: a container that has finished has its range in the
table, and a running main-live stands on a block of the table if there is one. Then nothing that is
forgotten was ever outside the interval.

### RawLive

A branch is known by its number, a block by the branch that minted it. `TipInv` says that branches
share what lies below a common block (`PrefixInv`), that nobody holds a block of a branch to come
(`KnownInv`), where the gate and a run stand (`GateInv`, `RunInv`), and that what the healer has read
is still so when it acts on it (`HealInv`): nothing writes at or below the height it probes, so the
block it compares is the one that is stored, and the chain it was compared with is one of its
pass. `LinkInv` is `LinkedBelow` for everything a later step may turn into "below the
checkpoint": the stored blocks, the buffer laid over them, and, without a checkpoint, all of the
table. It was not inductive at first: a flush of a database without a checkpoint leaves
blocks of an earlier run above it, which is how `LeftAbove` came to be a seam.

### RawBalances and AssetTable

`BalanceInv` follows a row from its read to its answer. No fork returns, so what a row says of its
block is true for as long as that block is on the chain (`TrueRow`, `Past`); every change that can
be noticed below a checkpoint has its row or its warning (`LeftBehind`), and so has the block in
hand, where the batch counts for what is not yet inserted (`Job`); a pass of the snapshot script
and what finished passes leave have a row for all that was in storage at their anchor (`Pass`,
`Seeds`). It also covers a reorg deeper than the follower's first block, where the healer
sends the follower back into blocks of the worker, which no small instance showed.

`TableInv` ties the cache to the chain and the table to the cache: the cache has the labels of the
last scan, no block since tells of a change, and at the head that scan is not far (`ScannedWell`);
what is shown is what the cache or the last snapshot had, or waits in the batch, or is one of the
exceptions (`CacheShown`, `PreviousShown`, `BatchKnown`).

### PriceInputs

`RefInv`: the index, and a reload on its way, have nothing the table has not. `PoolsInv`: the list of
pools is the chain's unless snapshot blocks were gone through with it, and while prices are in force
either there is a list or the last snapshot has the chain's pools. The second half is why a pool that is
gone is noticed in a snapshot block, though its own account is no longer among the block's: the
composition differs from the last snapshot, or the list in hand is marked as `unseen`.

`AnchorInv` orders the anchors of one day: none, then the closes by day, then the rows of the
day by quote (`AtMost`). Table and index only move up in that order (`ReferenceGrows`, `LookupGrows`), but for
a reload, and a reload that is asked for after prices were resolved has at least what the index had
then. So the anchor of a block's first lookup is at most that of the second, which is at most
what any later lookup for the day finds; when a later first lookup finds the remembered anchor
again, all three are one (`AnchorDecided`). It needs the day to be live (`Live`): past
`LIVE_WINDOW` the rows of the day no longer count and a lookup may fall back, which is the exception
in `CarriedQuiet`.

### PriceGraph and BlockVolumes

An observation stands for its path: `Walk` gives what a price becomes along a path, and everything in
the queue and in `seen` is the end of the walk of its own path (`Real`), because a further pool is a
further step of the walk (`OneFurther`). On the way to an observable path every beginning is observable
too: a price that is cut off to nothing stays nothing and the thinnest pool only gets thinner
(`OnTheWay`). `SearchInv` has the queue on the border between what was seen and what was not:

- no entry of the queue lies before anything seen (`NotYet`), so nothing is observed twice
  (`OfferedFacts`);
- where nothing was dropped, everything observable that was not seen lies behind an entry of the queue
  (`AllAhead`): when the queue is empty, all was seen;
- what is kept of an asset is the best of what was made (`Richest`): a new one is refused, added or
  put in the place of the worst (`KeptAsIs`, `KeptOneMore`, `KeptInstead`), from the order of the
  comparison (`BetterIsOrder`).

The definition of the median by running sums over the sorted list and the one by weight at or below a price
agree (`MedianIsPrice`), since the order sorts by price first and every weight is positive.

For the volumes, the trades read from a block are its known fills under other names (`OneTrade`,
`TradesAre`), by cases over the era, the pallet, the fixed side and the shape of the event. So the sums over
trades are sums over fills (`RowIs`); those of the traders partition those of the asset
(`SharesAddUp`); and truncations add up to less than a unit per trade (`FloorsAddUp`). `^` has no theory in
the provers: `PowersAssumption` says that the powers of 10 in use are positive
integers, which TLC evaluates, and nothing else is assumed of them.

### ApiCache, AccountDirectory, ChainHead, LiveFeed

The order of accesses is a strict order on the entries, so `prune` leaves the newest `MaxEntries` of
them whatever they are (`AmongOrder`, `TouchedOrder`). `StoreInv` and `FlightInv` are kept apart, as
most steps touch one of them: `Bounded` and the tolerance of an adopted page on one side, one
computation per key and the slot it is known by on the other. `SeedsNeverGoBack` follows at
the step that adopts.

`HeadInv` bounds each age by the ones it came from: a height by its sample, a sample by the
timeout, a status by its query and its ttl. A third attempt cannot start because the marker is
younger than the timeout that makes the first one give up.

`FeedInv` says that a page the feed cache or nginx keeps under a head shows at least that head
(`PagesServe`), and that a head a tab may ask with has landed and either has been pushed by this
process or is in every page the process keeps (`KnownAt`): a restart drops the pages with the
memory of what was pushed, and a rollback takes back neither.

### SwapQueue and LockSnapshots

A drainer's place is behind all it has worked off (`RunsBehindWork`, `SavesBehindWork`), also where
it holds a cursor that a dead process may still save; a row that is visible at or below it has its
account rows or is `late` or `unnamed`. Until the seed is done nothing reads the queue, and a swap
that was there before is listed or the seed is still to come to it (`SeedingFirst`).

`SnapInv` numbers the generations by the clock (`Numbered`). What may still land late is a row of a
partition nobody points at or will, a drop of one older than the pointer's, or a pointer that
either names a whole partition or no longer counts (`Floating`); so what the pointer names is
whole (`Whole`), and a query that has looked it up finds all of it, or nothing because it was
superseded (`Looked`). `Progress` and `Accurate` say what a pass has read and inserted so far.

### ActivityWindow

`WindowInv` says what each source holds: the newest `limit` rows of what it could see when it was last
read, which is all that was known when the request came and perhaps some of a new block
(`ReadBack`). A read that returns fewer rows than its limit has all of them, and any read has what is
newer than a row it returns (`NewestFacts`), so when every source covers the cutoff each has all rows of
the blocks above it (`BlocksRead`); new rows are in later blocks. What is shown of a block depends
only on the rows of that block (`BuildSame`). Under an exact floor a source has only its large
rows; then every rule that may hide a large row is looked up in the tables, but for the swap of
`Unfolded` (`BuildLarge`). Two rows in one place are allowed: the cutoff is any last row of the window.
That doubling 1 or `SEED` reaches the depth wanted is `DepthAssumption`, which TLC evaluates: powers are
beyond the provers.

### LockTimeline

The state is what was collected of each account and what was merged of it, so `LineInv` only says what
these are built from; the work is in the operators. Sums over finite sets are worked with as functions
(`SumOver`), by induction over the subsets of a finite set (`SubsetsFill`): they split, agree, are
renamed and are grouped by a key (`SumGroups`, `SumPartsOf`). The argument for one account:

- the envelope never grows (`EnvelopeFalls`), so the drops at the steps kept telescope to what is
  bound at the first date less what is bound at the last (`StairTotal`). With the residual that
  is all that is locked, also where dates were folded into the last that is kept;
- between two steps nothing the envelope is made of changes. So what is still to come of the
  slices at any instant is at least the envelope there, and equal to it when no date was folded;
- a tranche of votes is released when the last lock that holds it ends: what is bound at an instant
  is the most any class asks for (`VoteBound`), and the tranches after it add up to that.

A merge renames and groups: parts with one cause and date are one slice (`IsGrouping`), so sums over what
is free by an instant carry over, and the tail that is folded lies at its last date, later than any
of its parts.

### ReferendumVotes

The books of the pallet are a fold over the acts of an extrinsic; what it leaves for an account is its
last act (`FoldIsBook`). `VotesInv` carries that over the history: `counted` is the last act that
was dispatched while the referendum ran (`LastCounts`), and votes are only taken then. On the page's
side the rows of a `Clear` account are exactly its votes (`VoteRowIs`, `VoteHasRow`) and its
withdrawals exactly the extrinsics in which it removed one before the conclusion
(`WithdrawalsAre`), in each of the three ways the page has of finding them; so the last of both is the
last act (`ShownIs`). The conversion of weights is case by case (`WeightIsCounted`). `CASE` had
overlapping guards in `VoteRows` and `FeedNames`, where TLC takes the first: the proof did not go
through until they were `IF`s.

### Derivations

`DerivationInv` says of each statement on the server what the tables are when it ends (`Founded`), that
no two of them are about the same twin (`Alike`), and that the statement of a living process is the
one it waits for (`Owns`); the probe of `system.processes` and the one process are what keeps that
so. Nothing in the tables has counted rows that are not there (`Bounded`); with what was
read ahead (`ReadAhead`) this is why a fill never counts less than what is shown (`Newer`), which is
`NothingGoesBack`. `Remembered` needs the way from the decision to the swap: what could be counted when a
month was decided on can still be counted while it waits its turn (`Plan`; prices and rows only
come), so the fill counts it, staging has it at the swap and the table after it (`Brings`). Until then
the process remembers only what it found before, which a later swap does not take away
(`Remembers`).

**Beside the runs.** `TypeOK`, `WorkerCap`, `PricesHaveBlocks`, `CheckpointCovers`,
`NothingBeforeTheEnd` and `LiveAboveClaims` are proved and hold on every instance of section 3, but
no run of their own repeats them.

**Only model-checked**:

- liveness (`HistoryCompletes`, `EventuallyPublished`, `HistoryPriced`, `TipRecovers`,
  `PagesRecomputed`, `FreshAgain`, `CatchesUp`, `Converges`, `Settles`, `ReferenceConverges`), which
  needs fairness and ENABLED.

Every safety invariant and every action property of section 3 is a theorem. Inductions over numbers
and finite sets are written out with sets (`NaturalsFill`, `SubsetsFill`).
## 6. Not modelled

- In the modelled components: the payload of rows, flush thresholds (a flush may follow any
  batch), the wording of failure reasons, `health_snapshot`. MainBackfill leaves out the fallback
  to block 0 when the chain head cannot be read. RawBackfill takes raw-live as a checkpoint that
  rises, which RawLive makes real. PriceInputs leaves out CoinGecko's and Binance's quotes
  (a price is known by when it was quoted). PriceGraph leaves out the merge of two observations
  with one path, which one pool per pair cannot produce. ActivityWindow has four families of
  tables of the nine. AccountDirectory has one persisted page and leaves out the other prewarm
  passes.
- Raw extraction of XCM messages and pool snapshots, the decoding of calls and events, generated
  types: pure functions from blocks to rows.
- The other read services of the API (feed of one account, phases and committees, multisig pages, charts),
  the explorer UI but for its live feed: reads over finished tables.
- ClickHouse: `FINAL`, replacing keys, additive views, `system.processes`, partitions are
  modelled where the code relies on them, as external definitions.
- Configuration, eras and native asset tables, one-off snapshot scripts: constants and parsing.

Hazards that no property covers yet, beside those of `PROJECT.json`: a hash is compared only within
a run (`src/raw/indexer.ts:359`), a stopped container does not count against the cap until it is
restarted (script 551), and an upgrade at the first block of a run leaves no row (`src/indexer.ts:307`);
each is a row of section 4.

## 7. Plan

Done: RawBackfill, PricePublication with its ledger, MainBackfill; RawLive; PriceInputs and
KsmReference; PriceGraph and BlockVolumes; AssetTable; RawBalances; PriceTools; ApiCache with the
directory; ChainHead; LiveFeed; ActivityWindow; SwapQueue; LockSnapshots; LockTimeline;
ReferendumVotes; Derivations. Proofs about all of these but for what section 5 names.

Left, in order:

1. The feed of one account: paging, its ceilings, and what a window folds
   (`explorerService.ts:9046-9808`).
2. Phases of referenda and motions (`governanceService.ts`), and the reconstruction of multisig
   operations (`onBehalfActivity.ts`), against the chain's own rules.
3. XCM rows: pairing a send with its receipt, and the range algebra of `src/raw/ranges.ts`.

Abstract specifications worth stating: the ledger (done); a contiguous frontier that grows downward,
implemented by RawBackfill and MainBackfill; a register that never goes back, for heads, pages
and generations.
