# arb-router in TLA+

TLA+ modules, TLC configurations and TLAPS proofs for arb-router (`src/`), a
Rust program that looks for arbitrage across on-chain exchanges. Every chain has
a *sync* task that publishes pool snapshots, and a *scan* task that searches the
latest snapshot for profitable paths and replaces what the HTTP API serves. Two
more tasks write prices. This document says what the parts of the program are,
which module models which part, what the runs check, what is proved, and what is
left out.

## 1. Inventory

| Part (path under `src/src`) | State it keeps | Operations | Talks to |
|---|---|---|---|
| Pool store (`adapters/pool_store`, `core/deps/pool_store.rs`) | per chain one atomically swapped `Arc<PoolSnapshot>` | `store`, `snapshot` | written by the sync worker, read by scanner and API |
| Sync worker (`adapters/pool_store`) | the locals of a tick: pinned block, `now`, what each exchange returned | `refresh_once`, `refresh_exchange`, `run` | chain reader and exchanges (RPC), pool store |
| Chain reader (`adapters/chain_reader`) | none | `latest_block` | RPC node |
| Exchange bridge (`adapters/exchanges`) | none that changes | `supports`, `discover`, `refresh`, `quote`, translation of ids and keys | amm-rs, RPC node |
| Asset graph, path finder (`core/application/graph`) | the recursion's path and used pools | `edges_from`, `find_paths` | snapshot |
| Scanner (`core/application/scanner.rs`) | the locals of a tick: snapshot, `now`, opportunities | `scan_once`, `evaluate`, `price`, `run` | pool store, valuation, executor, notifier |
| Evaluation (`core/application/evaluation`) | none, but for rank's map | `detect`, `validation`, `rank` | valuation |
| Notifiers (`adapters/notifier`) | per chain the served opportunities | `notify`, `get`, `all` | written by scanners, read by API |
| Read API (`adapters/api`) | none | three GET handlers | memory notifier, pool store |
| Price store, valuation (`adapters/valuation/mod.rs`) | two maps from asset to price and time | `set_*`, `price`, `price_and_source` | written by two feeds, read by scanners and warm-up |
| Binance feed, CoinGecko feed (`adapters/valuation`) | backoff; nothing | `run`, `stream`, `ingest`; `run`, `refresh` | Binance socket, CoinGecko HTTP, price store |
| Executor (`adapters/executor`) | none | `build` | snapshot, amm-rs |
| Wiring (`setup.rs`, `main.rs`) | the shared services, and how far the loop over the chains has come | `build`, `build_services`, `build_chain`, `build_exchanges` | settings, everything |
| One-shot mode (`setup.rs`) | the locals of `run_once`, `warm_prices` | `run_once` | everything |
| Provider and retry (`adapters/rpc`), settings, primitives | none | constructors, `retry_with_backoff` (no caller), parsing | - |

### What is hard here, and what makes each part correct

*Sync.* A tick reads the block height, then runs all exchanges at once, each
with two calls that take any time and may fail, while the chain grows and
reorganises and the node may answer from behind. It is correct if no reader sees
a snapshot torn across blocks, if a failed tick changes nothing, if one
exchange's failure costs only its own pools, and if the store gets ahead again.

*Scan.* A tick keeps the snapshot it loaded although newer ones are published,
judges freshness by a `now` taken before the evaluation, and awaits on every
price. It is correct if what is served was quoted on one block and was fresh when
detected, if a newer served set is never replaced by an older one, and if a sync
that stops ends in an empty served set, not in the last profitable one.

*Path finding and ranking.* A depth-first search with a shared `used` list and a
beam; a deduplicating loop over a hash map. Correct if exactly the trails are
found and if nothing but worse duplicates is dropped.

*Evaluation.* Up to four price reads, with feeds writing in between: what the
verdict on a path means if its two ends were priced at different times.

*Feeds.* A reconnect loop with a receive timeout and a doubling backoff, a poller,
and a staleness window that has to outlast one and to end what the other leaves
behind. Correct if a dead feed yields to the other, and if every fault from which
a feed can recover is recovered from.

*One-shot mode.* A wait for prices with a deadline, which reads price after price
while they change.

*Wiring.* `build` spawns the tasks of a chain before it looks at the next one, so
they sync and publish while a later entry may still end the start. Correct if bad
entries cost only themselves, if nothing but a malformed id or an unusable socket
ends the start, and if what the API lists, what is synced and what has a node
are the same chains.

*Bridge.* Ids are compared byte for byte, but cross into amm-rs, where they are
numbers and slots, and are written anew on the way back. Correct if an id comes
back as the settings have it, as otherwise nothing matches and nothing fails.

The complete list of hazards, each at its line and with the properties that cover
it, is in `PROJECT.json`.

## 2. Modules

| Module | Models | Extends |
|---|---|---|
| `Snapshots` | `PoolSnapshot`, its construction and `by_id`, `is_fresh`, `worst_synced_at` | - |
| `PoolStore` | the slots of `ArcSwapPoolStore` | `Snapshots` |
| `PoolSync` | the sync workers, the chains and their RPC nodes | `PoolStore` |
| `SnapshotRegister` | the abstract specification of the store | - |
| `Scanner` | `scan_once` step by step, `MemoryNotifier` | `PoolStore` |
| `Pipeline` | sync and scan tasks composed over one store (`setup::build`), and the API's clients | `PoolSync`, `Scanner` |
| `ServedBoard` | the abstract specification of what API clients are promised | - |
| `Routes` | `Path`, `is_cycle`, `canonical_key` | - |
| `PathFinder` | `Graph::edges_from`, `find_paths` | `Routes` |
| `Ranking` | `rank_and_dedup` | `Routes` |
| `ScanOnce` | what `scan_once` makes of one snapshot: all searches, then the ranking | `PathFinder`, `Ranking` |
| `Evaluation` | `Scanner::evaluate` of one path with the sums of `detect.rs` | - |
| `Executor` | `AmmRpcExecutor::build` for what `Evaluation` reports | `Evaluation` |
| `PriceFeeds` | price store, Binance feed, CoinGecko feed | - |
| `OneShot` | `run_once` and `warm_prices`, over the feeds | `PriceFeeds` |
| `Bridge` | ids, and their translation to amm-rs and back | - |
| `Startup` | `build` and all it calls, over good and bad settings, and the ticks of the workers it spawns | `Bridge` |
| `Recursion` | lemmas that a proof can cite: induction over the numbers, recursive functions, flattened sequences | - |
| `PoolSync_proofs` | theorems | `PoolSync` |
| `Pipeline_proofs` | theorems | `Pipeline`, `PoolSync_proofs` |
| `ScanOnce_proofs` | theorems, of the search, of canonical keys, of the ranking and of the scan | `ScanOnce`, `Recursion` |
| `OneShot_proofs` | theorems, of the feeds and of the one-shot mode over them | `OneShot` |
| `Evaluation_proofs` | theorems | `Evaluation`, `Recursion` |
| `Executor_proofs` | theorems | `Executor`, `Evaluation_proofs` |
| `Startup_proofs` | theorems, of the start and of ids that go through amm-rs | `Startup`, `Recursion` |
| `MC*` | small instances for TLC | the module they are named after |

Operators whose comment begins with "A mistake:" are no part of a specification.
Each is one definition as a plausible bug would have it, and stands for it in a
test that TLC can see the bug.

### How state and actions correspond to the code

`PoolSync`: `phase[c]` is the await at which the task of chain `c` is; `at`,
`now`, `task`, `keys` and `pools` are the locals of `refresh_once`. `AnswerHead`
and `ReadFails` end `latest_block`; `PinBlock` runs from its answer to the
spawning of the exchanges; `Discover`, `Refresh` and `ExchangeFails` are the
answers to one exchange's calls, in any order among exchanges; `Publish` runs
from the last answer to the swap; `Wake` ends the sleep. The chain is the
environment: `NewBlock`, and `Reorg`, which replaces the newest block. A block's
state is the pair of its height and its fork. A node may lag by `MaxLag` blocks.

`Scanner`: `stage[c]` is where `scan_once` is; `snap`, `tick`, `todo` and `opps`
are its locals, `memory` is `MemoryNotifier.latest`. The tick is split between
load, clock, each path, enrichment and notification. Whether a fresh path turns
out profitable depends on prices, so here both may happen (`Detect`, `Discard`), and
for some paths (`Overflowing`) a third: `roi_bps` panics (`Panic`), and as nothing awaits the
handle of the spawned task, the task is gone and its last served set stays.
`Evaluation` looks into that step. An opportunity carries the pool states it was
quoted on, which determine its amounts. The executor is `Enrich`: best effort,
on the scanned snapshot, and not for paths it has no routers for (`Executable`).

`Pipeline`: `shown` remembers the newest block a client of the API has seen an
opportunity quoted on; `GetOpportunities` is that read, `Status` what the other
read answers. `ServedBoard` has neither tasks nor paths: per chain the published
block and time, the copy a scan works on, and the board, which a scan replaces or, if it
panics, abandons. `Pipeline` refines it with the stamps of `slot`, `snap` and `memory`.

`Evaluation`: `pc` stands at the awaits of `evaluate`; `Reprice` is a feed's
write, or a price that expires, at any of them. `input`, `output`, `profit`,
`roi`, `cost` are the code's; "panicked" is where `roi_bps` leaves the range of a
`Decimal` and the scan task with it. `Checked` and `CheckedUsd` are the checked
arithmetic of whole units and of USD, `ToU256` and `FromU256` the conversions around
a quote, which refuse what the other side cannot hold. `seen` is a history variable.
`Executor` adds one step, as `build` awaits nothing: `Spans` and `Prepared` are amm-rs as the code uses
it, `Observed` and `Transactions` are the loop that threads each transaction's
`min_received` into the next.

`Ranking`: one step per iteration (`Drop`, `Keep`), one for the sort, which takes
any order of the map's values that the score allows. `PathFinder`: the search from
one start asset is one step, as nothing else can act within it; the recursion of
`expand` is a recursive function of the hops taken, which are the recursion's whole
state, as `used` are their pools and `current` is where they end. `ScanOnce` runs one
search per start asset (`SearchNext`), lets any of the paths found be profitable at
any scores (`EvaluateAll`; a path without a price only if it is a cycle), and ranks
them with the steps of `Ranking`.

`PriceFeeds`: `binance` and `coingecko` hold price and age per asset; `link`
and `timer` are where the stream is and for how long, `backoff` is the
code's; `poll`, `rest` and `answer` are the poller's. A mid price and a polled
answer are written asset by asset, with a lock each, and so they are here.

`OneShot`: `stage`, `unread`, `priced` and `deadline` are the locals of
`warm_prices`; `chainTick` is the pair of `refresh_once` and `scan_once` that
`run_once` joins, with every way it ends: the sync fails or never returns
(`SyncFails`, `SyncHangs`), the scan succeeds, returns an error or panics
(`ScanDone`, `ScanFails`, `ScanPanics`). The ticks share one task, so that a panic in one
ends the process. `memory` is the set of chains whose results the notifier holds.

`Startup`: `BuildServices` is one step, each turn of the loop over the chains is
`StartChain`, and `Serve` binds the socket or, in the one-shot mode, goes on to the
wait. A worker is the record of what `build_chain` built; `SyncTick` is its tick
as one step, which carries ids through `ToCoreKey`, amm-rs and `ArbPool`. Texts
that are parsed to an address are what they parse to; tokens are texts, as their
bytes matter.

## 3. Runs

| Run | Properties | What it shows |
|---|---|---|
| `sync_safety` | `TypeOK`, `BlockConsistent`, `ImplementsRegister` | a snapshot is never torn across blocks, and the store implements the abstract register, with two concurrent exchanges, failures, a lagging node and a reorg |
| `sync_solo` | `SoloCatchesUp` | one chain's store catches up with its chain although reads and exchanges fail again and again, and although the other chain's node hangs for ever |
| `sync_reorg` (violation) | `ForkConsistent` | finding 1 |
| `pipeline` | `PipeTypeOK`, `ServedFromOneBlock`, `ServedFresh`, `ServedBehindStore`, `ImplementsBoard`, `StaleIsCleared`, `ServedMovesForward` | what the API serves, with syncs, scans and clients interleaved freely; that the tasks together implement the abstract board; and that a sync which stops, at any await, ends in an empty served set, unless the scan task has panicked |
| `scan_once` | `FindsOnlyTrails`, `FindsEveryTrail`, `RankedBest`, `FirstOfEquals`, `ServesNoTradeTwice` | whole scans of every snapshot of three pools over three assets, one of them possibly listed twice or listing an asset twice: the searches against the set of trails by definition, nothing but worse duplicates dropped, no trade served twice |
| `ranking_fanout` (violation) | `MergesOnlyRotations` | finding 2 |
| `evaluation` | `SizedToBudget`, `CrossProfitFromSeenPrices`, `UndisturbedIsAtomic`, `CyclesPanicOnDustOnly`, `PlanIsFunded`, `PlanKeepsPromise` | sizing and verdict of a path, with price writes between its reads; which cycles can panic it; the plan built for it |
| `evaluation_panic` (violation) | `NeverPanics` | finding 4 |
| `feeds` | `FeedTypeOK`, `SameTokenSamePrice`, `TriesBeforeLapse`, `HealsUnlessHung`, `DeadFeedYields`, `PollerKeepsPricing` | the feeds under closed, vanished, refused, noisy and hanging connections |
| `feeds_stuck` (violation) | `SelfHeals` | finding 3 |
| `one_shot` | `WarmScansAreSized`, `OneShotEnds` | a warm wait gives scans that can size every path; whichever ticks fail or hang, the other chains are scanned; and the report comes, after a cold wait too, unless a sync hangs or a scan panics |
| `startup` | `StartTypeOK`, `FailsOnlyOnIds`, `EntriesStandAlone`, `CoinOrderIsFree`, `OneWorkerPerServedChain`, `OneFeedPerSymbol`, `PublishedIsKnown`, `KeysSurvive` | starts with good and bad entries mixed, while the workers spawned so far sync: what ends a start, what a bad entry costs, and that ids make their way through amm-rs and back |

### Bounds

* `sync_safety`: one chain, two exchanges that share a pool of three, three
  blocks, one reorg per block, lag one, three units of time. Chains share
  nothing but the store's map, whose slots are independent. Two exchanges are the
  fewest that can disagree; three blocks let a second tick, and a third one from
  behind, follow the first. The theorems lift all of these bounds.
* `sync_solo`: two chains, one pool, three blocks; time stands still, as no step
  of a worker waits for it.
* `pipeline`: one chain, two exchanges with a pool each, one path across both, which the
  executor can encode and which may panic; two blocks, two units of time, staleness
  zero, so that the pools of one snapshot differ in age and a snapshot goes stale while
  it is scanned. What several paths of one scan have in common, the lag and reorgs
  are left to the theorems of `Pipeline_proofs`, which lift all these bounds
  (`StaleIsCleared` alone is only checked), and to `sync_safety`.
* `scan_once`: searches of up to three hops over three pools of two or three
  assets, from two start assets, from one that is listed twice, and from one
  alone; a pool may be listed twice, and one lists an asset twice. The beam of
  three is narrower than the widest node and wider than
  others, so both the exhaustive and the cut-off case occur. Up to two of the
  paths found turn out profitable, at one profit or none and two returns, so that both
  parts of the score decide: two are the fewest
  that share a key or compete for the first place. `ranking_fanout` has
  two profits besides. The theorems of `ScanOnce_proofs` lift all of these bounds.
* `evaluation`: two price writes. A cycle reads two prices, a cross path four;
  two writes can hit either end of each gap, and the price of 20 can fall to 1
  between the profit and the base, which makes a crossing panic. The paths include cycles over one
  router, over two, over one that is not configured, and one whose second span
  cannot be fed by the floor of its first; a tolerance of 10 % makes floors bite on
  small amounts.
* `feeds`: one symbol for two assets on two chains that share a coin, two price
  levels, and units of 30 s, in which the code's durations are exact: receive
  timeout 1, poll interval 1, longest backoff 2, staleness window 4. Only the
  first backoff, a second, is rounded up, to 1. The theorems of `OneShot_proofs`
  hold for any durations and any number of symbols and assets.
* `one_shot`: units of 60 s; three configured chains of which two could be built, so
  that one may fail, hang or panic while the other is scanned. Each starts from its own
  asset of one coin, of which one has a Binance symbol: CoinGecko writes all three, one
  after the other, while the wait reads them. Feeds may hang at any
  time; the faults they recover from are left to `feeds`. The staleness window and the
  longest backoff are exact; the deadline of 25 s and the receive timeout and poll
  interval of 30 s are rounded up to one unit. `since`, the time since the wait, is
  counted until it is past the staleness window.
* In `evaluation` small numbers stand for `Decimal::MAX` (`MaxSum`), `u32::MAX`
  (`U32Max`) and 10 000 (`BasisPoints`), in their order, so that checked overflow,
  the panic and the clamp all occur. The theorems hold for the real ones, for any
  number of writes, and for routes of any length over any routers.
* `startup`: every sequence of one or two chain entries out of seven (with and
  without a node; ids that are good, malformed, of the wrong chain; names known,
  unknown, empty, used twice), with four asset lists and a socket that is free or
  not; and one chain with every V4 table of up to two out of nine pools and a Curve
  table of one good pool and one out of six. Four addresses, one of them in two
  spellings. Two entries are the fewest of which one can harm the other, and the
  pools of a table are resolved one by one. The theorems of `Startup_proofs` lift
  all of these bounds.

Deadlock is checked except where the program ends: both runs of `Evaluation`, `scan_once` and
`ranking_fanout` model one call that returns, `one_shot` a process that exits,
`startup` a start that may fail. In the others some action is possible for ever,
as the loops of the program are.

### Fairness

* A task that can go on is polled by tokio in the end: weak fairness of the steps
  that end no call to the outside.
* `sync_solo` assumes of the one chain that its calls return (weak fairness of
  "answer or failure") and that `latest_block`, asked for ever, is answered again
  and again (strong fairness of `AnswerHead`). Exchanges may fail for ever.
* `pipeline` assumes time and the scan task only: nothing of sync tasks or
  RPC nodes, as `StaleIsCleared` is about their stopping. It assumes that the scan task
  is polled, not that it lives: it may panic whenever it evaluates a path, and
  `StaleIsCleared` excepts the sets that a task left behind.
* `feeds` assumes that a call which does not hang returns, and that a server
  asked again and again answers again and again. It assumes nothing of frames
  arriving on an open socket, nor of a connection staying up.
* `one_shot` assumes of the feeds only that their tasks run, and of a tick that it
  returns, hangs or panics. Time has strong fairness, as it stands still while the wait
  reads memory; so does the next
  round of the wait, which a feed that writes prices must not hold up.

### Findings

1. **A snapshot may mix forks** (`sync_reorg`). A tick is pinned by block
   *number*, and each exchange resolves that number when its own call is answered.
   If the block is replaced in between, the snapshot holds pools in states of two
   forks, though `core/deps/pool_store.rs:27` calls it "block-consistent".
   `NoForkNoTear` proves that reorgs are the only cause.
2. **Different trades may share a key** (`ranking_fanout`). `canonical_key`
   (`primitives/opportunity.rs:54`) joins pool ids only. Two paths through one
   three-asset pool that end on different assets share it, and `rank_and_dedup`
   drops one, though `rank.rs:3` speaks of rotations of the same cycle. The same is
   so of opposite trades, in through one pool and out through another or the other way
   round, over any two assets (`OppositesShareKey`); there it costs less, as at most
   one direction is likely to pay.
3. **A hanging reconnect ends the Binance feed** (`feeds_stuck`). Only reads have
   a timeout; `connect_async` (`binance.rs:76`) is awaited without one, though
   `binance.rs:5` promises that "a dropped connection self-heals".
   In the run a connection is open, drops, and its reconnect is not answered.
   `HealsUnlessHung` shows that this is the only exception, `DeadFeedYields` that
   the frozen prices lapse.
4. **An evaluation may panic** (`evaluation_panic`). `roi_bps` (`detect.rs:95`) divides and
   multiplies with `Decimal`'s plain operators, which panic on overflow, where all other
   arithmetic of the evaluation is checked; the design document
   (`src/docs/specs/2026-08-01-arb-router-design.md`, lines 331 and 333) says "no panics"
   and "never crashes the runner". In the run a cycle sized at three base units is quoted
   1500. Nothing catches the panic: the chain's scan task is gone and its last set is
   served for ever, or the one-shot mode ends without a report. It takes a return of
   more than some 10^24 times the base. `CycleDivides` proves that a cycle must be
   sized below 10 000 base units for it, so that a pool must misquote a dust amount of an
   expensive token of few decimals; a crossing gets there if the price of its start
   collapses between the profit and the base.

## 4. Proofs

`PoolSync_proofs`, for any chains, exchanges, pools, listings, lag and bounds:

* `SyncInvariant`: the inductive invariant `SyncInv`, a conjunction of named
  parts. `BlockConsistent` is not inductive: that the assembled snapshot is of one
  block follows only from `ReadsArePinned` (what a worker holds was read at the
  block it pinned, in this tick). The register's ordering needs `AtFollowsChain`
  (a pinned block lies in the chain and is not further than the lag behind what is
  served) and `TimesOrdered`.
* `SyncTypeCorrect`, `SnapshotsAreBlockConsistent`: its first consequences.
* `StoreImplementsRegister`: the initial state maps to the initial register, and
  every step writes one chain's register as it may be written, or none.
* `NoForkNoTear`: with `MaxFork = 0` all pools of a snapshot are in one state.

`ScanOnce_proofs`, for any snapshot, start assets, depth, beam and scores. Of the search:

* `SearchExpands`: what `expand` emits after some hops is, edge by edge of the frontier,
  the path that takes the edge and what `expand` emits after it. The recursive
  function exists because it ends where `MaxHops` hops are taken: `Iterates`
  computes its value at every depth.
* `SearchFinds`: `find_paths` finds the walks that take, at each asset, one of the edges
  of the frontier there; each after the walk without its last hop; and each once, if
  no edge is listed twice. By induction on the hops left.
* `WalksAreTrails`, `FilteredFrom`, `EdgesFromAsset`, `FrontierOf`: what the filters and
  the beam leave of a snapshot, and so which walks are trails.
* `OnlyTrailsAreFound`, `EveryTrailIsFound`: its consequences. That a path is found once
  needs pools and their assets to be listed once (`ListedOnce`), that all are found
  needs the beam to fit (`BeamFits`); both are hypotheses within the properties, and the
  instance has snapshots with and without them.

Of keys:

* `SameTradeSameKey`: rotations of a cycle share a canonical key. It takes that no pool
  is used twice, which the search guarantees: then the smallest id stands at one place
  (`SmallestId`), and turning a cycle turns that place with it (`RotationsAgree`).
* `OppositesShareKey`: the converse is false, for any two assets and pools (finding 2).

Of the ranking, in which keys are never expanded:

* `LoopInv`, the inductive invariant of the loop: what holds after each opportunity. Its
  second half, that the one kept is the first of the best, is what makes the first
  inductive when an equal one is dropped.
* `ServesTheBest`: the result holds every key once, with a best opportunity of it,
  and the best of all first. That no survivor is ranked twice is a counting
  argument: a surjection from as many positions as there are survivors is
  injective. This is where finiteness of the survivors is needed.
* `ServesFirstOfEquals`: which of equal opportunities is served does not depend
  on the hash order.

Of the scan:

* `ScanInvariant`: the search computed what it found last, every path found and every
  opportunity evaluated is a connected path without pool reuse from some start asset
  (`TradeRoutes`), and the ranking has its own invariant.
* `ScanServesTheBest`: the results of the ranking hold of what a scan finds.
* `NoTradeIsServedTwice`: two served opportunities of one trade would share a key, and
  served keys are distinct.

`Pipeline_proofs`, for any chains, exchanges, pools, paths, lag, staleness and bounds:

* `PipelineImplementsPoolSync`: among scanners and clients the sync tasks do what
  they do alone, so what is proved of `PoolSync` holds here.
* `PipeInvariant`: the inductive invariant `PipeInv`, which is `SyncInv` and, per
  chain, what a scan is made of. None of the properties is inductive: that a served
  set is of one block, and was fresh, follows from where it was found (`OppsFromScan`:
  every opportunity a scan holds is of the snapshot it loaded and of the time it took
  before evaluating), that it moves forward from the order of the store, the snapshot
  being scanned and the served set (`MemoryFromOneScan`), and
  that clients are never shown a status behind what they were shown from
  `BlocksBehind`, which has to hold at a worker's pinned block too.
* `PipeTypeCorrect`, `ServesOneBlock`, `ServesFresh`, `NeverShownAhead`, and the
  action property `NeverServesOlder`: its consequences.
* `PipelineImplementsBoard`: the tasks of all chains implement `ServedBoard`. Every
  step publishes for one chain, loads one snapshot, replaces one served set by that of
  a whole scan, or changes nothing of the three.

`OneShot_proofs`, for any symbols, assets, prices, faults and durations. Of the feeds:

* `FeedTypeCorrect`: types, which include that a pass over the store writes prices
  that are in hand.
* `OneTokenOnePrice`: assets of one coin agree on their price, but while a feed has
  written the one and not yet the other. `AgreeInv` says what holds in the middle: an asset has
  the price being written or the one before, by how far the pass has come. The
  theorem assumes that no asset is under two symbols (`SymbolsDisjoint`), as is so
  where the settings list each asset once, with its one `binance_symbol`; it is false
  otherwise.
* `ReconnectsBeforeLapse`: while the window outlasts a stall and the longest backoff
  (`WindowOutlastsStall`; the code has 30 s and 60 s against 120 s), prices do not all
  lapse before the stream has tried again. `LapseInv` adds up age, timer and backoff.

Of the one-shot mode:

* `OneShotRunsFeeds`: `run_once` leaves the feeds alone.
* `WarmWaitPaysOff`, from `WarmInvariant`: after a warm wait, a scan that ends within
  what the deadline leaves of the staleness window can size paths from every start
  asset, although the wait read price after price, and even if the feeds stop then.
  The proof found a bound too small in an earlier form of the model: `since` stopped
  at the window, so that with a deadline of zero a scan of any length counted as in
  time. It now counts one unit further.

`Recursion`: induction over data cannot be cited from the library, as its theorems
take an operator as a parameter. Here a set stands for the predicate (`Induction`, by
the least number outside the set) and a function for the step (`Iterates`: what a
recursive function computes exists and has the type of its steps), so that proofs
about `pow10`, `quote_path`, the spans of a route and the loop over them can. What
loops of loops collect is `FlattenSeq`; `FlattenHolds` and `FlattenSingles` say what is
in it, for the search and for the start.

`Evaluation_proofs`, for any assets, decimals, prices, pools and paths, and any number
of price writes between the reads:

* `EvalInvariant`: each number the evaluation holds is computed from prices that its
  assets have had since the path was sized (`Gained`, `Costed`, `Valued`, `Based`).
  The properties hold of the prices that were read; the invariant carries those
  through the writes that follow, and through the panic.
* `CrossVerdict`: what the verdict on a crossing depends on.
* `CycleDivides`: a cycle of 10 000 base units or more cannot panic the division, by
  `DustPanics`: what the conversion of a quote lets through is bounded by the width that
  bounds the division. Smaller ones can (finding 4).
* `SizesToBudget`: the input is the largest amount the configured size buys. That
  values are exact in units of `1/Scale` is `TensDivide`: every power of ten divides
  the largest.
* `UndisturbedAtomic`: without a write, verdict, profit and return are those of exact
  arithmetic. It assumes that the configured size itself fits in a `Decimal`
  (`BudgetFits`), as 1000 USD does.

`Executor_proofs`, for routes of any length, any routers and any tolerance up to 100 %:

* `ExecutorRunsEvaluation`, `PlanInvariant`: the plan is the one for the input and the
  quote that were reported, as nothing moves after the report.
* `PlansAreFunded`, `PlansKeepPromise`: the spans cut the route into pieces
  (`SpansCut`); a pool gives no less for more (`HopGrows`), so a piece that is given
  no more than the route's own quote has there gives no more than the quote has at
  its end (`PieceGives`); and the transactions chain by their floors
  (`TransactionsChain`), so that the last one promises no more than the floor of the
  reported output (`ChainBelowPath`).

`Startup_proofs`, for any settings, any names, addresses and hashes, and anything that
amm-rs may find through factories:

* `StartInvariant`: the inductive invariant `StartInv`. Its parts follow the phases of
  the start: `Unbuilt` until the services are built; then `ServicesBuilt` and
  `BuiltFrom` (each worker is what `build_chain` makes of its entry), `WorkersBuilt` (one
  per served entry that the loop is past, no two of one entry) and `PublishedByWorkers`. None of
  the properties is inductive: they speak of the end of the loop, or of published pools,
  of which only a worker's origin in an entry says anything.
* `StartTypes`, `FailsOnIdsAlone`, `WorkersMatchChains`, `OneStreamPerSymbol`: its
  consequences. One worker per chain needs the names of the entries to be distinct
  (`NamesAreDistinct`, a hypothesis within the property).
* `BadEntriesCostThemselves`: `ExchangesAre` says what `build_exchanges` collects from
  factories and tables of any length, and `OffersAlone` that this is what each of them
  gives alone. `CoinsInAnyOrder` is about the resolution of one V4 pool.
* `LowercaseComesBack`, `KeysComeBack`: an id in lower case survives the way to amm-rs and
  back, by arithmetic on its slot, and so does every key that amm-rs discovers: its
  tokens are addresses, which fit in a slot. Here the fee of a discovered key is a
  `u16` and it has assets (`FactoryKeys`).
* `PublishedMeetsRegistry`: with the invariant, every asset of a published pool is an
  id of the settings, if those keep to lower case (`Conforms`). The proof found the property false for a
  Curve pool that lists no coins, which may be published without assets. Such a pool is
  harmless, as no edge leaves it, and `Conforms` now excludes it; the instance has one.

The assumptions are the `ASSUME`s of the modules, which TLC evaluates for each
instance, and the hypotheses named above, each a part of a property or of a theorem's
statement. Of pools, `QuoteHop` says that a
quote is proportional, rounded down, up to a limit; the proofs use no more of that
than that a quote is positive (`HopGives`) and no less for more (`HopGrows`).

Only model-checked: liveness (out of the prover's reach, like `ENABLED`): that a store
catches up, that stale results are cleared, that feeds heal and prices lapse, that a
one-shot run ends. Every invariant and every action property of a passing run, and both
refinements, are proved. The four refuted properties are refuted by TLC's
counterexamples.

## 5. Not modelled

* Fetching and decoding of pools, swap mathematics, planning and calldata: the
  amm-rs library, outside this repository. `quote` is modelled by its zero cases
  and otherwise as any function of the pool's state.
* Reading and parsing of the settings file (the config crate); the parsing of
  addresses and URLs, of which only the result counts; cadences, sizes and fee
  tiers, which change no step; reports, logs and JSON views, which keep no state.
* A token that contains a colon: `asset_address` and `core_asset` split such an id
  differently, which nothing in the settings' documentation allows.
* Decoding of frames and answers of the price servers: an update carries its price.
* `Decimal`'s rounding at 28 digits.
* `retry_with_backoff`, which nothing calls.
* A wall clock that steps back.

## 6. Plan

Written in this order: `Snapshots`, `PoolStore`, `PoolSync` with its register and
proofs, as everything else reads snapshots; `Scanner` and `Pipeline`, the composed
system; the pure algorithms `Routes`, `PathFinder`, `Ranking`; `Evaluation` with `Executor`;
`PriceFeeds` and `OneShot`; the proofs of `Ranking`; `Bridge` and `Startup`; `ScanOnce`;
`ServedBoard`.

The proofs followed: `PoolSync`, `Ranking`, `Pipeline`, `PriceFeeds`, `OneShot`,
`Evaluation`, `Executor`, `PathFinder`, `ScanOnce`, `Startup` with `Bridge`.

What remains is to compose: `run_once` with the ticks of `Pipeline` in place of two
steps, and `Executor` for the plans of a whole served set.
