# Formal models of FundingSpreadArbitrageV2

The program watches perpetual futures on several exchanges, buys on one and
sells on another when the spread is wide, and leaves when it has narrowed. What
can go wrong is mostly between the lines: an order fills while it is being
cancelled, a reply is lost, Redis fails after memory has changed, a consumer
pops between two steps of a producer, two futures share one map. These modules
model that control in TLA+, with prices and formatting left out. Paths are
relative to the repository root, which is `src/` here: `strategy/entry.rs` is
`src/src/strategy/entry.rs`.

## 1. Inventory

| Component | State | Operations | Hard behaviour | What makes it correct |
|---|---|---|---|---|
| Market hedge (`strategy/entry.rs`, `place_market_order_with_retry`) | attempt counter, verified fill | place, read the fill, resend the rest | lost reply, unreadable status, late fill | Ok means the target is held; the excess is bounded |
| Emergency close and halt (`entry.rs`, `MarketOrderPlacer` in `atomic_execution.rs`) | attempt counter, `TRADING_HALTED` | full close, two halves, halt | the same quantity sent again; halves rounded apart; Ok without a fill seen | halted exactly when the close failed; Ok is backed by orders for the whole leg; the excess is bounded |
| Atomic entry (`entry.rs`, `price_chaser.rs`, `RaceConditionGuard`) | two orders, fill flags, sizes, reprice counters, hedge lock | place both, poll, reprice, hedge, close, place exits | fills at any moment between poll, cancel and replacement; one call of several failing; timeout | Ok holds both legs; no filled leg is dropped silently; it returns |
| Portfolio (`portfolio.rs`, `PortfolioState`) | capital, active trades, counters; two Redis keys | `open_trade`, `close_trade`, `persist_state`, `new` | Redis error or crash after memory has changed | capital conserved, never negative; keys follow memory |
| Queues (`pipeline.rs`, `opportunity_queue.rs`) | bounded queue, counters | `push`, `try_push`, `submit`, `pop` | consumer runs inside a push | order kept, newest kept, losses counted |
| Strategy runner (`runner.rs`) | `active_trades` (a DashMap), portfolio | scan, reserve, enter, monitor, check exits | two futures over one map, references kept across awaits, early returns | one trade per symbol, no reservation left, books agree with the map |
| Exit legs (`runner.rs`, `fill_probability.rs`) | two exit orders per trade, an aggressive limit order, what was counted as filled | poll; close by fills, by hedging one leg, by timeout, by stop loss; `check_exits` beside it | a leg fills while cancelled; one call of several fails; two futures on one trade | each leg closed once, but for a rest taken for none; more left open means that a call failed; the exit gets booked |
| Connectors and open-interest poller (`bybit.rs`, `okx.rs`, `kucoin.rs`, `bitget.rs`, `hyperliquid.rs`, `paradex.rs`, `utils.rs`) | per session the merged quote, per worker its connection | start, subscribe, merge partial messages, reconnect, poll | partial updates across a lost connection, a refused start | what is published is a book the exchange had |
| Bridge, Redis writer, shutdown (`main.rs`) | channel, queue, batch buffer, flag | push, batch, flush, drain, six-step shutdown | producers outliving the writer, batches sent twice, waits nothing ends | the newest value ends up in Redis; nothing accepted before the flag is lost; the process ends |
| Symbol map (`symbol_map.rs`) | two DashMaps, an atomic counter | `get_or_insert`, `from_id` | threads between the accesses of one call | one id per (exchange, symbol), for ever |
| Opportunity detector, market data store (`opportunity_detector.rs`, `market_data.rs`) | prices per id, a symbol under detection | update, look up, filter, compare pairs | id not yet in the reverse map, ids beyond the store, updates dropped or taken by another consumer | finds exactly what the last prices allow |
| Demo backend (`testnet_backend.rs`, `bybit_testnet.rs`) | order metadata and clock offset behind mutexes, two caches | place, cancel, status, fill queries, clock synchronization, book | a mutex held over HTTP requests that may hang, answers that overtake each other, clocks that drift, stale caches | answers stay true; timestamps close to the exchange's clock; a call waits only for its own request or for one that hangs |
| Other backends, rate limiter, displays | HTTP clients, terminal output | - | - | - |

Interactions. The connectors and the poller send JSON into one mpsc channel. The
bridge takes each message, parses it into a `MarketUpdate` for the
`MarketPipeline`, and pushes the text into the Redis queue, which the writer
thread drains. The detector pops updates and pushes opportunities into
`OpportunityQueue`, from which the runner pops. `main.rs` gives its runner that
consumer only, with `PaperTradingBackend`; `bin/bybit-synthetic-test.rs` gives its
runner the market pipeline as well, so that it competes with the detector for
updates; `bin/demo-runner.rs` builds a runner over `TestnetBackend`, but never gives it an
opportunity consumer, so that `run_scanning_loop` would panic at runner.rs:117. The
runner calls the entry executor, which uses the market hedge and the emergency close, and records
the result in `active_trades` and the portfolio; its monitor and its exit check run
as two joined futures of the same task. The portfolio writes the two keys the
dashboards read.

`PROJECT.json` lists every component, modelled or not, and under `hazards` each
place where these behaviours bite, with the properties aimed at it.

## 2. Modules

| Module | Models | Actors |
|---|---|---|
| `HedgeContract` | what a hedge promises its caller (abstract) | the hedge |
| `MarketHedge` | `place_market_order_with_retry` | routine, exchange |
| `EmergencyClose` | `emergency_close_position`, `place_with_retry`, `halt_trading` | routine, exchange |
| `MCMarketOrders` | one call of either of these two routines | those of the routine called |
| `EntryExecutor` | `execute_atomic_entry_real` | routine, two exchanges, clock, another holder of the hedge lock |
| `Portfolio`, `MCPortfolio` | `PortfolioManager` | caller, Redis, crash and restart |
| `DropOldestQueue` | both queue files | one producer, several consumers |
| `StrategyRunner` | `run_scanning_loop` and what it calls | the loop, monitor, exit check |
| `ExitMonitor` | the closing of one trade in `monitor_active_positions` and `check_exits`, in contracts | monitor, exit check, two exchanges |
| `IdRegistry` | what the symbol map promises its callers (abstract) | threads |
| `SymbolMap` | `SymbolMap::get_or_insert` | any number of threads |
| `Detector`, `MCDetector` | composition of the bridge's streaming half, the pipeline, the store, the detection loop and `SymbolMap` | bridge, detector, runner as second consumer |
| `MarketFeed` | composition of a connector's worker, poller, channel, bridge, Redis queue, Redis writer and shutdown | each of these, the exchange, Redis |
| `DemoBackend`, `MCDemoBackend` | `TestnetBackend` over `BybitDemoClient` | several callers, the exchange, the clock |
| `EntryExecutorProofs`, `DropOldestQueueProofs`, `ExitMonitorProofs`, `DemoBackendProofs`, `MarketFeedProofs` | theorems about the module named | |
| `MarketOrderProofs` | theorems about `MarketHedge` and `EmergencyClose` | |
| `StrategyRunnerProofs` | theorems about `StrategyRunner` and `Portfolio` | |
| `DetectorProofs` | theorems about `SymbolMap` and `Detector` | |

How they correspond to the code:

* **MarketHedge.** `attempt` and `total_filled` are the locals of the loop.
  `position` is what the account really acquired, which the code never sees.
  An order that is answered with an error may have been accepted
  (`PlaceReplyLost`), a status may be unreadable (`VerifyFailed`), and an order
  that is no longer looked at may fill (`ExchangeFillsLate`).
* **EmergencyClose.** `phase` is which of the three calls of `place_with_retry`
  is running, `attempts` its counter. The fall-back to halves happens only for
  the quantity-limit errors, as in the code. The size is in units, of which `STEP`
  make the exchange's quantity step: the client rounds the whole and each half to the
  nearest step (`FullQuantity`, `HalfQuantity`), so that two halves may be a step more
  than the whole. `abandoned` is what resent orders may still sell, `expired` what the
  exchange cancelled: the client sends market orders Immediate-Or-Cancel.
* **EntryExecutor.** The source treats a long fill and a short fill in two
  mirrored copies; the model has one action with the leg as state, and `map`
  names lines of either copy. `lim` is the real order behind `long_order` and
  `short_order`; `size` and `known` are what the routine believes. A cancel may
  find the order live, partly filled or filled, and may fail. The two nested
  routines appear with the contracts that `MarketHedge` and `EmergencyClose`
  establish: a market hedge that reports Ok added at least what was missing, and
  up to `EXTRA` more; an emergency close, whatever it reports, sold anything from
  nothing to `EXTRA` more than the leg. An order accepted under a lost reply becomes `stray`.
  The depth check is `is_critical` on any available depth in `DEPTHS`.
  `OtherHolder` takes the process-wide hedge lock in the routine's absence. With
  the one sequential runner of `main.rs` nobody else holds it, so this is more
  than the program does; it exercises the refusal the code is written for.
* **Portfolio.** `mem` is the state behind the lock. `call` is the next Redis
  command of the call, so that an error or a crash can come before each. A
  restart begins afresh: `PortfolioManager::new` builds a new state and writes
  it to the keys; it never reads them.
* **DropOldestQueue.** Each `ArrayQueue` call and each counter update is one
  action. `kind` selects the order of the two files: the pipeline counts the
  drop after the second push, the opportunity queue before it. `ArrayQueue` is
  external and taken to be linearizable.
* **StrategyRunner.** The loop runs `execute_opportunity` to its end, then the
  monitor and the exit check in `tokio::join!`, which interleave only at awaits.
  Each key of the DashMap has a shard; `ref` is the key whose shard is
  read-locked by a live `Ref`. `get_mut` or `remove` on such a shard blocks the
  thread, and with it both futures (`blocked`). What an entry or an exit does on
  the exchanges is only its outcome here.

* **ExitMonitor.** Each of the five things the monitor may do about a trade is a
  sequence of calls (`Steps`), and `at` is the next one; an action is one call to an
  exchange with its possible outcomes. `pos` is what is really open, `counted` what
  the monitor believes closed. Where the code takes a rest of at most 0.001 contracts
  for none, the model takes `DUST` (`Rest`): at the timeout for limit and market orders
  (runner.rs:509, 551, 597, 624), at the stop loss for market orders only (1239, 1263);
  the hedges test nothing. `StrategyRunner` has the same control for all trades
  without quantities; this module has one trade with them. The history variables
  `faults`, `raced` and `again` record why an exit may be inexact.
* **SymbolMap.** Every access to a map or to the counter is one action, so that
  other threads run between the two inserts of one call. `MapInit` is the state
  after `preallocate_common_symbols`.
* **Detector.** `EXTENDS SymbolMap`: the bridge and the detector are its two
  threads, and `AskId` is the detector inside `get_or_insert`, once per known
  exchange. Prices are integers and all tests are cross-multiplied. The runner's
  own `get_or_insert` calls, for pairs an opportunity names, are fast paths and
  need no thread; the theorems about `SymbolMap` cover any number of them. `DropAndPush` is one
  step: what a consumer can do inside a push is the subject of `DropOldestQueue`.
* **MarketFeed.** One worker follows one symbol; the exchange's book is a pair of
  change counters, which makes "a bid of one moment with an ask of another"
  visible. The six connectors differ in what their first request is, which topics
  they subscribe, and whether messages are partial (Bybit) or whole; the
  operators with their names say how. The poller and the other topics contribute
  items that compete for room.
* **DemoBackend.** A request and its answer are separate steps, and the exchange
  serves the request at some moment between them. A guard of `order_metadata` is
  held over the request where the code holds it. Any request may hang for ever (`Hang`):
  the client is `Client::new()` (bybit_testnet.rs:45), without a timeout. The exchange's
  clock is `skew` ahead and drifts with every tick; it answers in full or, as the
  fall-back to `timeSecond` reads it (bybit_testnet.rs:77), cut to the second.
  `Workloads` bounds which calls are made; orders are accepted in one of them only.

## 3. Runs

| Run | Bounds | Shows |
|---|---|---|
| `market_orders` | the hedge: 3 attempts (as in the code), target 3; the close: 4 + 3 + 3 attempts (10 + 5 + 5 in the code), 3 steps of 2 units | Hedge: Ok is a full hedge, exposure at most one target per order sent, termination, `HedgeContract` implemented. Close: over-close bounded, a reported close is backed by orders, the call returns and trading is halted if it failed |
| `entry` | 2 contracts, rounding up by one on either exchange, available depths 2, 3 and 4, 2 reprices, calls fail, hedge overshoots by 1 | an Ok entry holds both legs, exit orders are covered, no known fill is abandoned, hedging only under the lock, termination |
| `portfolio` | 3 trades of sizes 2, 3, 4 over capital 6, profits -2, 0, 1 | conservation, solvency, the two persistence invariants |
| `queue` | capacity 2, 6 pushes, 2 consumers, both kinds | order, newest kept, nothing vanishes uncounted, progress |
| `runner` | 2 symbols, 2 trades, 2 shards | one trade per symbol, books, finality of exits, progress without a reservation left behind |
| `exit` | 3 contracts a leg, a rest of 1 taken for none, book levels of 1 and 9, 1 failing call | a clean exit closes each leg but for the tolerated rest and nothing twice, more left open means that a call failed, the exit is booked |
| `detector` | 2 symbols on 2 fed exchanges and 1 unfed, a pipeline of 1, 6 store slots, fewer than the ids that a race may use up, 4 messages | one id per pair, `IdRegistry` implemented, exact detection, never both directions |
| `feed` | 6 connectors, channel 2, queue 1, batches of 2, 2 book changes, 1 poll, 1 fault | what reaches Redis is real, a retried flush leaves the newest value, what was accepted survives the shutdown, the feed catches up, the shutdown ends |
| `demo_backend` | 2 callers; 3 calls and 1 order of 2 contracts; 2 calls in time 4 with a drift of 1, or in time 7; 3 book calls in time 4; latency 2, a second of 2, skew 3 | answers stay true, timestamps and book ages bounded, a call waits for ever only for a request that hangs |
| `close_naked` (violated) | 10 + 5 + 5 attempts, 3 steps of 2 units | see below |
| `entry_delta_neutral` (violated) | 2 contracts, no failing calls | see below |
| `runner_blocked` (violated) | 1 symbol, 1 trade, 2 shards | see below |

Why the bounds are enough. Target 3 over 3 attempts lets a hedge be filled in
three parts, over-filled on each attempt and abandoned in each. Two contracts
are the least for which an order can be partly filled; two reprices (the code
allows five) let one happen before and one after a partial fill, and let the
counter run out. Capital 6 cannot hold all three trades, so opens are refused, and
after a loss they are refused again. Six pushes into two places with two consumers
wrap the queue three times and interleave pops with every step of a push. Two
trades over two shards give both cases: the two keys share a shard, or do not. One
failing call in an exit is the least with which each call can be the one that
fails (two were tried as well, with legs of two contracts, and pass); three contracts a
leg are the least of which a tolerated rest of one can remain after a part has filled
and more than it after another. In the emergency close a leg of three steps is the
least whose halves are both rounded up, and four and three attempts are enough for one
order to be filled, one to expire, one to be left behind and the last not to be seen;
the theorems cover the ten and five of the code. Four messages are enough to price a
symbol on both exchanges, race for an id, and overflow the pipeline. A queue of one
item overflows in `feed` as soon as any two messages meet; a batch of two holds two
values of one key, which a failed flush can mix up. A latency of 2 with a cache
life of 2 and a resynchronization after 1 lets two synchronizations overlap and
end in either order; in seven ticks a timestamp gets as old as `StampIsClose` allows
(its bounds are reached), and one unit of drift in
either direction can come before, during or after a synchronization.

The shard of a key, the sizes and profits within their sets, the connector, the
order books and the workload are chosen nondeterministically.

Deadlock is checked for `portfolio`, which always has a next call, and for
`detector`, whose loop always polls. The others end: a routine returns, the
producer has made its pushes, the runner has used its trades or has blocked itself,
the process has exited.

### What the violated runs show

* `close_naked`. The last attempt of `place_with_retry` returns Ok whatever the status
  said (atomic_execution.rs:481), and `emergency_close_position` takes that for a
  closed position. The orders are Immediate-Or-Cancel (bybit_testnet.rs:294): against
  an empty book ten of them expire, the close reports success, trading goes on and the
  leg is open, where the comment at entry.rs:204 says it is closed "to avoid naked
  exposure". What an Ok does mean is `ReportedCloseIsBacked`: orders for the whole leg
  were accepted.
* `entry_delta_neutral`. `reprice_order` (price_chaser.rs:147) cancels an order
  and places one of the full size, and the in-loop hedge (entry.rs:1080, 1436)
  cancels the other leg without reading its fill before the market order for the
  full quantity. An entry can report success with legs of different size. The
  code says "same on both legs for delta neutrality" (entry.rs:613).
* `runner_blocked`. `check_exits` calls `active_trades.remove` (runner.rs:1584)
  inside the `if let` whose `Ref` (runner.rs:1518) read-locks the same shard.
  Every close that succeeds ends there: the strategy thread waits for itself. The
  monitor's `get_mut` meets the same `Ref` while `check_exits` awaits. The
  comment at runner.rs:151 calls these tasks non-blocking. The `runner` and `exit`
  runs therefore check their properties up to the moment the thread blocks, and
  `LoopGoesOn` and `ExitIsBooked` state that nothing else can stall it. The runner is
  also the consumer of the opportunity queue: `ItemsLeave` of the run `queue` holds
  while the consumers poll, and this run shows that this one can stop.

### Limits the properties are stated around

Each of these is what the code does, and the reason for an exemption in a property.

* When the depth check refuses the hedge (entry.rs:1035, 1391) the filled leg is
  closed and the routine returns, but the other leg's limit order stays live. The
  comment at entry.rs:204 says the close is there "to avoid naked exposure".
* A push counts a drop whenever its first attempt failed, even when a consumer had
  emptied the queue meanwhile (pipeline.rs:258; `tests/stress_test.rs:126` takes
  the count to be exact). `NothingVanishes` asks that losses never exceed it.
* `FilledLegNotAbandoned` takes the emergency close at its word: its Ok is "reported
  closed", and the run `close_naked` shows what that is worth.
* `ExitsAreCovered` speaks of entries for which both exchanges took the same quantity.
  Where they rounded differently, the sizes recorded after the race check
  (entry.rs:980) can exceed a leg; the property does not reach that hazard.
* `NeverOverdrawn` rests on `LossAssumption`: a trade never loses more than its size.
  The code does not enforce it.
* At the timeout and the stop loss an exit takes a rest of at most 0.001 contracts for
  none, books the trade and logs that both positions are closed (runner.rs:597, 624,
  1239, 1263). `CleanExitIsExact` and `OpenLegMeansFailure` allow for that rest.
* A market order of an exit that the exchange does not fill entirely counts as a failed
  call in `OpenLegMeansFailure`: the code reads only whether it was accepted.
* `AnswersAreTrue` speaks of cancellations and statuses. `place_market_order` answers
  Filled without having looked (bybit_testnet.rs:346), and `get_order_status` makes
  Pending of an error of the exchange.
* A request of the demo client that hangs keeps the guard of `order_metadata` it was
  sent under (testnet_backend.rs:294), and with it every call that needs the guard, for
  ever. `CallsReturn` exempts exactly these calls.
* An exit can close a leg twice: the cancelled limit order is not read again,
  `hedge_long` does not read what the exit order filled, and a trade that is
  Exiting already can be forced again. `CleanExitIsExact` excludes these three.
* Nothing ends the strategy runner at a signal, although the comment at main.rs:646
  says it reads the flag, and the bridge does not end while a connector holds a
  sender (main.rs:665). The shutdown normally ends by its 30 s timeout, which
  cannot interrupt the join of the writer thread.
* The writer never reconnects to Redis (main.rs:67), a connector that fails its
  first request stays absent (main.rs:426), and a full queue may drop a quiet key's
  last value (main.rs:235). `FeedCatchesUp` exempts these, and is checked for at most one
  fault (`MAX_FAULTS`); with two the state space is too large for TLC to finish in minutes.
* A resynchronization of the clock is awaited, although the comment says "Resync in
  background, don't wait for it" (bybit_testnet.rs:112); `StampIsClose` allows for it.
* The detector does not ask how old a stored price is: `FoundIsExact` speaks of the
  last price received, whenever that was.

### Fairness

Wherever a routine awaits an exchange or Redis, that **the call returns** is an
assumption, not something the code sees to: the demo client has no HTTP timeout
(bybit_testnet.rs:45) and nothing wraps the calls in one. `HedgeCallReturns`,
`CloseCallReturns`, `EntryReturns`, `LoopGoesOn`, `ExitIsBooked` and `FeedCatchesUp` hold
under it. `DemoBackend` does not make it: there a request may hang.

* `MarketHedge`, `EmergencyClose`, `EntryExecutor`: weak fairness of the routine's own
  steps, under that assumption. Nothing is assumed of the exchange's fills.
  `EntryExecutor` adds weak fairness of `Timeout`, since the clock advances.
* `DropOldestQueue`: of each consumer, whose loops poll without end. Nothing is
  assumed of the producer.
* `StrategyRunner`: of the loop and the two futures, which the runtime polls
  while the thread is not blocked, under that assumption.
* `ExitMonitor`: weak fairness of the monitor's and the check's steps, under it as
  well. Strong
  fairness of `StartRound`, since the store has prices in some rounds, and of a
  poll that decides to act, since every exit order is past its timeout some day.
  Nothing is assumed of fills.
* `MarketFeed`: weak fairness of the worker, the bridge, the writer and the
  shutdown with its timeout. That requests are answered, if only with an error, is the
  assumption again; the shutdown does not need it of the runner or the bridge, whose
  joins its timeout ends. Nothing is assumed of the exchange, the poller or the signal.
* `DemoBackend`: weak fairness, per caller, of its steps and of the exchange's
  answers. It binds a request only until that request hangs, which it may at any moment.
* `Portfolio`, `SymbolMap` and `Detector` state safety only.

## 4. Proofs

TLAPS checks every leaf of the eight proof modules. Each proves an inductive
invariant `IInv` with one step per action, and the properties the runs check from it.
Where a module holds the proofs of two components the second invariant has a name of
its own (`CloseIInv`, `CapitalIInv`, `MapInv`). Each was checked with TLC on small
bounds before it was proved for all. Every invariant of a passing run is proved, and
so are the refinements and the action property.

**Market hedge** (`MarketOrderProofs`), for every `TARGET` and `MAX_RETRIES` that are positive
naturals. `NeverUnderHedged` is not inductive: it says nothing before the return.
The strengthening `IInv` adds `Believed`: what the routine has verified, with what
the current order has filled, never exceeds the position; the current order asks
only for what is missing; Ok is reported only for a verified target. `IInv` also
holds `ExposureBounded`, whose step case is the arithmetic that one more attempt is
at most one more target. From `IInv` follow `TypeCorrect`, `HedgeIsComplete`,
`ExposureIsBounded` and, with the bound on the position,
`HedgeImplementsContract`: initial states map to initial states and each action to
`Acquire`, a report or a stutter.

**Emergency close** (`MarketOrderProofs`), for every positive size, quantity step and
number of attempts (`CloseAssumption`). `OverCloseBounded` speaks of the whole call;
inside it the bound is a sum over three retry loops. `CloseIInv` says how much of that
sum can have been sent at each point: `SentSoFar` bounds what was sold or may still be
sold by the attempts of the loops before (`SentBefore`) and one quantity for each
attempt of the loop under way, `AttemptsLeft` keeps the counter below that loop's limit
while an order is to be placed. The exchange only moves quantity between what it has
sold, may sell and has cancelled. `OverCloseIsBounded` follows because rounding adds at
most half a step to an order. `OkCloseIsBacked` needs `Backed`, what each loop has had accepted
when it is left with Ok: one full quantity, or one half after the first and two after
the second. That two rounded halves miss the leg by less than a step is arithmetic of
its own.

**Portfolio** (`StrategyRunnerProofs`), for every set of trades, every positive size and
capital, and profits that never lose more than the position (`LossAssumption`: the profit
is the position times a change of spread below 100 %). `CapitalIInv` joins the four
invariants with `Behind`: the state key equals memory while the metrics key is
being written, and the metrics never count more than memory. Without it
`MetricsNotAhead` could not be carried over the write of the metrics key. One
lemma states what `open_trade` does to the state and one what `close_trade` does;
the step case has one step per action. Theorems: `Conservation`, `Solvency`,
`MetricsFollowState`, `OkMeansPersisted`.

**Symbol map** (`DetectorProofs`), for every set of threads and of pairs and every preallocation
that gives no id twice. `OneIdPerKey` is not inductive: it does not speak of the ids
that threads hold between `fetch_add` and the entry of the forward map. `MapInv`
adds `IdsAreFresh` (such an id is below `next_id`, in nobody else's hands and not in
the map), `InsertedIsMine` for a thread between the two inserts, and that 0 is never
an id. From it follow `MapGivesOneId` and `MapImplementsRegistry`: the lookup that
hits and the entry of the forward map are the steps of `IdRegistry`, all other
accesses stutter.

**Detector** (`DetectorProofs`), for any exchanges, feed, quotes, store and pipeline sizes and number
of messages. `DetectorAssumption` says that the bridge and the detector are the two
threads of the map, that the fed exchanges are among `KnownExchanges`, that prices are
integers, and that the pairs are those of known exchanges and fed symbols.
`DetectorRefinesMap`: every step of the composition is a step of `SymbolMap` or leaves
its variables alone, so `StreamingGivesOneId` and `StreamingImplementsRegistry` carry
over from the map alone. `FoundIsExact` needs four strengthenings:

* `IdsAreKnown`: an id in the pipeline is in the reverse map, or the detector itself is
  about to put it there, before it pops again. This is why the detector never skips an
  update for an id it cannot name.
* `Reversible`: an id of the forward map is in the reverse map or a thread is between
  its two inserts.
* `StoreIsSeen`: a store holds under an id the quote last popped for the id's pair, and
  nothing under an id that nobody has.
* `LoopIsPartial`: in the middle of `get_exchanges_for_symbol`, what is collected is
  exact for the exchanges already passed.

Theorems: `DetectionIsExact`, and `DirectionsExclude`, which rests on quotes not being
crossed: two opposite opportunities would need ask < bid on one exchange.

**Queues** (`DropOldestQueueProofs`), for every positive capacity and any number of pushes and
consumers. `NewestKept` needs `Room`: consumers only make room, so the second push
finds the room that the pop before it made. `Ordered` needs that whatever left at the
head is older than what is left (`Older`); `NothingVanishes` that no item is in two
places (`Apart`), that each is in one (`Placed`), and the one loss that each control
point may leave uncounted (`Counted`). Theorems: `OrderKept`, `NewestSurvives`,
`NoItemVanishes`.

**Strategy runner** (`StrategyRunnerProofs`), for any symbols, any non-empty set of shards and any number of
trades. `OneTradePerSymbol` needs `Reserved`: the placeholder is in the map exactly
while an opportunity is executed, under the opportunity's symbol. `BooksMatchTable`
needs `Futures`: from taking a trade to removing it `check_exits` holds the one `Ref`
that lives across an await, and that trade is Exiting, so what the monitor does
meanwhile cannot make it Active again. Theorems: `SymbolTradedOnce`, `BooksAgree`, the
action property `ExitsAreFinal`, and `RemovalMeetsOwnRef`: whenever `check_exits`
comes to `remove`, the shard of the key is read-locked by its own `Ref`. The run
`runner_blocked` shows one such execution; the theorem says that none is different.

**Entry** (`EntryExecutorProofs`), for every quantity, every rounding by at most one contract that
leaves an order (`EntryAssumption`), any number of reprices, depths and overshoot, and
with or without failing calls. `Control` ties the control point to the legs known to be
filled, the lock and the outcome: in the loop both legs are known or neither, in a hedge
exactly one. It is inductive on its own and gives `LockHeldExactlyInHedge` and
`NoFilledLegAbandoned`. `Quantity` adds the contracts: until both legs are known,
nothing was sold (`Unsold`); a leg known to be filled holds at least the least order
(`Held`) and its recorded size (`Covered`); `total_filled` never counts more than was
filled (`Counted`). It gives `OkEntriesHoldBothLegs` and `ExitOrdersAreCovered`. The
market hedge and the emergency close enter with their contracts, as in the model.

**Exit** (`ExitMonitorProofs`), for legs of any positive size, any rest taken for none
(`DUST`), any order books and any number of faults. The first lemmas write the paths out and say where in its path the monitor is
when it makes a call (`Positions`). `Covered`, without any condition: what is open of a
leg is at most what is left of its exit order, what is not counted as closed, and what is
left of the limit order about to be looked at. It is why a race closes too much and
never too little. `Closed` is `OpenLegMeansFailure` for every control point (after its market
order at most the tolerated rest of a leg is open, after a hedge nothing), and gives
`OnlyFailuresLeaveLegsOpen`. `Exact` says for each stage of a clean exit (exit order
open, cancelled, read, limit order out, looked at, dropped, shut) which order what is
open is equal to, and gives `CleanExitsAreExact`. `Control` excludes what would break
both: a clean monitor does not get past its mark while `check_exits` has the trade.

**Demo backend** (`DemoBackendProofs`), for any number of tasks, orders and calls, any
skew, drift, latency and resynchronization period, and a positive second and cache lifetime. `CallerOK`
says of each caller what its request and the answer on its way still mean: the request
is at most a latency old; a time or a book in the answer is of a moment since it was
sent; what the answer says of an order is true of it and stays so, because an order
never leaves a final status and its filled quantity only grows (`TrueOf`). A timestamp is
near the exchange's clock (`Near`: half a latency, the drift since the reading of the time
behind it and, on the low side, a second) when the request is sent, or one request
earlier when the quantity step had to be asked for (`StampOK`). That the skew moved by no
more than `drifted` did since a reading is a lemma (`DriftWidens`), so each tick widens
the bound by what it adds. Shared state adds
`OffsetOK` (the offset is that near the skew of its reading, whichever of two overlapping
synchronizations stores last, and the reading no older than `last_sync` by a latency) and `CacheOK` (a cached book was the exchange's
at most a latency before its stamp). Theorems: `AnswersStayTrue`, `StampStaysClose`,
`BookIsRecent`. A lifetime of zero, which `BackendAssumption` excludes, would never use
the cache; the code's is 100 ms (bybit_testnet.rs:19).

**Market feed** (`MarketFeedProofs`), for all connectors, queue capacities, batch sizes
and numbers of book changes and faults. The three properties speak of Redis; what makes
them true is upstream:

* `SessionOK`: there is a way to read what is left on the socket, one quote for each
  message, in which every ticker is a book the exchange had, none is older than what went
  before, and Bybit's fields, merged in order, add up to the present book.
* `InOrder`: what the writer popped and the queue dropped is not newer than what is
  queued, that not newer than what is in the channel, that not newer than the book.
* `Flow`: Redis, overwritten by what is in the buffer, is the last ticker the writer
  popped. A failed flush leaves the buffer, so repeating it cannot bring an old value back.
* `OwedKept`: what the queue had accepted at the signal, or something newer, is queued,
  popped or dropped, and no longer only queued once the writer has left.

Theorems: `PublishedStaysReal`, `FlushedStaysNewest`, `ShutdownKeeps`. `FeedAssumption`
says that the ticker is not one of a connector's other topics.

Only model-checked: the liveness properties (`HedgeCallReturns`, `CloseCallReturns`, `EntryReturns`, `ItemsLeave`, `LoopGoesOn`, `FeedCatchesUp`,
`ShutdownEnds`, `CallsReturn`, `ExitIsBooked`), since the prover does not do fairness. The three
violated properties are shown by their counterexamples.

## 5. Not modelled, and why

* Scores, funding and position sizes: floating-point arithmetic without state. The
  tests of the entry on them are nondeterministic choices where the control depends
  on the outcome. The detector's spread and fee filters are modelled.
* Rounding of `f64` sums in the portfolio: amounts are whole numbers.
* The paper entry and `PaperTradingBackend`: they fill at once and have no races.
* The Binance and Bitget demo clients, and the rate limiter, which only the former
  uses: no program of the repository calls them.
* The Binance, Gate.io and Lighter connectors, which `main` does not start, and the
  times between reconnections.
* `NegativeFundingTracker`, `AtomicExecutor`, `execute_atomic_trade`,
  `execute_opportunity_impl.rs`, `should_retry_limit`: nothing reaches them.
* The 100 ms cache of the depth checker, which repeats a verdict.
* The open-interest history, which the poller writes to Redis over a connection of its
  own (main.rs:282-303) and nothing reads, and how it reads an answer's text.
* Dashboards, configuration storage, latency and test metrics, buffers and thread
  pinning: output, whole-value reads and writes, measurement, allocation.

## 6. Plan

The modules of section 2 and the proofs of section 4 are done. What would add most next
is an abstract specification of the trade's life cycle (reserved, active, exiting, gone),
with `StrategyRunner` and `ExitMonitor` shown to implement it.
