# CryptoHedgeLab in TLA+

CryptoHedgeLab is one C++ process that reads Binance market data (or replays
stored data), lets nine strategies decide on it, fills their orders on paper,
hedges, writes everything to kdb+ and shows it on a web dashboard. Five to six
threads share four lock-free queues, a few atomics and a handful of structures
that are meant to have one owner. The modules beside this file describe that
process: what TLC checks of it on small instances, and what TLAPS proves of it
for every value of the parameters.

All paths below are relative to the root of the repository, `src/`.

## 1. Inventory

### Parts, their state and operations

| Part | State | Operations | Modules |
|---|---|---|---|
| SPSC ring buffer, `core/common/ring_buffer.hpp` | `head_`, `tail_`, `buffer_` | `try_push`, `try_pop`, `size`, `empty`, `full` | `SPSCRingBuffer` implements `BoundedQueue` |
| Position and PnL, `core/execution/position.hpp`, `pnl_tracker.hpp` | quantity, average price, realized profit | `apply_fill`, `unrealized` | `Position` |
| Execution and hedge engine, `core/execution/execution_engine.hpp`, `hedge_engine.hpp` | a position and a tracker per strategy, one futures leg, peaks and drawdowns | one loop body per signal: fill, position, profit, rebalance, metrics, publish | `ExecutionEngine` |
| Strategy engine, `core/strategy/strategy_engine.hpp` | per strategy: `flat`, `prev_price`, `counter`, indicators; last BTC and ETH prices, funding rate | one loop body per tick, one turn per strategy | `TradingPipeline` implements `TradingDesk` |
| Feed callback and books, `main.cpp` `on_message`, `core/order_book/order_book.hpp` | two top-of-book quotes, `tick_seq` | a trade, depth or funding message | `TradingPipeline`, which extends `MessageParser` |
| Hot swap, `main.cpp` `on_cmd` | `active_idx` | `run_live` | `TradingPipeline` |
| Process lifecycle, `main.cpp` `run_live_pipeline` | `running`, the main `io_context`, the thread handles | start, signal handler, end of replay, joins, destructors | `Lifecycle` |
| Dashboard server, `core/ui/ws_server.hpp` | `running_`, its own `io_context` and thread, acceptor, timer, sessions | accept, read, broadcast, `stop` | `Lifecycle`; the loads of a broadcast in `Dashboard` |
| kdb writer, `core/kdb/kdb_writer.hpp` | two queues, four batches, the connection | drain, flush, close | `KdbWriter`; the server's table in `TradeStore` |
| Replay engine, `core/kdb/replay_engine.hpp` | the range, the rows of one query, the pace | query, wait for the time of a row, deliver it, end the program | `TradeStore`; its last push in `TradingPipeline`, the end of the program in `Lifecycle` |
| UI state, `core/ui/ui_state.hpp` | atomics for market, latency and metrics; the ring of recent trades | stores by three threads, loads by one | `ExecutionEngine` (what the metrics are), `Dashboard` (who sees them when, and the ring) |
| Binance client, `core/feed_handler/binance_ws.cpp` | the connection and its chain of callbacks | resolve, connect, handshake, subscribe, read, close | `BinanceFeed`, part of `Lifecycle` |
| Message parser, `core/feed_handler/message_parser.hpp` | none | stream, symbol, keys, numbers, lists | `MessageParser` |
| Strategy loader, `core/quant/strategy_parser.hpp`, `strategy_def.hpp`, `main.cpp` | `strats`, the tables of names | reads nine JSON files, passes over those that do not load | `StrategySet`, which `Dashboard` extends |
| Latency helpers, React front end, notebook | - | - | not modelled |

### How they interact

    Binance ──on_message──▶ tick_queue ──▶ strategy_loop ──▶ signal_queue ──▶ execution_loop
    (or replay)    │            ▲               ▲                                  │     │
                   │         replay          active_idx ◀── dashboard command      │     ▼
                   ▼                                                               ▼   UIState ──▶ dashboards
              kdb_feed_q ───────────▶ KdbWriter ◀──────────────────────────── kdb_exec_q
                                          │
                                          ▼ .u.upd, asynchronous
                                     kdb+ tables

Every queue has one producer and one consumer. `try_push` answers false when
the queue is full, and no caller but the replay looks at the answer. A strategy
keeps its own idea of its position (`flat`), the execution thread keeps the
real one (`positions[s]`), and nothing tells the first about the second.
`running` stops the strategy, execution and kdb threads; `ioc.stop()` the main
thread; the absence of work the dashboard's thread; nothing but its last row
the replay thread.

### What is hard here

* two threads on one slot of a queue, with indices read early and kept;
* counters that wrap, a capacity that is one less than the size;
* a refused push or a skipped signal after the state has already moved on;
* a command that changes `active_idx` while a tick is evaluated;
* one futures leg and one drawdown for nine strategies;
* shutdown: a handler that joins a thread from within an `io_context`, a thread
  that waits for room in a queue nobody empties any more, queues with a tail;
* a ring of trades that one thread writes and another lists, with an atomic
  index and entries that are not;
* rows sent asynchronously over a connection that may be gone, into tables that
  refuse a time they have;
* a range and a pace computed with unsigned and signed 64-bit times from two
  epochs;
* strategies known by their place in a vector, in a table of the engine and in
  a table of the dashboard;
* a parser that finds a key wherever its text stands, and lists by counting
  brackets.

`PROJECT.json` lists these, and the smaller ones, at their lines, with the
properties that would notice.

### What makes each part correct

* Ring buffer: no slot is touched by both threads at once; every accepted item
  comes out once, in order and whole; it behaves as a queue of N - 1 items.
* Position and engine: realized profit and cost of the open position add up to
  the money that changed hands; the futures are equal and opposite, by the
  ratio, to what is held, which one leg gives while only the strategy that
  filled last holds; the dashboard's profit is money plus position at the mark;
  the drawdown is the largest fall of the totals.
* Pipeline: the strategy's position and the engine's differ exactly by the
  signals under way and lost; nothing is reordered or answered twice; a swap
  takes effect between ticks; a replay loses nothing on the way in; nothing
  queued waits for ever. To each strategy all of it is a desk that executes its
  orders in turn, whatever the others do.
* Parser and books: a book shows the top of one message, the last complete one
  of its symbol, never a bid of one and an ask of another.
* Lifecycle: no thread outlives the objects it uses; no tick comes from the feed
  after `running` is cleared; an interrupt ends the program and a replay ends by
  itself, unless the replay comes to a row it practically never delivers or,
  interrupted, has more rows left than there is room for.
* Dashboard: a list that was not overwritten while it was read is the newest
  fills in order; until the ring is full no list is; rows and entries carry the
  name of the strategy whose fill they show; rows keep up with the list; every
  fill comes to be shown to whoever watches.
* kdb writer: each accepted row is sent once, in order, and none is lost on the
  writer's side.
* Replay: what it delivers are trades of the feed, of the range asked for, in
  the feed's order, none ahead of its time; and it ends.

## 2. Modules

`BoundedQueue` is the abstract specification of a queue: a sequence of at most
`Capacity` items, `Push`, `Pop`, and nothing else. `SPSCRingBuffer` refines it.
`TradingPipeline`, `Lifecycle` and `KdbWriter` use queues at that level, which
the refinement entitles them to; none of them repeats the ring.

### SPSCRingBuffer

One action per access to shared memory: the acquire load of the peer's index
with the test on it, the copy into or out of the slot, the release store. A
thread between its load and its copy is in the state `write` or `read`, so that
two overlapping copies are a state of the model. An acquire load may answer any
value the peer has stored since the last one seen, so each side works with a
view that may be old, which is what the C++ memory model allows. `N` is the
size, a power of two in the code and any proper divisor of `W` here; the
counters count modulo `W`, 2^64 in the code.

### Position, ExecutionEngine

`Position` translates `apply_fill` and `unrealized` over integers. Prices count
ticks and quantities small units. The one place where a double rounds is the
weighted average, which the model takes only where it is an integer
(`Representable`, a guard of `Fill`). The quotes of the runs are multiples of
720, so that within the bound on fills every average is an integer and the
guard excludes nothing. `ExecutionEngine` has one action, `Fill`, the whole
body of the loop for a signal with a price, the trackers behind drawdown and
Sharpe ratio included, with history variables for the money that moved and the
totals that were tracked.

### MessageParser

A text is a sequence of tokens: a mark, a quoted text or a plain one. The
operators follow the parser's own way through it: a key is found at the first
place where its text stands with a colon behind it, a list ends where the
brackets balance, a text that is no number counts as zero, and a message is
valid by its numbers alone. `Text`, how Binance writes a message, is external: a
list has any number of levels, and a number is written as `Numeral` says, in a
way of its own that is no key and no name of a stream (`NumeralAssumption`).
Numbers that fit the parser's buffer of 64 bytes are meant.

### TradingPipeline

Actions: `Trade`, `Depth` and `Funding` (what `MessageParser` reads of a message
that is heard), `Replay` (one row delivered), `Swap` (a dashboard command),
`PopTick`, then one of `Skip`, `Hold` or `Emit` per strategy, and `Execute`. The
strategy thread's turn for one strategy is one step: it touches only its own
state and the tail of the signal queue, and the steps of the other threads can
come between two turns, which is where a swap could split a tick. The books
hold the prices that were read; the quote on a tick is only the book it was
read from, or `NoQuote`, for that is all the rest tests of it. Conditions on
prices and funding rates are translated; conditions on indicators (moving
averages, RSI, ATR, MACD, Bollinger bands, unrealized profit) may hold or not
on any tick.

### TradingDesk

The abstract specification of the pipeline, per strategy: `Place` an order (a
buy first, then by turns) at a moment later than those of the open ones, unless
it is lost at once; `Fill` the oldest open one by one unit, or `Lose` it. There
are no ticks, queues, threads or swaps. `TradingPipeline` implements it
(`IsADesk`) with its local `flat` for what the strategy believes, the
strategy's own signals in the shared queue, by the number of their tick, for
its open orders, and the engine's position for what it holds.

### Lifecycle

Queues are counts here. The main thread is a program counter over the lines of
`run_live_pipeline` from the mode dispatch to the destruction of the
`UIBroadcaster`; each other thread is the test of `running` and one poll. The
dashboard server is what keeps its `io_context` alive: a posted task, a pending
accept, a pending timer, a pending read per session. `stop()` is split
where its thread can run in between.

The replay thread waits twice for a row, for its time (`ReplayPace`) and for
room (`ReplayDeliver`), and looks at no flag in between. Time is not modelled
here: a wait for it ends, except for the rows in `endless`, those older than the
first in a replay with a `--speed` above 0, whose wrapped distance is near 2^64
nanoseconds (`TradeStore` has the arithmetic). Every set of such rows is an
initial state; the empty one covers a replay at speed 0.

The connection to Binance is `BinanceFeed`, which `Lifecycle` extends: the
pending operation (`resolve`, `connect`, `tls`, `upgrade`, `subscribe`, `read`),
each of which succeeds, leading to the next, or fails, after which nothing is
pending and nothing reconnects. Its callbacks and `on_message` run on the main
thread's `io_context`, hence never while the signal handler runs
(`RunsHandlers`). That is what `ShutdownSilencesFeed` rests on: `close()` itself
does nothing during the handshakes.

### StrategySet

A file is a record of what the parser looks for and of the two keys it does not
look for; `Parse` is `parse_string` with the defaults of `StrategyDef`.
`LoadFile` appends a definition or passes the file over, on any file;
`EndLoading` starts the threads or ends the program. `IdOf` and `LabelOf` are the
two tables of names. A failed conversion of a number and a file that cannot be
opened are one case, a load that fails.

### Dashboard

The execution thread, for one fill: the metrics of the strategy's row,
`add_trade` in three steps (the copy begins, the copy ends, the index is
stored). The server, for one broadcast: the rows, the index, one entry per
step, the sending. A fill is its number, and so is what it leaves behind. An
entry read between the beginning and the end of its copy is `Torn`; nothing
but the index orders the two threads, so an entry may also be overwritten
while a list is made, and `disturbed` says that one was.

The metrics are stored and loaded relaxed. A load answers any store that is not
older than what its thread has seen: what it read last of that row (coherence),
and what came before the store of `trade_idx` it read last (release and
acquire), which `released` keeps. The loads of one broadcast are ordered by
nothing, so they are one step of many choices. One metric stands for the four
of a row: none of them is ordered with another.

### KdbWriter

`run()` line by line: one pop, the end of one inner loop, the flush at the end
of a round, the final flush. A record is the number of the push that brought
it. The connection may go away at any time, which the writer does not notice.

### TradeStore

`KdbWriter` with a time on each trade, the table `trade`, and a replay, which is
another run of the program. The table is external: keyed by time, it takes a
call as a whole or not at all. `Fetch` is the query with its bounds, or no
answer; `IsDue` is the pacing; `Deliver`, `Finish` and `PassTime` the loop. All
arithmetic is that of the code: unsigned times up to `Modulus`, twice the
constant `Half` (2^63), signed where they are cast, shifted by `Epoch` to the
clock of kdb+ and back. The unit is the millisecond of the exchange; the factor
to nanoseconds is exact both ways. The shift of a start or an end from 2^63 to
2^63 + `Epoch` overflows a signed number, which C++ leaves undefined:
`TimeAssumption` excludes those, and nothing else.

### Modules with proofs

`SPSCRingBuffer_proofs`, `ExecutionEngine_proofs`, `TradingPipeline_proofs`,
`Lifecycle_proofs`, `KdbWriter_proofs`, `TradeStore_proofs` and
`Dashboard_proofs` extend the modules they are about; `RemainderLemmas` has the
facts about division the two rings and the pacing of a replay need. No module of the project declares a recursive operator.

## 3. Runs

A run with `expect: violation` in `PROJECT.json` states what a document or a
comment of the repository says and shows the state in which the code does
otherwise; section 6 lists them.

| Configuration | Bounds | Shows |
|---|---|---|
| `MCSPSCRingBuffer.cfg` | N = 4, W = 8, two items | types, no race on a slot, order of the indices, items handed over intact; implements `BoundedQueue`; a consumer that keeps polling drains the queue |
| `MCExecutionEngine.cfg` | two strategies, two quotes, hedge ratio 1/2, five fills | books balance, for base and futures; the hedge while one strategy holds; dashboard, drawdown, Sharpe sums |
| `MCTradingPipeline.cfg` | momentum and funding strategies, two prices, two funding rates, three depth messages per symbol, queues of two, three ticks | books of one message, positions explained, order, lossless replay, unsplit ticks; implements `TradingDesk`; queued ticks and signals are taken |
| `MCLifecycle.cfg` | all modes, one dashboard, ticks queue of two, the others of one, three replay rows | no thread outlives `run_live_pipeline`; the feed is silent after `running` is cleared; an interrupt ends the program and a replay ends, with the two exceptions named below |
| `MCTradeStore.cfg` | queues of two, batches of two, three trades and a fill; times below 32, signed ones below 16 (`Half`), three of them in trades, the epoch at 4, ranges from 0 or 10 to 10, 13 or 31, speeds 0 and 2, a clock of three | nothing vanishes, nothing is sent twice or out of order, everything is sent; a replay follows the feed, delivers its range, is never ahead of time, and ends |
| `MCDashboard.cfg` | two files, one unknown to the dashboard, either may fail; a ring of two, five fills | an undisturbed list is the newest fills in order; the first lap is free of races; labels; rows keep up with the list; every fill is shown |

Why the bounds are enough for the cases to happen:

* N = 4 is the smallest power of two whose ring tells full (three items) from
  one free and from one taken, and W = 8 lets both counters wrap while items
  are inside; the number of pushes is unbounded. Two item values tell an item
  from its neighbour. W = 2N is the least multiple the assumption admits; the
  proofs cover the others.
* Five fills of two strategies open, add to, reduce, close and flip positions,
  and let the hedge change strategy in each of those states. The fill bound
  (`MaxFills`) is the only reason that model stops, hence its
  `CHECK_DEADLOCK FALSE`; the other models check deadlock.
* Three ticks through queues of two fill both queues, drop a tick, refuse a
  signal, raise an ETH tick between BTC ticks, and let a strategy enter and
  leave. Depth messages are complete, with five levels of bids and three of
  asks, or lack one of the sides, so that a miscounted bracket or a side kept
  from before would show. The other kinds of
  strategy are in the runs of section 6: pairs in
  `MCTradingPipelineQuote.cfg`, indicators in `MCTradingPipelineLocal.cfg`.
  Sequence numbers are the only unbounded state (`MaxTicks`).
* More replay rows (three) than room for ticks (two) is what makes the
  replay wait, and either row behind the first, or both, may be endless to wait
  for; one dashboard is what makes the server's thread stay.
* Three pushes to a queue of two with batches of two give a refused push, a
  full batch, a partial batch and an empty one; the fill puts the other queue
  between them.
* Trade times 9, 10 and 13, in any order and repeated, give rows before, at and
  after both ends of a range, a row older than the first one, and refused calls;
  at 32 the unsigned distances wrap, and 31, the default end at that width, is
  taken for a negative number. A clock of three at speed 2 is enough
  for the greatest distance; after that time stands still, when only a row whose
  distance wrapped still waits.
* Five fills go twice round a ring of two and begin a third lap, while lists are
  read across one, two or no laps. Two files suffice for one that moves up when
  the one before it fails. The bound keeps the last fills from being recorded,
  never the server from listing, so that model needs no exception for deadlock.

Fairness:

* The ring's refinement run assumes that the consumer keeps polling and that a
  store becomes visible in finite time, as the C++ standard asks of atomics.
* In `TradingPipeline`, `TradeStore`, `Dashboard` and `Lifecycle` each thread of the program
  is scheduled (weak fairness of its actions): the loops poll with `yield` or a
  short sleep and block on nothing. asio runs handlers that are ready. Nothing
  is assumed of the market, of the user, of kdb+ or of the dashboards.
* `PoliteSpec` of `Lifecycle` assumes in addition that a connected dashboard is
  closed sooner or later. Without it neither liveness property of the process
  holds; that is the finding of `MCLifecycleClient.cfg`. Two conditions except
  what no schedule helps. `RowsDue`, of `InterruptExits` and `ReplayEnds`: a
  replay that comes to a row in `endless` waits for it, and main for the replay,
  interrupted or not. `RowsFit`, of `InterruptExits`: an interrupted replay with
  more rows left than the tick queue has room waits in `deliver` for a consumer
  that is gone.
* `FillIsShown` needs the server's timer to go on and, of the choices a load of
  `trade_idx` has, that the newest one is taken ever again (strong fairness of
  that choice): the standard asks that a store becomes visible in finite time.
  Fills that nobody watches are exempt.
* `ReplayFinishes` needs the replay's thread and its clock. It excepts a trade
  older than the first one of the rows, for which the wait is that of a
  distance near 2^64 nanoseconds.
* `EverythingSent` needs no more than the writer's fairness because the bound on
  pushes makes the producers pause. A feed that refilled its queue for ever as
  fast as it is drained would keep the writer in its inner loop; the model's
  bounded producers cannot show that.

## 4. Proofs

All of these hold for every value of the constants that meets the module's
named assumptions.

`SPSCRingBuffer_proofs` (any `N`, any larger `W` that is a multiple of it, any
items):

* `TypeCorrect`: the type invariant.
* `IndicesOrdered`, `RaceFree`, `HandoffCorrect`: the three safety invariants.
  None of them is inductive. The invariant that is (`InOrder` and the parts
  around it) relates the two real indices and the four views of them to
  integers that are never reduced: consumer's own index, producer's view of
  it, published head, producer's own index, in that order and spread over at
  most N - 1. Once the counters are unwrapped, two slots in flight differ by
  less than N, so their residues differ; that is the absence of races, and the
  abstract queue is what lies between tail and head.
* `Refinement`: `Spec` implies the specification of `BoundedQueue` under the
  mapping to that sequence. The release store of `head_` is `Push`, that of
  `tail_` is `Pop`, every other step stutters.

`ExecutionEngine_proofs` (any set of strategies and quotes, any ratio):

* `TypeCorrect`; `BooksBalance` and `FuturesBalance`: the cash identities, from
  lemmas on `Position` that follow each branch of `apply_fill`: opened, added
  to (where the integer average is used), reduced, closed, flipped.
* `HedgeIsNeutralForOne`, from the invariant that the futures are the hedge of
  the strategy that filled last (`FollowsLastFill`), whatever they were before;
  `DashboardCorrect`: the published profit, from the cash identity and what a
  fill publishes.
* `ChangesCorrect` and `DrawdownCorrect`, from one invariant (`TrackersFollow`):
  a tracker's sum is the way from the first total to the last, its peak is the
  highest total and its drawdown a fall that some pair of totals reaches and
  none exceeds. What a tracker keeps of a sequence is shown for one total more,
  so no induction over sequences is needed.

`TradingPipeline_proofs` (any strategies, queues, thresholds, any number of
ticks, lists of any length and numbers written in any way):

* `TypeCorrect`.
* `FillsInTickOrder`, from an order that is inductive: ticks queued are
  numbered upwards, above the tick under evaluation and up to the last one
  numbered (`TickOrder`); signals queued are ordered by tick and then by
  strategy, above the last fill of each and below the turn in progress
  (`SignalOrder`).
* `ReplayLosesNothing`: in a replay the ticks queued are the numbers after the
  one under evaluation, without a gap (`NoGap`).
* `SwapBetweenTicks`: the choice of strategies is read once per tick, so each
  one that had its turn under "all" has seen the price of the tick.
* `PositionsExplained`. What a strategy believes is what the engine holds, plus
  the balance of its signals in the queue (`Net`), plus what was lost. The
  balance is a difference of two cardinalities, of the places with its buys and
  of those with its sells, and not a sum over the queue: what a place more at
  the end or one less at the front does to it is a lemma about finite sets
  (`RaisedAppend`, `RaisedTail`), and no induction over queues is needed. The
  invariant is then inductive as it stands, with the types.
* `PipelineIsADesk`: the refinement. `SignalMoves` sorts the steps by what they
  do to the signals: nothing (`Quiet`), one more (`Raising`), one less
  (`Taking`). A signal raised is an order placed, at a moment later than the
  open ones for `SignalOrder` says so; the signal taken is the oldest order of
  its strategy, and no one else's; every other step stutters.
* `TickQueueIsBounded`: the tick queue implements `BoundedQueue`, as the ring
  buffer does, so that the queue the pipeline assumes is the one it is given.
* `BooksAreOfOneMessage`. The invariant is inductive; the work is in `DepthHeard`,
  which says what the parser makes of every text: a depth message is known by
  its stream and is of its symbol (`DepthIsKnown`), each of its two lists is
  found under its key (`ListsAreFound`) and starts with its best price
  (`BestIsRead`), and no trade, mark price or answer is taken for a message of a
  book. A text is a concatenation, so each part of it is followed to its place
  (`Stands`, `Placed`), and that a key or a name occurs nowhere before is that
  all tokens there are of a set without it (`Within`). Counting brackets is
  `BracketsBalance`: within a list every bracket that closes stands four tokens
  behind one that opens, and none behind the first, so there are fewer of them
  until the last token. `Levels` is given by place, so no induction over lists
  is needed.

`Lifecycle_proofs` (any modes, dashboards, capacities and rows):

* `TypeCorrect`; `ThreadsEndFirst` and `FeedIsSilenced`, from an invariant in
  four parts (`Stopping`): a thread that was joined is done, each point of main
  after a join says so (`JoinedThreadsEnded`); a stopped server has no worker
  (`StopLeavesNoWorker`); main begins with `running` set and a live program has
  no replay thread (`Beginning`); and in a live program only the handler clears
  `running`, and leaves the `io_context` stopped (`ClearedByHandler`).

`KdbWriter_proofs` (queues, batches and pushes of any number):

* `TypeCorrect`; `SentInOrder` and `NothingIsLost`. Each step is one of seven
  moves of the rows of a kind: none, a push refused or admitted, a row into the
  batch, dropped without a connection, a batch sent or lost. The way of a row
  (`Way`: sent, then batch, then queue) rises throughout (`Ordered`), and until a
  batch is lost it has every admitted row (`Whole`).

`TradeStore_proofs` (queues, batches, numbers of trades, times, ranges and speeds
of any size, any position of `Half` and `Epoch`):

* `StoreHasWriter`: every step of the store is one of `KdbWriter` or leaves it
  alone, so that its theorems hold with a table behind it (`StoreSentInOrder`,
  `StoreNothingIsLost`).
* `StoreTypeCorrect`, `ReplayIsOfTheFeed`, `TheRangeIsReplayed`, `NoTickIsEarly`,
  from one invariant in four parts on top of the writer's: every trade pushed
  has its time (`Typed`); the table rises and has only rows that were sent
  (`Stored`), so a batch, which lies above everything sent, may be appended
  whole; once there is a replay the writer is closed, its rows rise and are the
  table's rows of the range, all or none (`Selected`); the ticks delivered are
  the first of the rows, and each was due (`Delivering`). Trades may still be
  pushed while a replay plays: those keep the times there are (`StampsStay`).
* That the query answers with all of the range is `ListingProperties`: a rising
  list of as many places as a set has is one-to-one and so meets each of them.
  `ElapsedCoversDistance` is the arithmetic of the pace: an unsigned distance is
  the true one, or a greater one when that is negative.

`Dashboard_proofs` (any files, a ring of any size, any number of fills):

* `TypeCorrect`; `LabelsCorrect`: a row holds fills of its strategy only
  (`RowsKnown`), and the two tables of names agree.
* `RowsFollowList`: metrics come before the index they are released with, so
  what an index acquires is no older than the fills before it (`KeepUp`).
* `ListCorrect`: the slots hold the last fills, one lap of them (`Ring`), and
  none of the fills begun since its index is in an undisturbed list (`Listing`);
  if an entry had been overwritten, the fill a lap later would be one of those.
  `FirstLapCorrect`: on the first lap no later fill has a slot of the list.

Only model-checked: all liveness (`DrainsQueue`, `NothingWaitsForEver`,
`InterruptExits`, `ReplayEnds`, `EverythingSent`, `ReplayFinishes`,
`FillIsShown`), which is out of the prover's reach. Every invariant and action
property that a passing run checks, and each refinement, has its theorem.

## 5. Not modelled

* Rounding of doubles, and the tolerance of 1e-12 beyond a test for zero.
* `Action::RESET_STATE`: no part of the program sends it. `TRADE_QTY` is what is
  filled; `size_btc` only feeds a strategy's own idea of its position. PNL and
  LATENCY records of the kdb writer have no producer.
* The market fields of `UIState`: three threads store them without an order and
  nothing is said of what a reader may expect, so every mixture is allowed and
  a model could state nothing. The latency figures, which no other state reads.
* The conditions over indicators are free choices: EMA, RSI, ATR, MACD and
  Bollinger bands are arithmetic on doubles with no state the other parts see.
* The quantities of the books; `is_buyer_maker`, which nothing reads; the
  parser's buffers of 64 bytes, longer than any number of the feed.
* Overlapping writes of one dashboard session and the lifetime of the subscribe
  message of the Binance client, a local that an asynchronous write uses: what
  follows from them is undefined, and a model could only say that they happen.
* The tables of the kdb+ server other than `trade`, and its log.
* `size()`, `empty()` and `full()` of the ring buffer, which the program does
  not call.
* The front end; the notebook; the clock reads of `core/latency/latency.hpp`.

## 6. Where the code and what is said of it differ

Shown by a run:

| Configuration | Difference |
|---|---|
| `MCTradingPipelineLocal.cfg` | a lost signal leaves a strategy with a position the engine does not hold |
| `MCTradingPipelineQuote.cfg` | a BTC order raised on an ETH tick is filled at the ETH quote |
| `MCLifecycleClient.cfg` | a connected dashboard keeps Ctrl-C from ending the program |
| `MCDashboardFull.cfg` | after `MAX_UI_TRADES` fills the list of recent trades shrinks to one |
| `MCExecutionEngineNeutral.cfg` | with a full hedge, two strategies that hold a position have the futures of one (`SystemDesignDecisions.md:410`: "Delta Neutrality") |
| `MCTradeStoreTicks.cfg` | a trade of a millisecond that is already stored takes its whole batch with it |

Visible in the models, without a run of their own:

* `try_push` refuses at N - 1 items while `full()` asks for N, which is never
  reached (`NoRoom` against `Size`).
* A key the parser does not look for leaves the default (`ConditionIn`): the file
  of `trend_vol_filter` has `entry_cond` and `exit_cond` at its top level, so that
  strategy buys on `price_up` and sells on `price_down`, where `main.cpp:71` says
  "Load all predefined Strategies for hot-swapping".
* The peak and the drawdown are taken over the totals of whichever strategy
  fills (`totals` in `ExecutionEngine`), not over the account.
* An interrupted replay hangs unless `RowsFit` and `RowsDue`.
* A replay clears `running` when its last row is queued; ticks and signals that
  still wait are dropped, as many as the threads' timing leaves, where
  `README.md:346` calls a replay "fully deterministic".
* The last flush of the kdb writer leaves what is still in its queues.
* The hedge engine has the settings of `strats[0]` (`Hedge`, `main.cpp:137`), and
  the file of the first strategy, `momentum`, disables it: when that file loads
  no strategy is hedged, those whose files ask for it included.
* Neither `threshold` nor `counter_max` is looked for in a file (`Parse`).
* The default `--end`, 2^64 - 1, is a time before the start (`Bound`), so a replay
  without a range delivers nothing.
* A paced replay waits practically for ever on a trade older than the first row
  (`ElapsedSim`; `endless` in `Lifecycle`), and no interrupt ends that wait.
* An unknown `--mode` returns with joinable threads: `main = "aborted"`.
* A batch grows past `BATCH_SIZE` while the inner loop drains a queue.
* The counter of a funding strategy moves only while it is flat and selected,
  and its exit does not reset it (`Observe`), where
  `core/quant/strategy_def.hpp` says "for N ticks".
* A feed that is lost stays lost: no step leaves `feed = "lost"`.
* Once the ring of recent trades is full, an entry may be listed while it is
  overwritten (`Torn`, `disturbed`).

Seen in the code, outside the models:

* `--hedge` is parsed and never used (`main.cpp:56`).
* ETH trades are stored with the symbol "BTCUSDT" (`core/kdb/kdb_record.hpp`,
  `kdb_writer.hpp:20`) and come back from a replay as BTC ticks.
* The panel "ORDERBOOK (BTC/USDT)" (`ui/src/App.tsx:81`) shows the quote of
  whichever symbol was stored last (`main.cpp:165`).
* Times of fills in kdb+ are those of a steady clock, times of trades are not.
* The mean behind the Sharpe ratio divides the sum of N - 1 changes by N.

## 7. Plan

What is left, in order:

1. The fills of `ExecutionEngine` as those `TradingPipeline` executes: money on
   top of positions that queues and swaps have made, in one state space.
2. A model of the indicators with small integers, for the conditions that are
   free choices now, if a property about one of them is found.
3. The market fields of `UIState`, once the code says which of its three writers
   a panel is about.
