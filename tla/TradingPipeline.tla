--------------------------- MODULE TradingPipeline ---------------------------
(***************************************************************************)
(* From market data to fills: the feed (the on_message callback of         *)
(* main.cpp, or the replay thread), the strategy thread (strategy_loop of  *)
(* core/strategy/strategy_engine.hpp), the execution thread                *)
(* (execution_loop of core/execution/execution_engine.hpp) and the         *)
(* dashboard's command that swaps the active strategy while they run.      *)
(*                                                                         *)
(* The threads share the tick queue, the signal queue and active_idx.      *)
(* The queues are first-in first-out and refuse a push when full, which    *)
(* SPSCRingBuffer implements.  What a fill does to money is the subject of *)
(* ExecutionEngine; here a position counts TRADE_QTY units.  The records   *)
(* that go to the kdb queues are the subject of KdbWriter.                 *)
(*                                                                         *)
(* The messages of the feed are texts, which MessageParser reads.  The     *)
(* quote a tick carries is abstracted to the order book it was read from:  *)
(* all the pipeline tests of it is whether it has a price.                 *)
(***************************************************************************)
EXTENDS MessageParser, SequencesExt

CONSTANTS
  Kind,           (* the strategies in load order: Kind[i] is the condition*)
                  (* pair of the i-th, see Kinds                           *)
  Prices,         (* trade prices, positive                                *)
  Rates,          (* funding rates a funding message may carry             *)
  Depths,         (* the prices of bids and of asks a depth message lists  *)
  Threshold,      (* StrategyDef::threshold of the funding strategies      *)
  CounterMax,     (* StrategyDef::counter_max of the funding strategies    *)
  TickCapacity,   (* the most ticks the tick queue holds                   *)
  SignalCapacity, (* the most signals the signal queue holds               *)
  MaxTicks        (* bound: the ticks the feed produces                    *)

(* price_up / price_down, funding_arb_*, pairs_z_score_*, and the ones     *)
(* that compare indicators, which may hold or not on any tick.             *)
Kinds == {"momentum", "funding", "pairs", "indicator"}

ASSUME KindAssumption == Kind \in Seq(Kinds) /\ Kind # <<>>

ASSUME InputAssumption ==
  /\ Prices \subseteq Positive /\ Rates \subseteq Written
  /\ Depths \subseteq [bids : Seq(Positive), asks : Seq(Positive)]
  /\ Threshold \in Nat /\ CounterMax \in Nat \ {0}

ASSUME BoundAssumption ==
  TickCapacity \in Nat \ {0} /\ SignalCapacity \in Nat \ {0} /\ MaxTicks \in Nat

Strategies == DOMAIN Kind
Symbols == {"btc", "eth"}
NoQuote == "none"
Quotes == Symbols \union {NoQuote}
All == 0   (* active_idx == -1: every strategy runs                        *)

VARIABLES
  mode,        (* --mode: "live" or "replay"                               *)
  book,        (* book_btc and book_eth: best bid and ask, 0: none         *)
  tickSeq,     (* tick_seq                                                 *)
  tickQueue,
  activeIdx,   (* active_idx                                               *)
  turn,        (* the strategy whose turn it is in the loop, 0: polling    *)
  tick,        (* the tick under evaluation, or the last one               *)
  selected,    (* current_active_idx, loaded once per tick                 *)
  btcPrice, ethPrice, fundingRate,
  flat,        (* LiveStrategyState::flat, per strategy                    *)
  prev,        (* LiveStrategyState::prev_price                            *)
  counter,     (* LiveStrategyState::counter                               *)
  signalQueue,
  qty,         (* positions[s].qty, in units of TRADE_QTY                  *)
  lastFill,    (* history: the last signal of each strategy that filled    *)
  lost,        (* history: net units of signals that never filled          *)
  told         (* history: the top of the last complete depth message      *)

feedVars == <<mode, book, tickSeq, told>>
marketVars == <<btcPrice, ethPrice, fundingRate>>
strategyVars == <<flat, prev, counter>>
execVars == <<qty, lastFill>>
vars == <<feedVars, tickQueue, activeIdx, turn, tick, selected, marketVars,
          strategyVars, signalQueue, execVars, lost>>

NoTop == [bid |-> 0, ask |-> 0]
NoTick == [seq |-> 0, sym |-> "btc", price |-> 0, funding |-> 0,
           quote |-> NoQuote]
NoFill == [strategy |-> 1, side |-> "SELL", quote |-> NoQuote, seq |-> 0]

Unit(signal) == IF signal.side = "BUY" THEN 1 ELSE -1

Init ==
  /\ mode \in {"live", "replay"}
  /\ book = [sym \in Symbols |-> NoTop]
  /\ told = book
  /\ tickSeq = 0
  /\ tickQueue = <<>>
  /\ activeIdx = All
  /\ turn = 0 /\ tick = NoTick /\ selected = All
  /\ btcPrice = 0 /\ ethPrice = 0 /\ fundingRate = 0
  /\ flat = [s \in Strategies |-> TRUE]
  /\ prev = [s \in Strategies |-> 0]
  /\ counter = [s \in Strategies |-> 0]
  /\ signalQueue = <<>>
  /\ qty = [s \in Strategies |-> 0]
  /\ lastFill = [s \in Strategies |-> NoFill]
  /\ lost = [s \in Strategies |-> 0]

-----------------------------------------------------------------------------
(* The feed.                                                               *)

TopOfBook(sym) == IF book[sym] = NoTop THEN NoQuote ELSE sym

(* What the feed may be told, and what on_message reads of it.  An answer  *)
(* to the subscription is of no stream and changes nothing here.           *)
DepthMessages ==
  {[event |-> "depth", sym |-> sym, bids |-> d.bids, asks |-> d.asks] :
     sym \in Symbols, d \in Depths}

Messages ==
  [event : {"trade"}, sym : Symbols, price : Prices, size : {1}]
    \union DepthMessages
    \union [event : {"markPrice"}, sym : {"btc"}, rate : Rates]
    \union [event : {"answer"}]

(* What on_message makes of it: the stream, the symbol and the fields.     *)
Read(msg) ==
  [stream |-> StreamType(msg), sym |-> SymbolOf(msg),
   trade |-> ParseTrade(msg), depth |-> ParseDepth(msg),
   rate |-> ParseFundingRate(msg)]

(* Each message and what is read of it.                                    *)
Heard == {[message |-> m, read |-> Read(Text(m))] : m \in Messages}

(* Mutation of PushTick: no test for a full queue.                         *)
PushTickAnyway(t) == tickQueue' = Append(tickQueue, t)

(* try_push with its result ignored: a full queue drops the newest tick.   *)
PushTick(t) ==
  tickQueue' = IF Len(tickQueue) < TickCapacity THEN Append(tickQueue, t)
                                                ELSE tickQueue

(* on_message numbers the ticks, whether or not the queue takes them.      *)
NextTick(sym, price, funding, quote) ==
  [seq |-> tickSeq + 1, sym |-> sym, price |-> price, funding |-> funding,
   quote |-> quote]

feedOnly == <<activeIdx, turn, tick, selected, marketVars, strategyVars,
              signalQueue, execVars, lost>>

(* A trade message: the tick carries the top of its symbol's book.         *)
Trade(r) ==
  /\ r.stream = "TRADE"
  /\ r.trade.valid
  /\ mode = "live" /\ tickSeq < MaxTicks
  /\ tickSeq' = tickSeq + 1
  /\ PushTick(NextTick(r.sym, r.trade.price, 0, TopOfBook(r.sym)))
  /\ UNCHANGED <<mode, book, told, feedOnly>>

(* Mutation of BookAfter: a side without a price leaves the old one.       *)
BookAfterBySides(top, depth) ==
  [bid |-> IF depth.bid > 0 THEN depth.bid ELSE top.bid,
   ask |-> IF depth.ask > 0 THEN depth.ask ELSE top.ask]

(* A message without one of the sides is not valid, and leaves the book.   *)
BookAfter(top, depth) ==
  IF depth.valid THEN [bid |-> depth.bid, ask |-> depth.ask] ELSE top

(* A depth message updates the book of its symbol.                         *)
Depth(m, r) ==
  /\ r.stream = "DEPTH"
  /\ mode = "live"
  /\ book' = [book EXCEPT ![r.sym] = BookAfter(@, r.depth)]
  /\ told' = IF m.event = "depth" /\ m.bids # <<>> /\ m.asks # <<>>
               THEN [told EXCEPT ![m.sym] = [bid |-> m.bids[1], ask |-> m.asks[1]]]
               ELSE told
  /\ UNCHANGED <<mode, tickSeq, tickQueue, feedOnly>>

(* A mark-price message: a tick without a price.                           *)
Funding(r) ==
  /\ r.stream = "FUNDING"
  /\ mode = "live" /\ tickSeq < MaxTicks
  /\ tickSeq' = tickSeq + 1
  /\ PushTick(NextTick(r.sym, 0, r.rate, TopOfBook(r.sym)))
  /\ UNCHANGED <<mode, book, told, feedOnly>>

(* Mutation of Replay: pushes once, like the live feed.                    *)
ReplayWithoutWaiting(price) ==
  /\ mode = "replay" /\ tickSeq < MaxTicks
  /\ tickSeq' = tickSeq + 1
  /\ PushTick(NextTick("btc", price, 0, "btc"))
  /\ UNCHANGED <<mode, book, told, feedOnly>>

(* The replay thread makes a quote round the stored price, and spins while *)
(* the queue is full: it has a step only when its push succeeds.           *)
Replay(price) ==
  /\ mode = "replay" /\ tickSeq < MaxTicks
  /\ Len(tickQueue) < TickCapacity
  /\ tickSeq' = tickSeq + 1
  /\ PushTick(NextTick("btc", price, 0, "btc"))
  /\ UNCHANGED <<mode, book, told, feedOnly>>

-----------------------------------------------------------------------------
(* The dashboard's run_live command, for one strategy or for all of them.  *)
Swap(s) ==
  /\ activeIdx' = s
  /\ UNCHANGED <<feedVars, tickQueue, turn, tick, selected, marketVars,
                 strategyVars, signalQueue, execVars, lost>>

-----------------------------------------------------------------------------
(* The strategy thread.                                                    *)

(* Mutation of TickReady: takes the last tick for none.                    *)
TickReadyLate == turn = 0 /\ Len(tickQueue) > 1

(* try_pop finds a tick; without one the thread yields and polls again.    *)
TickReady == turn = 0 /\ tickQueue # <<>>

(* Takes a tick and updates what it says of the market.  Nothing is        *)
(* evaluated until BTC has a price.  active_idx is loaded once per tick.   *)
PopTick ==
  LET t == Head(tickQueue) IN
  /\ TickReady
  /\ tickQueue' = Tail(tickQueue)
  /\ tick' = t
  /\ btcPrice' = IF t.price > 0 /\ t.sym = "btc" THEN t.price ELSE btcPrice
  /\ ethPrice' = IF t.price > 0 /\ t.sym = "eth" THEN t.price ELSE ethPrice
  /\ fundingRate' = IF t.funding # 0 THEN t.funding ELSE fundingRate
  /\ IF btcPrice' > 0 THEN turn' = 1 /\ selected' = activeIdx
                      ELSE UNCHANGED <<turn, selected>>
  /\ UNCHANGED <<feedVars, activeIdx, strategyVars, signalQueue, execVars, lost>>

Advance == turn' = IF turn = Len(Kind) THEN 0 ELSE turn + 1

(* What evaluating the entry condition does to the counter.                *)
CounterAfter(s) ==
  IF Kind[s] = "funding" /\ flat[s]
    THEN IF fundingRate > Threshold THEN counter[s] + 1 ELSE 0
    ELSE counter[s]

(* The outcomes check_cond may have for the entry and the exit condition.  *)
Entry(s) ==
  CASE Kind[s] = "momentum" -> {prev[s] > 0 /\ btcPrice > prev[s]}
    [] Kind[s] = "funding"  -> {CounterAfter(s) >= CounterMax}
    [] Kind[s] = "pairs"    -> IF ethPrice > 0 THEN BOOLEAN ELSE {FALSE}
    [] OTHER                -> BOOLEAN

Exit(s) ==
  CASE Kind[s] = "momentum" -> {prev[s] > 0 /\ btcPrice < prev[s]}
    [] Kind[s] = "funding"  -> {fundingRate < 0}
    [] Kind[s] = "pairs"    -> IF ethPrice > 0 THEN BOOLEAN ELSE {FALSE}
    [] OTHER                -> BOOLEAN

strategyOnly == <<feedVars, tickQueue, activeIdx, tick, selected, marketVars,
                  execVars>>

(* Mutation of Chosen: loads active_idx again for every strategy.          *)
ChosenNow == activeIdx \in {All, turn}

Chosen == selected \in {All, turn}

(* The strategies that are not selected are passed over, state and all.    *)
Skip ==
  /\ turn # 0 /\ ~Chosen
  /\ Advance
  /\ UNCHANGED <<strategyOnly, strategyVars, signalQueue, lost>>

MayRun == turn # 0 /\ Chosen

Observe(s) ==
  /\ counter' = [counter EXCEPT ![s] = CounterAfter(s)]
  /\ prev' = [prev EXCEPT ![s] = btcPrice]

(* The condition that matters in this state does not hold.                 *)
Hold ==
  /\ MayRun
  /\ FALSE \in IF flat[turn] THEN Entry(turn) ELSE Exit(turn)
  /\ Observe(turn)
  /\ Advance
  /\ UNCHANGED <<strategyOnly, flat, signalQueue, lost>>

(* Mutation of SignalOf: built after the flip, from the flipped state.     *)
SignalAfterFlip(s) == [strategy |-> s, side |-> IF flat[s] THEN "SELL" ELSE "BUY",
                       quote |-> tick.quote, seq |-> tick.seq]

(* Mutation of SignalOf: numbered by the feed's counter, not by the tick.  *)
SignalOfNewestTick(s) == [strategy |-> s,
                          side |-> IF flat[s] THEN "BUY" ELSE "SELL",
                          quote |-> tick.quote, seq |-> tickSeq]

SignalOf(s) == [strategy |-> s, side |-> IF flat[s] THEN "BUY" ELSE "SELL",
                quote |-> tick.quote, seq |-> tick.seq]

(* It holds: the strategy flips its own state and then pushes the signal,  *)
(* without looking at what try_push answers.                               *)
Emit ==
  LET s == turn IN
  /\ MayRun
  /\ TRUE \in IF flat[s] THEN Entry(s) ELSE Exit(s)
  /\ Observe(s)
  /\ flat' = [flat EXCEPT ![s] = ~@]
  /\ IF Len(signalQueue) < SignalCapacity
       THEN /\ signalQueue' = Append(signalQueue, SignalOf(s))
            /\ UNCHANGED lost
       ELSE /\ lost' = [lost EXCEPT ![s] = @ + Unit(SignalOf(s))]
            /\ UNCHANGED signalQueue
  /\ Advance
  /\ UNCHANGED strategyOnly

-----------------------------------------------------------------------------
(* Mutation of Popped: the newest signal.                                  *)
PoppedNewest == [signal |-> Last(signalQueue), rest |-> Front(signalQueue)]

(* What try_pop takes from the signal queue, and what it leaves.           *)
Popped == [signal |-> Head(signalQueue), rest |-> Tail(signalQueue)]

(* The execution thread takes a signal and fills it at the signal's quote; *)
(* without a price it passes on to the next one.                           *)
Execute ==
  LET sig == Popped.signal IN
  /\ signalQueue # <<>>
  /\ signalQueue' = Popped.rest
  /\ IF sig.quote = NoQuote
       THEN /\ lost' = [lost EXCEPT ![sig.strategy] = @ + Unit(sig)]
            /\ UNCHANGED execVars
       ELSE /\ qty' = [qty EXCEPT ![sig.strategy] = @ + Unit(sig)]
            /\ lastFill' = [lastFill EXCEPT ![sig.strategy] = sig]
            /\ UNCHANGED lost
  /\ UNCHANGED <<feedVars, tickQueue, activeIdx, turn, tick, selected,
                 marketVars, strategyVars>>

-----------------------------------------------------------------------------
Feed ==
  \/ \E h \in Heard : \/ Trade(h.read)
                     \/ Depth(h.message, h.read)
                     \/ Funding(h.read)
  \/ \E price \in Prices : Replay(price)

StrategyStep == PopTick \/ Skip \/ Hold \/ Emit

Next ==
  \/ Feed
  \/ \E s \in Strategies \union {All} : Swap(s)
  \/ StrategyStep
  \/ Execute

Spec == Init /\ [][Next]_vars

(* Both threads poll for as long as the program runs.                      *)
FairSpec == Spec /\ WF_vars(StrategyStep) /\ WF_vars(Execute)

-----------------------------------------------------------------------------
SignalType == [strategy : Strategies, side : {"BUY", "SELL"},
               quote : Quotes, seq : Nat]
TickType == [seq : Nat, sym : Symbols, price : Nat, funding : Int,
             quote : Quotes]

Tops == [bid : Positive \union {0}, ask : Positive \union {0}]

TypeOK ==
  /\ mode \in {"live", "replay"}
  /\ {book, told} \subseteq [Symbols -> Tops]
  /\ tickSeq \in Nat
  /\ tickQueue \in Seq(TickType) /\ Len(tickQueue) <= TickCapacity
  /\ activeIdx \in Strategies \union {All}
  /\ turn \in Strategies \union {0}
  /\ tick \in TickType
  /\ selected \in Strategies \union {All}
  /\ btcPrice \in Nat /\ ethPrice \in Nat /\ fundingRate \in Int
  /\ flat \in [Strategies -> BOOLEAN]
  /\ prev \in [Strategies -> Nat]
  /\ counter \in [Strategies -> Nat]
  /\ signalQueue \in Seq(SignalType) /\ Len(signalQueue) <= SignalCapacity
  /\ qty \in [Strategies -> Int]
  /\ lastFill \in [Strategies -> SignalType]
  /\ lost \in [Strategies -> Int]

(* A book holds both sides of one message of its own symbol, the last that *)
(* had both: text search and bracket counting neither mix the symbols nor  *)
(* take an ask for a bid when a side is empty, nor do they leave one side  *)
(* of an older book.                                                       *)
BookIsOfOneMessage == book = told

(* The places of a queue with a signal of a strategy to one side.          *)
Raised(queue, s, side) ==
  {i \in DOMAIN queue : queue[i].strategy = s /\ queue[i].side = side}

Net(queue, s) ==
  Cardinality(Raised(queue, s, "BUY")) - Cardinality(Raised(queue, s, "SELL"))

Pending(s) == Net(signalQueue, s)

Wanted(s) == IF flat[s] THEN 0 ELSE 1

(* Two threads keep the position of a strategy, each its own copy.  They   *)
(* differ by the signals under way and by the signals lost, to the unit:   *)
(* no signal acts twice and none disappears but at a full queue or for     *)
(* want of a price, however the swaps and the threads interleave.          *)
PositionExplained ==
  \A s \in Strategies : qty[s] + Pending(s) + lost[s] = Wanted(s)

(* Fills follow the market's order.  Along the pipeline, from the last     *)
(* fill of a strategy to the signals queued, the tick under evaluation and *)
(* the ticks queued, sequence numbers never go back, and a strategy never  *)
(* answers one tick twice.                                                 *)
InTickOrder ==
  /\ \A i, j \in DOMAIN tickQueue : i < j => tickQueue[i].seq < tickQueue[j].seq
  /\ \A i \in DOMAIN tickQueue : tick.seq < tickQueue[i].seq
  /\ \A i, j \in DOMAIN signalQueue :
       i < j => \/ signalQueue[i].seq < signalQueue[j].seq
                \/ /\ signalQueue[i].seq = signalQueue[j].seq
                   /\ signalQueue[i].strategy < signalQueue[j].strategy
  /\ \A i \in DOMAIN signalQueue :
       /\ lastFill[signalQueue[i].strategy].seq < signalQueue[i].seq
       /\ signalQueue[i].seq <= tick.seq

(* A replay loses no tick to a full queue: what was delivered is what was  *)
(* evaluated and what still waits.                                         *)
ReplayIsLossless == mode = "replay" => tick.seq + Len(tickQueue) = tickSeq

(* A swap of the active strategy takes effect between two ticks: on a tick *)
(* that began with every strategy selected, each one that had its turn has *)
(* seen the price.                                                         *)
SwapDoesNotSplitTick ==
  turn # 0 /\ selected = All => \A s \in 1 .. turn - 1 : prev[s] = btcPrice

(* The signals of a strategy that wait, whatever else waits between them.  *)
OpenOrders(s) ==
  {[at |-> signalQueue[i].seq, side |-> signalQueue[i].side] :
     i \in {j \in DOMAIN signalQueue : signalQueue[j].strategy = s}}

(* To each strategy the pipeline is a desk of its own, see TradingDesk:    *)
(* swaps, ticks that came too fast and the signals of the others in the    *)
(* same queue change neither the turns nor the order of its fills.         *)
Desk == INSTANCE TradingDesk WITH
          Moments <- 1 .. MaxTicks,
          long <- [s \in Strategies |-> ~flat[s]],
          orders <- [s \in Strategies |-> OpenOrders(s)],
          held <- qty

IsADesk == Desk!Spec

Queued(n) == \E i \in DOMAIN tickQueue : tickQueue[i].seq = n

(* No admitted tick waits for ever while the feed goes on, nor does a      *)
(* signal that was queued.                                                 *)
NothingWaitsForEver ==
  /\ \A n \in 1 .. MaxTicks : Queued(n) ~> tick.seq = n
  /\ \A n \in 1 .. MaxTicks :
       (\E i \in DOMAIN signalQueue : signalQueue[i].seq = n)
         ~> ~(\E i \in DOMAIN signalQueue : signalQueue[i].seq <= n)

-----------------------------------------------------------------------------
(* "We track per-strategy position locally in strategy loop to decide      *)
(* entry/exit": when nothing is under way, the position the strategy acts  *)
(* on is the position the engine holds.                                    *)
LocalPositionIsReal ==
  turn = 0 /\ signalQueue = <<>> => \A s \in Strategies : qty[s] = Wanted(s)

(* "Book state at signal time": every strategy prices BTC, so the quote a  *)
(* fill is made at comes from the BTC book.                                *)
FilledFromBtcBook ==
  \A s \in Strategies : lastFill[s].seq > 0 => lastFill[s].quote = "btc"
=============================================================================
