--------------------------- MODULE ExecutionEngine ---------------------------
(***************************************************************************)
(* The paper-trading engine: the body of execution_loop                    *)
(* (core/execution/execution_engine.hpp) for one signal, with the          *)
(* positions and PnL trackers it keeps per strategy, the one HedgeEngine   *)
(* (core/execution/hedge_engine.hpp) that all strategies share, and what   *)
(* it publishes to the dashboard.                                          *)
(*                                                                         *)
(* A signal names a strategy, a side and the quote it carries.  Which      *)
(* signals arrive is decided upstream (TradingPipeline): a signal may be   *)
(* lost on the way, so the engine may see any sequence of sides.  A signal *)
(* whose quote has no price is skipped without a trace.  RESET_STATE has   *)
(* no sender in the program.                                               *)
(***************************************************************************)
EXTENDS Position, Sequences, FiniteSetsExt

CONSTANTS
  Strategies,     (* the names of the strategies                           *)
  Quotes,         (* the order-book quotes a signal may carry: [bid, ask]  *)
  HedgeEnabled,   (* HedgeEngine::enabled_                                 *)
  HedgeNum,       (* hedge_ratio_ is HedgeNum / HedgeDen                   *)
  HedgeDen,
  MaxFills        (* bound on the number of fills                          *)

ASSUME QuotesAssumption ==
  \A q \in Quotes : /\ q \in [bid : Nat \ {0}, ask : Nat \ {0}]
                    /\ (q.bid + q.ask) % 2 = 0

ASSUME HedgeAssumption ==
  HedgeEnabled \in BOOLEAN /\ HedgeNum \in Nat /\ HedgeDen \in Nat \ {0}

ASSUME BoundAssumption == MaxFills \in Nat

Sides == {"BUY", "SELL"}
NoStrategy == "none"
ASSUME StrategiesAssumption == NoStrategy \notin Strategies

VARIABLES
  position,   (* positions[s]: one Position per strategy                   *)
  realized,   (* pnl_trackers[s].realized                                  *)
  futures,    (* HedgeEngine::futures_pos_                                 *)
  futRealized,(* HedgeEngine::futures_pnl_.realized                        *)
  metrics,    (* peaks, drawdowns and last totals of the HedgeEngine       *)
  published,  (* UIState::strategy_metrics[s]                              *)
  last,       (* history: the strategy of the last fill                    *)
  mark,       (* history: the mid price at the last fill of each strategy  *)
  cash,       (* history: money received minus money paid, per strategy    *)
  futCash,    (* history: the same for the futures leg                     *)
  totals      (* history: the totals of update_metrics, per fill           *)

engineVars == <<position, realized, futures, futRealized, metrics, published>>
historyVars == <<last, mark, cash, futCash, totals>>
vars == <<engineVars, historyVars>>

(* TRADE_QTY, in units small enough that the hedge ratio gives an integer. *)
TradeQty == HedgeDen

Signed(side) == IF side = "BUY" THEN TradeQty ELSE -TradeQty

(* BUY fills lift the offer, SELL fills hit the bid.                       *)
FillPrice(side, q) == IF side = "BUY" THEN q.ask ELSE q.bid

Mid(q) == (q.bid + q.ask) \div 2

(* HedgeEngine::rebalance: the futures quantity wanted against a base      *)
(* position of quantity q, and the fill that leads there (0: none).        *)
HedgeTarget(q) == -((q * HedgeNum) \div HedgeDen)

(*   Mutation: orders the whole target, whatever the futures already are.  *)
HedgeDeltaFromFlat(base) == IF HedgeEnabled THEN HedgeTarget(base.qty) ELSE 0

HedgeDelta(base) ==
  IF HedgeEnabled THEN HedgeTarget(base.qty) - futures.qty ELSE 0

(*   Mutation: the quantity changes, the average does not.                 *)
FuturesAfterKeepingAverage(delta, price) == [futures EXCEPT !.qty = @ + delta]

FuturesAfter(delta, price) ==
  IF delta = 0 THEN futures ELSE PositionAfter(futures, delta, price)

FuturesGain(delta, price) ==
  IF delta = 0 THEN 0 ELSE RealizedBy(futures, delta, price)

(* Mutation of Peak: the total before, if that was lower.                  *)
PeakFromPrevious(m, total) == IF total > m.prev THEN total ELSE m.peak

(* Mutation of Peak: it follows the total down.                            *)
PeakFollowing(m, total) == total

Peak(m, total) == IF total > m.peak THEN total ELSE m.peak

(* Mutation of Change: the first total counts as a change from zero.       *)
ChangeFromZero(m, total) == total - m.prev

(* The change since the total before; the first one has none.              *)
Change(m, total) == IF m.count > 0 THEN total - m.prev ELSE 0

(* One side of update_metrics: the peak, the drawdown, the last total, and *)
(* the sums of the changes and of their squares.                           *)
Track(m, total) ==
  LET fall == Peak(m, total) - total
      diff == Change(m, total)
  IN  [peak |-> Peak(m, total),
       maxDD |-> IF fall > m.maxDD THEN fall ELSE m.maxDD,
       prev |-> total,
       sum |-> m.sum + diff,
       sumSq |-> m.sumSq + diff * diff,
       count |-> m.count + 1]

NewTracker ==
  [peak |-> 0, maxDD |-> 0, prev |-> 0, sum |-> 0, sumSq |-> 0, count |-> 0]

Init ==
  /\ position = [s \in Strategies |-> FlatPosition]
  /\ realized = [s \in Strategies |-> 0]
  /\ futures = FlatPosition
  /\ futRealized = 0
  /\ metrics = [unhedged |-> NewTracker, hedged |-> NewTracker]
  /\ published = [s \in Strategies |->
                    [qty |-> 0, avg |-> 0, realized |-> 0, unrealized |-> 0]]
  /\ last = NoStrategy
  /\ mark = [s \in Strategies |-> 0]
  /\ cash = [s \in Strategies |-> 0]
  /\ futCash = 0
  /\ totals = <<>>

(* One signal that has a price: fill, position, PnL, hedge, metrics and    *)
(* dashboard, in the order of the loop body.                               *)
Fill(s, side, q) ==
  LET price   == FillPrice(side, q)
      f       == Signed(side)
      base    == PositionAfter(position[s], f, price)
      pnl     == realized[s] + RealizedBy(position[s], f, price)
      open    == Unrealized(base, Mid(q))
      delta   == HedgeDelta(base)
      hedge   == FuturesAfter(delta, price)
      hedgePnl == futRealized + FuturesGain(delta, price)
      total   == pnl + open
      hedged  == total + IF HedgeEnabled THEN hedgePnl + Unrealized(hedge, Mid(q))
                                         ELSE 0
  IN
  /\ Len(totals) < MaxFills
  /\ Representable(position[s], f, price)
  /\ Representable(futures, delta, price)
  /\ position' = [position EXCEPT ![s] = base]
  /\ realized' = [realized EXCEPT ![s] = pnl]
  /\ futures' = hedge
  /\ futRealized' = hedgePnl
  /\ metrics' = [unhedged |-> Track(metrics.unhedged, total),
                 hedged   |-> Track(metrics.hedged, hedged)]
  /\ published' = [published EXCEPT ![s] =
                     [qty |-> base.qty, avg |-> base.avg,
                      realized |-> pnl, unrealized |-> open]]
  /\ last' = s
  /\ mark' = [mark EXCEPT ![s] = Mid(q)]
  /\ cash' = [cash EXCEPT ![s] = @ - f * price]
  /\ futCash' = futCash - delta * price
  /\ totals' = Append(totals, [unhedged |-> total, hedged |-> hedged])

Next == \E s \in Strategies, side \in Sides, q \in Quotes : Fill(s, side, q)

Spec == Init /\ [][Next]_vars

-----------------------------------------------------------------------------
PositionType == [qty : Int, avg : Int]
TrackerType ==
  [peak : Nat, maxDD : Nat, prev : Int, sum : Int, sumSq : Int, count : Nat]

TypeOK ==
  /\ position \in [Strategies -> PositionType]
  /\ realized \in [Strategies -> Int]
  /\ futures \in PositionType
  /\ futRealized \in Int
  /\ metrics \in [unhedged : TrackerType, hedged : TrackerType]
  /\ published \in [Strategies -> [qty : Int, avg : Int,
                                   realized : Int, unrealized : Int]]
  /\ last \in Strategies \union {NoStrategy}
  /\ mark \in [Strategies -> Int]
  /\ cash \in [Strategies -> Int]
  /\ futCash \in Int
  /\ totals \in Seq([unhedged : Int, hedged : Int])

(* The books balance.  However fills open, add to, reduce, close and flip  *)
(* a position, what apply_fill has realized, less the cost of the position *)
(* still open, is the money that changed hands: no profit is invented or   *)
(* lost, for any strategy.                                                 *)
CashIdentity ==
  \A s \in Strategies :
    realized[s] - position[s].qty * position[s].avg = cash[s]

(* The same of the futures leg, whose fills have any size, flip it and     *)
(* come from every strategy.                                               *)
FuturesCashIdentity ==
  futRealized - futures.qty * futures.avg = futCash

(* While only the strategy that filled last holds a position, the futures  *)
(* are equal and opposite to it, by the ratio and to the unit, whichever   *)
(* strategies filled and were hedged before; and a flat account has no     *)
(* futures.                                                                *)
NeutralWhenOneHolds ==
  HedgeEnabled /\ last # NoStrategy
    /\ (\A s \in Strategies \ {last} : position[s].qty = 0)
  => futures.qty = HedgeTarget(position[last].qty)

(* All that the strategies hold.                                           *)
Inventory == MapThenSumSet(LAMBDA s : position[s].qty, Strategies)

(* "Maintain neutral inventory risk! (Delta Neutrality)": the futures are  *)
(* equal and opposite, by the ratio, to the base position, of which each   *)
(* strategy has its part.                                                  *)
DeltaNeutral == HedgeEnabled => futures.qty = HedgeTarget(Inventory)

(* What the dashboard shows of a strategy adds up to the money the         *)
(* strategy holds plus its position at the mark of its last fill.          *)
DashboardEquity ==
  \A s \in Strategies :
    published[s].realized + published[s].unrealized
      = cash[s] + position[s].qty * mark[s]

(* The largest fall from a total to a later one, the start counting as 0.  *)
LargestFall(t) ==
  LET total(i) == IF i = 0 THEN 0 ELSE t[i]
      spans == {p \in (0 .. Len(t)) \X (0 .. Len(t)) : p[1] <= p[2]}
  IN  Max({total(p[1]) - total(p[2]) : p \in spans})

(* The running peak and drawdown, updated with each fill, are the largest  *)
(* peak-to-trough fall of all the totals so far, hedged and unhedged.      *)
DrawdownIsLargestFall ==
  /\ metrics.unhedged.maxDD =
       LargestFall([i \in DOMAIN totals |-> totals[i].unhedged])
  /\ metrics.hedged.maxDD =
       LargestFall([i \in DOMAIN totals |-> totals[i].hedged])

(* The figures behind the Sharpe ratio are of the totals shown: the sum of *)
(* the changes is the way from the first total to the last, hedged and     *)
(* unhedged, so that the mean has no part of what was there before.        *)
ChangesAddUp ==
  totals # <<>> =>
    /\ metrics.unhedged.sum = totals[Len(totals)].unhedged - totals[1].unhedged
    /\ metrics.hedged.sum = totals[Len(totals)].hedged - totals[1].hedged
=============================================================================
