----------------------- MODULE ExecutionEngine_proofs -----------------------
(***************************************************************************)
(* Proofs about the execution engine, for every set of strategies and      *)
(* quotes, every hedge ratio and any number of fills.  They rest on two    *)
(* lemmas about Position::apply_fill: the quantity moves by exactly the    *)
(* fill, and the realized profit is exactly what the cost of the open      *)
(* position does not account for.                                          *)
(***************************************************************************)
EXTENDS ExecutionEngine, SequenceTheorems, TLAPS

(* Each of the branches of apply_fill moves the quantity by the fill.      *)
LEMMA FillMovesQuantity ==
  ASSUME NEW pos \in PositionType, NEW f \in Int, NEW price \in Int
  PROVE  PositionAfter(pos, f, price).qty = pos.qty + f
  BY DEF PositionType, PositionAfter, SameDirection, AfterOpposite, Closed, Abs, FlatPosition

(* An average that is a whole number of price units loses nothing.         *)
LEMMA Average ==
  ASSUME NEW pos \in PositionType, NEW f \in Int, NEW price \in Int,
         SameDirection(pos.qty, f), Representable(pos, f, price)
  PROVE  LET total == Abs(pos.qty) + Abs(f)
             avg   == WeightedSum(pos, f, price) \div total
         IN  avg \in Int /\ total * avg = WeightedSum(pos, f, price)
<1> DEFINE total == Abs(pos.qty) + Abs(f)
           sum   == WeightedSum(pos, f, price)
<1>1. total \in Nat \ {0} /\ sum \in Int
  BY DEF PositionType, SameDirection, Abs, WeightedSum
<1>2. sum % total = 0
  BY DEF Representable
<1> HIDE DEF total, sum
<1>3. sum \div total \in Int /\ sum = total * (sum \div total) + (sum % total)
  BY <1>1
<1> QED
  BY <1>1, <1>2, <1>3 DEF total, sum

(* A fill leaves a position of its type and a whole profit.                *)
LEMMA PositionTypes ==
  ASSUME NEW pos \in PositionType, NEW f \in Int, NEW price \in Int,
         Representable(pos, f, price)
  PROVE  /\ PositionAfter(pos, f, price) \in PositionType
         /\ RealizedBy(pos, f, price) \in Int
<1>1. CASE SameDirection(pos.qty, f)
  <2>1. WeightedSum(pos, f, price) \div (Abs(pos.qty) + Abs(f)) \in Int
    BY <1>1, Average
  <2> QED
    BY <1>1, <2>1 DEF PositionType, PositionAfter, RealizedBy, SameDirection
<1>2. CASE ~SameDirection(pos.qty, f)
  BY <1>2 DEF PositionType, PositionAfter, RealizedBy, AfterOpposite, Closed, Abs, FlatPosition
<1> QED
  BY <1>1, <1>2

(* Realized profit less the cost of the open position moves by the money   *)
(* the fill costs, in every branch of apply_fill.                          *)
LEMMA FillBalances ==
  ASSUME NEW pos \in PositionType, NEW f \in Int, NEW price \in Int,
         Representable(pos, f, price)
  PROVE  LET new == PositionAfter(pos, f, price)
         IN  RealizedBy(pos, f, price) - new.qty * new.avg
               = -(pos.qty * pos.avg) - f * price
<1> DEFINE new == PositionAfter(pos, f, price)
           q == pos.qty
           a == pos.avg
<1>0. q \in Int /\ a \in Int
  BY DEF PositionType
<1>1. CASE q = 0
  BY <1>0, <1>1 DEF PositionAfter, RealizedBy
<1>2. CASE SameDirection(q, f)
  <2> DEFINE total == Abs(q) + Abs(f)
             avg   == WeightedSum(pos, f, price) \div total
  <2>1. avg \in Int /\ total * avg = WeightedSum(pos, f, price)
    BY <1>2, Average
  <2>2. new = [qty |-> q + f, avg |-> avg] /\ RealizedBy(pos, f, price) = 0
    BY <1>2, <1>0 DEF PositionAfter, RealizedBy, SameDirection
  <2> HIDE DEF avg
  <2>3. CASE q > 0 /\ f > 0
    <3>1. total = q + f /\ WeightedSum(pos, f, price) = q * a + f * price
      BY <1>0, <2>3 DEF WeightedSum, Abs
    <3>2. (q + f) * avg = q * a + f * price
      BY <2>1, <3>1
    <3>3. new.qty * new.avg = q * a + f * price
      BY <2>2, <3>2
    <3> QED
      BY <1>0, <2>2, <3>3
  <2>4. CASE q < 0 /\ f < 0
    <3>1. total = -(q + f) /\ WeightedSum(pos, f, price) = -(q * a) - f * price
      BY <1>0, <2>4 DEF WeightedSum, Abs
    <3>2. (q + f) * avg = q * a + f * price
      BY <1>0, <2>1, <3>1
    <3>3. new.qty * new.avg = q * a + f * price
      BY <2>2, <3>2
    <3> QED
      BY <1>0, <2>2, <3>3
  <2> QED
    BY <1>2, <2>3, <2>4 DEF SameDirection
<1>3. CASE q # 0 /\ ~SameDirection(q, f)
  <2> DEFINE gain == RealizedBy(pos, f, price)
  <2>0. /\ new = AfterOpposite(pos, f, price)
        /\ gain = Closed(pos, f) * IF q > 0 THEN price - a ELSE a - price
    BY <1>3 DEF PositionAfter, RealizedBy
  <2>1. CASE Abs(f) > Abs(q)
    <3>1. new.qty = q + f /\ new.avg = price
      BY <1>0, <1>3, <2>0, <2>1 DEF AfterOpposite, Closed, Abs, SameDirection
    <3>2. gain = q * (price - a)
      BY <1>0, <1>3, <2>0, <2>1 DEF Closed, Abs
    <3>3. new.qty * new.avg = (q + f) * price
      BY <3>1
    <3>4. q * (price - a) - (q + f) * price = -(q * a) - f * price
      BY <1>0
    <3> QED
      BY <3>2, <3>3, <3>4
  <2>2. CASE Abs(f) = Abs(q)
    <3>1. new = FlatPosition /\ f = -q
      BY <1>0, <1>3, <2>0, <2>2 DEF AfterOpposite, Closed, Abs, SameDirection
    <3>2. gain = q * (price - a)
      BY <1>0, <1>3, <2>0, <2>2 DEF Closed, Abs
    <3>3. new.qty * new.avg = 0
      BY <3>1 DEF FlatPosition
    <3>4. q * (price - a) - 0 = -(q * a) - (-q) * price
      BY <1>0
    <3> QED
      BY <3>1, <3>2, <3>3, <3>4
  <2>3. CASE Abs(f) < Abs(q)
    <3>1. new.qty = q + f /\ new.avg = a
      BY <1>0, <1>3, <2>0, <2>3 DEF AfterOpposite, Closed, Abs, SameDirection
    <3>2. gain = (-f) * (price - a)
      BY <1>0, <1>3, <2>0, <2>3 DEF Closed, Abs, SameDirection
    <3>3. new.qty * new.avg = (q + f) * a
      BY <3>1
    <3>4. (-f) * (price - a) - (q + f) * a = -(q * a) - f * price
      BY <1>0
    <3> QED
      BY <3>2, <3>3, <3>4
  <2>4. Abs(f) \in Int /\ Abs(q) \in Int
    BY <1>0 DEF Abs
  <2> QED
    BY <2>1, <2>2, <2>3, <2>4
<1> QED
  BY <1>1, <1>2, <1>3

-----------------------------------------------------------------------------
(* Quotes and units.                                                       *)

(* Prices and signs of fills are whole numbers.                            *)
LEMMA FillTypes ==
  ASSUME NEW side \in Sides, NEW q \in Quotes
  PROVE  /\ FillPrice(side, q) \in Int
         /\ Signed(side) \in Int
         /\ Mid(q) \in Int
<1>1. q.bid \in Nat /\ q.ask \in Nat /\ HedgeDen \in Nat
  BY QuotesAssumption, HedgeAssumption
<1>2. (q.bid + q.ask) \div 2 \in Int
  BY <1>1
<1> QED
  BY <1>1, <1>2 DEF FillPrice, Signed, TradeQty, Mid

(* So is the position of futures a hedge aims at.                          *)
LEMMA TargetType ==
  ASSUME NEW q \in Int
  PROVE  HedgeTarget(q) \in Int
<1>1. q * HedgeNum \in Int /\ HedgeDen \in Nat \ {0}
  BY HedgeAssumption
<1>2. (q * HedgeNum) \div HedgeDen \in Int
  BY <1>1
<1> QED
  BY <1>2 DEF HedgeTarget

(* What one fill of the engine computes has the right types.               *)
LEMMA FillStepTypes ==
  ASSUME TypeOK, NEW s \in Strategies, NEW side \in Sides, NEW q \in Quotes,
         Fill(s, side, q)
  PROVE  LET price == FillPrice(side, q)
             base  == PositionAfter(position[s], Signed(side), price)
             delta == HedgeDelta(base)
         IN  /\ price \in Int /\ Signed(side) \in Int /\ Mid(q) \in Int
             /\ position[s] \in PositionType /\ futures \in PositionType
             /\ base \in PositionType
             /\ RealizedBy(position[s], Signed(side), price) \in Int
             /\ delta \in Int
             /\ FuturesAfter(delta, price) \in PositionType
             /\ FuturesGain(delta, price) \in Int
<1> DEFINE price == FillPrice(side, q)
           base  == PositionAfter(position[s], Signed(side), price)
           delta == HedgeDelta(base)
<1>1. price \in Int /\ Signed(side) \in Int /\ Mid(q) \in Int
  BY FillTypes
<1>2. position[s] \in PositionType /\ futures \in PositionType
  BY DEF TypeOK
<1>3. /\ Representable(position[s], Signed(side), price)
      /\ Representable(futures, delta, price)
  BY DEF Fill
<1>4. base \in PositionType /\ RealizedBy(position[s], Signed(side), price) \in Int
  BY <1>1, <1>2, <1>3, PositionTypes
<1>5. delta \in Int
  BY <1>2, <1>4, TargetType DEF HedgeDelta, PositionType
<1>6. /\ FuturesAfter(delta, price) \in PositionType
      /\ FuturesGain(delta, price) \in Int
  BY <1>1, <1>2, <1>3, <1>5, PositionTypes DEF FuturesAfter, FuturesGain
<1> QED
  BY <1>1, <1>2, <1>4, <1>5, <1>6

(* And the unrealized profit.                                              *)
LEMMA UnrealizedType ==
  ASSUME NEW pos \in PositionType, NEW m \in Int
  PROVE  Unrealized(pos, m) \in Int
  BY DEF Unrealized, PositionType

(* A total leaves the tracker of its type.                                 *)
LEMMA TrackType ==
  ASSUME NEW m \in TrackerType, NEW total \in Int
  PROVE  Track(m, total) \in TrackerType
<1> DEFINE diff == Change(m, total)
<1>1. /\ m.peak \in Nat /\ m.maxDD \in Nat /\ m.prev \in Int
      /\ m.sum \in Int /\ m.sumSq \in Int /\ m.count \in Nat
  BY DEF TrackerType
<1>2. diff \in Int
  BY <1>1 DEF Change
<1>3. Peak(m, total) \in Nat /\ Peak(m, total) >= total
  BY <1>1 DEF Peak
<1> HIDE DEF diff
<1>4. diff * diff \in Int
  BY <1>2
<1> QED
  BY <1>1, <1>2, <1>3, <1>4 DEF Track, TrackerType, diff

-----------------------------------------------------------------------------
(* Every variable of the engine keeps its type: in particular every        *)
(* average stays an integer where the fill is representable.               *)
THEOREM TypeCorrect == Spec => []TypeOK
<1>1. Init => TypeOK
  BY DEF Init, TypeOK, PositionType, TrackerType, FlatPosition, NewTracker
<1>2. TypeOK /\ [Next]_vars => TypeOK'
  <2> SUFFICES ASSUME TypeOK, [Next]_vars
               PROVE  TypeOK'
    OBVIOUS
  <2>1. ASSUME NEW s \in Strategies, NEW side \in Sides, NEW q \in Quotes,
               Fill(s, side, q)
        PROVE  TypeOK'
    <3> DEFINE price == FillPrice(side, q)
               f     == Signed(side)
               base  == PositionAfter(position[s], f, price)
               gain  == RealizedBy(position[s], f, price)
               pnl   == realized[s] + gain
               open  == Unrealized(base, Mid(q))
               delta == HedgeDelta(base)
               hedge == FuturesAfter(delta, price)
               hedgePnl == futRealized + FuturesGain(delta, price)
               total == pnl + open
               hedged == total + IF HedgeEnabled
                                   THEN hedgePnl + Unrealized(hedge, Mid(q))
                                   ELSE 0
    <3>0. /\ realized[s] \in Int /\ futRealized \in Int
          /\ cash \in [Strategies -> Int] /\ cash[s] \in Int /\ futCash \in Int
      BY DEF TypeOK
    <3>1. /\ price \in Int /\ f \in Int /\ Mid(q) \in Int
          /\ base \in PositionType /\ gain \in Int /\ delta \in Int
          /\ hedge \in PositionType /\ FuturesGain(delta, price) \in Int
      BY <2>1, FillStepTypes
    <3> HIDE DEF price, f, base, gain, delta, hedge
    <3>2. open \in Int /\ Unrealized(hedge, Mid(q)) \in Int
      BY <3>1, UnrealizedType
    <3>3. pnl \in Int /\ hedgePnl \in Int
      BY <3>0, <3>1
    <3> HIDE DEF open, pnl, hedgePnl
    <3>4. /\ f * price \in Int /\ delta * price \in Int
      BY <3>1
    <3>14. total \in Int /\ hedged \in Int
      BY <3>2, <3>3
    <3> HIDE DEF total, hedged
    <3>7. /\ Track(metrics.unhedged, total) \in TrackerType
          /\ Track(metrics.hedged, hedged) \in TrackerType
      BY <3>14, TrackType DEF TypeOK
    <3>8. /\ position' = [position EXCEPT ![s] = base]
          /\ realized' = [realized EXCEPT ![s] = pnl]
          /\ futures' = hedge
          /\ futRealized' = hedgePnl
          /\ metrics' = [unhedged |-> Track(metrics.unhedged, total),
                         hedged   |-> Track(metrics.hedged, hedged)]
          /\ published' = [published EXCEPT ![s] =
                             [qty |-> base.qty, avg |-> base.avg,
                              realized |-> pnl, unrealized |-> open]]
          /\ last' = s
          /\ mark' = [mark EXCEPT ![s] = Mid(q)]
          /\ cash' = [cash EXCEPT ![s] = @ - f * price]
          /\ futCash' = futCash - delta * price
          /\ totals' = Append(totals, [unhedged |-> total, hedged |-> hedged])
      BY <2>1 DEF Fill, price, f, base, gain, pnl, open, delta, hedge,
                  hedgePnl, total, hedged
    <3>9. position' \in [Strategies -> PositionType] /\ futures' \in PositionType
      BY <3>1, <3>8 DEF TypeOK
    <3>10. realized' \in [Strategies -> Int] /\ futRealized' \in Int
      BY <3>3, <3>8 DEF TypeOK
    <3>11. metrics' \in [unhedged : TrackerType, hedged : TrackerType]
      BY <3>7, <3>8
    <3>12. published' \in [Strategies -> [qty : Int, avg : Int,
                                          realized : Int, unrealized : Int]]
      BY <3>1, <3>2, <3>3, <3>8 DEF TypeOK, PositionType
    <3>13. /\ last' \in Strategies \union {NoStrategy}
           /\ mark' \in [Strategies -> Int]
      BY <3>1, <3>8 DEF TypeOK
    <3>15. cash' \in [Strategies -> Int] /\ futCash' \in Int
      <4>1. cash[s] - f * price \in Int /\ futCash - delta * price \in Int
        BY <3>0, <3>4
      <4> QED
        BY <3>0, <3>8, <4>1
    <3>16. totals' \in Seq([unhedged : Int, hedged : Int])
      BY <3>14, <3>8 DEF TypeOK
    <3> QED
      BY <3>9, <3>10, <3>11, <3>12, <3>13, <3>15, <3>16 DEF TypeOK
  <2>2. CASE UNCHANGED vars
    BY <2>2 DEF TypeOK, vars, engineVars, historyVars
  <2> QED
    BY <2>1, <2>2 DEF Next
<1> QED
  BY <1>1, <1>2, PTL DEF Spec

(* No profit is invented or lost on the way from fills to realized PnL,    *)
(* for any strategy, whatever sequence of fills it makes.                  *)
THEOREM BooksBalance == Spec => []CashIdentity
<1>1. Init => CashIdentity
  BY DEF Init, CashIdentity, FlatPosition
<1>2. TypeOK /\ CashIdentity /\ [Next]_vars => CashIdentity'
  <2> SUFFICES ASSUME TypeOK, CashIdentity, [Next]_vars
               PROVE  CashIdentity'
    OBVIOUS
  <2>1. ASSUME NEW s \in Strategies, NEW side \in Sides, NEW q \in Quotes,
               Fill(s, side, q)
        PROVE  CashIdentity'
    <3> DEFINE price == FillPrice(side, q)
               f     == Signed(side)
               base  == PositionAfter(position[s], f, price)
               gain  == RealizedBy(position[s], f, price)
    <3>1. /\ price \in Int /\ f \in Int /\ position[s] \in PositionType
          /\ base \in PositionType /\ gain \in Int
      BY <2>1, FillStepTypes
    <3>2. gain - base.qty * base.avg
            = -(position[s].qty * position[s].avg) - f * price
      BY <2>1, <3>1, FillBalances DEF Fill
    <3>3. /\ position' = [position EXCEPT ![s] = base]
          /\ realized' = [realized EXCEPT ![s] = realized[s] + gain]
          /\ cash' = [cash EXCEPT ![s] = cash[s] - f * price]
      BY <2>1 DEF Fill
    <3> HIDE DEF price, f, base, gain
    <3>4. SUFFICES ASSUME NEW r \in Strategies
                   PROVE  realized'[r] - position'[r].qty * position'[r].avg
                            = cash'[r]
      BY DEF CashIdentity
    <3>5. CASE r # s
      BY <3>3, <3>5 DEF CashIdentity, TypeOK
    <3>6. CASE r = s
      <4>1. /\ realized[s] \in Int /\ cash[s] \in Int
            /\ position[s].qty * position[s].avg \in Int
            /\ base.qty * base.avg \in Int /\ f * price \in Int
        <5>1. realized[s] \in Int /\ cash[s] \in Int
          BY DEF TypeOK
        <5>2. /\ position[s].qty \in Int /\ position[s].avg \in Int
              /\ base.qty \in Int /\ base.avg \in Int
          BY <3>1 DEF PositionType
        <5> QED
          BY <3>1, <5>1, <5>2
      <4>2. realized[s] - position[s].qty * position[s].avg = cash[s]
        BY DEF CashIdentity
      <4>3. (realized[s] + gain) - base.qty * base.avg = cash[s] - f * price
        BY <3>1, <3>2, <4>1, <4>2
      <4> QED
        BY <3>3, <3>6, <4>3 DEF TypeOK
    <3> QED
      BY <3>5, <3>6
  <2>2. CASE UNCHANGED vars
    BY <2>2 DEF CashIdentity, vars, engineVars, historyVars
  <2> QED
    BY <2>1, <2>2 DEF Next
<1> QED
  BY <1>1, <1>2, TypeCorrect, PTL DEF Spec

(* The same for the futures leg, whose fills come from every strategy,     *)
(* have any size, and flip it.                                             *)
THEOREM FuturesBalance == Spec => []FuturesCashIdentity
<1>1. Init => FuturesCashIdentity
  BY DEF Init, FuturesCashIdentity, FlatPosition
<1>2. TypeOK /\ FuturesCashIdentity /\ [Next]_vars => FuturesCashIdentity'
  <2> SUFFICES ASSUME TypeOK, FuturesCashIdentity, [Next]_vars
               PROVE  FuturesCashIdentity'
    OBVIOUS
  <2>1. ASSUME NEW s \in Strategies, NEW side \in Sides, NEW q \in Quotes,
               Fill(s, side, q)
        PROVE  FuturesCashIdentity'
    <3> DEFINE price == FillPrice(side, q)
               base  == PositionAfter(position[s], Signed(side), price)
               delta == HedgeDelta(base)
               hedge == FuturesAfter(delta, price)
               gain  == FuturesGain(delta, price)
    <3>1. /\ price \in Int /\ delta \in Int /\ futures \in PositionType
          /\ hedge \in PositionType /\ gain \in Int
      BY <2>1, FillStepTypes
    <3>2. /\ futures' = hedge /\ futRealized' = futRealized + gain
          /\ futCash' = futCash - delta * price
          /\ Representable(futures, delta, price)
      BY <2>1 DEF Fill
    <3> HIDE DEF price, base, delta
    <3>3. gain - hedge.qty * hedge.avg
            = -(futures.qty * futures.avg) - delta * price
      <4>1. CASE delta = 0
        <5>1. gain = 0 /\ hedge = futures
          BY <4>1 DEF FuturesAfter, FuturesGain
        <5>2. futures.qty * futures.avg \in Int /\ delta * price = 0
          BY <3>1, <4>1 DEF PositionType
        <5> QED
          BY <5>1, <5>2
      <4>2. CASE delta # 0
        BY <3>1, <3>2, <4>2, FillBalances DEF FuturesAfter, FuturesGain
      <4> QED
        BY <4>1, <4>2
    <3>4. futRealized \in Int /\ futCash \in Int
      BY DEF TypeOK
    <3>5. /\ futures.qty * futures.avg \in Int /\ hedge.qty * hedge.avg \in Int
          /\ delta * price \in Int
      BY <3>1 DEF PositionType
    <3>6. futRealized - futures.qty * futures.avg = futCash
      BY DEF FuturesCashIdentity
    <3> HIDE DEF hedge, gain
    <3>7. (futRealized + gain) - hedge.qty * hedge.avg = futCash - delta * price
      BY <3>1, <3>3, <3>4, <3>5, <3>6
    <3> QED
      BY <3>2, <3>7 DEF FuturesCashIdentity
  <2>2. CASE UNCHANGED vars
    BY <2>2 DEF FuturesCashIdentity, vars, engineVars, historyVars
  <2> QED
    BY <2>1, <2>2 DEF Next
<1> QED
  BY <1>1, <1>2, TypeCorrect, PTL DEF Spec

(* After every fill the futures are the hedge of the strategy that filled, *)
(* whatever they were before and whatever the other strategies hold.       *)
FollowsLastFill ==
  HedgeEnabled /\ last # NoStrategy
    => futures.qty = HedgeTarget(position[last].qty)

(* rebalance leads to its target from any futures position.                *)
LEMMA HedgeFollows == Spec => []FollowsLastFill
<1>1. Init => FollowsLastFill
  BY DEF Init, FollowsLastFill
<1>2. TypeOK /\ FollowsLastFill /\ [Next]_vars => FollowsLastFill'
  <2> SUFFICES ASSUME TypeOK, FollowsLastFill, [Next]_vars
               PROVE  FollowsLastFill'
    OBVIOUS
  <2>1. ASSUME NEW s \in Strategies, NEW side \in Sides, NEW q \in Quotes,
               Fill(s, side, q)
        PROVE  FollowsLastFill'
    <3> DEFINE price == FillPrice(side, q)
               base  == PositionAfter(position[s], Signed(side), price)
               delta == HedgeDelta(base)
    <3>1. /\ price \in Int /\ delta \in Int
          /\ base \in PositionType /\ futures \in PositionType
      BY <2>1, FillStepTypes
    <3>2. /\ futures' = FuturesAfter(delta, price)
          /\ position'[last'] = base
      BY <2>1 DEF Fill, TypeOK
    <3>3. HedgeTarget(base.qty) \in Int /\ futures.qty \in Int
      BY <3>1, TargetType DEF PositionType
    <3> HIDE DEF price, base
    <3>4. SUFFICES ASSUME HedgeEnabled
                   PROVE  futures'.qty = HedgeTarget(base.qty)
      BY <3>2 DEF FollowsLastFill, HedgeTarget
    <3>5. delta = HedgeTarget(base.qty) - futures.qty
      BY <3>4 DEF HedgeDelta
    <3> HIDE DEF delta
    <3>6. CASE delta = 0
      BY <3>2, <3>3, <3>5, <3>6 DEF FuturesAfter
    <3>7. CASE delta # 0
      <4>1. futures'.qty = futures.qty + delta
        BY <3>1, <3>2, <3>7, FillMovesQuantity DEF FuturesAfter
      <4> QED
        BY <3>3, <3>5, <4>1
    <3> QED
      BY <3>6, <3>7
  <2>2. CASE UNCHANGED vars
    BY <2>2 DEF FollowsLastFill, HedgeTarget, vars, engineVars, historyVars
  <2> QED
    BY <2>1, <2>2 DEF Next
<1> QED
  BY <1>1, <1>2, TypeCorrect, PTL DEF Spec

(* The hedge is that of all there is while no other strategy holds a       *)
(* position: nothing is left of what the leg hedged before.                *)
THEOREM HedgeIsNeutralForOne == Spec => []NeutralWhenOneHolds
<1>1. FollowsLastFill => NeutralWhenOneHolds
  BY DEF FollowsLastFill, NeutralWhenOneHolds
<1> QED
  BY <1>1, HedgeFollows, PTL

(* What the dashboard holds of a strategy is what its last fill left.      *)
PublishedIsCurrent ==
  \A s \in Strategies :
    /\ published[s].realized = realized[s]
    /\ published[s].unrealized = Unrealized(position[s], mark[s])

(* The equity the dashboard shows of a strategy is the money it holds plus *)
(* its position at the mark of its last fill.                              *)
THEOREM DashboardCorrect == Spec => []DashboardEquity
<1>1. Init => PublishedIsCurrent
  BY DEF Init, PublishedIsCurrent, Unrealized, FlatPosition
<1>2. TypeOK /\ PublishedIsCurrent /\ [Next]_vars => PublishedIsCurrent'
  <2> SUFFICES ASSUME TypeOK, PublishedIsCurrent, [Next]_vars
               PROVE  PublishedIsCurrent'
    OBVIOUS
  <2>1. ASSUME NEW s \in Strategies, NEW side \in Sides, NEW q \in Quotes,
               Fill(s, side, q)
        PROVE  PublishedIsCurrent'
    <3> DEFINE base == PositionAfter(position[s], Signed(side), FillPrice(side, q))
               pnl  == realized[s] + RealizedBy(position[s], Signed(side),
                                                FillPrice(side, q))
    <3>1. /\ position' = [position EXCEPT ![s] = base]
          /\ realized' = [realized EXCEPT ![s] = pnl]
          /\ mark' = [mark EXCEPT ![s] = Mid(q)]
          /\ published' = [published EXCEPT ![s] =
               [qty |-> base.qty, avg |-> base.avg, realized |-> pnl,
                unrealized |-> Unrealized(base, Mid(q))]]
      BY <2>1 DEF Fill
    <3> HIDE DEF base, pnl
    <3>2. /\ DOMAIN position = Strategies /\ DOMAIN realized = Strategies
          /\ DOMAIN mark = Strategies /\ DOMAIN published = Strategies
      BY DEF TypeOK
    <3> QED
      BY <3>1, <3>2 DEF PublishedIsCurrent
  <2>2. CASE UNCHANGED vars
    BY <2>2 DEF PublishedIsCurrent, Unrealized, vars, engineVars, historyVars
  <2> QED
    BY <2>1, <2>2 DEF Next
<1>3. TypeOK /\ CashIdentity /\ PublishedIsCurrent => DashboardEquity
  <2> SUFFICES ASSUME TypeOK, CashIdentity, PublishedIsCurrent,
                      NEW s \in Strategies
               PROVE  published[s].realized + published[s].unrealized
                        = cash[s] + position[s].qty * mark[s]
    BY DEF DashboardEquity
  <2> DEFINE q == position[s].qty
             a == position[s].avg
             m == mark[s]
             r == realized[s]
  <2>1. q \in Int /\ a \in Int /\ m \in Int /\ r \in Int
    BY DEF TypeOK, PositionType
  <2>2. /\ published[s].realized = r
        /\ published[s].unrealized = q * (m - a)
        /\ cash[s] = r - q * a
    BY DEF PublishedIsCurrent, CashIdentity, Unrealized
  <2> HIDE DEF q, a, m, r
  <2>3. r + q * (m - a) = (r - q * a) + q * m
    BY <2>1
  <2> QED
    BY <2>2, <2>3 DEF q, m
<1> QED
  BY <1>1, <1>2, <1>3, TypeCorrect, BooksBalance, PTL DEF Spec
-----------------------------------------------------------------------------
(* What the hedge engine keeps of the totals, against the totals.          *)

Leg(ts, leg) == [i \in 1 .. Len(ts) |-> ts[i][leg]]

Total(t, i) == IF i = 0 THEN 0 ELSE t[i]

(* The tracker m has followed the totals t: the sum of the changes.        *)
SumsChanges(m, t) ==
  /\ m.count = Len(t)
  /\ t = <<>> => m.sum = 0
  /\ t # <<>> => m.prev = t[Len(t)] /\ m.sum = t[Len(t)] - t[1]

(* The same of the peak and of the largest fall, each of which is reached. *)
SeesPeak(m, t) ==
  /\ \A i \in 0 .. Len(t) : Total(t, i) <= m.peak
  /\ \E i \in 0 .. Len(t) : Total(t, i) = m.peak

SeesFall(m, t) ==
  /\ \A i, j \in 0 .. Len(t) : i <= j => Total(t, i) - Total(t, j) <= m.maxDD
  /\ \E i, j \in 0 .. Len(t) : i <= j /\ Total(t, i) - Total(t, j) = m.maxDD

HasFollowed(m, t) == SumsChanges(m, t) /\ SeesPeak(m, t) /\ SeesFall(m, t)

(* The totals are whole numbers, the one before the first is zero.         *)
LEMMA TotalType ==
  ASSUME NEW t \in Seq(Int), NEW i \in 0 .. Len(t)
  PROVE  Total(t, i) \in Int
  BY DEF Total

(* Appending a total keeps those before it.                                *)
LEMMA TotalsGrow ==
  ASSUME NEW t \in Seq(Int), NEW x \in Int
  PROVE  /\ Append(t, x) \in Seq(Int)
         /\ Len(Append(t, x)) = Len(t) + 1
         /\ \A i \in 0 .. Len(t) : Total(Append(t, x), i) = Total(t, i)
         /\ Total(Append(t, x), Len(t) + 1) = x
  BY DEF Total

(* The sum of the changes keeps up with the totals.                        *)
LEMMA SumStep ==
  ASSUME NEW m \in TrackerType, NEW t \in Seq(Int), NEW x \in Int,
         SumsChanges(m, t)
  PROVE  SumsChanges(Track(m, x), Append(t, x))
<1>1. /\ m.count \in Nat /\ m.sum \in Int /\ m.prev \in Int
  BY DEF TrackerType
<1>2. /\ Track(m, x).count = m.count + 1
      /\ Track(m, x).sum = m.sum + Change(m, x)
      /\ Track(m, x).prev = x
  BY DEF Track
<1>3. /\ Append(t, x) # <<>> /\ Len(Append(t, x)) = Len(t) + 1
      /\ Append(t, x)[Len(t) + 1] = x
  OBVIOUS
<1>4. CASE t = <<>>
  BY <1>1, <1>2, <1>3, <1>4 DEF SumsChanges, Change
<1>5. CASE t # <<>>
  <2>1. Len(t) \in Nat /\ Len(t) > 0 /\ t[1] \in Int /\ Append(t, x)[1] = t[1]
    BY <1>5
  <2>2. Change(m, x) = x - m.prev
    BY <1>1, <2>1 DEF Change, SumsChanges
  <2>3. m.sum = m.prev - t[1] /\ m.count = Len(t)
    BY <1>5 DEF SumsChanges
  <2> QED
    BY <1>1, <1>2, <1>3, <2>1, <2>2, <2>3 DEF SumsChanges
<1> QED
  BY <1>4, <1>5

(* The peak is still the highest total.                                    *)
LEMMA PeakStep ==
  ASSUME NEW m \in TrackerType, NEW t \in Seq(Int), NEW x \in Int,
         SeesPeak(m, t)
  PROVE  SeesPeak(Track(m, x), Append(t, x))
<1> DEFINE u == Append(t, x)
           n == Len(t)
<1>1. m.peak \in Int /\ n \in Nat /\ \A i \in 0 .. n : Total(t, i) \in Int
  BY TotalType DEF TrackerType
<1>2. /\ Len(u) = n + 1 /\ Total(u, n + 1) = x
      /\ \A i \in 0 .. n : Total(u, i) = Total(t, i)
  BY TotalsGrow
<1>3. Track(m, x).peak = IF x > m.peak THEN x ELSE m.peak
  BY DEF Track, Peak
<1>4. PICK k \in 0 .. n : Total(t, k) = m.peak
  BY DEF SeesPeak
<1> HIDE DEF u, n
<1>5. \A i \in 0 .. n : Total(t, i) <= m.peak
  BY DEF SeesPeak, n
<1>6. \A i \in 0 .. n + 1 : Total(u, i) <= Track(m, x).peak
  BY <1>1, <1>2, <1>3, <1>5
<1>7. \E i \in 0 .. n + 1 : Total(u, i) = Track(m, x).peak
  BY <1>1, <1>2, <1>3, <1>4
<1> QED
  BY <1>2, <1>6, <1>7 DEF SeesPeak, u

(* A new largest fall ends at the new total and begins at the peak.        *)
LEMMA FallStep ==
  ASSUME NEW m \in TrackerType, NEW t \in Seq(Int), NEW x \in Int,
         SeesPeak(m, t), SeesFall(m, t)
  PROVE  SeesFall(Track(m, x), Append(t, x))
<1> DEFINE u == Append(t, x)
           n == Len(t)
           peak == Peak(m, x)
           dd == Track(m, x).maxDD
<1>1. /\ m.peak \in Int /\ m.maxDD \in Nat /\ n \in Nat
      /\ \A i \in 0 .. n : Total(t, i) \in Int
  BY TotalType DEF TrackerType
<1>2. /\ Len(u) = n + 1 /\ Total(u, n + 1) = x
      /\ \A i \in 0 .. n : Total(u, i) = Total(t, i)
  BY TotalsGrow
<1>3. peak = IF x > m.peak THEN x ELSE m.peak
  BY DEF Peak
<1>4. dd = IF peak - x > m.maxDD THEN peak - x ELSE m.maxDD
  BY DEF Track
<1>5. /\ \A i \in 0 .. n : Total(t, i) <= m.peak
      /\ \E i \in 0 .. n : Total(t, i) = m.peak
  BY DEF SeesPeak
<1>6. /\ \A i, j \in 0 .. n : i <= j => Total(t, i) - Total(t, j) <= m.maxDD
      /\ \E i, j \in 0 .. n : i <= j /\ Total(t, i) - Total(t, j) = m.maxDD
  BY DEF SeesFall
<1> HIDE DEF u, n, peak, dd
<1>7. \A i, j \in 0 .. n + 1 : i <= j => Total(u, i) - Total(u, j) <= dd
  <2> SUFFICES ASSUME NEW i \in 0 .. n + 1, NEW j \in 0 .. n + 1, i <= j
               PROVE  Total(u, i) - Total(u, j) <= dd
    OBVIOUS
  <2>1. CASE j \in 0 .. n
    <3>1. i \in 0 .. n /\ Total(t, i) \in Int /\ Total(t, j) \in Int
      BY <1>1, <2>1
    <3>2. Total(t, i) - Total(t, j) <= m.maxDD
      BY <1>6, <2>1, <3>1
    <3> QED
      BY <1>1, <1>2, <1>3, <1>4, <2>1, <3>1, <3>2
  <2>2. CASE j = n + 1 /\ i \in 0 .. n
    BY <1>1, <1>2, <1>3, <1>4, <1>5, <2>2
  <2>3. CASE j = n + 1 /\ i = n + 1
    BY <1>1, <1>2, <1>3, <1>4, <2>3
  <2> QED
    BY <1>1, <2>1, <2>2, <2>3
<1>8. \E i, j \in 0 .. n + 1 : i <= j /\ Total(u, i) - Total(u, j) = dd
  <2>1. CASE dd = m.maxDD
    <3>1. PICK i \in 0 .. n, j \in 0 .. n :
                 i <= j /\ Total(t, i) - Total(t, j) = m.maxDD
      BY <1>6
    <3>2. i \in 0 .. n + 1 /\ j \in 0 .. n + 1
      BY <1>1
    <3> QED
      BY <1>2, <2>1, <3>1, <3>2
  <2>2. CASE dd # m.maxDD
    <3>1. dd = m.peak - x
      BY <1>1, <1>3, <1>4, <2>2
    <3>2. PICK i \in 0 .. n : Total(t, i) = m.peak
      BY <1>5
    <3>3. i \in 0 .. n + 1 /\ n + 1 \in 0 .. n + 1 /\ i <= n + 1
      BY <1>1
    <3> QED
      BY <1>2, <3>1, <3>2, <3>3
  <2> QED
    BY <2>1, <2>2
<1> QED
  BY <1>2, <1>7, <1>8 DEF SeesFall, u, dd

(* A tracker that followed the totals so far follows the next one.         *)
LEMMA Followed ==
  ASSUME NEW m \in TrackerType, NEW t \in Seq(Int), NEW x \in Int,
         HasFollowed(m, t)
  PROVE  HasFollowed(Track(m, x), Append(t, x))
  BY SumStep, PeakStep, FallStep DEF HasFollowed

(* Both trackers have followed the totals of their leg.                    *)
TrackersFollow ==
  /\ HasFollowed(metrics.unhedged, Leg(totals, "unhedged"))
  /\ HasFollowed(metrics.hedged, Leg(totals, "hedged"))

(* The totals of one leg are a sequence of whole numbers.                  *)
LEMMA LegTypes ==
  ASSUME TypeOK
  PROVE  /\ Leg(totals, "unhedged") \in Seq(Int)
         /\ Leg(totals, "hedged") \in Seq(Int)
<1>0. totals \in Seq([unhedged : Int, hedged : Int])
  BY DEF TypeOK
<1>1. /\ Len(totals) \in Nat
      /\ \A i \in 1 .. Len(totals) :
           totals[i].unhedged \in Int /\ totals[i].hedged \in Int
  <2>1. Len(totals) \in Nat
    BY <1>0
  <2>2. \A i \in 1 .. Len(totals) : totals[i] \in [unhedged : Int, hedged : Int]
    BY <1>0, ElementOfSeq
  <2> QED
    BY <2>1, <2>2
<1>2. /\ Leg(totals, "unhedged") \in [1 .. Len(totals) -> Int]
      /\ Leg(totals, "hedged") \in [1 .. Len(totals) -> Int]
  BY <1>1 DEF Leg
<1> QED
  BY <1>1, <1>2, IsASeq

(* A fill appends one total to either leg.                                 *)
LEMMA LegGrows ==
  ASSUME TypeOK, NEW u \in Int, NEW h \in Int,
         totals' = Append(totals, [unhedged |-> u, hedged |-> h])
  PROVE  /\ Leg(totals', "unhedged") = Append(Leg(totals, "unhedged"), u)
         /\ Leg(totals', "hedged") = Append(Leg(totals, "hedged"), h)
<1>1. totals \in Seq([unhedged : Int, hedged : Int])
  BY DEF TypeOK
<1>2. /\ Len(totals') = Len(totals) + 1
      /\ totals'[Len(totals) + 1] = [unhedged |-> u, hedged |-> h]
      /\ \A i \in 1 .. Len(totals) : totals'[i] = totals[i]
  BY <1>1
<1> QED
  BY <1>1, <1>2 DEF Leg

(* Every step keeps both trackers up with the totals.                      *)
LEMMA TrackersKeepUp == TypeOK /\ TypeOK' /\ TrackersFollow /\ [Next]_vars
                          => TrackersFollow'
<1> SUFFICES ASSUME TypeOK, TypeOK', TrackersFollow, [Next]_vars
             PROVE  TrackersFollow'
  OBVIOUS
<1>1. ASSUME NEW s \in Strategies, NEW side \in Sides, NEW q \in Quotes,
             Fill(s, side, q)
      PROVE  TrackersFollow'
  <2>1. PICK u, h : /\ metrics' = [unhedged |-> Track(metrics.unhedged, u),
                                   hedged |-> Track(metrics.hedged, h)]
                    /\ totals' = Append(totals, [unhedged |-> u, hedged |-> h])
    BY <1>1 DEF Fill
  <2>2. u \in Int /\ h \in Int
    BY <2>1 DEF TypeOK, TrackerType, Track
  <2>3. metrics.unhedged \in TrackerType /\ metrics.hedged \in TrackerType
    BY DEF TypeOK
  <2>4. /\ HasFollowed(metrics'.unhedged, Append(Leg(totals, "unhedged"), u))
        /\ HasFollowed(metrics'.hedged, Append(Leg(totals, "hedged"), h))
    BY <2>1, <2>2, <2>3, LegTypes, Followed DEF TrackersFollow
  <2> QED
    BY <2>1, <2>2, <2>4, LegGrows DEF TrackersFollow
<1>2. CASE UNCHANGED vars
  BY <1>2 DEF TrackersFollow, Leg, vars, engineVars, historyVars
<1> QED
  BY <1>1, <1>2 DEF Next

(* Neither tracker has anything to follow at first.                        *)
LEMMA TrackersStart == Init => TrackersFollow
<1> SUFFICES ASSUME Init
             PROVE  TrackersFollow
  OBVIOUS
<1>1. /\ Leg(totals, "unhedged") = <<>> /\ Leg(totals, "hedged") = <<>>
      /\ metrics.unhedged = NewTracker /\ metrics.hedged = NewTracker
  BY DEF Init, Leg
<1>2. HasFollowed(NewTracker, <<>>)
  BY DEF HasFollowed, SumsChanges, SeesPeak, SeesFall, Total, NewTracker
<1> QED
  BY <1>1, <1>2 DEF TrackersFollow

(* The sums behind the Sharpe ratio are those of the totals, for any       *)
(* sequence of fills.                                                      *)
THEOREM ChangesCorrect == Spec => []ChangesAddUp
<1>1. TypeOK /\ TrackersFollow => ChangesAddUp
  <2> SUFFICES ASSUME TypeOK, TrackersFollow, totals # <<>>
               PROVE  /\ metrics.unhedged.sum
                           = totals[Len(totals)].unhedged - totals[1].unhedged
                      /\ metrics.hedged.sum
                           = totals[Len(totals)].hedged - totals[1].hedged
    BY DEF ChangesAddUp
  <2>1. Len(totals) \in Nat /\ Len(totals) > 0
    BY DEF TypeOK
  <2> QED
    BY <2>1 DEF TrackersFollow, HasFollowed, SumsChanges, Leg
<1> QED
  BY <1>1, TrackersStart, TrackersKeepUp, TypeCorrect, PTL DEF Spec

(* A fall that is the bound of all and one of them is the largest.         *)
LEMMA LargestIsReached ==
  ASSUME NEW m \in TrackerType, NEW t \in Seq(Int), SeesFall(m, t)
  PROVE  LargestFall(t) = m.maxDD
<1> DEFINE spans == {p \in (0 .. Len(t)) \X (0 .. Len(t)) : p[1] <= p[2]}
           S == {Total(t, p[1]) - Total(t, p[2]) : p \in spans}
<1>1. LargestFall(t) = Max(S)
  BY DEF LargestFall, Total
<1>2. m.maxDD \in S
  <2>1. PICK i \in 0 .. Len(t), j \in 0 .. Len(t) :
               i <= j /\ Total(t, i) - Total(t, j) = m.maxDD
    BY DEF SeesFall
  <2>2. <<i, j>> \in spans
    BY <2>1
  <2> QED
    BY <2>1, <2>2
<1>3. \A x \in S : x <= m.maxDD
  BY DEF SeesFall
<1>4. m.maxDD \in Int /\ S \subseteq Int
  BY TotalType DEF TrackerType
<1> HIDE DEF S
<1>5. Max(S) \in S /\ \A x \in S : Max(S) >= x
  BY <1>2, <1>3, <1>4 DEF Max
<1>6. Max(S) \in Int /\ Max(S) >= m.maxDD /\ Max(S) <= m.maxDD
  BY <1>2, <1>3, <1>4, <1>5
<1> QED
  BY <1>1, <1>4, <1>6

(* The drawdown kept from fill to fill is the largest peak-to-trough fall  *)
(* of all totals, for any sequence of fills.                               *)
THEOREM DrawdownCorrect == Spec => []DrawdownIsLargestFall
<1>1. TypeOK /\ TrackersFollow => DrawdownIsLargestFall
  <2> SUFFICES ASSUME TypeOK, TrackersFollow
               PROVE  DrawdownIsLargestFall
    OBVIOUS
  <2>1. /\ Leg(totals, "unhedged") = [i \in DOMAIN totals |-> totals[i].unhedged]
        /\ Leg(totals, "hedged") = [i \in DOMAIN totals |-> totals[i].hedged]
    BY DEF Leg, TypeOK
  <2>2. metrics.unhedged \in TrackerType /\ metrics.hedged \in TrackerType
    BY DEF TypeOK
  <2>3. /\ LargestFall(Leg(totals, "unhedged")) = metrics.unhedged.maxDD
        /\ LargestFall(Leg(totals, "hedged")) = metrics.hedged.maxDD
    BY <2>2, LegTypes, LargestIsReached DEF TrackersFollow, HasFollowed
  <2> QED
    BY <2>1, <2>3 DEF DrawdownIsLargestFall
<1> QED
  BY <1>1, TrackersStart, TrackersKeepUp, TypeCorrect, PTL DEF Spec
=============================================================================
