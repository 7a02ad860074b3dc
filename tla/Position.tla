------------------------------ MODULE Position ------------------------------
(***************************************************************************)
(* A net position and what a fill does to it: Position::apply_fill         *)
(* (core/execution/position.hpp) and PnLTracker::unrealized                *)
(* (core/execution/pnl_tracker.hpp).                                       *)
(*                                                                         *)
(* Quantities and prices are integers: a quantity counts units of some     *)
(* small size, a price counts ticks.  The doubles of the code are exact    *)
(* on the values that matter here except in one place, the weighted        *)
(* average, which the model computes only where it is an integer           *)
(* (Representable).  The code's tolerance of 1e-12 on a quantity is a test *)
(* for zero.                                                               *)
(***************************************************************************)
EXTENDS Integers

Abs(x) == IF x < 0 THEN -x ELSE x

(* A default-constructed Position, and one that was closed.                *)
FlatPosition == [qty |-> 0, avg |-> 0]

SameDirection(q, f) == (q > 0 /\ f > 0) \/ (q < 0 /\ f < 0)

(* |q| * avg + |f| * price, whose quotient by |q| + |f| is the new average.*)
WeightedSum(pos, f, price) == Abs(pos.qty) * pos.avg + Abs(f) * price

(* The weighted average of the fill is an integer.                         *)
Representable(pos, f, price) ==
  SameDirection(pos.qty, f) =>
    WeightedSum(pos, f, price) % (Abs(pos.qty) + Abs(f)) = 0

(* The part of the position that an opposite fill f closes.                *)
Closed(pos, f) == IF Abs(f) < Abs(pos.qty) THEN Abs(f) ELSE Abs(pos.qty)

(* The position after an opposite fill: flipped, closed or reduced.        *)
AfterOpposite(pos, f, price) ==
  LET remaining == Abs(f) - Closed(pos, f)
      rest      == Abs(pos.qty) - Closed(pos, f)
  IN  IF remaining > 0
        THEN [qty |-> IF f > 0 THEN remaining ELSE -remaining, avg |-> price]
      ELSE IF rest = 0
        THEN FlatPosition
        ELSE [qty |-> IF pos.qty > 0 THEN rest ELSE -rest, avg |-> pos.avg]

(* The position after a fill of signed quantity f # 0.                     *)
PositionAfter(pos, f, price) ==
  IF pos.qty = 0
    THEN [qty |-> f, avg |-> price]
  ELSE IF SameDirection(pos.qty, f)
    THEN [qty |-> pos.qty + f,
          avg |-> WeightedSum(pos, f, price) \div (Abs(pos.qty) + Abs(f))]
    ELSE AfterOpposite(pos, f, price)

(* Mutation of RealizedBy: the profit of the whole position.               *)
RealizedByWhole(pos, f, price) ==
  IF pos.qty = 0 \/ SameDirection(pos.qty, f)
    THEN 0
    ELSE pos.qty * (price - pos.avg)

(* The profit the fill realizes: that of the part it closes.               *)
RealizedBy(pos, f, price) ==
  IF pos.qty = 0 \/ SameDirection(pos.qty, f)
    THEN 0
    ELSE Closed(pos, f) * IF pos.qty > 0 THEN price - pos.avg
                                         ELSE pos.avg - price

(* Mutation of Unrealized: a short gains when the price rises.             *)
UnrealizedOfSize(pos, mark) == Abs(pos.qty) * (mark - pos.avg)

(* Mark-to-market profit of the open position.                             *)
Unrealized(pos, mark) == pos.qty * (mark - pos.avg)
=============================================================================
