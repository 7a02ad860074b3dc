----------------------------- MODULE MCTradeStore -----------------------------
(* Times below 32, kdb+ counting from the fourth, signed ones below 16; the *)
(* trades are of three.  The ranges: a part, all, and the default end.     *)
EXTENDS TradeStore

ThreeTrades == [trade |-> 3, fill |-> 1]
TwoTrades == [trade |-> 2, fill |-> 0]
TradeTimes == {9, 10, 13}
RangeStarts == {0, 10}
RangeEnds == {10, 13, 31}
Paces == {0, 2}
=============================================================================
