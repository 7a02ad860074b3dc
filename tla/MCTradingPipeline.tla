-------------------------- MODULE MCTradingPipeline --------------------------
(* The strategies of the runs, in load order, and what the feed says.      *)
EXTENDS TradingPipeline

MomentumAndFunding == <<"momentum", "funding">>
MomentumAndPairs == <<"momentum", "pairs">>
FundingAndIndicator == <<"funding", "indicator">>
TwoPrices == {1, 2}
OneRate == {2}
LowAndHigh == {-1, 2}

(* The numbers of the runs, in decimal.                                    *)
Decimal == [n \in -1 .. 8 |-> ToString(n)]

(* Both sides, or one of them empty.                                       *)
FullAndEmpty ==
  {[bids |-> <<5, 4, 3, 2, 1>>, asks |-> <<6, 7, 8>>],
   [bids |-> <<>>, asks |-> <<7, 8>>],
   [bids |-> <<6>>, asks |-> <<>>]}
OneDepth == {[bids |-> <<3, 2>>, asks |-> <<4, 5>>]}
=============================================================================
