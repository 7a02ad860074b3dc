CONSTANTS
  Numeral <- Decimal
  Kind <- MomentumAndPairs
  Prices <- TwoPrices
  Rates <- OneRate
  Depths <- OneDepth
  Threshold = 1
  CounterMax = 2
  TickCapacity = 2
  SignalCapacity = 2
  MaxTicks = 4
SPECIFICATION Spec
INVARIANT
  FilledFromBtcBook
