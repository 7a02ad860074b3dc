CONSTANTS
  Numeral <- Decimal
  Kind <- FundingAndIndicator
  Prices <- TwoPrices
  Rates <- LowAndHigh
  Depths <- OneDepth
  Threshold = 1
  CounterMax = 2
  TickCapacity = 2
  SignalCapacity = 2
  MaxTicks = 4
SPECIFICATION Spec
INVARIANT
  LocalPositionIsReal
