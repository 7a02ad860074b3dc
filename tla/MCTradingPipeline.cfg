CONSTANTS
  Numeral <- Decimal
  Kind <- MomentumAndFunding
  Prices <- TwoPrices
  Rates <- LowAndHigh
  Depths <- FullAndEmpty
  Threshold = 1
  CounterMax = 2
  TickCapacity = 2
  SignalCapacity = 2
  MaxTicks = 3
SPECIFICATION FairSpec
INVARIANTS
  TypeOK
  BookIsOfOneMessage
  PositionExplained
  InTickOrder
  ReplayIsLossless
  SwapDoesNotSplitTick
PROPERTIES
  IsADesk
  NothingWaitsForEver
