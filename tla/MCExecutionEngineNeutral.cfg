CONSTANTS
  momentum = momentum
  pairs = pairs
  Strategies <- MCStrategies
  Quotes <- MCQuotes
  HedgeEnabled = TRUE
  HedgeNum = 1
  HedgeDen = 1
  MaxFills = 5
SPECIFICATION Spec
INVARIANT
  DeltaNeutral
CHECK_DEADLOCK FALSE
