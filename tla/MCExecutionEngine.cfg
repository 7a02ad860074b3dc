CONSTANTS
  momentum = momentum
  pairs = pairs
  Strategies <- MCStrategies
  Quotes <- MCQuotes
  HedgeEnabled = TRUE
  HedgeNum = 1
  HedgeDen = 2
  MaxFills = 5
SPECIFICATION Spec
INVARIANTS
  TypeOK
  CashIdentity
  FuturesCashIdentity
  NeutralWhenOneHolds
  DashboardEquity
  DrawdownIsLargestFall
  ChangesAddUp
CHECK_DEADLOCK FALSE
