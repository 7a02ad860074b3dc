CONSTANTS
  Files <- OneUnknown
  MaxTrades = 2
  MaxFills = 3
SPECIFICATION Spec
INVARIANT
  ListIsFull
