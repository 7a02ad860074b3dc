CONSTANTS
  Capacity = 2
  BatchSize = 2
  MaxRecords <- TwoTrades
  Times <- TradeTimes
  Half = 16
  Epoch = 4
  Starts <- RangeStarts
  Ends <- RangeEnds
  Speeds <- Paces
  MaxWall = 3
SPECIFICATION SpecStore
INVARIANT
  EveryTickIsStored
