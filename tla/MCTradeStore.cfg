CONSTANTS
  Capacity = 2
  BatchSize = 2
  MaxRecords <- ThreeTrades
  Times <- TradeTimes
  Half = 16
  Epoch = 4
  Starts <- RangeStarts
  Ends <- RangeEnds
  Speeds <- Paces
  MaxWall = 3
SPECIFICATION FairSpecStore
INVARIANTS
  TypeOKStore
  NothingVanishes
  SentOnceInOrder
  ReplayFollowsFeed
  RangeIsReplayed
  NeverAheadOfTime
PROPERTIES
  EverythingSent
  ReplayFinishes
