CONSTANTS
  Files <- OneUnknown
  MaxTrades = 2
  MaxFills = 5
SPECIFICATION FairSpec
INVARIANTS
  TypeOK
  ListIsNewestFirst
  FirstLapIsRaceFree
  LabelIsOfTheFill
  RowsKeepUpWithList
PROPERTY
  FillIsShown
