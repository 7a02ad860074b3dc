CONSTANTS
  N = 4
  W = 8
  d1 = d1
  d2 = d2
  Items <- MCItems
  Default = Default
SPECIFICATION FairSpec
INVARIANTS
  TypeOK
  NoSlotRace
  IndexOrder
  HandoffIntact
PROPERTIES
  ImplementsQueue
  DrainsQueue
