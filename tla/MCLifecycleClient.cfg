CONSTANTS
  Modes <- LiveOnly
  MaxClients = 1
  TickCapacity = 2
  QueueCapacity = 1
  StrategyCount = 2
  ReplayTicks = 0
SPECIFICATION FairSpec
PROPERTY
  InterruptAlwaysExits
