CONSTANTS
  Modes <- EveryMode
  MaxClients = 1
  TickCapacity = 2
  QueueCapacity = 1
  StrategyCount = 2
  ReplayTicks = 3
SPECIFICATION PoliteSpec
INVARIANTS
  TypeOK
  NoThreadOutlivesMain
PROPERTIES
  ShutdownSilencesFeed
  InterruptExits
  ReplayEnds
