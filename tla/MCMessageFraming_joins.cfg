SPECIFICATION FairSpec
CONSTANTS
  ByteSize = 8
  Types <- Known
  Script <- AllKinds
  Ping = 1
  Progress = 4
  MaxChunkSize = 3
  Throttled = TRUE
INVARIANTS
  NothingLeftBehind
  PingsCounted
PROPERTIES
  ImplementsChannel
  EverythingIsRead
CHECK_DEADLOCK FALSE
