SPECIFICATION Spec
CONSTANTS
  Data <- AllData
  Script <- Talk31
  A = A
  B = B
  SharedSocket = {A, B}
  LossFactor = 1
  PacketRoom = 2
  NakMax = 2
  NakSpan = 3
  NakBurst = 2
  AckWindow = 3
  FloodFactor = 3
  Throttled = TRUE
  NetCap = 2
CONSTRAINT ThreeChunks
INVARIANTS
  TypeOK
  InOrderDelivery
  NoChunkLost
  ResendsAreUnacked
PROPERTIES
  Channels
CHECK_DEADLOCK FALSE
