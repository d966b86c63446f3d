SPECIFICATION FairSpec
CONSTANTS
  Data <- AllData
  Script <- Talk21
  A = A
  B = B
  SharedSocket = {A}
  LossFactor = 0
  PacketRoom = 2
  NakMax = 2
  NakSpan = 3
  NakBurst = 2
  AckWindow = 3
  FloodFactor = 1
  Throttled = FALSE
  NetCap = 1
PROPERTIES
  EverythingArrives
CHECK_DEADLOCK FALSE
