SPECIFICATION FairSpec
CONSTANTS
  NoHost <- NoLocalClient
  Players = {0, 1}
  MayPause = {}
  Checksums = {good, bad}
  InSync = good
  SyncCheckTimeout = 1
  MsgTimeout = 2
  KeyframeInterval = 2
  WordSize = 32
  FirstFrame = 0
  Burst = 2
  LastFrame = 5
  Rejoins = 0
  Host = 1
INVARIANTS
  OutstandingRecent
PROPERTIES
  Patient
  HostDecides
  DivergenceIsReported
