SPECIFICATION Spec
CONSTANTS
  NoHost <- NoLocalClient
  Players = {0, 1, 2}
  MayPause = {0}
  Checksums = {good, bad}
  InSync = good
  SyncCheckTimeout = 1
  MsgTimeout = 2
  KeyframeInterval = 2
  WordSize = 32
  FirstFrame = 1
  Burst = 1
  LastFrame = 2
  Rejoins = 1
  Host <- NoLocalClient
INVARIANTS
  TypeOK
  ResponsesOutstanding
PROPERTIES
  NoFalseAlarm
  MajorityDecides
