SPECIFICATION Spec
CONSTANTS
  Listed <- Two
  Playing = {"ann", "bob"}
  Guests = {"eve"}
  Links = {h, l1, l2}
  LocalLinks = {h}
  NoLink = none
  ReconnectOn = TRUE
  Servers <- OpenOrClosed
  MaxBroadcasts = 6
  MaxPlayers = 3
INVARIANTS
  TypeOK
  CacheComplete
  WholeHistory
  RosterAnnounced
CHECK_DEADLOCK FALSE
