SPECIFICATION ThreadSpec
CONSTANTS
  a1 = a1
  a2 = a2
  b1 = b1
  c1 = c1
  c2 = c2
  Clients = {c1, c2}
  Addresses = {a1, a2, b1}
  Connections = {k1, k2, k3}
  None = None
  Expired = Expired
  Datagrams <- Moves
  MaxAvailable = 2
  Owner <- TwoAndOne
INVARIANTS
  EveryLinkIsHeard
  NobodyIsThrownOut
PROPERTIES
  ServerEnds
  AttemptsAreHeard
CHECK_DEADLOCK FALSE
