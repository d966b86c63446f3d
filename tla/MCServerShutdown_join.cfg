SPECIFICATION Spec
CONSTANTS
  Clients = {c1, c2}
PROPERTIES
  ShutdownCompletes
CHECK_DEADLOCK FALSE
