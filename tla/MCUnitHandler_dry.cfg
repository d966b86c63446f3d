SPECIFICATION Spec
CONSTANTS
  NumIds = 2
  Objects = {u1, u2}
  NoUnit = none
  MaxUnits = 2
  SlowRate = 2
  RecycleQueued = FALSE
INVARIANTS
  FreedIdsReturn
CHECK_DEADLOCK FALSE
