SPECIFICATION FairSpec
CONSTANTS
  NumIds = 3
  Objects = {u1, u2, u3}
  NoUnit = none
  MaxUnits = 3
  SlowRate = 2
  RecycleQueued = FALSE
INVARIANTS
  TypeOK
  IdsAccounted
  DeletedOnce
  RoundInOrder
PROPERTIES
  ImplementsLives
  DeathsComplete
  EveryUnitSlowUpdated
CHECK_DEADLOCK FALSE
