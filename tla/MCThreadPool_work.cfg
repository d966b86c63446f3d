SPECIFICATION FairSpec
CONSTANTS
  NumThreads = 3
  PoolSize = 2
  Program <- Mixed
INVARIANTS
  NoWorkerUsesDeleted
PROPERTIES
  ImplementsLoops
  AllReturn
CHECK_DEADLOCK FALSE
