SPECIFICATION FairSpec
CONSTANTS
  p1 = p1
  p2 = p2
  Procs <- MCProcs
  NNUM = 2
  NBLOCK = 3
  Data <- MCData
  MaxHeld = 2
CHECK_DEADLOCK FALSE
INVARIANTS
  CacheConsistent
PROPERTIES
  IsBlockStore
  SleepersWoken
