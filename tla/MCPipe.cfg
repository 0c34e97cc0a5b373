SPECIFICATION FairSpec
CONSTANTS
  p1 = p1
  p2 = p2
  Procs <- MCProcs
  Bytes <- MCBytes
  PIPE_BUF_SIZE = 2
  Word = 4
  MaxSize = 3
CHECK_DEADLOCK FALSE
INVARIANTS SleepersHaveReason
PROPERTIES IsChannel EndsReleased
