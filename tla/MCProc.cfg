SPECIFICATION FairSpec
CONSTANTS
  NPROC = 3
  MaxPid = 3
  MaxSleep = 1
  MaxOwners = 1
  SIGINT = 2
  SIGSEGV = 2
  Sigs <- MCSigs
VIEW View
INVARIANTS NoLostChildExit ParentCanReap
PROPERTIES OnlyParentReaps RunnableRuns NanosleepEnds ChildExitEndsWait
