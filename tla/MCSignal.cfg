SPECIFICATION Spec
CONSTANTS
  Sigs = {2, 9, 10, 11, 19}
  SIGKILL = 9
  SIGSTOP = 19
  SIGSEGV = 11
  Dispositions <- MCDispositions
  SigSets <- MCSigSets
  STACK = 2
CHECK_DEADLOCK FALSE
INVARIANTS ResumesInterrupted NoneLeftBehind
PROPERTIES SignalEndsSleep
