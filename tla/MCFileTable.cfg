SPECIFICATION Spec
CONSTANTS
  p1 = p1
  p2 = p2
  pi1 = pi1
  n1 = n1
  Procs <- MCProcs
  First = p1
  NFILE = 2
  NOFILE = 2
  NVMA = 1
  Pipes <- MCPipes
  Nodes <- MCNodes
CHECK_DEADLOCK FALSE
INVARIANTS
  RefsCounted
  PipeEnds
PROPERTIES
  CallKeepsEnd
