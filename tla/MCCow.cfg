SPECIFICATION Spec
CONSTANTS
  p1 = p1
  p2 = p2
  g1 = g1
  g2 = g2
  g3 = g3
  Procs <- MCProcs
  First = p1
  Pages <- MCPages
  NHEAP = 2
  NMAP = 1
  MaxRef = 3
  Data <- MCData
SYMMETRY Symmetry
VIEW View
CHECK_DEADLOCK FALSE
INVARIANTS
  MappedNotFree
  WritableIsPrivate
  LayoutCovers
PROPERTY IsPrivateMemory
