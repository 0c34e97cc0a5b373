SPECIFICATION Spec
CONSTANTS
  PGSIZE = 16
  SLABSIZE = 4
  MINSIZE = 4
  NPAGES = 5
  Sizes = {3, 8, 9, 12, 13}
  Requests <- MCRequests
  MaxLive = 4
CHECK_DEADLOCK FALSE
INVARIANTS
  ObjectsDisjoint
  PagesAccounted
