SPECIFICATION Spec
CONSTANTS
  PGSIZE = 2
  Segments <- MCSegments
  MMAP_START = 8
  STACK_BOTTOM = 12
  STACK_TOP = 14
  NVMA = 2
  Files = {"f"}
  Lens = {1, 4}
  Offsets = {1}
  Pages = {0, 1, 2, 3, 4}
CHECK_DEADLOCK FALSE
INVARIANTS
  PagesAsAsked
  AccessServed
