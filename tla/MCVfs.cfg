SPECIFICATION Spec
CONSTANTS
  NINODES = 3
  NBLOCK = 2
  Image <- MCImage
  BSIZE = 4
  OVERLAY_ENTRIES = 2
  UPPER_MAX = 1
  Files = {f1, f2}
  Paths <- MCPaths
  Offsets = {1}
  Values = {"w"}
  OpenFlags <- MCOpenFlags
  MaxCount = 2
  MaxIno = 3
VIEW View
SYMMETRY MCSymmetry
CHECK_DEADLOCK FALSE
INVARIANTS
  
  InodesOwned
  
  
