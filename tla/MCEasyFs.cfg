SPECIFICATION Spec
CONSTANTS
  NBLOCKS = 5
  NINO = 3
  NAREA = 4
  NDIRECT = 1
  BSIZE = 3
  Names = {"a", "d"}
  Inject <- MCInject
  Files = {f1}
  Offsets = {1, 4}
  Paths <- MCPaths
  MaxCrash = 1
CHECK_DEADLOCK FALSE
INVARIANTS
  NoSharedBlock
  NamesLive
  
