CONSTANTS
  None = None
  Inodes = {0, 1, 2, 3, 4}
  Root = 0
  Names = {"a", "b"}
  TimeMax = 2
  MaxCalls = 1
  MaxFaults = 1
  ScanFaults = TRUE
  Trees <- FullTree
  Calls <- PlainCalls
SPECIFICATION Spec
CHECK_DEADLOCK FALSE
PROPERTY NotRecursive
