CONSTANTS
  None = None
  Inodes = {0, 1, 2, 3, 4}
  Root = 0
  Names = {"a", "b"}
  TimeMax = 2
  MaxCalls = 2
  MaxFaults = 1
  ScanFaults = FALSE
  Trees <- SomeTrees
  Calls <- AllCalls
SPECIFICATION Spec
CHECK_DEADLOCK FALSE
INVARIANTS
  TypeOK
  PosixOutcome
  OnlyHalfDone
  RootIsBusy
