CONSTANTS
  None = None
  Fds = {1, 2}
  Tmp = 0
  Inodes = {1, 2}
  Names = {"a", "b"}
  Sizes = {0, 2}
  Offsets = {0, 1, 2, 4}
  GrowBuffer = 1
  MaxCalls = 3
  MaxFaults = 1
  Mounted <- Open2
  Modes <- AllModes
SPECIFICATION Spec
INVARIANTS AppendsAtEnd PosixOutcome PositionedKeepsOffset OnlyNamedBytesChange FailureExplained
CHECK_DEADLOCK FALSE
