CONSTANTS
  Default = 4
  MinBlock = 2
  MaxBlock = 8
  MinInode = 1
  RoundToFullGroups = TRUE
  UintMax = 79
  Interval = 7
  MaxRequests = 2
  Lengths <- SomeLengths
  Configs <- SomeConfigs
  Counts <- SomeCounts
SPECIFICATION FormatSpec
CHECK_DEADLOCK FALSE
INVARIANTS
  FormatTypeOK
  ProgressTimely
  LengthFits
