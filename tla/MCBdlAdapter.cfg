CONSTANTS
  t1 = t1
  t2 = t2
  None = None
  SizeMax = 8
  MaxRefs = 1
  FormatSizes = {2, 4}
  Tasks <- TwoTasks
  Setups <- SharedAndAny
  Loads <- TornOrAny
SPECIFICATION Spec
SYMMETRY Symmetry
CHECK_DEADLOCK FALSE
INVARIANTS
  SyncedMeansDurable
  FreedClean
  LowerContract
PROPERTY ImplementsDevice
