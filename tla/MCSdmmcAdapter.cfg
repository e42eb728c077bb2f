CONSTANTS
  t1 = t1
  t2 = t2
  None = None
  SizeMax = 11
  FormatSizes = {2, 4}
  Tasks <- TwoTasks
  Setups <- SharedAndAny
  Loads <- TornOrAny
SPECIFICATION FairSpec
CHECK_DEADLOCK FALSE
INVARIANT SectorContract
PROPERTIES
  ImplementsDevice
  EveryCallReturns
