CONSTANTS
  None = None
  SlotCount = 4
  MaxCalls = 6
  MaxChanges = 2
  MaxFaults = 1
SPECIFICATION Spec
CHECK_DEADLOCK FALSE
INVARIANTS CountIsPosition ScanComplete SeekReturns
