SPECIFICATION FairSpec
CONSTANTS
    LBits = 4
    NBlocks = 20
    RootMax = 2
    NodeMax = 3
    MaxDepth = 2
    MaxLen = 5
    Workloads <- Mounted
    GoalBlock = 1
    Allocate <- GoalThenLowest
INVARIANTS
    TypeOK TreeWellFormed EveryExtentFound NoLeakNoSharing OthersUntouched ResultIsMapping OnlyExpectedErrors
PROPERTIES ImplementsMap EveryCallReturns
CHECK_DEADLOCK FALSE
