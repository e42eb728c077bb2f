SPECIFICATION Spec
CONSTANTS
    LBits = 4
    NBlocks = 26
    RootMax = 2
    NodeMax = 3
    MaxDepth = 2
    MaxLen = 5
    Workloads <- AtTheEnd
    GoalBlock = 1
    Allocate <- GoalThenLowest
INVARIANTS
    OverlapRejected
CHECK_DEADLOCK FALSE
