SPECIFICATION OptimiserSpec
CONSTANTS
    NumNodes = 3
    FrameSlots = 2
    MaxIter = 2
    MaxRuns = 2
INVARIANTS
    AveragePure
    AdoptedTogether
PROPERTIES
    RunEnds
CHECK_DEADLOCK FALSE
