SPECIFICATION FairSpec
CONSTANTS
    NumNodes = 2
    MaxNumNodes = 2
    NodeIds = {1, 9}
    StaleLedOn = {0, 2}
    NegativeGains = {TRUE, FALSE}
INVARIANTS
    TypeOK
    BarrierSafety
    GainsFiled
    ResidualCancels
PROPERTIES
    ImplementsBarrier
    CompletesOrOvercounts
CHECK_DEADLOCK FALSE
