SPECIFICATION TimelySpec
CONSTANTS
    NumNodes = 2
    MaxNumNodes = 7
    NodeIds = {2, 5}
    StaleLedOn = {0}
    NegativeGains = {FALSE}
INVARIANTS
    ResidualsFiled
CHECK_DEADLOCK FALSE
