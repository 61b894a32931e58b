SPECIFICATION TimelySpec
CONSTANTS
    NumNodes = 3
    MaxNumNodes = 3
    NodeIds = {1, 2, 20}
    StaleLedOn = {0}
    NegativeGains = {FALSE}
INVARIANTS
    NoForeignLight
PROPERTIES
    CalibrationCompletes
CHECK_DEADLOCK FALSE
