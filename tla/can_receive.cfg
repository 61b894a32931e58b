SPECIFICATION FairSpec
CONSTANTS
    buffsize = 3
    MaxFrames = 8
INVARIANTS
    NoLostWakeup
    ProcessedOnce
    BuffersWatched
PROPERTIES
    StreamDrains
    ImplementsFifo
CHECK_DEADLOCK FALSE
