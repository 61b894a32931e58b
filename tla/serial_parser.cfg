SPECIFICATION Spec
CONSTANTS
    NodeIds = {3}
    DataBytes = {1, 255}
    Minute = 1
    MaxTime = 2
    Garbage = {0, 2}
    MaxMessages = 3
INVARIANTS
    Faithful
    NoCascade
    KeepsLastMinute
    PurgedWhenAdded
PROPERTIES
    FollowedIsDelivered
CHECK_DEADLOCK FALSE
