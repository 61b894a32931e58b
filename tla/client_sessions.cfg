SPECIFICATION SessionsSpec
CONSTANTS
    Threads = {t1, t2}
    Clients = {c1, c2}
    MaxInputs = 1
    MaxWrites = 1
INVARIANTS
    RemovedOnce
    ClientHeard
    NoCircularWait
PROPERTIES
    GoneForgotten
CHECK_DEADLOCK FALSE
