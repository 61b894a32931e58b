SPECIFICATION Spec
CONSTANTS
    Threads = {t1, t2}
    Clients = {c1}
    NumNodes = 2
    MaxCommands = 2
INVARIANTS
    SentOnce
CHECK_DEADLOCK FALSE
