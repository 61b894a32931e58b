SPECIFICATION FairSpec
CONSTANTS
    Threads = {t1, t2}
    Clients = {c1}
    NumNodes = 2
    MaxCommands = 2
INVARIANTS
    NoStall
    SentOnceUnlessOverlapped
    AnsweredByOwnResponse
    TimedOutWasSent
PROPERTIES
    QueueDrains
CHECK_DEADLOCK FALSE
