SPECIFICATION Spec
CONSTANTS
    NumNodes = 3
    Kinds = {"get", "total", "reset"}
    NodeIdsSizes = {1, 3}
    MaxCommands = 3
    MaxLost = 1
INVARIANTS
    AnswerRight
    WaitingForRest
PROPERTIES
    CommandAnswered
    CommandEnds
CHECK_DEADLOCK FALSE
