SPECIFICATION Spec
CONSTANTS
    NodeIds = {1, 2, 3}
    MaxEvents = 3
INVARIANTS
    OneHub
    ListCurrent
PROPERTIES
    Agreement
CHECK_DEADLOCK FALSE
