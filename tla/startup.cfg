SPECIFICATION Spec
CONSTANTS
    MaxNumNodes = 4
    MaxNodeId = 20
    NodeIds = {3, 5, 9}
    Delay = 2
    MaxSkew = 2
    MaxResets = 1
    MaxPowerCycles = 2
INVARIANTS
    ListSorted
    RegistryComplete
PROPERTIES
    AllCalibrate
