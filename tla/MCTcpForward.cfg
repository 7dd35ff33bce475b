SPECIFICATION FairSpec
CONSTANTS
    Servers = 2
    MaxMessages = 2
    MaxBlocks = 2
    Conns = {1, 2, 3}
    MaxFaults = 1
INVARIANTS
    TypeOK
    LenThenData
    InStep
PROPERTIES
    Forwards
    Unblocked
CHECK_DEADLOCK FALSE
