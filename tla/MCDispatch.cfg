SPECIFICATION Spec
CONSTANTS
    tcp = tcp
    file = file
    Inputs = {tcp, file}
    Fatal = {tcp}
    Handlers = 3
    MaxBlocks = 3
INVARIANTS
    TypeOK
    Lockstep
    Delivered
    Paired
    Balanced
