SPECIFICATION Spec
CONSTANTS
    a = a
    b = b
    NoName = NoName
    Names = {a, b}
    MaxInodes = 2
    MaxSize = 2
    MaxWd = 5
    MaxCookie = 1
    MaxQueue = 8
    MaxAppendCount = 0
    MaxWatchCount = 1
    Outcomes = {"ok"}
    StartFull = TRUE
    Ops = {"create", "append", "close", "unlink", "rename"}
    Calm = TRUE
INVARIANTS
    WakeUpPending
    Covered
    AtMostOnce
    Alive
PROPERTIES
    Drained
    Followed
SYMMETRY Symmetry
CHECK_DEADLOCK FALSE
