SPECIFICATION Spec
CONSTANTS
    a = a
    b = b
    NoName = NoName
    Names = {a, b}
    MaxInodes = 1
    MaxSize = 2
    MaxWd = 5
    MaxCookie = 1
    MaxQueue = 6
    MaxAppendCount = 0
    MaxWatchCount = 1
    Outcomes = {"ok"}
    StartFull = TRUE
    Ops = {"append", "rename"}
    Calm = FALSE
PROPERTY Followed
SYMMETRY Symmetry
CHECK_DEADLOCK FALSE
