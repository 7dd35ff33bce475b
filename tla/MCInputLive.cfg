SPECIFICATION FairSpec
CONSTANTS
    a = a
    b = b
    NoName = NoName
    Names = {a, b}
    MaxInodes = 2
    MaxSize = 1
    MaxWd = 5
    MaxCookie = 1
    MaxQueue = 6
    MaxAppendCount = 0
    MaxWatchCount = 1
    Outcomes = {"ok"}
    StartFull = TRUE
    Ops = {"create", "append", "unlink", "rename"}
    Calm = TRUE
PROPERTY Collected
CHECK_DEADLOCK FALSE
