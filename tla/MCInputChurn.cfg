SPECIFICATION FairSpec
CONSTANTS
    a = a
    b = b
    NoName = NoName
    Names = {a}
    MaxInodes = 2
    MaxSize = 2
    MaxWd = 5
    MaxCookie = 1
    MaxQueue = 8
    MaxAppendCount = 1
    MaxWatchCount = 1
    Outcomes = {"ok"}
    StartFull = TRUE
    Ops = {"create", "append", "close", "truncate", "unlink"}
    Calm = FALSE
INVARIANTS
    WakeUpPending
    Covered
PROPERTY CaughtUp
CHECK_DEADLOCK FALSE
