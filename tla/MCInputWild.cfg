SPECIFICATION Spec
CONSTANTS
    a = a
    b = b
    NoName = NoName
    Names = {a, b}
    MaxInodes = 1
    MaxSize = 1
    MaxWd = 7
    MaxCookie = 2
    MaxQueue = 3
    MaxAppendCount = 0
    MaxWatchCount = 1
    Outcomes = {"ok", "before", "soft", "hard"}
    StartFull = TRUE
    Ops = {"create", "append", "close", "truncate", "unlink", "rename", "replace", "moveout", "movein"}
    Calm = FALSE
INVARIANTS
    TypeOK
    IndexUnique
SYMMETRY Symmetry
CHECK_DEADLOCK FALSE
