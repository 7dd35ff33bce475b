SPECIFICATION FairSpec
CONSTANTS
    MaxTerms = 3
    MaxFaults = 3
    BlockInput = FALSE
INVARIANTS
    KilledOnSecond
    OneDose
    OneWorker
PROPERTIES
    Restarted
    Stops
    NoOrphan
CHECK_DEADLOCK FALSE
