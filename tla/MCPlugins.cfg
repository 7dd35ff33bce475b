SPECIFICATION Spec
CONSTANTS
    Confs <- MCConfs
    MaxFaults = 2
    TextLen = 4
    BlockSize = 2
    MaxPolls = 2
    RotateSize = 2
    QueueMax = 1
    PeerCount = 2
    SendCounts = {3, 4}
    ParseSize = 3
    Newlines <- MCNewlines
INVARIANTS
    TypeOK
    FilesKeep
    KafkaAccounts
    LinesWhole
PROPERTIES
    FileSteps
    QuitHeard
CHECK_DEADLOCK FALSE
