SPECIFICATION FairSpec
CONSTANTS
    MaxTerms = 1
    MaxFaults = 0
    BlockInput = FALSE
PROPERTIES
    TermStops
CHECK_DEADLOCK FALSE
