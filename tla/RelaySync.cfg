SPECIFICATION FairSpec
CONSTANTS
    Identifier = {i1, i2}
    MaxCursorWrites = 2
    MaxClientCrashes = 1
    MaxRelayCrashes = 1
INVARIANT NothingSkipped
PROPERTY RevocationArrives
CHECK_DEADLOCK FALSE
