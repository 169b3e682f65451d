CONSTANTS
    c1 = c1
    c2 = c2
    Closers <- MCClosers
    LineLen = 2
    BufSize = 3
    AsyncSizes = {0, 2}
    FlushTicks = TRUE
    LateAppends = TRUE
    MaxRec = 4
    MaxDay = 2
    MaxFault = 1
    MaxCrash = 1
SPECIFICATION FairSpec
CHECK_DEADLOCK FALSE
INVARIANT NothingLost
INVARIANT InRightFile
INVARIANT LossBounded
INVARIANT ClosedMeansDurable
PROPERTY AckedReachDisk
PROPERTY CloseReturns
