CONSTANTS
    Configs <- Callers
    MaxResize = 1
    MaxInbox = 1
    MaxDown = 1
SPECIFICATION FairSpec
CHECK_DEADLOCK FALSE
INVARIANT TypeOK
INVARIANT ResizeUnseen
INVARIANT ReturnsClean
PROPERTY IsByteStreams
PROPERTY TunnelEnds
PROPERTY HangupReachesShell
