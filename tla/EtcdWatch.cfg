CONSTANTS
    EventCap = 2
    ErrCap = 1
    MaxRev = 3
SPECIFICATION FairSpec
CHECK_DEADLOCK FALSE
INVARIANT OnlyGarbledSkipped
INVARIANT NoHotLoop
PROPERTY CancelStops
PROPERTY Reconnects
