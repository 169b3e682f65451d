CONSTANTS
    p1 = p1
    p2 = p2
    Procs <- TwoProcs
    Addrs <- BothForms
    WithClose = TRUE
    MaxConns = 2
    MaxCalls = 3
SPECIFICATION FairSpec
CHECK_DEADLOCK FALSE
INVARIANT ClosedOnce
INVARIANT PooledOpen
INVARIANT NoOrphan
PROPERTY InvalidateDropsFailed
 
