CONSTANTS
    p1 = p1
    p2 = p2
    Callers <- TwoCallers
    Requests <- MCRequests
    Wild <- MCWild
    Reuse = TRUE
    MaxCalls = 2
    MaxTok = 4
    MaxFault = 1
    MaxCrash = 1
SPECIFICATION FairSpec
CHECK_DEADLOCK FALSE
INVARIANT ReturnsGood
INVARIANT RecordsAccounted
INVARIANT OneAccount
INVARIANT RecordsInPlace
PROPERTY CallsReturn
