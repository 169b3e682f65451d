CONSTANTS
    r1 = r1
    r2 = r2
    Reqs <- TwoReqs
    WithFatal = FALSE
SPECIFICATION Spec
CHECK_DEADLOCK FALSE
INVARIANT NoRequestCut
