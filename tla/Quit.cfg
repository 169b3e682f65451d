CONSTANTS
    r1 = r1
    r2 = r2
    Reqs <- TwoReqs
    WithFatal = TRUE
SPECIFICATION FairSpec
CHECK_DEADLOCK FALSE
PROPERTY ExitsDrained
PROPERTY QuitEnds
