CONSTANTS
    DayLen = 2
    MaxTime = 3
    MaxRec = 3
    ChunkSize = 2
    MaxDays = 2
    MaxLimit = 2
    TooLong = {3}
    Skews <- Zones
SPECIFICATION Spec
CHECK_DEADLOCK FALSE
INVARIANT TailIsScan
INVARIANT NewestUnlessTorn
INVARIANT SinceComplete
INVARIANT SampledSound
INVARIANT RetentionSound
