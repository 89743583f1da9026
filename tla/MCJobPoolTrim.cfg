\* One more pending reaction than the trim keeps nodes for.
CONSTANTS
    FreeMax = 3
    MaxPending = 4
    MaxJobs = 4
    MaxFree = 6
    MayFail = TRUE
SPECIFICATION Spec
INVARIANT NoJobLost
