\* As many pending reactions as the trim keeps nodes: nothing is lost.
CONSTANTS
    FreeMax = 3
    MaxPending = 3
    MaxJobs = 4
    MaxFree = 6
    MayFail = TRUE
SPECIFICATION Spec
INVARIANT TypeOK
INVARIANT ReserveHeld
INVARIANT NoJobLost
