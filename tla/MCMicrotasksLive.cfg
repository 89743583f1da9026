CONSTANTS
    p1 = p1
    p2 = p2
    p3 = p3
    undef = undef
    err = err
    Promises <- MCPromises
    Fibers = {f1}
    Plain <- MCPlain
    Undefined = undef
    EngineError = err
    NoPromise = NoPromise
    NoFiber = NoFiber
    NoJob = NoJob
    Resolutions <- MCFewResolutions
    Reasons <- MCReasons
    HandlerPairs <- MCHandlerPairs
    MaxReactions = 2
    MaxFree = 0
    FreeMax = 1
    MaxReentry = 2
    MayFail = FALSE
    MayInterrupt = TRUE
SPECIFICATION FairSpec
INVARIANT NoOrphan
INVARIANT NoOrphanAsync
PROPERTY SettledIsServed
PROPERTY PoolSpec
