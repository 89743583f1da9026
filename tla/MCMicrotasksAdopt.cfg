CONSTANTS
    p1 = p1
    p2 = p2
    p3 = p3
    undef = undef
    err = err
    Promises <- MCPromises
    Fibers = {f1}
    Plain <- MCPlain
    Undefined = undef
    EngineError = err
    NoPromise = NoPromise
    NoFiber = NoFiber
    NoJob = NoJob
    Resolutions <- MCResolutions
    Reasons <- MCReasons
    HandlerPairs <- MCHandlerPairs
    MaxReactions = 3
    MaxFree = 1
    FreeMax = 3
    MaxReentry = 2
    MayFail = TRUE
    MayInterrupt = FALSE
SPECIFICATION Spec
INVARIANT NoOrphan
