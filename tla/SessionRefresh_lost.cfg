SPECIFICATION FairSpec
CONSTANTS
    Delay = 1
    Callers = {ffi, worker}
    Ffi = ffi
    Workers = 2
    MaxRequests = 3
    MaxFilters = 0
    MaxRepo = 0
    MaxChunks = 0
    MayFail = FALSE
PROPERTIES
    EveryRequestAnswered
CHECK_DEADLOCK FALSE
