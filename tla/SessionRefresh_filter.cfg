SPECIFICATION SpacedSpec
CONSTANTS
    Delay = 1
    Callers = {ffi, worker}
    Ffi = ffi
    Workers = 2
    MaxRequests = 2
    MaxFilters = 2
    MaxRepo = 0
    MaxChunks = 0
    MayFail = FALSE
PROPERTIES
    EveryRequestAnswered
    FilterIsApplied
CHECK_DEADLOCK FALSE
