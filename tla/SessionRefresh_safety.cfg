SPECIFICATION Spec
CONSTANTS
    Delay = 1
    Callers = {ffi, worker}
    Ffi = ffi
    Workers = 2
    MaxRequests = 2
    MaxFilters = 1
    MaxRepo = 1
    MaxChunks = 1
    MayFail = TRUE
INVARIANTS
    TypeOK
    CoversIsTruthful
    RequestsAreOwed
    RunningMeansInFlight
    OnlySupersededOverlap
    NewestGraphHasFilter
PROPERTIES
    PublishNeverRegresses
CHECK_DEADLOCK FALSE
