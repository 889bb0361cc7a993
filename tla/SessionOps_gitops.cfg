SPECIFICATION Spec
CONSTANTS
    Requests <- AllRequests
    Followers <- Mixed
    MaxOps = 2
    MaxSweeps = 1
    MaxAsks = 3
    MaxTip = 2
INVARIANT RestIsCurrent
INVARIANT NoWatchLeftBehind
INVARIANT ForcedDeletesWereWarned
CHECK_DEADLOCK FALSE
