SPECIFICATION FairSpec
CONSTANTS
    Ops = {stage, gc}
    Killable = {gc}
    Background = {gc}
    Housekeeping = {gc}
    Retriable = {stage}
    Recovery = {stage}
    Tracked = {stage, gc}
    None = None
    LockRetries = 1
    UndoCap = 1
    MaxOutside = 1
    MayThrow = TRUE
INVARIANTS
    TypeOK
    CompletesInOrder
    ForegroundNeverWaits
    DrainedStaysIdle
PROPERTIES
    NoUserKillMidFlight
    EveryOperationCompletes
    CloseTerminates
    CancelledNeverSpawns
CHECK_DEADLOCK FALSE
