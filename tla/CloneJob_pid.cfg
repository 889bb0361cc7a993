SPECIFICATION Spec
CONSTANTS
    KNetworkIdle = 1
    KLocalCeiling = 1
    Loads <- ReadLoads
INVARIANT SignalsOwnChild
CHECK_DEADLOCK FALSE
