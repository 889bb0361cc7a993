SPECIFICATION FairSpec
CONSTANTS
    c1 = c1
    c2 = c2
    Clients = {c1, c2}
    Asks <- MCAsks
    Store <- MCStore
    Noise = {"junk"}
    MaxFaults = 2
INVARIANT StoppedHasNoChild
PROPERTY ImplementsReader KillsOnlyForARequest
CHECK_DEADLOCK FALSE
