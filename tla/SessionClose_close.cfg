SPECIFICATION FairSpec
CONSTANTS
    Sessions = {s1, s2}
    Workers = {w1}
    None = None
    MaxOps = 1
    MaxPosts = 2
INVARIANTS
    TypeOK
    NoUseAfterFree
PROPERTIES
    CloseEnds
    QueueIsServed
CHECK_DEADLOCK FALSE
