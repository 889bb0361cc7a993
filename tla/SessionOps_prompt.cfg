SPECIFICATION Spec
CONSTANTS
    Requests <- Prompting
    Followers <- Prompting
    MaxOps = 2
    MaxSweeps = 1
    MaxAsks = 3
    MaxTip = 1
PROPERTY EndAskpassIsItsOwn
CHECK_DEADLOCK FALSE
