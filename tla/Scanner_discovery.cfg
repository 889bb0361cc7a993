SPECIFICATION Spec
CONSTANTS
    Dirs <- TreeDirs
    Folders = {"outer", "inner"}
    FolderRoot <- Roots
    Parent <- TreeParent
    NameStarts <- TreeNames
    Workers = {w1, w2}
    Shape <- Shapes
    Ignored = {"out"}
    Passed = {}
    kBatchSize = 2
    kSignatureChunkSize = 2
    Modes = {"Incremental", "Full"}
    Depths = {1, 2}
    StartRepos <- TwoRepos
    StartFolders = {"outer"}
    StartDepth = 2
    MaxScans = 2
    MaxEvents = 2
INVARIANT SleepersHaveSomebody
INVARIANT ScanIsExact
INVARIANT SignatureCoversChildren
PROPERTY NoFalseMissing
SYMMETRY WorkerPair
CHECK_DEADLOCK FALSE
