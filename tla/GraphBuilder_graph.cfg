SPECIFICATION Spec
CONSTANTS
    Commits = 5
    MaxParents = 2
    Queries <- Walks
    kBucketRows = 2
    kMaxLanes = 4
    kPaletteSize = 12
    Hash <- Colours
INVARIANT LinesAreReadable
INVARIANT ColumnsLookApart
INVARIANT SnapshotIsTheHistory
CHECK_DEADLOCK FALSE
