SPECIFICATION FairSpec
CONSTANTS
    Paths <- TreePaths
    Roots <- TreeRoots
    MaxDepth <- TreeDepth
    SkippedNames <- MCSkippedNames
    InitKind <- BusyKind
    Linkable = {}
    LinkTarget <- code
    Lockable = {}
    Busy <- TreeLogs
    MaxFsOps = 0
    MaxCrashes = 0
    MaxPending = 2
PROPERTIES
    GateChecked
