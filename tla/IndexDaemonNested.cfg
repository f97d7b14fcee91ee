SPECIFICATION Spec
CONSTANTS
    Paths <- NestedPaths
    Roots <- NestedRoots
    MaxDepth <- NestedDepth
    SkippedNames <- MCSkippedNames
    InitKind <- NestedKind
    Linkable <- NestedLinks
    LinkTarget <- home
    Lockable <- TreeLocks
    Busy <- NestedLinks
    MaxFsOps = 2
    MaxCrashes = 1
    MaxPending = 2
INVARIANTS
    TypeOK
    DiscoveredAdmissible
    GateNeverForgets
    RowsWereDirs
PROPERTIES
    LiveRowsKept
