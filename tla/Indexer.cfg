SPECIFICATION IndexerFairSpec
CONSTANTS
    Paths <- TreePaths
    Roots <- TreeRoots
    MaxDepth <- TreeDepth
    SkippedNames <- MCSkippedNames
    InitKind <- TreeKind
    Linkable <- TreeLinks
    LinkTarget <- code
    Lockable <- TreeLocks
    Busy = {}
    MaxFsOps = 2
    MaxCrashes = 1
    MaxPending = 2
    NumRoots = 4
    Concurrency = 3
INVARIANTS
    PoolTypeOK
    WalksOutsideLocks
PROPERTIES
    DaemonConverges
    DaemonChecksGates
    DaemonAppliesPending
    PoolReturns
    ImplementsRootWalks
