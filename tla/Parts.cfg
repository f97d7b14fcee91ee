SPECIFICATION PartsSpec
CONSTANTS
    Dirs <- MCDirs
    PathSize <- MCPathSize
    PathOrder <- MCPathOrder
    Scale = 12000
    Now <- MCNow
    Questions <- Shipped
    Bytes = {46, 47, 48, 97}
    MaxPathLen = 4
    MaxPrefixLen = 3
    UsizeMax = 15
    NotText = 15
    DefaultDbPath = "/data/wadachi/dirs.db"
    SpecNames = {"skimtab-parity", "zoxide-parity", "substring-legacy", "praca-parity"}
    IgnoredNames = {"target"}
    HiddenNames = {".d"}
    Cores = 4
    Paths <- MCPaths
    Clients = {c1, c2}
    MaxVisits = 2
    Nobody = nobody
    Procs = {i1, i2, i3}
    Modes = {"import-zoxide", "force", "compat"}
    Overlap = TRUE
    FileRows <- MCFileRows
    Ranks <- MCRanks
    U32Max = 3
    MaxFailures = 2
INVARIANTS
    BestFirst
    NoFlood
    CounterAgrees
    StoresAgree
    ComponentWise
    ScansMissNothing
    FeedIsExact
    MuscleMemory
    ExactlyTheFiles
    KeywordsInOrder
    OneStore
    DefaultCovers
    MemTypeOK
    ImportTypeOK
    MarkedIsComplete
    RowsAccounted
    RepeatsAreHarmless
PROPERTIES
    ImplementsDirStore
