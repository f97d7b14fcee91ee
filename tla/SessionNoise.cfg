SPECIFICATION SessionSpec
CONSTANTS
    Paths <- MCPaths
    Clients = {c1}
    MaxVisits = 1
    Home <- MCHome
    RealPath <- MCRealPath
    Args <- MCArgs
    MatchedBy <- MCMatchedBy
    NamedBy <- MCNamedBy
    MaxCommands = 1
    MaxWrites = 1
    MaxTreeChanges = 1
INVARIANTS
    SilentMiss
CHECK_DEADLOCK FALSE
