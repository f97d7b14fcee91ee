SPECIFICATION SessionSpec
CONSTANTS
    Paths <- MCPaths
    Clients = {c1}
    MaxVisits = 1
    Home <- MCHome
    RealPath <- MCRealPath
    Args <- MCArgs
    MatchedBy <- MCMatchedBy
    NamedBy <- MCNamedBy
    MaxCommands = 1
    MaxWrites = 1
    MaxTreeChanges = 1
INVARIANTS
    SqlTypeOK
    OneEntryPerPath
    VisitedNeverFloored
    RcTellsTheMove
    JumpsToMatches
    OneAddPerMove
    RealMissIsLoud
    QueryHonest
    QueryFindsLive
CHECK_DEADLOCK FALSE
