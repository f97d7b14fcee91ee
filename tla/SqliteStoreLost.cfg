SPECIFICATION SqlSpec
CONSTANTS
    Paths <- MCPaths
    Clients = {c1}
    MaxVisits = 2
INVARIANTS
    CandidatesAllReturned
