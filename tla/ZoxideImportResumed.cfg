SPECIFICATION ImportSpec
CONSTANTS
    Procs = {i1, i2}
    Modes = {"import-zoxide"}
    Overlap = FALSE
    FileRows <- MCFileRows
    Ranks <- MCRanks
    U32Max = 3
    MaxFailures = 1
INVARIANTS
    ScoreReproduced
CHECK_DEADLOCK FALSE
