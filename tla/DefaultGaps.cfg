SPECIFICATION QuestionsSpec
CONSTANTS
    Dirs <- MCDirs
    PathSize <- MCPathSize
    PathOrder <- MCPathOrder
    Scale = 12000
    Now <- MCNow
    Questions = {}
    Bytes = {}
    MaxPathLen = 0
    MaxPrefixLen = 0
    UsizeMax = 15
    NotText = 15
    DefaultDbPath = "/data/wadachi/dirs.db"
    SpecNames = {"skimtab-parity", "zoxide-parity", "substring-legacy", "praca-parity"}
    IgnoredNames = {"target"}
    HiddenNames = {".d"}
    Cores = 4
INVARIANTS
    CoversEveryWorkspace
CHECK_DEADLOCK FALSE
