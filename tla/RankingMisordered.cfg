SPECIFICATION Spec
CONSTANTS
    Dirs <- MCDirs
    PathSize <- MCPathSize
    PathOrder <- MCPathOrder
    Scale = 12000
    Now <- MCNow
    Questions <- Misordered
INVARIANTS
    NeverSilentlyWrong
CHECK_DEADLOCK FALSE
