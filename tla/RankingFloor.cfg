SPECIFICATION Spec
CONSTANTS
    Dirs <- MCDirs
    PathSize <- MCPathSize
    PathOrder <- MCPathOrder
    Scale = 12000
    Now <- MCNow
    Questions <- LongAgo
INVARIANTS
    FloorNeverOutranks
CHECK_DEADLOCK FALSE
