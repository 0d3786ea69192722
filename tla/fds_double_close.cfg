SPECIFICATION Spec
CONSTANTS
    Size = 4
    MaxFiles = 5
    MaxNodes = 1
    Picked = 2
    MaxSpaces = 2
INVARIANTS
    OthersKeepTheirs
CHECK_DEADLOCK FALSE
