SPECIFICATION Spec
CONSTANTS
    WordSize = 8
    MaxFds = 3
    Calls = {c1}
    Menu <- FullMenu
    Busy = 1
INVARIANTS
    SpacesAreNew
CHECK_DEADLOCK FALSE
