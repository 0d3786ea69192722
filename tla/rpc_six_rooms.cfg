SPECIFICATION Spec
CONSTANTS
    WordSize = 8
    MaxFds = 3
    Menu <- WideMenu
    MaxCalls = 1
    MaxTimeouts = 0
    Cancellable = FALSE
    Killable = FALSE
INVARIANTS
    AsRequested
CHECK_DEADLOCK FALSE
