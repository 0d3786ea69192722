SPECIFICATION FairSpec
CONSTANTS
    WordSize = 8
    MaxFds = 3
    Menu <- SmallMenu
    MaxCalls = 3
    MaxTimeouts = 2
    Cancellable = TRUE
    Killable = TRUE
INVARIANTS
    TypeOK
    OwnAnswer
    AnswersInOrder
    AsRequested
    NoForeignFds
    NoLeak
    NoCallLost
    ServesUntilDisconnect
    NothingOutlivesConnection
PROPERTIES
    KeepsPromise
    CloseEndsService
    CancelEndsService
    CallsEnd
CHECK_DEADLOCK FALSE
