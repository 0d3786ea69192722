SPECIFICATION FairSpec
CONSTANTS
    WordSize = 8
    MaxFds = 3
    Calls = {c1, c2}
    Menu <- FullMenu
    Busy = 1
INVARIANTS
    TypeOK
    NoStrangers
    StreamsEnd
    PidfdVouches
PROPERTIES
    KeepsPromise
    AbandonedChildEnds
    ClosedChildEnds
CHECK_DEADLOCK FALSE
