SPECIFICATION FairSpec
CONSTANTS
    WordSize = 8
    MaxFds = 3
    Calls = {c1, c2}
    Menu <- SmallSubspace
    Busy = 2
PROPERTIES
    ServicesEndOnceAllClosed
CHECK_DEADLOCK FALSE
