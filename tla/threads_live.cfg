SPECIFICATION FairSpec
CONSTANTS
    Goroutines = {g1, g2}
    OSThreads = {t0, t1, t2}
    InitialThread = t0
    NoThread = NoThread
    NsTypes = {"mnt"}
    MaxNs = 2
    MaxLocks = 2
    MaxCleanups = 2
PROPERTIES
    BlockedReturns
    IdlersEnd
