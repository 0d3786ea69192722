SPECIFICATION Spec
CONSTANTS
    Goroutines = {g1, g2}
    OSThreads = {t0, t1, t2}
    InitialThread = t0
    NoThread = NoThread
    NsTypes = {"mnt", "net"}
    MaxNs = 1
    MaxLocks = 3
    MaxCleanups = 2
SYMMETRY Alike
INVARIANTS
    TypeOK
    PoolPristine
    InitialThreadPristine
    FnContext
    IdlerKeepsNamespace
    SomebodyRuns
    IdlersAreDue
PROPERTIES
    RestoresCaller
