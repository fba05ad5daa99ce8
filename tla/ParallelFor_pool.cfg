\* 3 threads (4 CPUs, a quota of 2.5), 4 indices, two of which may throw; threads may fail to start.
SPECIFICATION PoolSpec
CONSTANTS
    N = 4
    NThread = 0
    HwThreads = 4
    Quota = 5
    Period = 2
    MayThrow <- MCThrow
    SpawnMayFail = TRUE
    None = None
INVARIANTS PoolTypeOK RaiseIsClean
PROPERTIES RunFinishes ImplementsForEach
