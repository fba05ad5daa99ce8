\* One thread: the loop runs on the caller's thread, and any index may throw.
SPECIFICATION PoolSpec
CONSTANTS
    N = 40
    NThread = 1
    HwThreads = 0
    Quota = 0
    Period = 0
    MayThrow <- MCThrowAny
    SpawnMayFail = FALSE
    None = None
PROPERTIES ImplementsForEach
