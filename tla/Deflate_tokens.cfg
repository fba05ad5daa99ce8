\* The token buffer of the lazy levels.
SPECIFICATION Spec
CONSTANTS
    MaxMatch = 5
    WSize = 4
    RingSize = 10
    HSize = 4
    TokMax = 3
    Chunk = 2
    StoreMax = 3
    MaxInput = 11
    Options <- MCOptions
INVARIANT TokensFit
