\* Every small input of the strips, the tables and the prefix codes.  Each is computed once.
SPECIFICATION AlgSpec
CONSTANTS
    Word = 16
    MinRows = 4
    MaxHeight = 30
    MaxThreads = 12
    MaxOption = 8
    NEntries = 6
    Pad = 0
    Plain = {0, 3, 4, 31, 127, 327}
    Sharp = {7, 8, 15, 16, 32, 128, 328}
    NSyms = 6
    MaxLen = 3
    MaxRounds = 40
    Freqs = {0, 1, 2, 5, 13}
    RunCounts = {1, 2, 3, 4, 6, 7, 8, 10, 11, 12, 13, 138, 139, 150}
    MaxVal = 11
    Lit = 3
    RunBase = 4
    RunSpan = 3
    FlipMax = 2
    Bytes = 8
    Bpp = 1
    Sparse = 2
    Pixels = {0, 3, 7}
    Levels = {0, 3, 6, 9}
    Width = 4
    None = None
    MaxY = 255
    MaxLevel = 255
    One = 64
    Rate = 8
    Radix = 256
    MinRange = 15
    NCtx = 12
    KStep = 3
    TreeSize = 128
    Images <- SmallImages
    StepSeqs <- SmallStepSeqs
    Codings <- SmallCodings
INVARIANTS StripsPartition StripsTallEnough MemoryGuarded ReadBack CodeIsComplete
           PixelsSurvive SamplesSurvive NamesPaired
CHECK_DEADLOCK FALSE
