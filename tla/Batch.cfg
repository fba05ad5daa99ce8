\* Three jobs with outputs of their own under five command lines.
SPECIFICATION Spec
CONSTANTS
    NJobs = 3
    Files <- Names3
    Src <- Src3
    Compressed <- Comp3
    Expanded <- Exp3
    Tiles <- Tiles3
    PngFiles = {"a.png", "b.png"}
    BadSuffix = {"c.png"}
    CodecMayFail = {1}
    Options <- OptionsLive
INVARIANTS TypeOK StatusLineConsistent OneFilePerThread ScreenCleanAtExit FailureReported OkMeansWritten
PROPERTIES NoOverwrite RunEnds
