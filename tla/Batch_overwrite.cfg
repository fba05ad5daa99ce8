\* Two sources with the same output on two threads, no -f.
SPECIFICATION Spec
CONSTANTS
    NJobs = 2
    Files <- NamesS
    Src <- SrcS
    Compressed <- CompS
    Expanded <- ExpS
    Tiles <- TilesS
    PngFiles = {}
    BadSuffix = {}
    CodecMayFail = {}
    Options <- OptionsPlain
PROPERTIES NoOverwrite
