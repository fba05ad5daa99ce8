\* Three strips through the container and back.
SPECIFICATION Spec
CONSTANTS
    Word = 64
    MinRows = 4
    Height = 5
    N = 3
    HeaderSize = 64
    Lengths = {5, 8}
    Options <- OptionsAll
INVARIANTS ContainerSound RowsKeptApart RestoredIsRight WrittenIsReadable
