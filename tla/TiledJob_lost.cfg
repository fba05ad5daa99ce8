\* A strip whose compression throws on a worker.
SPECIFICATION Spec
CONSTANTS
    Word = 64
    MinRows = 4
    Height = 5
    N = 3
    HeaderSize = 64
    Lengths = {5, 8}
    Options <- OptionsLost
INVARIANTS WrittenIsReadable
