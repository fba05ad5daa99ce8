\* Two lanes, two contexts, three symbols: normalize() has to give and to take.
SPECIFICATION Spec
CONSTANTS
    Lanes = 2
    NormSum = 4
    B = 8
    NContexts = 2
    NSymbols = 3
    MaxStack = 5
INVARIANTS StackNotOverrun RoundTrip CutIsNoticed
\* A coder stops when its image is coded.
CHECK_DEADLOCK FALSE
