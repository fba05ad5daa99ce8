\* Every image up to 12 x 9 around the bounds of the size test, 4 lanes.
SPECIFICATION Spec
CONSTANTS
    L = 4
    MinArea = 50
    Shapes <- MCShapes
INVARIANTS TypeOK SameNeighbours NothingRaw
PROPERTIES ScanIsCausal ScanEnds
CHECK_DEADLOCK FALSE
