SPECIFICATION Spec
CONSTANTS
    NJobs = 2
    NTiles = 2
    Options <- MCOptions
INVARIANTS
    Guarded
    OnlyImagesKill
    BlameIsRight
    MappingReleased
