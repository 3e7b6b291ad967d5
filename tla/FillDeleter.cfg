\* Every device size up to past the last region.
CONSTANTS
    Positions <- ScaledPositions
    FillBlockSize = 2
    FillCount = 3
    MaxSize = 30
SPECIFICATION FillSpec
INVARIANTS OnlyRegions SuccessMeansWiped
