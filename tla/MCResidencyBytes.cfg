SPECIFICATION SpecResidency
CONSTANTS
    kMTile = 2
    kKChunk = 2
    kNChunk = 2
    ServedDims = {2, 3}
    kAlign = 1
    kCols = 1
    Tensors = {s1, s2}
    Shapes <- MCShapes
INVARIANTS
    ResidentBytesAreResident
