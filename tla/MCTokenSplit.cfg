SPECIFICATION SpecBatches
CONSTANTS
    kMTile = 64
    kKChunk = 160
    kNChunk = 160
    ServedDims = {160, 432}
    kAlign = 4
    kCols = 4
    BatchSizes <- MCBatchSizes
    ThreadCounts = {1, 2, 3, 5, 16}
    Settings <- MCSettings
INVARIANTS
    BatchesTypeOK
    RowShardsPartition
    EpiShardsPartition
    SplitNearest
