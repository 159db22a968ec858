CONSTANTS
    Caches <- MCCaches
    Kernel <- MCKernel
    Batch <- MCBatch
    NumLayers = 2
    RecentWindow = 1
    AbsorbBlock = 1
    Ranks <- MCRanks
    TritonRanks <- MCTritonRanks
    MaxTokens <- MCMaxTokens
    MaxScopes = 2
    MaxForward = 2
    MaxFaults = 1
SPECIFICATION Spec
INVARIANTS OwnMiddle NothingKeptAlive RowsInStep
