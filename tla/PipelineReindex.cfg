SPECIFICATION FairSpec
CONSTANTS
    NoDoc = NoDoc
    Docs = {d1}
    Budget <- BudgetReindex
    Apart <- OneScope
    MaxChunks = 1
    ChunkCount <- Chunks1
    TooLong = {}
    BatchSize = 1
PROPERTIES ReindexRediscovers
