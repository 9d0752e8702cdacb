SPECIFICATION FairSpec
CONSTANTS
    NoDoc = NoDoc
    Docs = {d1}
    Budget <- BudgetEdit
    Apart <- OneScope
    MaxChunks = 2
    ChunkCount <- Chunks2
    TooLong = {}
    BatchSize = 1
PROPERTIES EventuallyCurrent
