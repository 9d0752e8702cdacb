SPECIFICATION FairSpec
CONSTANTS
    NoDoc = NoDoc
    Docs = {d1}
    Budget <- BudgetLive
    Apart <- LiveScopes
    MaxChunks = 1
    ChunkCount <- Chunks1
    TooLong = {}
    BatchSize = 1
PROPERTIES EventuallySearchable EventuallyQuiet
