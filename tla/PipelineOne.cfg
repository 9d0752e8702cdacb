SPECIFICATION Spec
CONSTANTS
    NoDoc = NoDoc
    Docs = {d1}
    Budget <- BudgetOne
    Apart <- Scopes
    MaxChunks = 2
    ChunkCount <- Chunks2
    TooLong = {}
    BatchSize = 1
INVARIANTS TypeOK ProcessedIsSearchable CountedChunksMatch DuplicatesArePaidFor
PROPERTIES TextNeverRegresses
