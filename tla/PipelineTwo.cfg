SPECIFICATION Spec
CONSTANTS
    NoDoc = NoDoc
    Docs = {d1, d2}
    Budget <- BudgetTwo
    Apart <- OneScope
    MaxChunks = 2
    ChunkCount <- Chunks2
    TooLong = {1}
    BatchSize = 2
SYMMETRY Permute
INVARIANTS ProcessedIsSearchable
