\* Every part, one at a time.
SPECIFICATION ServicesSpec
CONSTANTS
    Parts = {"accounts", "limiter", "redis", "uploads", "backups", "search", "chunker"}
    t1 = t1
    t2 = t2
    Idle = Idle
    Names = {"ada", "bob"}
    Passwords = {"p", "q"}
    Roles = {"admin", "viewer"}
    Threads = {t1, t2}
    MaxBorn = 3
    SeedName = "ada"
    SeedPassword = "p"
    DocIds = {1, 2}
    MaxPosition = 1
    Scopes <- MCScopes
    Limit = 2
    Window = 3
    Delay = 1
    Clients = {"a", "b"}
    MaxTime = 7
    MaxLosses = 1
    SearchLimit = 2
    SearchWindow = 3
    Latency = 1
    Searches = {"a", "b"}
    MaxSeconds = 5
    MaxEvictions = 1
    FileNames <- MCFileNames
    LongNames <- MCLongNames
    BasePath <- MCBasePath
    UploadDir <- MCUploadDir
    MaxUploads = 3
    LastSecond = 2
    MaxOperations = 2
    ExitCodes = {0, 1, 2, 137}
    Books <- MCBooks
    ChunksOf <- MCChunksOf
    Bare <- MCBare
    RrfK = 60
    Candidates <- MCCandidates
    OverFetch = 1
    PageSizes = {1, 2}
    MaxPage = 3
    MaxWords = 8
    MaxSize = 4
INVARIANT CollectionsTypeOK
INVARIANT LastPasswordStands
INVARIANT OnlyTheCreator
INVARIANT PositionsDistinct
INVARIANT AcceptedIsIndexed
INVARIANT InProgressIsAlive
INVARIANT CompletedHadNoFailure
INVARIANT PagesPartition
INVARIANT BothLegsAgree
INVARIANT SimilarAreNearest
INVARIANT WindowsCover
PROPERTY LastAccountKept
PROPERTY LimiterKeepsPromise
PROPERTY OverrunIsBounded
PROPERTY FilesStand
SYMMETRY ThreadSymmetry
CHECK_DEADLOCK FALSE
