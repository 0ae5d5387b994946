SPECIFICATION PartsSpec
CONSTANTS
    Sessions = {"s1"}
    Ordinals = {1, 2}
    Handlers = {"h1", "h2", "h3"}
    Postgres = TRUE
    MaxListed = 2
    Faults = {"store", "db", "crash"}
    Clients = {"p1", "p2"}
    ContentIDs = {1, 2}
    ChunkHashes <- Hashes
    InDatabase = TRUE
    MaxEntries = 1
    UploadFirst = TRUE
    DedupFaults = {"store", "db", "crash"}
    NParts = 5
    Workers = {g1, g2}
    MultipartFaults = {"create", "part", "complete", "abort", "read", "rot", "cancel"}
    Keys = {1, 2}
    MaxVersions = 3
    Uploads = {"u1"}
    MaxParts = 2
    Specs <- RetentionSpecs
    MaxDate = 2
    PageSize = 1
    FileFaults = {"sidecar", "part", "remove", "crash"}
    ObjectKeys = {1, 2}
    MaxObjects = 3
    MaxKeys = 2
    Callers = {g1, g2}
    RequestFaults = {"request", "head"}
INVARIANTS
    
    RowsAllOrNone
    AckedListed
    ListedStored
    WholeObject
    UploadSettled
    
    BodyBehindSidecar
    
    
PROPERTIES
    
    
    PurgeComplete
    PurgeKeepsOthers
SYMMETRY Symmetry
CHECK_DEADLOCK FALSE
