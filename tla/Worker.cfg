SPECIFICATION PartsSpec
CONSTANTS
    Procs = {"g1"}
    Threshold = 16
    Outcomes = {"ok", "fail"}
    Callers = {"a", "b", "c"}
    MaxGeneration = 4
    Faults = {"db", "crash"}
    Blobs = {1, 2, 3}
    Batch = 2
    Pool = {"g1", "g2"}
    Lost = {1}
    MaxRewrites = 1
    Sweepers = {"repair"}
    Items = 1
    JobFaults = {"list", "promote", "timeout"}
    BlobIDs = {1, 2, 3}
    Size <- BlobSizes
    MaxBytes = 2
    HotLimit = 1
    HotPin = TRUE
    EntriesExpire = TRUE
    DiskFaults = {"publish", "meta", "open", "crash"}
INVARIANTS
    GenerationsUnbroken
    AnswerNotBehind
    ClosedIsQuiet
    MemoryAccounting
    Accounting
    FilesMatchIndex
    
PROPERTIES
    PromoteReturns
    ReaderStops
    NoStarvation
    StopEnds
    PurgeEnds
    KeepsContract
    
    MemoryKeepsPromise
    
CHECK_DEADLOCK FALSE
