SPECIFICATION DedupSpec
CONSTANTS
    Clients = {p1}
    ContentIDs = {1}
    ChunkHashes <- Hashes
    InDatabase = TRUE
    MaxEntries = 1
    UploadFirst = TRUE
    DedupFaults = {"db"}
INVARIANTS
    RegisteredHasRows
CHECK_DEADLOCK FALSE
