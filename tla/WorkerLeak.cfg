SPECIFICATION MultipartFairSpec
CONSTANTS
    NParts = 4
    Workers = {w1, w2}
    MultipartFaults = {"part"}
PROPERTIES
    WorkersStop
CHECK_DEADLOCK FALSE
