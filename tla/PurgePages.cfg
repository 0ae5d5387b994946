SPECIFICATION S3Spec
CONSTANTS
    ObjectKeys = {1}
    MaxObjects = 2
    MaxKeys = 1
    Callers = {c1}
    RequestFaults = {}
PROPERTIES
    PurgedIsGone
CHECK_DEADLOCK FALSE
