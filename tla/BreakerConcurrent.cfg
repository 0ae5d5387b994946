SPECIFICATION FairSpec
CONSTANTS
    Procs = {g1, g2, g3}
    Threshold = 2
    Outcomes = {"ok", "fail", "silent"}
INVARIANTS
    TypeOK
    HalfOpenIsProbing
PROPERTIES
    CallsReturn
