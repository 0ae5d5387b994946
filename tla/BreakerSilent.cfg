SPECIFICATION FairSpec
CONSTANTS
    Procs = {g1}
    Threshold = 1
    Outcomes = {"ok", "fail", "silent"}
PROPERTIES
    Recovers
