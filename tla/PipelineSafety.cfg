SPECIFICATION SettingSpec
CONSTANTS
    b1 = b1  b2 = b2
    g1 = g1  g2 = g2  g3 = g3
    gw1 = gw1  gw2 = gw2
    Blobs = {b1, b2}
    Replicas = {gw1, gw2}
    Procs = {g1, g2, g3}
    Home <- TwoAndOne
    Does <- TwoKeep
    Volatile = {}
    Oversize = {b2}
    Rewrites = FALSE
    Status = "postgres"
    Faults = {"store", "status", "disk", "crash"}
INVARIANTS
    TypeOK
    DurableIsStored
    
    AckedNotLost
    SingleFlight
SYMMETRY Symmetry
