SPECIFICATION Spec
CONSTANTS
    g1 = g1  g2 = g2  gw1 = gw1  gw2 = gw2
    Blobs = {b1}
    Replicas = {gw1}
    Procs = {g1, g2}
    Home <- OneGateway
    Does <- WriterAndEvictor
    Volatile = {}
    Oversize = {}
    Rewrites = FALSE
    Status = "postgres"
    Faults = {}
INVARIANTS
    AckedNotLost
