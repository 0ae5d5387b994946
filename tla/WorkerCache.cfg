SPECIFICATION FairSpec
CONSTANTS
    g1 = g1  g2 = g2  gw1 = gw1  gw2 = gw2
    Blobs = {b1}
    Replicas = {gw1, gw2}
    Procs = {g1, g2}
    Home <- TwoReplicas
    Does <- WriterAndSweeper
    Volatile = {gw2}
    Oversize = {}
    Rewrites = FALSE
    Status = "postgres"
    Faults = {}
PROPERTIES
    CachedGetsDurable
