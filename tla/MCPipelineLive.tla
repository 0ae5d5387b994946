--------------------------- MODULE MCPipelineLive ---------------------------
(* The liveness of BlobPipeline for TLC, on two instances that use the same *)
(* variables; setting says which one a behaviour runs.                      *)
EXTENDS Naturals

CONSTANTS b1, g1, g2, g3, gw1

VARIABLES
    setting,
    cache, status, stored, promoting, restoring, closed,
    pc, blob, sync, body, result, acked, confirmed

vars == <<setting, cache, status, stored, promoting, restoring, closed,
          pc, blob, sync, body, result, acked, confirmed>>

\* Calls under singleflight fail and panic; the status store is in memory.
Panicking == INSTANCE BlobPipeline WITH
    Blobs <- {b1}, Replicas <- {gw1}, Procs <- {g1, g2},
    Home <- [p \in {g1, g2} |-> gw1],
    Does <- [p \in {g1, g2} |-> {"write", "read", "promote", "evict"}],
    Volatile <- {}, Oversize <- {}, Rewrites <- TRUE, Status <- "memory",
    Faults <- {"store", "open", "panic"}

\* g1 and g2 serve clients, g3 is a worker of the promotion pool.
Clients == {"write", "read"}
Promoting == INSTANCE BlobPipeline WITH
    Blobs <- {b1}, Replicas <- {gw1}, Procs <- {g1, g2, g3},
    Home <- [p \in {g1, g2, g3} |-> gw1],
    Does <- [p \in {g1, g2, g3} |-> IF p = g3 THEN {"promote"} ELSE Clients],
    Volatile <- {}, Oversize <- {}, Rewrites <- TRUE, Status <- "postgres",
    Faults <- {"store", "cancel"}

Init ==
    \/ setting = "panicking" /\ Panicking!Init
    \/ setting = "promoting" /\ Promoting!Init

Next ==
    /\ UNCHANGED setting
    /\ \/ setting = "panicking" /\ Panicking!Next
       \/ setting = "promoting" /\ Promoting!Next

Step(p) ==
    \/ setting = "panicking" /\ p # g3 /\ Panicking!Step(p)
    \/ setting = "promoting" /\ Promoting!Step(p)

\* The part of BlobPipeline's fairness the two properties need: steps are taken
\* in both settings; sweeps and uploads matter where there is a promoter.
Fairness ==
    /\ \A p \in {g1, g2, g3} : WF_vars(UNCHANGED setting /\ Step(p))
    /\ SF_vars(/\ UNCHANGED setting /\ setting = "promoting"
               /\ \E p \in {g1, g2, g3} : Promoting!PromotePut(p) /\ pc'[p] = "p_mark")
    /\ SF_vars(UNCHANGED setting /\ setting = "promoting" /\ Promoting!Sweep(g3, b1))

Spec == Init /\ [][Next]_vars /\ Fairness

-----------------------------------------------------------------------------
Waiting(p) == p \in DOMAIN pc /\ pc[p] \in {"p_wait", "r_wait"}

\* A caller that waits on another caller's flight is released, whatever happens
\* to the leader, panics included; the status store may be either kind.
WaitersWake == \A p \in {g1, g2, g3} : Waiting(p) ~> ~Waiting(p)

\* A CACHED row is promoted in the end, whatever clients write and read.
CachedGetsDurable ==
    (setting = "promoting" /\ status[b1] = "CACHED") ~> (status[b1] = "COMMITTED_DURABLE")

=============================================================================
