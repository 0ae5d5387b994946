------------------------- MODULE PipelineConstants --------------------------
(* The parameters of BlobPipeline: who runs what, on which replica, over    *)
(* which status store, and which failures are considered.                   *)

CONSTANTS
    Blobs,      \* blob IDs
    Replicas,   \* processes with a Pipeline of their own (gateways, worker)
    Procs,      \* goroutines
    Home,       \* the replica a goroutine runs on
    Does,       \* the operations a goroutine is used for
    Volatile,   \* replicas whose cache is a MemoryCache
    Status,     \* the status store: "memory" or "postgres"
    Oversize,   \* blobs larger than maxRestoreBytes
    Rewrites,   \* may a blob be written again while or after it is written?
    Faults      \* the failures considered

OpNames == {"write", "read", "promote", "evict"}

(***************************************************************************)
(* store  - a Head, Get or Put of the durable store fails; a failed Put    *)
(*          may still have stored the object                               *)
(* status - a call of the status store fails                               *)
(* disk   - cache.Put fails, before or after it removed the old entry      *)
(* open   - cache.Get cannot open a present body: it drops the entry       *)
(* cancel - the context of a waiting caller is cancelled                   *)
(* panic  - a call made under singleflight panics and is recovered         *)
(* crash  - a replica dies and restarts                                    *)
(* close  - Pipeline.Close cancels the lifecycle context                   *)
(***************************************************************************)
FaultNames == {"store", "status", "disk", "open", "cancel", "panic", "crash", "close"}

ASSUME PipelineAssumption ==
    /\ Blobs # {}
    /\ "none" \notin Procs
    /\ Home \in [Procs -> Replicas]
    /\ Does \in [Procs -> SUBSET OpNames]
    /\ Volatile \subseteq Replicas
    /\ Oversize \subseteq Blobs
    /\ Rewrites \in BOOLEAN
    /\ Faults \subseteq FaultNames
    /\ Status \in {"memory", "postgres"}
    /\ Status = "memory" => /\ \A r, s \in Replicas : r = s
                            /\ Faults \cap {"status", "crash"} = {}

=============================================================================
