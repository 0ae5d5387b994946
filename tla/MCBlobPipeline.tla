--------------------------- MODULE MCBlobPipeline ---------------------------
(* Small instances of BlobPipeline for TLC, for the questions whose answer  *)
(* is a counterexample.                                                     *)
EXTENDS BlobPipeline

CONSTANTS g1, g2, gw1, gw2

\* Both goroutines run on one gateway.
OneGateway == [p \in Procs |-> gw1]

\* g1 runs on the gateway, g2 on the worker.
TwoReplicas == [p \in Procs |-> IF p = g1 THEN gw1 ELSE gw2]

\* g1 serves writes, g2 evicts.
WriterAndEvictor == [p \in Procs |-> IF p = g1 THEN {"write"} ELSE {"evict"}]

\* g1 serves writes, g2 runs the promotion sweeps.
WriterAndSweeper == [p \in Procs |-> IF p = g1 THEN {"write"} ELSE {"promote"}]

=============================================================================
