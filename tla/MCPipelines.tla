----------------------------- MODULE MCPipelines ----------------------------
(* The safety of BlobPipeline for TLC, in three settings where nothing may  *)
(* be lost; setting says which one a behaviour belongs to.  They differ in  *)
(* what the goroutines do and in what fails, so states and properties are   *)
(* those of BlobPipeline in all of them.                                    *)
EXTENDS BlobPipeline, TLC

CONSTANTS b1, b2, g1, g2, g3, gw1, gw2

VARIABLE setting

\* g1 and g2 share a replica.
TwoAndOne == [p \in Procs |-> IF p = g3 THEN gw1 ELSE gw2]

Keeping == OpNames \ {"evict"}
WriterAway == [p \in Procs |-> IF p = g3 THEN {"write"} ELSE Keeping]
TwoKeep == [p \in Procs |-> IF p = g3 THEN {} ELSE Keeping]

\* Clients use one blob only.
OnlyB1 == \A p \in Procs : pc'[p] # "idle" => blob'[p] = b1

\* b2 makes room for b1 or takes it: one goroutine at a time works on it.
OneOnB2 ==
    \A p, q \in Procs :
        p # q /\ blob'[p] = b2 /\ blob'[q] = b2 => "idle" \in {pc'[p], pc'[q]}

\* Two goroutines under restarts and a disk that fails, with two blobs, one of
\* them too large to restore: the constants' own values.
Crashing == Next /\ OneOnB2

\* Three goroutines on two replicas that share the row and the store: two that
\* write, read and promote, and a writer (and promoter) on the other replica.
Replicated == INSTANCE BlobPipeline WITH
    Does <- WriterAway, Rewrites <- TRUE, Faults <- {"store", "status"}

\* Callers that give up and a pipeline that is closed under its goroutines.
Closing == INSTANCE BlobPipeline WITH
    Rewrites <- TRUE, Faults <- {"store", "status", "cancel", "close"}

SettingInit == setting \in {"crashing", "replicated", "closing"} /\ Init

SettingNext ==
    /\ UNCHANGED setting
    /\ \/ setting = "crashing" /\ Crashing
       \/ setting = "replicated" /\ Replicated!Next /\ OnlyB1
       \/ setting = "closing" /\ Closing!Next /\ OnlyB1

SettingSpec == SettingInit /\ [][SettingNext]_<<setting, vars>>

Symmetry == Permutations({g1, g2})

=============================================================================
