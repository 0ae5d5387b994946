---------------------------- MODULE BlobPipeline ----------------------------
(***************************************************************************)
(* The L1-cache-aside data plane of internal/blobio/pipeline.go: Write,    *)
(* Read, Promote and Evict, run by concurrent goroutines of one or more    *)
(* replicas.  Every replica has its own L1 cache and its own singleflight  *)
(* maps; the status store (Postgres) and the durable store (L2) are shared.*)
(*                                                                         *)
(* One action is one call the pipeline makes on a cache, the status store, *)
(* the durable store or a singleflight map, with the local control flow up *)
(* to the next call.  A MemoryStatusStore belongs to a single replica, dies*)
(* with it and never fails.  Blob IDs are immutable (pipeline.go:17): one  *)
(* blob has one content and its copies are interchangeable; the only       *)
(* other body is the empty one a recovered panic hands to its caller.      *)
(***************************************************************************)
EXTENDS Naturals, FiniteSets, PipelineConstants

VARIABLES
    cache,      \* per replica and blob: the L1 entry
    status,     \* per blob: the commit_state of its blob_placements row
    stored,     \* the blobs the durable store holds
    promoting,  \* per replica: promoteInflight
    restoring,  \* per replica: inflight
    closed,     \* replicas whose lifecycle context is cancelled
    pc, blob, sync, body, result,   \* per goroutine: control and locals
    acked,      \* blobs some Write returned success for
    confirmed   \* blobs some Write reported COMMITTED_DURABLE for

shared == <<cache, status, stored>>
flights == <<promoting, restoring>>
locals == <<blob, sync, body, result>>
history == <<acked, confirmed>>
vars == <<cache, status, stored, promoting, restoring, closed,
          pc, blob, sync, body, result, acked, confirmed>>

(***************************************************************************)
(* "protected" is an entry put with NonEvictable; "hollow" is an evictable *)
(* entry that holds the empty body.                                        *)
(***************************************************************************)
EntryStates == {"absent", "protected", "evictable", "hollow"}
StatusValues == {"none", "CACHED", "COMMITTED_DURABLE"}
Bodies == {"none", "content", "empty"}
Results == {"none", "ok", "err", "panic"}

NoCall == [leader |-> "none", done |-> FALSE, err |-> FALSE]
Calls == [leader : Procs, done : BOOLEAN, err : BOOLEAN]

WritePCs == {"w_cache", "w_status"}
PromoteLeaderPCs == {"p_status", "p_head", "p_skip", "p_get", "p_put",
                     "p_mark", "p_reget", "p_reput"}
PromotePCs == PromoteLeaderPCs \cup {"p_start", "p_wait", "p_close", "p_delete", "p_ret"}
ReadPCs == {"r_get", "r_join", "r_wait", "r_l2", "r_close", "r_delete", "r_ret"}
FillPCs == {"f_put", "f_status"}
EvictPCs == {"e_status", "e_evict"}
PCs == {"idle"} \cup WritePCs \cup PromotePCs \cup ReadPCs \cup FillPCs \cup EvictPCs

TypeOK ==
    /\ cache \in [Replicas -> [Blobs -> EntryStates]]
    /\ status \in [Blobs -> StatusValues]
    /\ stored \subseteq Blobs
    /\ promoting \in [Replicas -> [Blobs -> Calls \cup {NoCall}]]
    /\ restoring \in [Replicas -> [Blobs -> Calls \cup {NoCall}]]
    /\ closed \subseteq Replicas
    /\ pc \in [Procs -> PCs]
    /\ blob \in [Procs -> Blobs]
    /\ sync \in [Procs -> BOOLEAN]
    /\ body \in [Procs -> Bodies]
    /\ result \in [Procs -> Results]
    /\ acked \subseteq Blobs
    /\ confirmed \subseteq Blobs

Init ==
    /\ cache = [r \in Replicas |-> [b \in Blobs |-> "absent"]]
    /\ status = [b \in Blobs |-> "none"]
    /\ stored = {}
    /\ promoting = [r \in Replicas |-> [b \in Blobs |-> NoCall]]
    /\ restoring = [r \in Replicas |-> [b \in Blobs |-> NoCall]]
    /\ closed = {}
    /\ pc = [p \in Procs |-> "idle"]
    /\ blob = [p \in Procs |-> CHOOSE b \in Blobs : TRUE]
    /\ sync = [p \in Procs |-> FALSE]
    /\ body = [p \in Procs |-> "none"]
    /\ result = [p \in Procs |-> "none"]
    /\ acked = {}
    /\ confirmed = {}

-----------------------------------------------------------------------------
(* Control flow of a goroutine.                                            *)

Goto(p, s) == pc' = [pc EXCEPT ![p] = s]

\* The operation returns to its caller; locals are dropped.
Return(p) ==
    /\ Goto(p, "idle")
    /\ sync' = [sync EXCEPT ![p] = FALSE]
    /\ body' = [body EXCEPT ![p] = "none"]
    /\ result' = [result EXCEPT ![p] = "none"]
    /\ UNCHANGED blob

\* A leader has its result and runs the deferred functions next.
Settle(p, closing, res) ==
    /\ Goto(p, closing)
    /\ result' = [result EXCEPT ![p] = res]
    /\ UNCHANGED <<blob, sync, body>>

Start(p, op, s, b, sy) ==
    /\ pc[p] = "idle"
    /\ op \in Does[p]
    /\ Goto(p, s)
    /\ blob' = [blob EXCEPT ![p] = b]
    /\ sync' = [sync EXCEPT ![p] = sy]
    /\ UNCHANGED <<shared, flights, closed, body, result, history>>

-----------------------------------------------------------------------------
(* The L1 cache, by its contract (pkg/hotcache).                           *)

Present(r, b) == cache[r][b] # "absent"
BodyOf(r, b) == IF cache[r][b] = "hollow" THEN "empty" ELSE "content"
EntryFor(bd) == IF bd = "empty" THEN "hollow" ELSE "evictable"
EvictableOthers_Any(r, b) == {x \in Blobs \ {b} : cache[r][x] # "absent"}
EvictableOthers(r, b) == {x \in Blobs \ {b} : cache[r][x] \in {"evictable", "hollow"}}

\* cache.Put: room is made by dropping evictable entries of other blobs.
CachePut(r, b, entry) ==
    \E dropped \in SUBSET EvictableOthers(r, b) :
        cache' = [cache EXCEPT ![r] =
                    [x \in Blobs |-> IF x = b THEN entry
                                     ELSE IF x \in dropped THEN "absent" ELSE cache[r][x]]]

\* A failed cache.Put leaves the entry, or has already removed it.
CachePutFails(r, b) ==
    /\ "disk" \in Faults
    /\ \E left \in {cache[r][b], "absent"} : CachePut(r, b, left)

CacheDrop(r, b) == cache' = [cache EXCEPT ![r][b] = "absent"]

\* cache.Get misses: no entry, or one whose body cannot be opened.
CacheMiss(r, b) ==
    \/ ~Present(r, b) /\ UNCHANGED cache
    \/ Present(r, b) /\ "open" \in Faults /\ CacheDrop(r, b)

-----------------------------------------------------------------------------
(* Write.                                                                  *)

\* Another Write of this blob is running or has been acknowledged.
WrittenBefore(b) ==
    \/ b \in acked
    \/ \E q \in Procs : blob[q] = b /\ (pc[q] \in WritePCs \/ sync[q])

StartWrite(p) ==
    \E b \in Blobs, sy \in BOOLEAN :
        /\ Rewrites \/ ~WrittenBefore(b)
        /\ Start(p, "write", "w_cache", b, sy)

\* The body enters L1 as NonEvictable.
WriteCache(p) ==
    /\ pc[p] = "w_cache"
    /\ \/ /\ CachePut(Home[p], blob[p], "protected")
          /\ Goto(p, "w_status")
          /\ UNCHANGED locals
       \/ CachePutFails(Home[p], blob[p]) /\ Return(p)
    /\ UNCHANGED <<status, stored, flights, closed, history>>

\* The row becomes CACHED; an asynchronous Write is acknowledged here.
WriteStatus(p) ==
    /\ pc[p] = "w_status"
    /\ \/ /\ status' = [status EXCEPT ![blob[p]] = "CACHED"]
          /\ IF sync[p]
             THEN Goto(p, "p_start") /\ UNCHANGED <<locals, acked>>
             ELSE Return(p) /\ acked' = acked \cup {blob[p]}
       \/ /\ "status" \in Faults
          /\ status' \in {status, [status EXCEPT ![blob[p]] = "CACHED"]}
          /\ Return(p)
          /\ UNCHANGED acked
    /\ UNCHANGED <<cache, stored, flights, closed, confirmed>>

-----------------------------------------------------------------------------
(* Promote: singleflight around promoteLocked.                             *)

StartPromote(p) == \E b \in Blobs : Start(p, "promote", "p_start", b, FALSE)

\* LoadOrStore on promoteInflight: lead, wait, or take a finished result.
PromoteJoin(p) ==
    LET r == Home[p]
        b == blob[p]
        call == promoting[r][b]
    IN /\ pc[p] = "p_start"
       /\ \/ /\ call = NoCall
             /\ promoting' = [promoting EXCEPT ![r][b] =
                                [leader |-> p, done |-> FALSE, err |-> FALSE]]
             /\ Goto(p, "p_status")
             /\ UNCHANGED locals
          \/ /\ call # NoCall /\ ~call.done
             /\ Goto(p, "p_wait")
             /\ UNCHANGED <<locals, promoting>>
          \/ /\ call # NoCall /\ call.done
             /\ Settle(p, "p_ret", IF call.err THEN "err" ELSE "ok")
             /\ UNCHANGED promoting
       /\ UNCHANGED <<shared, restoring, closed, history>>

\* status.Get: an unknown row fails, a durable one is skipped.
PromoteStatus(p) ==
    /\ pc[p] = "p_status"
    /\ \/ status[blob[p]] = "CACHED" /\ Goto(p, "p_head") /\ UNCHANGED locals
       \/ status[blob[p]] = "COMMITTED_DURABLE" /\ Settle(p, "p_close", "ok")
       \/ status[blob[p]] = "none" /\ Settle(p, "p_close", "err")
       \/ "status" \in Faults /\ Settle(p, "p_close", "err")
    /\ UNCHANGED <<shared, flights, closed, history>>

\* checkAlreadyDurable: a HEAD that fails counts as "not there".
PromoteHead(p) ==
    /\ pc[p] = "p_head"
    /\ \/ blob[p] \in stored /\ Goto(p, "p_skip")
       \/ (blob[p] \notin stored \/ "store" \in Faults) /\ Goto(p, "p_get")
    /\ UNCHANGED <<locals, shared, flights, closed, history>>

MarkDurable_Misspelt(b) == status' = [status EXCEPT ![b] = "DURABLE"]
MarkDurable(b) == status' = [status EXCEPT ![b] = "COMMITTED_DURABLE"]

PromoteSkip_NoMark(p) ==
    /\ pc[p] = "p_skip"
    /\ Settle(p, "p_close", "ok")
    /\ UNCHANGED <<shared, flights, closed, history>>

\* MarkDurable after the HEAD found the object; L1 is left as it is.
PromoteSkip(p) ==
    /\ pc[p] = "p_skip"
    /\ \/ MarkDurable(blob[p]) /\ Settle(p, "p_close", "ok")
       \/ /\ "status" \in Faults
          /\ MarkDurable(blob[p]) \/ UNCHANGED status
          /\ Settle(p, "p_close", "err")
    /\ UNCHANGED <<cache, stored, flights, closed, history>>

\* cache.Get of the body to upload, from this replica's own L1.
PromoteGet(p) ==
    /\ pc[p] = "p_get"
    /\ \/ /\ Present(Home[p], blob[p])
          /\ body' = [body EXCEPT ![p] = BodyOf(Home[p], blob[p])]
          /\ Goto(p, "p_put")
          /\ UNCHANGED <<cache, blob, sync, result>>
       \/ CacheMiss(Home[p], blob[p]) /\ Settle(p, "p_close", "err")
    /\ UNCHANGED <<status, stored, flights, closed, history>>

\* Mutants: after a failed upload, control goes on at next.
PromotePut_Ignoring(p, next) ==
    /\ pc[p] = "p_put"
    /\ \/ stored' = stored \cup {blob[p]} /\ Goto(p, "p_mark")
       \/ "store" \in Faults /\ UNCHANGED stored /\ Goto(p, next)
    /\ UNCHANGED <<locals, cache, status, flights, closed, history>>
PromotePut_MarkAnyway(p) == PromotePut_Ignoring(p, "p_mark")
PromotePut_ReputAnyway(p) == PromotePut_Ignoring(p, "p_reget")

\* promoteSingle / promoteMultipart: the upload and its verification.
PromotePut(p) ==
    /\ pc[p] = "p_put"
    /\ \/ /\ body[p] = "content"
          /\ stored' = stored \cup {blob[p]}
          /\ Goto(p, "p_mark")
          /\ UNCHANGED locals
       \/ /\ body[p] = "content" /\ "store" \in Faults
          /\ stored' \in {stored, stored \cup {blob[p]}}
          /\ Settle(p, "p_close", "err")
       \/ /\ body[p] = "empty"
          /\ UNCHANGED stored
          /\ Settle(p, "p_close", "err")
    /\ UNCHANGED <<cache, status, flights, closed, history>>

\* MarkDurable after the upload.
PromoteMark(p) ==
    /\ pc[p] = "p_mark"
    /\ \/ MarkDurable(blob[p]) /\ Goto(p, "p_reget") /\ UNCHANGED locals
       \/ /\ "status" \in Faults
          /\ MarkDurable(blob[p]) \/ UNCHANGED status
          /\ Settle(p, "p_close", "err")
    /\ UNCHANGED <<cache, stored, flights, closed, history>>

\* cache.Get of the body that is put back as evictable.
PromoteReget(p) ==
    /\ pc[p] = "p_reget"
    /\ \/ /\ Present(Home[p], blob[p])
          /\ body' = [body EXCEPT ![p] = BodyOf(Home[p], blob[p])]
          /\ Goto(p, "p_reput")
          /\ UNCHANGED <<cache, blob, sync, result>>
       \/ CacheMiss(Home[p], blob[p]) /\ Settle(p, "p_close", "ok")
    /\ UNCHANGED <<status, stored, flights, closed, history>>

\* The entry is put back with NonEvictable=false; a failure is only logged.
PromoteReput(p) ==
    /\ pc[p] = "p_reput"
    /\ CachePut(Home[p], blob[p], EntryFor(body[p])) \/ CachePutFails(Home[p], blob[p])
    /\ Settle(p, "p_close", "ok")
    /\ UNCHANGED <<status, stored, flights, closed, history>>

\* close(call.done): the waiters of this call are released with its error.
PromoteClose(p) ==
    LET r == Home[p]
        b == blob[p]
        failed == result[p] # "ok"
        waiter(q) == pc[q] = "p_wait" /\ Home[q] = r /\ blob[q] = b
    IN /\ pc[p] = "p_close"
       /\ promoting' = [promoting EXCEPT ![r][b] =
                            [leader |-> p, done |-> TRUE, err |-> failed]]
       /\ pc' = [q \in Procs |-> IF q = p THEN "p_delete"
                                 ELSE IF waiter(q) THEN "p_ret" ELSE pc[q]]
       /\ result' = [q \in Procs |-> IF q # p /\ waiter(q)
                                     THEN (IF failed THEN "err" ELSE "ok") ELSE result[q]]
       /\ UNCHANGED <<shared, restoring, closed, blob, sync, body, history>>

PromoteDelete(p) ==
    /\ pc[p] = "p_delete"
    /\ promoting' = [promoting EXCEPT ![Home[p]][blob[p]] = NoCall]
    /\ Goto(p, "p_ret")
    /\ UNCHANGED <<locals, shared, restoring, closed, history>>

\* Promote returns.  A recovered panic leaves the leader's unnamed result at
\* nil, so the leader sees success.  A synchronous Write is acknowledged here.
PromoteReturn(p) ==
    LET done == IF sync[p] /\ result[p] # "err" THEN {blob[p]} ELSE {}
    IN /\ pc[p] = "p_ret"
       /\ acked' = acked \cup done
       /\ confirmed' = confirmed \cup done
       /\ Return(p)
       /\ UNCHANGED <<shared, flights, closed>>

-----------------------------------------------------------------------------
(* Read, restoreFromL2 and the asynchronous cache fill.                    *)

StartRead(p) == \E b \in Blobs : Start(p, "read", "r_get", b, FALSE)

\* An L1 hit is returned as it is; a miss goes to the restore.
ReadCache(p) ==
    /\ pc[p] = "r_get"
    /\ \/ Present(Home[p], blob[p]) /\ Return(p) /\ UNCHANGED cache
       \/ CacheMiss(Home[p], blob[p]) /\ Goto(p, "r_join") /\ UNCHANGED locals
    /\ UNCHANGED <<status, stored, flights, closed, history>>

ReadJoin_NoDedup(p) ==
    /\ pc[p] = "r_join"
    /\ restoring' = [restoring EXCEPT ![Home[p]][blob[p]] =
                       [leader |-> p, done |-> FALSE, err |-> FALSE]]
    /\ Goto(p, "r_l2")
    /\ UNCHANGED <<locals, shared, promoting, closed, history>>

\* LoadOrStore on inflight.
ReadJoin(p) ==
    LET r == Home[p]
        b == blob[p]
        call == restoring[r][b]
    IN /\ pc[p] = "r_join"
       /\ \/ /\ call = NoCall
             /\ restoring' = [restoring EXCEPT ![r][b] =
                                [leader |-> p, done |-> FALSE, err |-> FALSE]]
             /\ Goto(p, "r_l2")
             /\ UNCHANGED locals
          \/ /\ call # NoCall /\ ~call.done
             /\ Goto(p, "r_wait")
             /\ UNCHANGED <<locals, restoring>>
          \/ /\ call # NoCall /\ call.done
             /\ Settle(p, "r_ret", IF call.err THEN "err" ELSE "ok")
             /\ UNCHANGED restoring
       /\ UNCHANGED <<shared, promoting, closed, history>>

\* store.Get, the size cap and the checksum.
RestoreGet(p) ==
    /\ pc[p] = "r_l2"
    /\ \/ blob[p] \in stored \ Oversize /\ Settle(p, "r_close", "ok")
       \/ /\ blob[p] \notin stored \ Oversize \/ "store" \in Faults
          /\ Settle(p, "r_close", "err")
    /\ UNCHANGED <<shared, flights, closed, history>>

RestoreClose(p) ==
    LET r == Home[p]
        b == blob[p]
        failed == result[p] # "ok"
        waiter(q) == pc[q] = "r_wait" /\ Home[q] = r /\ blob[q] = b
    IN /\ pc[p] = "r_close"
       /\ restoring' = [restoring EXCEPT ![r][b] =
                            [leader |-> p, done |-> TRUE, err |-> failed]]
       /\ pc' = [q \in Procs |-> IF q = p THEN "r_delete"
                                 ELSE IF waiter(q) THEN "r_ret" ELSE pc[q]]
       /\ result' = [q \in Procs |-> IF q # p /\ waiter(q)
                                     THEN (IF failed THEN "err" ELSE "ok") ELSE result[q]]
       /\ UNCHANGED <<shared, promoting, closed, blob, sync, body, history>>

RestoreDelete(p) ==
    /\ pc[p] = "r_delete"
    /\ restoring' = [restoring EXCEPT ![Home[p]][blob[p]] = NoCall]
    /\ Goto(p, "r_ret")
    /\ UNCHANGED <<locals, shared, promoting, closed, history>>

ReadReturn_FillOnError(p) ==
    /\ pc[p] = "r_ret"
    /\ body' = [body EXCEPT ![p] = IF result[p] = "ok" THEN "content" ELSE "empty"]
    /\ Goto(p, "f_put")
    /\ UNCHANGED <<blob, sync, result, shared, flights, closed, history>>

\* Read hands the body to its caller and the goroutine goes on as the fill.
\* After a recovered panic the leader has a nil error and a nil body.
ReadReturn(p) ==
    /\ pc[p] = "r_ret"
    /\ \/ result[p] = "err" /\ Return(p)
       \/ /\ result[p] # "err"
          /\ body' = [body EXCEPT ![p] = IF result[p] = "ok" THEN "content" ELSE "empty"]
          /\ Goto(p, "f_put")
          /\ UNCHANGED <<blob, sync, result>>
    /\ UNCHANGED <<shared, flights, closed, history>>

\* Fill, first half: nothing after Close; a failed cache.Put is only logged.
FillPut(p) ==
    LET r == Home[p]
    IN /\ pc[p] = "f_put"
       /\ \/ r \in closed /\ Return(p) /\ UNCHANGED cache
          \/ /\ r \notin closed
             /\ CachePut(r, blob[p], EntryFor(body[p])) \/ CachePutFails(r, blob[p])
             /\ Goto(p, "f_status")
             /\ UNCHANGED locals
       /\ UNCHANGED <<status, stored, flights, closed, history>>

\* Fill, second half: the row is upserted as COMMITTED_DURABLE.  The upsert has
\* no CachedAt, so Postgres rejects it (cached_at is NOT NULL).
FillStatus(p) ==
    /\ pc[p] = "f_status"
    /\ \/ Status = "memory" /\ MarkDurable(blob[p])
       \/ Status = "postgres" /\ UNCHANGED status
    /\ Return(p)
    /\ UNCHANGED <<cache, stored, flights, closed, history>>

-----------------------------------------------------------------------------
(* Evict.                                                                  *)

StartEvict(p) == \E b \in Blobs : Start(p, "evict", "e_status", b, FALSE)

\* status.Get, its error ignored: only a CACHED row that was read refuses.
EvictCheck(p) ==
    /\ pc[p] = "e_status"
    /\ \/ status[blob[p]] = "CACHED" /\ Return(p)
       \/ /\ status[blob[p]] # "CACHED" \/ "status" \in Faults
          /\ Goto(p, "e_evict")
          /\ UNCHANGED locals
    /\ UNCHANGED <<shared, flights, closed, history>>

EvictDrop(p) ==
    /\ pc[p] = "e_evict"
    /\ CacheDrop(Home[p], blob[p])
    /\ Return(p)
    /\ UNCHANGED <<status, stored, flights, closed, history>>

-----------------------------------------------------------------------------
(* Failures that end an operation from outside.                            *)

\* The context of a caller that waits on another one's call is cancelled.
CancelWait(p) ==
    /\ "cancel" \in Faults
    /\ pc[p] \in {"p_wait", "r_wait"}
    /\ Return(p)
    /\ UNCHANGED <<shared, flights, closed, history>>

Panic_NoClose(p) ==
    /\ "panic" \in Faults
    /\ \/ pc[p] \in PromoteLeaderPCs /\ Settle(p, "p_delete", "panic")
       \/ pc[p] = "r_l2" /\ Settle(p, "r_delete", "panic")
    /\ UNCHANGED <<shared, flights, closed, history>>

\* A call under singleflight panics before it has an effect; the deferred
\* functions still run.
Panic(p) ==
    /\ "panic" \in Faults
    /\ \/ pc[p] \in PromoteLeaderPCs /\ Settle(p, "p_close", "panic")
       \/ pc[p] = "r_l2" /\ Settle(p, "r_close", "panic")
    /\ UNCHANGED <<shared, flights, closed, history>>

\* Pipeline.Close: the lifecycle context is cancelled.
Close(r) ==
    /\ "close" \in Faults
    /\ closed' = closed \cup {r}
    /\ UNCHANGED <<shared, flights, pc, locals, history>>

At(r, s) == {blob[p] : p \in {q \in Procs : Home[q] = r /\ pc[q] \in s}}

\* What a cache.Put that is running would leave behind.
Putting(r, b) ==
    {p \in Procs : Home[p] = r /\ blob[p] = b /\ pc[p] \in {"w_cache", "f_put", "p_reput"}}
NewEntry(p) == IF pc[p] = "w_cache" THEN "protected" ELSE EntryFor(body[p])

\* The entries a cache may restart with.  A MemoryCache comes back empty; in a
\* DiskCache a running Put may have removed the old entry, published the new one
\* or made room, and the warm-up trims evictable entries.
AfterCrash(r, b) ==
    {e \in EntryStates :
        \/ r \in Volatile /\ e = "absent"
        \/ /\ r \notin Volatile
           /\ \/ e = cache[r][b]
              \/ e = "absent" /\ (cache[r][b] # "protected" \/ Putting(r, b) # {})
              \/ \E p \in Putting(r, b) : e = NewEntry(p)}

\* The replica dies and restarts; an upload under way may have reached the store.
Crash(r) ==
    /\ "crash" \in Faults
    /\ \E left \in [Blobs -> UNION {AfterCrash(r, b) : b \in Blobs}] :
          /\ \A b \in Blobs : left[b] \in AfterCrash(r, b)
          /\ cache' = [cache EXCEPT ![r] = left]
    /\ \E landed \in SUBSET At(r, {"p_put"}) : stored' = stored \cup landed
    /\ promoting' = [promoting EXCEPT ![r] = [b \in Blobs |-> NoCall]]
    /\ restoring' = [restoring EXCEPT ![r] = [b \in Blobs |-> NoCall]]
    /\ closed' = closed \ {r}
    /\ pc' = [p \in Procs |-> IF Home[p] = r THEN "idle" ELSE pc[p]]
    /\ sync' = [p \in Procs |-> IF Home[p] = r THEN FALSE ELSE sync[p]]
    /\ body' = [p \in Procs |-> IF Home[p] = r THEN "none" ELSE body[p]]
    /\ result' = [p \in Procs |-> IF Home[p] = r THEN "none" ELSE result[p]]
    /\ UNCHANGED <<status, blob, history>>

-----------------------------------------------------------------------------
(* The specification.                                                      *)

Write(p) == WriteCache(p) \/ WriteStatus(p)
Promote(p) ==
    \/ PromoteJoin(p) \/ PromoteStatus(p) \/ PromoteHead(p) \/ PromoteSkip(p)
    \/ PromoteGet(p) \/ PromotePut(p) \/ PromoteMark(p) \/ PromoteReget(p)
    \/ PromoteReput(p) \/ PromoteClose(p) \/ PromoteDelete(p) \/ PromoteReturn(p)
Read(p) ==
    \/ ReadCache(p) \/ ReadJoin(p) \/ RestoreGet(p) \/ RestoreClose(p)
    \/ RestoreDelete(p) \/ ReadReturn(p) \/ FillPut(p) \/ FillStatus(p)
Evict(p) == EvictCheck(p) \/ EvictDrop(p)

Step(p) == Write(p) \/ Promote(p) \/ Read(p) \/ Evict(p)
Begin(p) == StartWrite(p) \/ StartRead(p) \/ StartPromote(p) \/ StartEvict(p)

Next ==
    \/ \E p \in Procs : Begin(p) \/ Step(p) \/ CancelWait(p) \/ Panic(p)
    \/ \E r \in Replicas : Close(r) \/ Crash(r)

Spec == Init /\ [][Next]_vars

\* A sweep of the worker promotes every row it finds CACHED.
Sweep(p, b) == status[b] = "CACHED" /\ Start(p, "promote", "p_start", b, FALSE)

\* Goroutines keep running, sweeps recur, and a blob whose upload is tried again
\* and again is uploaded in the end.
Fairness ==
    /\ \A p \in Procs : WF_vars(Step(p))
    /\ \A b \in Blobs :
        /\ SF_vars(\E p \in Procs : blob[p] = b /\ PromotePut(p) /\ pc'[p] = "p_mark")
        /\ \A p \in Procs : SF_vars(Sweep(p, b))

FairSpec == Spec /\ Fairness

-----------------------------------------------------------------------------
(* Properties.                                                             *)

\* A row says COMMITTED_DURABLE, and a Write reports it, only for a blob the
\* durable store holds: MarkDurable, the HEAD skip and the fill's upsert are
\* reached by several interleaved goroutines, and any of them could be early.
DurableIsStored ==
    /\ \A b \in Blobs : status[b] = "COMMITTED_DURABLE" => b \in stored
    /\ confirmed \subseteq stored

\* Once Write has returned success the blob is in the durable store or some
\* replica holds it NonEvictable: neither LRU pressure, nor the re-put after a
\* promotion, nor a fill racing with the Write may leave it without a copy.
AckedNotLost ==
    \A b \in acked : b \in stored \/ \E r \in Replicas : cache[r][b] = "protected"

\* Singleflight: a replica never has two promotions of one blob past
\* LoadOrStore, nor two L2 restores of it, at the same time.
SingleFlight ==
    \A p, q \in Procs :
        /\ Home[p] = Home[q] /\ blob[p] = blob[q]
        /\ \/ {pc[p], pc[q]} \subseteq PromoteLeaderPCs
           \/ {pc[p], pc[q]} \subseteq {"r_l2"}
        => p = q

\* What Read returns or caches is the content that was written, never the
\* empty body of a restore that did not complete.
BodiesIntact ==
    /\ \A r \in Replicas, b \in Blobs : cache[r][b] # "hollow"
    /\ \A p \in Procs : body[p] # "empty"

\* A caller waiting on another caller's flight is released, whatever happens
\* to the leader: the deferred close runs after errors and panics alike.
WaitersWake ==
    \A p \in Procs : pc[p] \in {"p_wait", "r_wait"} ~> pc[p] \notin {"p_wait", "r_wait"}

\* A CACHED row is promoted in the end.
CachedGetsDurable ==
    \A b \in Blobs : status[b] = "CACHED" ~> status[b] = "COMMITTED_DURABLE"

\* When nothing works on a durable blob, no cache still holds it NonEvictable.
DurableIsEvictable ==
    \A b \in Blobs :
        /\ status[b] = "COMMITTED_DURABLE"
        /\ \A p \in Procs : blob[p] = b => pc[p] = "idle"
        => \A r \in Replicas : cache[r][b] # "protected"

=============================================================================
