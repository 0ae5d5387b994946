---------------------------- MODULE MemoryCache ----------------------------
(* The in-memory hot cache.  A Put is cut into the removals its eviction    *)
(* loops make, so that it can be compared with HotCache.                    *)
EXTENDS LRUIndex

CONSTANT EntriesExpire      \* a TTL is set, by the policy or by callers

VARIABLES
    mem,
    memPut      \* the Put that holds the mutex

memVars == <<mem, memPut>>

MemInit == mem = EmptyCache /\ memPut = NoPut

\* Get: a hit moves the entry to the front of its list; an expired entry is
\* removed, whether or not it is the only copy.
MemGet(b) ==
    /\ memPut = NoPut
    /\ b \in Indexed(mem)
    /\ mem' = touched(mem, b) \/ (EntriesExpire /\ mem' = removed(mem, b))
    /\ UNCHANGED memPut

MemEvict(b) ==
    /\ memPut = NoPut
    /\ b \in Indexed(mem)
    /\ mem' = removed(mem, b)
    /\ UNCHANGED memPut

\* Put takes the mutex, once the body is read and fits, and removes the old entry.
MemStartPut(b, pinHot, nonEvictable) ==
    /\ memPut = NoPut
    /\ Fits(b)
    /\ memPut' = Started(mem, b, NewEntry(pinHot, nonEvictable))
    /\ mem' = IF b \in Indexed(mem) THEN removed(mem, b) ELSE mem

\* One round of evictHotLocked.
MemEvictHot ==
    /\ memPut.step = "hot"
    /\ IF HotFull(mem, Incoming(memPut))
       THEN (\E b \in Victims(mem, mem.hot) : mem' = removed(mem, b)) /\ UNCHANGED memPut
       ELSE memPut' = [memPut EXCEPT !.step = "main"] /\ UNCHANGED mem

\* One round of evictMainLocked; then the entry is added.
MemEvictMain ==
    /\ memPut.step = "main"
    /\ IF Full(mem, Incoming(memPut))
       THEN (\E b \in Victims(mem, Scanned(mem)) : mem' = removed(mem, b)) /\ UNCHANGED memPut
       ELSE mem' = added(mem, memPut.blob, memPut.new) /\ memPut' = NoPut

MemNext ==
    \/ \E b \in BlobIDs :
        \/ MemGet(b) \/ MemEvict(b)
        \/ \E pinHot, nonEvictable \in BOOLEAN : MemStartPut(b, pinHot, nonEvictable)
    \/ MemEvictHot \/ MemEvictMain

MemSpec == MemInit /\ [][MemNext]_memVars

-----------------------------------------------------------------------------
(* Properties.                                                             *)

\* The byte counters are the sizes of what the lists hold, and a blob is in
\* one list once, after any mix of replacing puts, evictions and expiries.
MemoryAccounting == Balanced(mem)

\* The memory cache keeps the promise of HotCache: making room takes evictable
\* entries of other blobs only.
MemoryPromise == INSTANCE HotCache WITH
    Blobs <- BlobIDs, entries <- HeldFor(mem, memPut), call <- CallOf(memPut)
MemoryKeepsPromise == MemoryPromise!Spec

=============================================================================
