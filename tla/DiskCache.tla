----------------------------- MODULE DiskCache ------------------------------
(* The disk cache: the bookkeeping of LRUIndex and two files per entry,     *)
(* from which it is rebuilt after a restart.  Everything but the streaming  *)
(* of a body into a temporary file happens under the mutex, so a Get or an  *)
(* Evict is one action; a Put is cut where the process may die with other   *)
(* files on disk.  No program sets a TTL, so entries do not expire.         *)
EXTENDS LRUIndex

CONSTANT DiskFaults     \* subset of {"publish", "meta", "open", "crash"}

VARIABLES
    disk,
    bodies,         \* blobs with a .bin file
    metas,          \* the .meta.json files
    storedAt,       \* blobs with a .meta.json file, latest StoredAt first
    diskPut         \* the Put that holds the mutex, or the warm-up

diskFiles == <<bodies, metas, storedAt>>
diskVars == <<disk, diskFiles, diskPut>>

DiskInit ==
    /\ disk = EmptyCache
    /\ bodies = {} /\ metas = [b \in BlobIDs |-> NoEntry] /\ storedAt = <<>>
    /\ diskPut = NoPut

\* removeLocked.  The body is removed before the metadata; a restart between
\* the two finds a .meta.json without a body and removes it.
DiskRemove(b) ==
    /\ disk' = removed(disk, b)
    /\ bodies' = bodies \ {b}
    /\ metas' = [metas EXCEPT ![b] = NoEntry]
    /\ storedAt' = Remove(storedAt, b)

-----------------------------------------------------------------------------
(* Get and Evict.                                                          *)

DiskGet(b) ==
    /\ diskPut = NoPut
    /\ b \in Indexed(disk)
    /\ disk' = touched(disk, b)
    /\ UNCHANGED <<diskFiles, diskPut>>

\* os.Open fails: the entry is removed and the caller sees a miss.
DiskUnreadable(b) ==
    /\ "open" \in DiskFaults
    /\ diskPut = NoPut
    /\ b \in Indexed(disk)
    /\ DiskRemove(b)
    /\ UNCHANGED diskPut

DiskEvict(b) ==
    /\ diskPut = NoPut
    /\ b \in Indexed(disk)
    /\ DiskRemove(b)
    /\ UNCHANGED diskPut

-----------------------------------------------------------------------------
(* Put.                                                                    *)

\* The body is in a temporary file and fits; the old entry goes.
DiskStartPut(b, pinHot, nonEvictable) ==
    /\ diskPut = NoPut
    /\ Fits(b)
    /\ diskPut' = Started(disk, b, NewEntry(pinHot, nonEvictable))
    /\ IF b \in Indexed(disk) THEN DiskRemove(b) ELSE UNCHANGED <<disk, diskFiles>>

GoOn(step) == diskPut' = [diskPut EXCEPT !.step = step]

\* One round of the loop in evictHotLocked.
DiskEvictHot ==
    /\ diskPut.step = "hot"
    /\ IF HotFull(disk, Incoming(diskPut))
       THEN (\E b \in Victims(disk, disk.hot) : DiskRemove(b)) /\ UNCHANGED diskPut
       ELSE GoOn("main") /\ UNCHANGED <<disk, diskFiles>>

\* One round of the loop in evictMainLocked, for a Put or for the warm-up.
DiskEvictMain ==
    /\ diskPut.step \in {"main", "trim"}
    /\ IF Full(disk, Incoming(diskPut))
       THEN (\E b \in Victims(disk, Scanned(disk)) : DiskRemove(b)) /\ UNCHANGED diskPut
       ELSE /\ IF diskPut.step = "trim" THEN diskPut' = NoPut ELSE GoOn("publish")
            /\ UNCHANGED <<disk, diskFiles>>

\* The temporary file is renamed to its body path.
PublishBody ==
    /\ diskPut.step = "publish"
    /\ \/ bodies' = bodies \cup {diskPut.blob} /\ GoOn("meta")
       \/ "publish" \in DiskFaults /\ diskPut' = NoPut /\ UNCHANGED bodies
    /\ UNCHANGED <<disk, metas, storedAt>>

WriteMeta_KeepsBody ==
    /\ diskPut.step = "meta"
    /\ \/ /\ metas' = [metas EXCEPT ![diskPut.blob] = diskPut.new]
          /\ storedAt' = PushFront(storedAt, diskPut.blob)
          /\ GoOn("index")
       \/ "meta" \in DiskFaults /\ diskPut' = NoPut /\ UNCHANGED <<metas, storedAt>>
    /\ UNCHANGED <<disk, bodies>>

\* writeMeta; when it fails the body is removed again.
WriteMeta ==
    /\ diskPut.step = "meta"
    /\ \/ /\ metas' = [metas EXCEPT ![diskPut.blob] = diskPut.new]
          /\ storedAt' = PushFront(storedAt, diskPut.blob)
          /\ GoOn("index")
          /\ UNCHANGED bodies
       \/ /\ "meta" \in DiskFaults
          /\ bodies' = bodies \ {diskPut.blob}
          /\ diskPut' = NoPut
          /\ UNCHANGED <<metas, storedAt>>
    /\ UNCHANGED disk

PutIndex ==
    /\ diskPut.step = "index"
    /\ disk' = added(disk, diskPut.blob, diskPut.new)
    /\ diskPut' = NoPut
    /\ UNCHANGED diskFiles

-----------------------------------------------------------------------------
(* The process dies and NewDiskCache warms from disk: entries with both    *)
(* files are loaded oldest first, other files are removed, then the main   *)
(* list is trimmed.                                                        *)

\* The list that pushing a set of blobs in the order of StoredAt makes.
StoredLater(a, b) ==
    \E i, j \in DOMAIN storedAt : i < j /\ storedAt[i] = a /\ storedAt[j] = b
ByStoredAt(set) ==
    {s \in [1..Cardinality(set) -> set] :
        \A i, j \in 1..Cardinality(set) : i < j => StoredLater(s[i], s[j])}

DiskRestart ==
    LET whole == {b \in bodies : metas[b].kind # "absent"}
        pinned == {b \in whole : metas[b].pinned}
    IN  /\ "crash" \in DiskFaults
        /\ bodies' = whole
        /\ metas' = [b \in BlobIDs |-> IF b \in whole THEN metas[b] ELSE NoEntry]
        /\ storedAt' \in ByStoredAt(whole)
        /\ \E h \in ByStoredAt(pinned), m \in ByStoredAt(whole \ pinned) :
              disk' = [hot |-> h, main |-> m, entry |-> metas',
                       bytesUsed |-> Bytes(whole), hotBytes |-> Bytes(pinned)]
        /\ diskPut' = IF MaxBytes > 0 THEN Trimming ELSE NoPut

DiskNext ==
    \/ \E b \in BlobIDs :
        \/ DiskGet(b) \/ DiskUnreadable(b) \/ DiskEvict(b)
        \/ \E pinHot, nonEvictable \in BOOLEAN : DiskStartPut(b, pinHot, nonEvictable)
    \/ DiskEvictHot \/ DiskEvictMain \/ PublishBody \/ WriteMeta \/ PutIndex
    \/ DiskRestart

DiskSpec == DiskInit /\ [][DiskNext]_diskVars

-----------------------------------------------------------------------------
(* Properties.                                                             *)

\* The counters, the two lists and the index agree after any sequence of puts,
\* replacements, evictions, failures and restarts: a drift of bytesUsed would
\* make the cache evict too much or too little for the rest of its life.
Accounting == Balanced(disk)

\* When nothing holds the mutex the files on disk are those of the index, so a
\* restart at that moment finds every entry again and no orphan.
FilesMatchIndex ==
    diskPut = NoPut => bodies = Indexed(disk) /\ metas = disk.entry

\* The cache is over MaxBytes only because of NonEvictable entries: at most one
\* evictable entry, the last one put, is left in the main list.
OverBudgetIsProtected ==
    diskPut = NoPut /\ MaxBytes > 0 /\ disk.bytesUsed > MaxBytes =>
        \A a, b \in Elements(disk.main) :
            disk.entry[a].kind = "evictable" /\ disk.entry[b].kind = "evictable" => a = b

\* The cache keeps its promise to the pipeline: whatever the sizes, pins and
\* failures, and wherever a restart cuts a Put, room is made from evictable
\* entries of other blobs, and only the replaced entry is at risk.
DiskPromise == INSTANCE HotCache WITH
    Blobs <- BlobIDs, entries <- HeldFor(disk, diskPut), call <- CallOf(diskPut)
KeepsPromise == DiskPromise!Spec

=============================================================================
