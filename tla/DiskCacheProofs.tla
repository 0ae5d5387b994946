-------------------------- MODULE DiskCacheProofs --------------------------
(* Proofs about the disk cache, for any blobs, sizes, budget, pins and      *)
(* faults: its invariant, what follows from it, and that it implements      *)
(* HotCache.                                                                *)
EXTENDS DiskCache, HotCacheProofs

-----------------------------------------------------------------------------
(* The inductive invariant.                                                *)

\* The index is balanced, and storedAt lists the metadata files.
DiskSound ==
    /\ disk \in Caches /\ Balanced(disk)
    /\ bodies \in SUBSET BlobIDs /\ metas \in [BlobIDs -> IndexEntries]
    /\ storedAt \in Seq(BlobIDs) /\ Once(storedAt)
    /\ Elements(storedAt) = {b \in BlobIDs : metas[b].kind # "absent"}

\* The files are those of the index.
FilesInStep == bodies = Indexed(disk) /\ metas = disk.entry

\* The body of the running Put is on disk beside them.
BodyAhead == bodies = Indexed(disk) \cup {diskPut.blob}

\* The blob of the running Put has left the index.
PutReady ==
    /\ diskPut \in Puts /\ diskPut.blob \notin Indexed(disk)
    /\ diskPut.new.kind \in {"evictable", "protected"}

\* Either the incoming body fits, or the main list has no evictable entry left.
RoomMade ==
    MaxBytes > 0 /\ disk.bytesUsed + Size[diskPut.blob] > MaxBytes =>
        \A a \in Elements(disk.main) : disk.entry[a].kind # "evictable"

\* What every step of the disk cache keeps, by the place a Put has reached.
DiskInv ==
    /\ DiskSound
    /\ \/ diskPut = NoPut /\ FilesInStep /\ OverBudgetIsProtected
       \/ diskPut = Trimming /\ FilesInStep
       \/ PutReady /\ diskPut.step \in {"hot", "main"} /\ FilesInStep
       \/ PutReady /\ diskPut.step = "publish" /\ FilesInStep /\ RoomMade
       \/ PutReady /\ diskPut.step = "meta" /\ BodyAhead /\ metas = disk.entry /\ RoomMade
       \/ /\ PutReady /\ diskPut.step = "index" /\ BodyAhead /\ RoomMade
          /\ metas = [disk.entry EXCEPT ![diskPut.blob] = diskPut.new]

-----------------------------------------------------------------------------
(* Its preservation, one lemma per kind of step.                           *)

\* Warming from disk lists each of the blobs once.
LEMMA ByStoredAtList ==
    ASSUME storedAt \in Seq(BlobIDs), Once(storedAt),
           NEW S \in SUBSET Elements(storedAt), NEW s \in ByStoredAt(S)
    PROVE  s \in Seq(BlobIDs) /\ Once(s) /\ Elements(s) = S
<1> DEFINE n == Cardinality(S)
<1>1. Elements(storedAt) \in SUBSET BlobIDs /\ IsFiniteSet(Elements(storedAt))
    BY ElementsOf
<1>2. IsFiniteSet(S) /\ S \in SUBSET BlobIDs
    BY <1>1, FS_Subset
<1>3. n \in Nat
    BY <1>2, FS_CardinalityType
<1>4. /\ s \in [1..n -> S]
      /\ \A i, j \in 1..n : i < j => StoredLater(s[i], s[j])
    BY DEF ByStoredAt
<1> HIDE DEF n
<1>5. ASSUME NEW a, StoredLater(a, a)
      PROVE  FALSE
  <2>1. PICK i, j \in DOMAIN storedAt : i < j /\ storedAt[i] = a /\ storedAt[j] = a
      BY <1>5 DEF StoredLater
  <2>2. i = j
      BY <2>1 DEF Once
  <2>3. i \in Nat /\ j \in Nat
      OBVIOUS
  <2> QED
      BY <2>1, <2>2, <2>3
<1>6. \A i, j \in 1..n : s[i] = s[j] => i = j
  <2> SUFFICES ASSUME NEW i \in 1..n, NEW j \in 1..n, s[i] = s[j], i # j
               PROVE  FALSE
      OBVIOUS
  <2>1. i < j \/ j < i
      BY <1>3
  <2> QED
      BY <1>4, <1>5, <2>1
<1>7. s \in Seq(BlobIDs) /\ DOMAIN s = 1..n
  <2>1. s \in [1..n -> BlobIDs]
      BY <1>2, <1>4
  <2> QED
      BY <1>3, <2>1
<1>8. IsFiniteSet(1..n) /\ Cardinality(1..n) = n
  <2>1. Cardinality(1..n) = IF 1 > n THEN 0 ELSE n - 1 + 1
      BY <1>3, FS_Interval
  <2>2. IsFiniteSet(1..n)
      BY <1>3, FS_Interval
  <2> QED
      BY <1>3, <2>1, <2>2
<1>9. s \in Injection(1..n, S)
    BY <1>4, <1>6 DEF Injection, IsInjective
<1>10. s \in Surjection(1..n, S)
    BY <1>2, <1>8, <1>9, FS_Injection DEF n
<1>11. Elements(s) = S
    BY <1>4, <1>7, <1>10 DEF Surjection, Elements
<1> QED
    BY <1>6, <1>7, <1>11 DEF Once

\* A fresh directory satisfies the invariant.
LEMMA DiskInitInv == DiskInit => DiskInv
<1> SUFFICES ASSUME DiskInit
             PROVE  DiskInv
    OBVIOUS
<1>1. /\ disk \in Caches /\ Balanced(disk) /\ disk.main = <<>>
      /\ disk.entry = [b \in BlobIDs |-> NoEntry]
    BY EmptyIsBalanced DEF DiskInit, EmptyCache
<1>2. NoEntry \in IndexEntries /\ NoEntry.kind = "absent"
    BY DEF NoEntry, IndexEntries, EntryKinds
<1>3. Indexed(disk) = {}
    BY <1>1, <1>2 DEF Indexed
<1>4. storedAt \in Seq(BlobIDs) /\ Once(storedAt) /\ Elements(storedAt) = {}
    BY DEF DiskInit, Once, Elements
<1>5. DiskSound
    BY <1>1, <1>2, <1>4 DEF DiskInit, DiskSound
<1>6. FilesInStep
    BY <1>1, <1>3 DEF DiskInit, FilesInStep
<1>7. OverBudgetIsProtected
    BY <1>1 DEF OverBudgetIsProtected, Elements
<1> QED
    BY <1>5, <1>6, <1>7 DEF DiskInv, DiskInit

\* removeLocked keeps the files and the index together, takes one entry and
\* adds no byte.
LEMMA DiskRemoved ==
    ASSUME DiskSound, FilesInStep, NEW b \in Indexed(disk), DiskRemove(b)
    PROVE  /\ DiskSound' /\ FilesInStep'
           /\ disk'.entry = [disk.entry EXCEPT ![b] = NoEntry]
           /\ Indexed(disk)' = Indexed(disk) \ {b}
           /\ disk'.bytesUsed <= disk.bytesUsed
           /\ Elements(disk.main)' \in SUBSET Elements(disk.main)
<1>1. /\ disk' \in Caches /\ Balanced(disk)'
      /\ disk'.entry = [disk.entry EXCEPT ![b] = NoEntry]
      /\ Indexed(disk)' = Indexed(disk) \ {b}
      /\ disk'.bytesUsed <= disk.bytesUsed
      /\ Elements(disk.main)' \in SUBSET Elements(disk.main)
  <2>1. disk' = removed(disk, b) /\ disk \in Caches /\ Balanced(disk)
      BY DEF DiskRemove, DiskSound
  <2>2. /\ removed(disk, b) \in Caches /\ Balanced(removed(disk, b))
        /\ removed(disk, b).entry = [disk.entry EXCEPT ![b] = NoEntry]
        /\ Indexed(removed(disk, b)) = Indexed(disk) \ {b}
        /\ removed(disk, b).bytesUsed <= disk.bytesUsed
        /\ Elements(removed(disk, b).main) \in SUBSET Elements(disk.main)
      BY <2>1, RemovedBalanced, Zenon
  <2> QED
      BY <2>1, <2>2
<1>2. b \in BlobIDs /\ NoEntry \in IndexEntries /\ NoEntry.kind = "absent"
    BY DEF Indexed, NoEntry, IndexEntries, EntryKinds
<1>3. /\ metas' = [metas EXCEPT ![b] = NoEntry]
      /\ bodies' = bodies \ {b} /\ storedAt' = Remove(storedAt, b)
    BY DEF DiskRemove
<1>4. bodies' \in SUBSET BlobIDs /\ metas' \in [BlobIDs -> IndexEntries]
    BY <1>2, <1>3 DEF DiskSound
<1>5. /\ storedAt' \in Seq(BlobIDs) /\ Once(storedAt')
      /\ Elements(storedAt') = Elements(storedAt) \ {b}
  <2>1. b \in Elements(storedAt)
      BY <1>2 DEF DiskSound, FilesInStep, Indexed
  <2>2. /\ Remove(storedAt, b) \in Seq(BlobIDs) /\ Once(Remove(storedAt, b))
        /\ Elements(Remove(storedAt, b)) = Elements(storedAt) \ {b}
      BY <2>1, RemoveList DEF DiskSound
  <2> QED
      BY <1>3, <2>2, Zenon
<1>6. Elements(storedAt') = {x \in BlobIDs : metas'[x].kind # "absent"}
    BY <1>2, <1>3, <1>5 DEF DiskSound
<1>7. FilesInStep'
    BY <1>1, <1>3 DEF FilesInStep
<1> QED
    BY <1>1, <1>4, <1>5, <1>6, <1>7 DEF DiskSound

\* Warming from disk rebuilds a balanced index of the blobs that have both
\* files, wherever the process died, and leaves no other file.
LEMMA DiskRestarted ==
    ASSUME DiskSound, DiskRestart
    PROVE  /\ DiskSound' /\ FilesInStep'
           /\ \A b \in BlobIDs :
                disk'.entry[b] = IF b \in bodies /\ metas[b].kind # "absent" THEN metas[b] ELSE NoEntry
<1> DEFINE whole == {b \in bodies : metas[b].kind # "absent"}
           pinned == {b \in whole : metas[b].pinned}
<1>1. /\ bodies' = whole
      /\ metas' = [b \in BlobIDs |-> IF b \in whole THEN metas[b] ELSE NoEntry]
      /\ storedAt' \in ByStoredAt(whole)
    BY DEF DiskRestart
<1>2. PICK h \in ByStoredAt(pinned), m \in ByStoredAt(whole \ pinned) :
          disk' = [hot |-> h, main |-> m, entry |-> metas',
                   bytesUsed |-> Bytes(whole), hotBytes |-> Bytes(pinned)]
    BY Zenon DEF DiskRestart
<1>3. whole \in SUBSET BlobIDs /\ whole \in SUBSET Elements(storedAt)
    BY DEF DiskSound
<1>4. pinned \in SUBSET whole /\ \A b \in whole : b \in pinned <=> metas[b].pinned
    OBVIOUS
<1>5. \A b \in whole : metas[b].kind # "absent"
    OBVIOUS
<1> HIDE DEF whole, pinned
<1>6. storedAt \in Seq(BlobIDs) /\ Once(storedAt)
    BY DEF DiskSound
<1>7. storedAt' \in Seq(BlobIDs) /\ Once(storedAt') /\ Elements(storedAt') = whole
    BY <1>1, <1>3, <1>6, ByStoredAtList
<1>8. h \in Seq(BlobIDs) /\ Once(h) /\ Elements(h) = pinned
  <2>1. pinned \in SUBSET Elements(storedAt)
      BY <1>3, <1>4
  <2> QED
      BY <1>6, <2>1, ByStoredAtList
<1>9. m \in Seq(BlobIDs) /\ Once(m) /\ Elements(m) = whole \ pinned
  <2>1. whole \ pinned \in SUBSET Elements(storedAt)
      BY <1>3
  <2> QED
      BY <1>6, <2>1, ByStoredAtList
<1>10. IsFiniteSet(whole) /\ IsFiniteSet(pinned) /\ pinned \in SUBSET BlobIDs
  <2>1. IsFiniteSet(Elements(storedAt))
      BY <1>6, ElementsOf
  <2>2. IsFiniteSet(whole)
      BY <1>3, <2>1, FS_Subset
  <2> QED
      BY <1>3, <1>4, <2>2, FS_Subset
<1>11. Bytes(whole) \in Nat /\ Bytes(pinned) \in Nat
    BY <1>3, <1>10, BytesFinite, Zenon
<1>12. NoEntry \in IndexEntries /\ NoEntry.kind = "absent"
    BY DEF NoEntry, IndexEntries, EntryKinds
<1>13. /\ metas' \in [BlobIDs -> IndexEntries]
       /\ \A b \in whole : metas'[b] = metas[b]
       /\ \A b \in BlobIDs \ whole : metas'[b] = NoEntry
    BY <1>1, <1>3, <1>12 DEF DiskSound
<1>14. whole = {b \in BlobIDs : metas'[b].kind # "absent"}
    BY <1>3, <1>5, <1>12, <1>13
<1>15. /\ disk'.hot = h /\ disk'.main = m /\ disk'.entry = metas'
       /\ disk'.bytesUsed = Bytes(whole) /\ disk'.hotBytes = Bytes(pinned)
    BY <1>2
<1>16. disk' \in Caches
    BY <1>2, <1>8, <1>9, <1>11, <1>13 DEF Caches
<1>17. Indexed(disk') = whole
    BY <1>14, <1>15 DEF Indexed
<1>18. Balanced(disk')
  <2>1. pinned = {b \in whole : metas'[b].pinned} /\ whole \ pinned = {b \in whole : ~metas'[b].pinned}
      BY <1>4, <1>13
  <2> QED
      BY <1>8, <1>9, <1>15, <1>17, <2>1, Zenon DEF Balanced
<1>19. DiskSound'
    BY <1>1, <1>3, <1>7, <1>13, <1>14, <1>16, <1>18, Zenon DEF DiskSound
<1>20. FilesInStep'
    BY <1>1, <1>15, <1>17 DEF FilesInStep
<1>21. \A b \in BlobIDs :
         disk'.entry[b] = IF b \in bodies /\ metas[b].kind # "absent" THEN metas[b] ELSE NoEntry
    BY <1>13, <1>15 DEF whole
<1> QED
    BY <1>19, <1>20, <1>21

\* A removal while nothing holds the mutex keeps the budget.
LEMMA DiskDropped ==
    ASSUME DiskInv, diskPut = NoPut, NEW b \in Indexed(disk), DiskRemove(b), UNCHANGED diskPut
    PROVE  DiskInv'
<1>1. DiskSound /\ FilesInStep /\ OverBudgetIsProtected
    BY DEF DiskInv, NoPut, Trimming, PutReady, Puts, PutSteps
<1>2. /\ DiskSound' /\ FilesInStep'
      /\ disk'.entry = [disk.entry EXCEPT ![b] = NoEntry]
      /\ disk'.bytesUsed <= disk.bytesUsed
      /\ Elements(disk.main)' \in SUBSET Elements(disk.main)
    BY <1>1, DiskRemoved, Zenon
<1>3. disk.entry \in [BlobIDs -> IndexEntries] /\ Elements(disk.main) \in SUBSET BlobIDs
    BY <1>1, ElementsOf DEF DiskSound, Caches
<1>4. disk.bytesUsed \in Nat /\ disk'.bytesUsed \in Nat
    BY <1>1, <1>2 DEF DiskSound, Caches
<1>5. ASSUME NEW a \in Elements(disk.main)', disk'.entry[a].kind = "evictable"
      PROVE  a \in Elements(disk.main) /\ disk.entry[a].kind = "evictable"
    BY <1>2, <1>3, <1>5 DEF NoEntry
<1>6. OverBudgetIsProtected'
    BY <1>1, <1>2, <1>4, <1>5, PolicyAssumption DEF OverBudgetIsProtected
<1> QED
    BY <1>2, <1>6 DEF DiskInv

\* Where a Put is says which part of the invariant holds.
LEMMA DiskPlace ==
    ASSUME DiskInv
    PROVE  /\ DiskSound
           /\ diskPut = NoPut => FilesInStep /\ OverBudgetIsProtected
           /\ diskPut.step = "trim" => diskPut = Trimming
           /\ diskPut.step \in {"hot", "main", "trim", "publish"} => FilesInStep
           /\ diskPut.step \in PutSteps => PutReady
           /\ diskPut.step \in {"publish", "meta", "index"} => RoomMade
           /\ diskPut.step \in {"meta", "index"} => BodyAhead
           /\ diskPut.step = "meta" => metas = disk.entry
           /\ diskPut.step = "index" => metas = [disk.entry EXCEPT ![diskPut.blob] = diskPut.new]
           /\ diskPut = NoPut \/ diskPut = Trimming \/ diskPut.step \in PutSteps
BY DEF DiskInv, NoPut, Trimming, PutSteps, PutReady, Puts

\* A step that leaves the index and the files alone leaves them in step.
LEMMA DiskUntouched ==
    ASSUME DiskSound, disk' = disk, bodies' = bodies, metas' = metas, storedAt' = storedAt
    PROVE  DiskSound' /\ (FilesInStep => FilesInStep') /\ Indexed(disk)' = Indexed(disk)
<1>1. Balanced(disk)' /\ Once(storedAt)' /\ Elements(storedAt)' = Elements(storedAt)
    BY DEF DiskSound
<1>2. Indexed(disk)' = Indexed(disk)
    OBVIOUS
<1> QED
    BY <1>1, <1>2 DEF DiskSound, FilesInStep

\* The removals of the eviction loops keep the invariant.
LEMMA DiskVictimGone ==
    ASSUME DiskInv, diskPut.step \in {"hot", "main", "trim"},
           NEW b \in Indexed(disk), DiskRemove(b), UNCHANGED diskPut
    PROVE  DiskInv'
<1>1. DiskSound /\ FilesInStep
    BY DiskPlace
<1>2. DiskSound' /\ FilesInStep' /\ Indexed(disk)' = Indexed(disk) \ {b}
    BY <1>1, DiskRemoved, Zenon
<1>3. CASE diskPut.step = "trim"
    BY <1>2, <1>3, DiskPlace DEF DiskInv
<1>4. CASE diskPut.step \in {"hot", "main"}
  <2>1. PutReady
      BY <1>4, DiskPlace DEF PutSteps
  <2>2. PutReady'
      BY <1>2, <2>1 DEF PutReady
  <2> QED
      BY <1>2, <1>4, <2>2, Zenon DEF DiskInv
<1> QED
    BY <1>3, <1>4

\* A loop that ends has made room: the body fits, or nothing evictable is left
\* in the main list.
LEMMA LoopEnds ==
    ASSUME NEW c \in Caches, NEW n \in Nat, ~Full(c, n), MaxBytes > 0, c.bytesUsed + n > MaxBytes
    PROVE  \A a \in Elements(c.main) : c.entry[a].kind # "evictable"
<1> SUFFICES ASSUME NEW a \in Elements(c.main), c.entry[a].kind = "evictable"
             PROVE  FALSE
    OBVIOUS
<1>1. PICK i \in DOMAIN c.main : c.main[i] = a
    BY DEF Elements
<1>2. c.main # <<>>
    BY <1>1
<1>3. i \in Evictable(c, Scanned(c))
    BY <1>1, <1>2 DEF Evictable, Scanned
<1> QED
    BY <1>3 DEF Full

\* Every step of the disk cache keeps the invariant.
LEMMA DiskNextInv == DiskInv /\ [DiskNext]_diskVars => DiskInv'
<1> SUFFICES ASSUME DiskInv, [DiskNext]_diskVars
             PROVE  DiskInv'
    OBVIOUS
<1>1. disk \in Caches /\ Balanced(disk) /\ disk.bytesUsed \in Nat
    BY Zenon DEF DiskInv, DiskSound, Caches
<1>2. CASE UNCHANGED diskVars
  <2>1. disk' = disk /\ bodies' = bodies /\ metas' = metas /\ storedAt' = storedAt /\ diskPut' = diskPut
      BY <1>2 DEF diskVars, diskFiles
  <2>2. DiskSound' /\ (FilesInStep => FilesInStep') /\ (OverBudgetIsProtected => OverBudgetIsProtected')
      BY <2>1, DiskUntouched, Zenon DEF DiskInv, OverBudgetIsProtected
  <2>3. (PutReady => PutReady') /\ (BodyAhead => BodyAhead') /\ (RoomMade => RoomMade')
      BY <2>1 DEF PutReady, BodyAhead, RoomMade
  <2>4. (metas = disk.entry)' <=> metas = disk.entry
      BY <2>1
  <2>5. (metas = [disk.entry EXCEPT ![diskPut.blob] = diskPut.new])'
            <=> metas = [disk.entry EXCEPT ![diskPut.blob] = diskPut.new]
      BY <2>1
  <2> QED
      BY <2>1, <2>2, <2>3, <2>4, <2>5 DEF DiskInv
<1>3. ASSUME NEW b \in BlobIDs, DiskGet(b)
      PROVE  DiskInv'
  <2>1. /\ b \in Indexed(disk) /\ diskPut = NoPut /\ diskPut' = diskPut /\ disk' = touched(disk, b)
        /\ bodies' = bodies /\ metas' = metas /\ storedAt' = storedAt
      BY <1>3 DEF DiskGet, diskFiles
  <2>2. DiskSound /\ FilesInStep /\ OverBudgetIsProtected
      BY <2>1, DiskPlace
  <2>3. /\ disk' \in Caches /\ Balanced(disk') /\ disk'.entry = disk.entry
        /\ disk'.bytesUsed = disk.bytesUsed /\ Elements(disk'.main) = Elements(disk.main)
      BY <1>1, <2>1, TouchedBalanced
  <2>4. Indexed(disk') = Indexed(disk)
      BY <2>3 DEF Indexed
  <2>5. DiskSound'
      BY <2>1, <2>2, <2>3 DEF DiskSound
  <2>6. FilesInStep' /\ OverBudgetIsProtected'
      BY <2>1, <2>2, <2>3, <2>4, Zenon DEF FilesInStep, OverBudgetIsProtected
  <2> QED
      BY <2>1, <2>5, <2>6 DEF DiskInv
<1>4. ASSUME NEW b \in BlobIDs, DiskUnreadable(b) \/ DiskEvict(b)
      PROVE  DiskInv'
    BY <1>4, DiskDropped DEF DiskUnreadable, DiskEvict
<1>5. ASSUME NEW b \in BlobIDs, NEW pinHot \in BOOLEAN, NEW nonEvictable \in BOOLEAN,
             DiskStartPut(b, pinHot, nonEvictable)
      PROVE  DiskInv'
  <2> DEFINE e == NewEntry(pinHot, nonEvictable)
  <2>1. e \in IndexEntries /\ e.kind \in {"evictable", "protected"}
      BY NewEntryType
  <2>2. /\ diskPut = NoPut /\ diskPut' = Started(disk, b, e)
        /\ IF b \in Indexed(disk) THEN DiskRemove(b) ELSE UNCHANGED <<disk, diskFiles>>
      BY <1>5 DEF DiskStartPut
  <2> HIDE DEF e
  <2>3. disk' = IF b \in Indexed(disk) THEN removed(disk, b) ELSE disk
      BY <2>2 DEF DiskRemove
  <2>4. /\ b \notin Indexed(disk') /\ diskPut' \in Puts /\ diskPut'.step \in {"hot", "main"}
        /\ diskPut'.blob = b /\ diskPut'.new = e
      BY <1>1, <2>1, <2>2, <2>3, HeldStarted
  <2>5. DiskSound /\ FilesInStep
      BY <2>2, DiskPlace, Zenon
  <2>6. DiskSound' /\ FilesInStep'
    <3>1. CASE b \in Indexed(disk)
        BY <2>2, <2>5, <3>1, DiskRemoved, Zenon
    <3>2. CASE b \notin Indexed(disk)
        BY <2>2, <2>5, <3>2, DiskUntouched DEF diskFiles
    <3> QED
        BY <3>1, <3>2
  <2>7. PutReady'
      BY <2>1, <2>4 DEF PutReady
  <2> QED
      BY <2>4, <2>6, <2>7 DEF DiskInv
<1>6. CASE DiskEvictHot
  <2>1. diskPut.step = "hot" /\ DiskSound /\ FilesInStep /\ PutReady
      BY <1>6, DiskPlace DEF DiskEvictHot, PutSteps
  <2>2. CASE HotFull(disk, Incoming(diskPut))
    <3>1. PICK b \in Victims(disk, disk.hot) : DiskRemove(b)
        BY <1>6, <2>2 DEF DiskEvictHot
    <3>2. b \in Indexed(disk) /\ UNCHANGED diskPut
        BY <1>1, <1>6, <2>2, VictimsEvictable DEF DiskEvictHot
    <3> QED
        BY <2>1, <3>1, <3>2, DiskVictimGone
  <2>3. CASE ~HotFull(disk, Incoming(diskPut))
    <3>1. /\ diskPut' = [diskPut EXCEPT !.step = "main"] /\ disk' = disk
          /\ bodies' = bodies /\ metas' = metas /\ storedAt' = storedAt
        BY <1>6, <2>3 DEF DiskEvictHot, GoOn, diskFiles
    <3>2. /\ diskPut' \in Puts /\ diskPut'.step = "main"
          /\ diskPut'.blob = diskPut.blob /\ diskPut'.new = diskPut.new
        BY <2>1, <3>1 DEF PutReady, Puts, PutSteps
    <3>3. DiskSound' /\ FilesInStep' /\ Indexed(disk)' = Indexed(disk)
        BY <2>1, <3>1, DiskUntouched
    <3>4. PutReady'
        BY <2>1, <3>2, <3>3 DEF PutReady
    <3> QED
        BY <3>2, <3>3, <3>4 DEF DiskInv
  <2> QED
      BY <2>2, <2>3
<1>7. CASE DiskEvictMain
  <2>1. diskPut.step \in {"main", "trim"} /\ DiskSound /\ FilesInStep
      BY <1>7, DiskPlace, Zenon DEF DiskEvictMain
  <2>2. CASE Full(disk, Incoming(diskPut))
    <3>1. PICK b \in Victims(disk, Scanned(disk)) : DiskRemove(b)
        BY <1>7, <2>2 DEF DiskEvictMain
    <3>2. b \in Indexed(disk) /\ UNCHANGED diskPut
        BY <1>1, <1>7, <2>2, VictimsEvictable, Zenon DEF DiskEvictMain, Scanned
    <3> QED
        BY <2>1, <3>1, <3>2, DiskVictimGone
  <2>3. CASE ~Full(disk, Incoming(diskPut))
    <3>1. disk' = disk /\ bodies' = bodies /\ metas' = metas /\ storedAt' = storedAt
        BY <1>7, <2>3 DEF DiskEvictMain, diskFiles
    <3>2. DiskSound' /\ FilesInStep' /\ Indexed(disk)' = Indexed(disk)
        BY <2>1, <3>1, DiskUntouched
    <3>3. CASE diskPut.step = "trim"
      <4>1. diskPut' = NoPut
          BY <1>7, <2>3, <3>3 DEF DiskEvictMain
      <4>2. Incoming(diskPut) = 0
          BY <3>3 DEF Incoming
      <4>3. OverBudgetIsProtected'
          BY <1>1, <2>3, <3>1, <4>2, LoopEnds DEF OverBudgetIsProtected
      <4> QED
          BY <3>2, <4>1, <4>3, Zenon DEF DiskInv
    <3>4. CASE diskPut.step = "main"
      <4>1. PutReady
          BY <3>4, DiskPlace DEF PutSteps
      <4>2. diskPut' = [diskPut EXCEPT !.step = "publish"]
          BY <1>7, <2>3, <3>4 DEF DiskEvictMain, GoOn
      <4>3. /\ diskPut' \in Puts /\ diskPut'.step = "publish" /\ diskPut.blob \in BlobIDs
            /\ diskPut'.blob = diskPut.blob /\ diskPut'.new = diskPut.new
          BY <4>1, <4>2 DEF PutReady, Puts, PutSteps
      <4>4. PutReady'
          BY <3>2, <4>1, <4>3 DEF PutReady
      <4>5. Incoming(diskPut) = Size[diskPut.blob] /\ Size[diskPut.blob] \in Nat
          BY <3>4, <4>3, PolicyAssumption DEF Incoming
      <4>6. RoomMade'
          BY <1>1, <2>3, <3>1, <4>3, <4>5, LoopEnds, Zenon DEF RoomMade
      <4> QED
          BY <3>2, <4>3, <4>4, <4>6 DEF DiskInv
    <3> QED
        BY <2>1, <3>3, <3>4
  <2> QED
      BY <2>2, <2>3
<1>8. CASE PublishBody
  <2>1. diskPut.step = "publish" /\ DiskSound /\ FilesInStep /\ PutReady /\ RoomMade
      BY <1>8, DiskPlace DEF PublishBody, PutSteps
  <2>2. disk' = disk /\ metas' = metas /\ storedAt' = storedAt
      BY <1>8 DEF PublishBody
  <2>3. diskPut.blob \in BlobIDs /\ Size[diskPut.blob] \in Nat
      BY <2>1, PolicyAssumption DEF PutReady, Puts
  <2>4. Indexed(disk)' = Indexed(disk)
      BY <2>2
  <2>5. CASE bodies' = bodies \cup {diskPut.blob} /\ GoOn("meta")
    <3>1. /\ diskPut' \in Puts /\ diskPut'.step = "meta"
          /\ diskPut'.blob = diskPut.blob /\ diskPut'.new = diskPut.new
        BY <2>1, <2>5 DEF GoOn, PutReady, Puts, PutSteps
    <3>2. DiskSound'
      <4>1. disk' \in Caches /\ Balanced(disk') /\ bodies' \in SUBSET BlobIDs
          BY <2>1, <2>2, <2>3, <2>5, Zenon DEF DiskSound
      <4>2. /\ metas' \in [BlobIDs -> IndexEntries] /\ storedAt' \in Seq(BlobIDs) /\ Once(storedAt')
            /\ Elements(storedAt') = {b \in BlobIDs : metas'[b].kind # "absent"}
          BY <2>1, <2>2, Zenon DEF DiskSound
      <4> QED
          BY <4>1, <4>2 DEF DiskSound
    <3>3. PutReady' /\ BodyAhead' /\ metas' = disk'.entry
        BY <2>1, <2>2, <2>4, <2>5, <3>1, Zenon DEF PutReady, BodyAhead, FilesInStep
    <3>4. RoomMade'
        BY <2>1, <2>2, <3>1, Zenon DEF RoomMade
    <3> QED
        BY <3>1, <3>2, <3>3, <3>4 DEF DiskInv
  <2>6. CASE diskPut' = NoPut /\ UNCHANGED bodies
    <3>1. DiskSound' /\ FilesInStep'
        BY <2>1, <2>2, <2>6, DiskUntouched
    <3>2. OverBudgetIsProtected'
        BY <1>1, <2>1, <2>2, <2>3, PolicyAssumption DEF OverBudgetIsProtected, RoomMade
    <3> QED
        BY <2>6, <3>1, <3>2 DEF DiskInv
  <2> QED
      BY <1>8, <2>5, <2>6 DEF PublishBody
<1>9. CASE WriteMeta
  <2>1. diskPut.step = "meta" /\ DiskSound /\ BodyAhead /\ metas = disk.entry /\ PutReady /\ RoomMade
      BY <1>9, DiskPlace DEF WriteMeta, PutSteps
  <2>2. disk' = disk /\ Indexed(disk)' = Indexed(disk)
      BY <1>9 DEF WriteMeta
  <2>3. /\ diskPut.blob \in BlobIDs /\ Size[diskPut.blob] \in Nat /\ diskPut.new \in IndexEntries
        /\ diskPut.new.kind # "absent"
      BY <2>1, PolicyAssumption DEF PutReady, Puts
  <2>4. CASE /\ metas' = [metas EXCEPT ![diskPut.blob] = diskPut.new]
             /\ storedAt' = PushFront(storedAt, diskPut.blob)
             /\ GoOn("index")
             /\ UNCHANGED bodies
    <3>1. /\ diskPut' \in Puts /\ diskPut'.step = "index"
          /\ diskPut'.blob = diskPut.blob /\ diskPut'.new = diskPut.new
        BY <2>1, <2>4 DEF GoOn, PutReady, Puts, PutSteps
    <3>2. diskPut.blob \notin Elements(storedAt)
        BY <2>1, <2>3, Zenon DEF DiskSound, PutReady, Indexed
    <3>3. /\ storedAt' \in Seq(BlobIDs) /\ Once(storedAt')
          /\ Elements(storedAt') = Elements(storedAt) \cup {diskPut.blob}
      <4>1. storedAt \in Seq(BlobIDs) /\ Once(storedAt)
          BY <2>1 DEF DiskSound
      <4>2. /\ PushFront(storedAt, diskPut.blob) \in Seq(BlobIDs)
            /\ Once(PushFront(storedAt, diskPut.blob))
            /\ Elements(PushFront(storedAt, diskPut.blob)) = Elements(storedAt) \cup {diskPut.blob}
          BY <2>3, <3>2, <4>1, PushFrontList
      <4> QED
          BY <2>4, <4>2
    <3>4. /\ metas' \in [BlobIDs -> IndexEntries]
          /\ Elements(storedAt') = {b \in BlobIDs : metas'[b].kind # "absent"}
        BY <2>1, <2>3, <2>4, <3>3 DEF DiskSound
    <3>5. disk' \in Caches /\ Balanced(disk') /\ bodies' \in SUBSET BlobIDs
        BY <1>1, <2>1, <2>2, <2>4, Zenon DEF DiskSound
    <3>6. DiskSound'
        BY <3>3, <3>4, <3>5 DEF DiskSound
    <3>7. PutReady' /\ BodyAhead'
        BY <2>1, <2>2, <2>4, <3>1 DEF PutReady, BodyAhead
    <3>8. metas' = [disk'.entry EXCEPT ![diskPut'.blob] = diskPut'.new]
        BY <2>1, <2>2, <2>4, <3>1
    <3>9. RoomMade'
        BY <2>1, <2>2, <3>1, Zenon DEF RoomMade
    <3> QED
        BY <3>1, <3>6, <3>7, <3>8, <3>9 DEF DiskInv
  <2>5. CASE /\ bodies' = bodies \ {diskPut.blob}
             /\ diskPut' = NoPut
             /\ UNCHANGED <<metas, storedAt>>
    <3>1. bodies' = Indexed(disk)
        BY <2>1, <2>5 DEF BodyAhead, PutReady
    <3>2. DiskSound'
        BY <2>1, <2>2, <2>5 DEF DiskSound, Balanced, Indexed, Once, Elements
    <3>3. FilesInStep'
        BY <2>1, <2>2, <2>5, <3>1 DEF FilesInStep
    <3>4. OverBudgetIsProtected'
        BY <1>1, <2>1, <2>2, <2>3, PolicyAssumption DEF OverBudgetIsProtected, RoomMade
    <3> QED
        BY <2>5, <3>2, <3>3, <3>4, Zenon DEF DiskInv
  <2> QED
      BY <1>9, <2>4, <2>5 DEF WriteMeta
<1>10. CASE PutIndex
  <2>1. /\ diskPut.step = "index" /\ DiskSound /\ BodyAhead /\ PutReady /\ RoomMade
        /\ metas = [disk.entry EXCEPT ![diskPut.blob] = diskPut.new]
      BY <1>10, DiskPlace DEF PutIndex, PutSteps
  <2>2. /\ disk' = added(disk, diskPut.blob, diskPut.new) /\ diskPut' = NoPut
        /\ bodies' = bodies /\ metas' = metas /\ storedAt' = storedAt
      BY <1>10 DEF PutIndex, diskFiles
  <2>3. /\ diskPut.blob \in BlobIDs /\ diskPut.new \in IndexEntries /\ diskPut.new.kind # "absent"
        /\ diskPut.blob \notin Indexed(disk)
      BY <2>1, Zenon DEF PutReady, Puts
  <2>4. /\ disk' \in Caches /\ Balanced(disk')
        /\ disk'.entry = [disk.entry EXCEPT ![diskPut.blob] = diskPut.new]
        /\ Indexed(disk') = Indexed(disk) \cup {diskPut.blob}
        /\ disk'.bytesUsed = disk.bytesUsed + Size[diskPut.blob]
        /\ Elements(disk'.main) \in SUBSET (Elements(disk.main) \cup {diskPut.blob})
      BY <1>1, <2>2, <2>3, AddedBalanced
  <2>5. DiskSound'
      BY <2>1, <2>2, <2>4, Zenon DEF DiskSound
  <2>6. FilesInStep'
      BY <2>1, <2>2, <2>4, Zenon DEF FilesInStep, BodyAhead
  <2>7. OverBudgetIsProtected'
    <3> SUFFICES ASSUME MaxBytes > 0, disk'.bytesUsed > MaxBytes,
                        NEW a \in Elements(disk'.main), disk'.entry[a].kind = "evictable"
                 PROVE  a = diskPut.blob
        BY Zenon DEF OverBudgetIsProtected
    <3>1. \A x \in Elements(disk.main) : disk.entry[x].kind # "evictable"
        BY <2>1, <2>4, Zenon DEF RoomMade
    <3>2. Elements(disk.main) \in SUBSET BlobIDs /\ disk.entry \in [BlobIDs -> IndexEntries]
        BY <1>1, ElementsOf, Zenon DEF Caches
    <3> QED
        BY <2>4, <3>1, <3>2, Zenon
  <2> QED
      BY <2>2, <2>5, <2>6, <2>7, Zenon DEF DiskInv
<1>11. CASE DiskRestart
  <2>1. DiskSound' /\ FilesInStep'
      BY <1>11, DiskRestarted, DiskPlace, Zenon
  <2>2. CASE MaxBytes > 0
      BY <1>11, <2>1, <2>2, Zenon DEF DiskRestart, DiskInv
  <2>3. CASE ~(MaxBytes > 0)
    <3>1. diskPut' = NoPut
        BY <1>11, <2>3, Zenon DEF DiskRestart
    <3>2. OverBudgetIsProtected'
        BY <2>3 DEF OverBudgetIsProtected
    <3> QED
        BY <2>1, <3>1, <3>2 DEF DiskInv
  <2> QED
      BY <2>2, <2>3
<1> QED
    BY <1>2, <1>3, <1>4, <1>5, <1>6, <1>7, <1>8, <1>9, <1>10, <1>11 DEF DiskNext

-----------------------------------------------------------------------------
(* Theorems.                                                               *)

\* The invariant holds in every state of the disk cache.
LEMMA DiskAlwaysInv == DiskSpec => []DiskInv
<1> QED
    BY DiskInitInv, DiskNextInv, PTL DEF DiskSpec

\* In every state of the disk cache the counters, the lists and the index
\* agree, after any failures and restarts (disk_cache.go).
THEOREM AccountingHolds == DiskSpec => []Accounting
<1>1. DiskInv => Accounting
    BY Zenon DEF DiskInv, DiskSound, Accounting
<1> QED
    BY <1>1, DiskAlwaysInv, PTL

\* Whenever the mutex of the disk cache is free, the files on disk are those of
\* the index.
THEOREM FilesMatchIndexHolds == DiskSpec => []FilesMatchIndex
<1>1. DiskInv => FilesMatchIndex
    BY DiskPlace DEF FilesMatchIndex, FilesInStep
<1> QED
    BY <1>1, DiskAlwaysInv, PTL

\* The disk cache is over its budget only because of entries it must not give
\* up, but for the last one put.
THEOREM OverBudgetIsProtectedHolds == DiskSpec => []OverBudgetIsProtected
<1>1. DiskInv => OverBudgetIsProtected
    BY DiskPlace, Zenon DEF OverBudgetIsProtected
<1> QED
    BY <1>1, DiskAlwaysInv, PTL

-----------------------------------------------------------------------------
(* The refinement of HotCache.                                             *)

\* Moving a Put on is not seen by HotCache.
LEMMA DiskGoesOn ==
    ASSUME diskPut \in Puts, NEW step \in PutSteps, GoOn(step), disk' = disk
    PROVE  UNCHANGED (DiskPromise!vars)
<1>1. /\ diskPut'.step = step /\ diskPut'.blob = diskPut.blob
      /\ diskPut'.new = diskPut.new /\ diskPut'.old = diskPut.old /\ diskPut.step \in PutSteps
    BY DEF GoOn, Puts
<1>2. HeldFor(disk, diskPut)' = HeldFor(disk, diskPut)
    BY <1>1, Zenon DEF HeldFor
<1>3. CallOf(diskPut)' = CallOf(diskPut)
    BY <1>1, Zenon DEF CallOf
<1> QED
    BY <1>2, <1>3 DEF DiskPromise!vars

\* A removal while nothing holds the mutex is the step of HotCache that drops
\* an entry.
LEMMA DiskDrops ==
    ASSUME DiskInv, diskPut = NoPut, NEW b \in Indexed(disk), DiskRemove(b), UNCHANGED diskPut
    PROVE  DiskPromise!Next
<1>1. NoPut.step \notin PutSteps /\ b \in BlobIDs /\ disk' = removed(disk, b)
    BY Zenon DEF NoPut, PutSteps, Indexed, DiskRemove
<1>2. HeldFor(disk', diskPut') = [HeldFor(disk, diskPut) EXCEPT ![b] = "absent"]
    BY <1>1, HeldRemoved DEF DiskInv, DiskSound
<1>3. CallOf(diskPut) = [does |-> "nothing"] /\ CallOf(diskPut') = CallOf(diskPut)
    BY CallOfSteps, Zenon
<1> QED
    BY <1>1, <1>2, <1>3, Zenon DEF DiskPromise!Next, DiskPromise!Drop, DiskPromise!NoCall

\* A removal by the eviction loops is the step that makes room.
LEMMA DiskMakesRoom ==
    ASSUME DiskInv, diskPut.step \in {"hot", "main", "trim"},
           NEW b \in Indexed(disk), disk.entry[b].kind = "evictable",
           DiskRemove(b), UNCHANGED diskPut
    PROVE  DiskPromise!Next
<1>1. /\ b \in BlobIDs /\ disk' = removed(disk, b)
      /\ diskPut.step \in PutSteps => diskPut.blob # b
    BY DiskPlace, Zenon DEF Indexed, DiskRemove, PutReady
<1>2. HeldFor(disk', diskPut') = [HeldFor(disk, diskPut) EXCEPT ![b] = "absent"]
    BY <1>1, HeldRemoved DEF DiskInv, DiskSound
<1>3. HeldFor(disk, diskPut)[b] = "evictable"
    BY <1>1, Zenon DEF HeldFor
<1>4. /\ CallOf(diskPut) # [does |-> "nothing"] /\ CallOf(diskPut') = CallOf(diskPut)
      /\ CallOf(diskPut) \in [does : {"put"}, blob : BlobIDs, new : {"protected", "evictable"}]
            => b # CallOf(diskPut).blob
  <2>1. CASE diskPut.step = "trim"
    <3>1. CallOf(diskPut) = [does |-> "warm"]
        BY <2>1, DiskPlace, CallOfSteps, Zenon
    <3> QED
        BY <3>1
  <2>2. CASE diskPut.step \in {"hot", "main"}
    <3>1. diskPut.step \in PutSteps
        BY <2>2, Zenon DEF PutSteps
    <3>2. CallOf(diskPut) = [does |-> "put", blob |-> diskPut.blob, new |-> diskPut.new.kind]
        BY <3>1, CallOfSteps, Zenon
    <3> QED
        BY <1>1, <3>1, <3>2
  <2> QED
      BY <2>1, <2>2, Zenon
<1> QED
    BY <1>1, <1>2, <1>3, <1>4, Zenon
    DEF DiskPromise!Next, DiskPromise!MakeRoom, DiskPromise!NoCall, DiskPromise!Puts, DiskPromise!Kinds

\* The end of a Put, with its entry or without, is the step that returns.
LEMMA DiskReturns ==
    ASSUME DiskInv, diskPut.step \in PutSteps, diskPut' = NoPut,
           \A x \in BlobIDs \ {diskPut.blob} : disk'.entry[x].kind = disk.entry[x].kind,
           disk'.entry[diskPut.blob].kind \in {diskPut.new.kind, "absent"}
    PROVE  DiskPromise!Next
<1>1. /\ diskPut \in Puts /\ diskPut.blob \in BlobIDs
      /\ diskPut.new.kind \in {"evictable", "protected"} /\ disk \in Caches
    BY DiskPlace, Zenon DEF PutReady, Puts, DiskInv, DiskSound
<1>2. HeldFor(disk', diskPut') =
          [HeldFor(disk, diskPut) EXCEPT ![diskPut.blob] = disk'.entry[diskPut.blob].kind]
    BY <1>1, HeldReturned
<1>3. /\ CallOf(diskPut) = [does |-> "put", blob |-> diskPut.blob, new |-> diskPut.new.kind]
      /\ CallOf(diskPut') = [does |-> "nothing"]
    BY CallOfSteps, Zenon
<1>4. CallOf(diskPut) \in [does : {"put"}, blob : BlobIDs, new : {"protected", "evictable"}]
    BY <1>1, <1>3
<1>5. CallOf(diskPut).blob = diskPut.blob /\ CallOf(diskPut).new = diskPut.new.kind
    BY <1>3
<1>6. \E kind \in {CallOf(diskPut).new, "absent"} :
          HeldFor(disk', diskPut') = [HeldFor(disk, diskPut) EXCEPT ![CallOf(diskPut).blob] = kind]
    BY <1>2, <1>5, Zenon
<1> QED
    BY <1>3, <1>4, <1>6, Zenon
    DEF DiskPromise!Next, DiskPromise!Return, DiskPromise!Puts, DiskPromise!Kinds, DiskPromise!NoCall

\* Dying and warming from disk is the restart of HotCache: only the entry that
\* a running Put was replacing may differ.
LEMMA DiskRestarts ==
    ASSUME DiskInv, DiskRestart
    PROVE  DiskPromise!Next
<1>1. DiskSound
    BY DEF DiskInv
<1>2. \A b \in BlobIDs :
        disk'.entry[b] = IF b \in bodies /\ metas[b].kind # "absent" THEN metas[b] ELSE NoEntry
    BY <1>1, DiskRestarted, Zenon
<1>3. diskPut' \in {NoPut, Trimming} /\ NoEntry.kind = "absent"
    BY Zenon DEF DiskRestart, NoEntry
<1>4. CallOf(diskPut') \in {[does |-> "nothing"], [does |-> "warm"]}
    BY <1>3, CallOfSteps, Zenon
<1>5. disk \in Caches /\ disk.entry \in [BlobIDs -> IndexEntries]
    BY <1>1, Zenon DEF DiskSound, Caches
<1>6. CASE diskPut.step \in PutSteps
  <2>1. diskPut \in Puts /\ PutReady /\ diskPut.blob \in BlobIDs
      BY <1>6, DiskPlace DEF PutReady, Puts
  <2>2. /\ \A x \in BlobIDs \ {diskPut.blob} : disk'.entry[x].kind = disk.entry[x].kind
        /\ disk'.entry[diskPut.blob].kind \in {diskPut.new.kind, "absent"}
    <3>1. CASE diskPut.step \in {"hot", "main", "publish"}
      <4>1. FilesInStep
          BY <3>1, DiskPlace
      <4> QED
          BY <1>2, <1>3, <1>5, <2>1, <4>1, Zenon DEF FilesInStep, PutReady, Indexed
    <3>2. CASE diskPut.step = "meta"
      <4>1. BodyAhead /\ metas = disk.entry
          BY <3>2, DiskPlace
      <4> QED
          BY <1>2, <1>3, <1>5, <2>1, <4>1, Zenon DEF BodyAhead, PutReady, Indexed
    <3>3. CASE diskPut.step = "index"
      <4>1. BodyAhead /\ metas = [disk.entry EXCEPT ![diskPut.blob] = diskPut.new]
          BY <3>3, DiskPlace, Zenon
      <4> QED
          BY <1>2, <1>3, <1>5, <2>1, <4>1, Zenon DEF BodyAhead, PutReady, Indexed
    <3> QED
        BY <1>6, <3>1, <3>2, <3>3, Zenon DEF PutSteps
  <2>3. HeldFor(disk', diskPut') =
            [HeldFor(disk, diskPut) EXCEPT ![diskPut.blob] = disk'.entry[diskPut.blob].kind]
      BY <1>3, <1>5, <2>1, <2>2, HeldReturned
  <2>4. CallOf(diskPut) = [does |-> "put", blob |-> diskPut.blob, new |-> diskPut.new.kind]
      BY <1>6, CallOfSteps, Zenon
  <2>5. CallOf(diskPut) \in [does : {"put"}, blob : BlobIDs, new : {"protected", "evictable"}]
      BY <2>1, <2>4 DEF PutReady
  <2>6. CallOf(diskPut).blob = diskPut.blob /\ CallOf(diskPut).new = diskPut.new.kind
      BY <2>4
  <2>7. \E kind \in {CallOf(diskPut).new, "absent"} :
            HeldFor(disk', diskPut') = [HeldFor(disk, diskPut) EXCEPT ![CallOf(diskPut).blob] = kind]
      BY <2>2, <2>3, <2>6, Zenon
  <2> QED
      BY <1>4, <2>5, <2>7, Zenon
      DEF DiskPromise!Next, DiskPromise!Restart, DiskPromise!Puts, DiskPromise!Kinds,
          DiskPromise!NoCall, DiskPromise!Warming
<1>7. CASE diskPut \in {NoPut, Trimming}
  <2>1. FilesInStep /\ NoPut.step \notin PutSteps /\ Trimming.step \notin PutSteps
      BY <1>7, DiskPlace DEF NoPut, Trimming, PutSteps
  <2>2. \A x \in BlobIDs : disk'.entry[x].kind = disk.entry[x].kind
      BY <1>2, <1>3, <1>5, <2>1, Zenon DEF FilesInStep, Indexed
  <2>3. HeldFor(disk', diskPut') = HeldFor(disk, diskPut)
      BY <1>3, <1>7, <2>1, <2>2, Zenon DEF HeldFor
  <2>4. CallOf(diskPut) \in {[does |-> "nothing"], [does |-> "warm"]}
      BY <1>7, CallOfSteps, Zenon
  <2>5. CallOf(diskPut) \notin [does : {"put"}, blob : BlobIDs, new : {"protected", "evictable"}]
      BY <2>4
  <2> QED
      BY <1>4, <2>3, <2>5, Zenon
      DEF DiskPromise!Next, DiskPromise!Restart, DiskPromise!Puts, DiskPromise!Kinds,
          DiskPromise!NoCall, DiskPromise!Warming
<1> QED
    BY <1>6, <1>7, DiskPlace

\* Every step of the disk cache is a step of HotCache, or changes nothing that
\* HotCache sees.
LEMMA DiskStepKeepsPromise ==
    ASSUME DiskInv, [DiskNext]_diskVars
    PROVE  [DiskPromise!Next]_(DiskPromise!vars)
<1>1. disk \in Caches /\ Balanced(disk)
    BY Zenon DEF DiskInv, DiskSound
<1>2. CASE UNCHANGED diskVars
    BY <1>2, Zenon DEF diskVars, HeldFor, CallOf, DiskPromise!vars
<1>3. ASSUME NEW b \in BlobIDs, DiskGet(b)
      PROVE  UNCHANGED (DiskPromise!vars)
  <2>1. b \in Indexed(disk) /\ diskPut' = diskPut /\ disk' = touched(disk, b)
      BY <1>3 DEF DiskGet
  <2>2. disk'.entry = disk.entry
      BY <1>1, <2>1, TouchedBalanced, Zenon
  <2> QED
      BY <2>1, <2>2, Zenon DEF HeldFor, CallOf, DiskPromise!vars
<1>4. ASSUME NEW b \in BlobIDs, DiskUnreadable(b) \/ DiskEvict(b)
      PROVE  DiskPromise!Next
    BY <1>4, DiskDrops DEF DiskUnreadable, DiskEvict
<1>5. ASSUME NEW b \in BlobIDs, NEW pinHot \in BOOLEAN, NEW nonEvictable \in BOOLEAN,
             DiskStartPut(b, pinHot, nonEvictable)
      PROVE  DiskPromise!Next
  <2> DEFINE e == NewEntry(pinHot, nonEvictable)
  <2>1. e \in IndexEntries /\ e.kind \in {"evictable", "protected"}
      BY NewEntryType
  <2>2. /\ diskPut = NoPut /\ diskPut' = Started(disk, b, e)
        /\ disk' = IF b \in Indexed(disk) THEN removed(disk, b) ELSE disk
      BY <1>5, Zenon DEF DiskStartPut, DiskRemove
  <2> HIDE DEF e
  <2>3. /\ diskPut'.step \in {"hot", "main"} /\ diskPut'.blob = b /\ diskPut'.new = e
        /\ HeldFor(disk', diskPut') = HeldFor(disk, diskPut)
      BY <1>1, <2>1, <2>2, HeldStarted
  <2>4. CallOf(diskPut) = [does |-> "nothing"]
      BY <2>2, CallOfSteps, Zenon
  <2>5. CallOf(diskPut') = [does |-> "put", blob |-> b, new |-> e.kind]
      BY <2>3, CallOfSteps DEF PutSteps
  <2>6. DiskPromise!Begin(b, e.kind)
      BY <2>3, <2>4, <2>5, Zenon DEF DiskPromise!Begin, DiskPromise!NoCall
  <2> QED
      BY <2>1, <2>6 DEF DiskPromise!Next, DiskPromise!Kinds
<1>6. CASE DiskEvictHot
  <2>1. diskPut.step = "hot" /\ diskPut \in Puts
      BY <1>6, DiskPlace, Zenon DEF DiskEvictHot, PutSteps, PutReady
  <2>2. CASE HotFull(disk, Incoming(diskPut))
    <3>1. PICK b \in Victims(disk, disk.hot) : DiskRemove(b)
        BY <1>6, <2>2 DEF DiskEvictHot
    <3>2. b \in Indexed(disk) /\ disk.entry[b].kind = "evictable" /\ UNCHANGED diskPut
        BY <1>1, <1>6, <2>2, VictimsEvictable, Zenon DEF DiskEvictHot
    <3> QED
        BY <2>1, <3>1, <3>2, DiskMakesRoom
  <2>3. CASE ~HotFull(disk, Incoming(diskPut))
    <3>1. GoOn("main") /\ disk' = disk /\ "main" \in PutSteps
        BY <1>6, <2>3, Zenon DEF DiskEvictHot, PutSteps
    <3> QED
        BY <2>1, <3>1, DiskGoesOn
  <2> QED
      BY <2>2, <2>3
<1>7. CASE DiskEvictMain
  <2>1. diskPut.step \in {"main", "trim"}
      BY <1>7, Zenon DEF DiskEvictMain
  <2>2. CASE Full(disk, Incoming(diskPut))
    <3>1. PICK b \in Victims(disk, Scanned(disk)) : DiskRemove(b)
        BY <1>7, <2>2 DEF DiskEvictMain
    <3>2. b \in Indexed(disk) /\ disk.entry[b].kind = "evictable" /\ UNCHANGED diskPut
        BY <1>1, <1>7, <2>2, VictimsEvictable, Zenon DEF DiskEvictMain, Scanned
    <3> QED
        BY <2>1, <3>1, <3>2, DiskMakesRoom, Zenon
  <2>3. CASE ~Full(disk, Incoming(diskPut)) /\ diskPut.step = "main"
    <3>1. GoOn("publish") /\ disk' = disk /\ "publish" \in PutSteps
        BY <1>7, <2>3, Zenon DEF DiskEvictMain, PutSteps
    <3>2. diskPut \in Puts
        BY <2>3, DiskPlace, Zenon DEF PutSteps, PutReady
    <3> QED
        BY <3>1, <3>2, DiskGoesOn, Zenon
  <2>4. CASE ~Full(disk, Incoming(diskPut)) /\ diskPut.step = "trim"
    <3>1. diskPut = Trimming /\ diskPut' = NoPut /\ disk' = disk
        BY <1>7, <2>4, DiskPlace, Zenon DEF DiskEvictMain
    <3>2. CallOf(diskPut) = [does |-> "warm"] /\ CallOf(diskPut') = [does |-> "nothing"]
        BY <3>1, CallOfSteps, Zenon
    <3>3. HeldFor(disk', diskPut') = HeldFor(disk, diskPut)
        BY <3>1, Zenon DEF HeldFor, NoPut, Trimming, PutSteps
    <3> QED
        BY <3>2, <3>3, Zenon DEF DiskPromise!Next, DiskPromise!Warmed, DiskPromise!Warming, DiskPromise!NoCall
  <2> QED
      BY <2>1, <2>2, <2>3, <2>4
<1>8. CASE PublishBody
  <2>1. diskPut.step \in PutSteps /\ diskPut \in Puts /\ PutReady /\ disk' = disk /\ "meta" \in PutSteps
      BY <1>8, DiskPlace, Zenon DEF PublishBody, PutSteps, PutReady
  <2>2. CASE GoOn("meta")
      BY <2>1, <2>2, DiskGoesOn
  <2>3. CASE diskPut' = NoPut
    <3>1. disk'.entry[diskPut.blob].kind = "absent"
        BY <2>1, Zenon DEF PutReady, Puts, Indexed
    <3> QED
        BY <2>1, <2>3, <3>1, DiskReturns, Zenon
  <2> QED
      BY <1>8, <2>2, <2>3 DEF PublishBody
<1>9. CASE WriteMeta
  <2>1. diskPut.step \in PutSteps /\ diskPut \in Puts /\ PutReady /\ disk' = disk /\ "index" \in PutSteps
      BY <1>9, DiskPlace, Zenon DEF WriteMeta, PutSteps, PutReady
  <2>2. CASE GoOn("index")
      BY <2>1, <2>2, DiskGoesOn
  <2>3. CASE diskPut' = NoPut
    <3>1. disk'.entry[diskPut.blob].kind = "absent"
        BY <2>1, Zenon DEF PutReady, Puts, Indexed
    <3> QED
        BY <2>1, <2>3, <3>1, DiskReturns, Zenon
  <2> QED
      BY <1>9, <2>2, <2>3, Zenon DEF WriteMeta
<1>10. CASE PutIndex
  <2>1. diskPut.step \in PutSteps /\ PutReady
      BY <1>10, DiskPlace, Zenon DEF PutIndex, PutSteps
  <2>2. disk' = added(disk, diskPut.blob, diskPut.new) /\ diskPut' = NoPut
      BY <1>10, Zenon DEF PutIndex
  <2>3. /\ diskPut.blob \in BlobIDs /\ diskPut.new \in IndexEntries /\ diskPut.new.kind # "absent"
        /\ diskPut.blob \notin Indexed(disk)
      BY <2>1 DEF PutReady, Puts
  <2>4. disk'.entry = [disk.entry EXCEPT ![diskPut.blob] = diskPut.new]
      BY <1>1, <2>2, <2>3, AddedBalanced
  <2>5. /\ disk'.entry[diskPut.blob] = diskPut.new
        /\ \A x \in BlobIDs \ {diskPut.blob} : disk'.entry[x].kind = disk.entry[x].kind
      BY <1>1, <2>3, <2>4, Zenon DEF Caches
  <2> QED
      BY <2>1, <2>2, <2>5, DiskReturns, Zenon
<1>11. CASE DiskRestart
    BY <1>11, DiskRestarts
<1> QED
    BY <1>2, <1>3, <1>4, <1>5, <1>6, <1>7, <1>8, <1>9, <1>10, <1>11, Zenon DEF DiskNext

\* The disk cache implements HotCache, whatever the blobs, their sizes, the
\* budget and the pins, through failures of its file operations and a process
\* that dies anywhere in a Put: the promise the pipeline relies on to keep the
\* only copy of a blob.
THEOREM DiskPromiseHolds == DiskSpec => KeepsPromise
<1>1. DiskInit => DiskPromise!Init
  <2> SUFFICES ASSUME DiskInit
               PROVE  DiskPromise!Init
      OBVIOUS
  <2>1. disk.entry = [b \in BlobIDs |-> NoEntry] /\ diskPut = NoPut
      BY Zenon DEF DiskInit, EmptyCache
  <2>2. NoPut.step \notin PutSteps /\ NoEntry.kind = "absent"
      BY Zenon DEF NoPut, PutSteps, NoEntry
  <2>3. HeldFor(disk, diskPut) = [b \in BlobIDs |-> "absent"]
      BY <2>1, <2>2, Zenon DEF HeldFor
  <2>4. CallOf(diskPut) = [does |-> "nothing"]
      BY <2>1, CallOfSteps, Zenon
  <2> QED
      BY <2>3, <2>4, Zenon DEF DiskPromise!Init, DiskPromise!NoCall
<1> QED
    BY <1>1, DiskStepKeepsPromise, DiskAlwaysInv, PTL
    DEF DiskSpec, KeepsPromise, DiskPromise!Spec

=============================================================================
