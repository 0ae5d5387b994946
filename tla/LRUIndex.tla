----------------------------- MODULE LRUIndex ------------------------------
(* The bookkeeping of a hot cache, which memory_cache.go and disk_cache.go  *)
(* do in the same statements: an index of entries, a main and a hot LRU     *)
(* list, and the byte counters.  A cache is a record of them; the operators *)
(* give the cache that a call leaves.  Lists are container/list, front      *)
(* first.                                                                   *)
EXTENDS Naturals, Sequences, FiniteSets

CONSTANTS
    BlobIDs,
    Size,       \* bytes per blob: a blob has one content
    MaxBytes,   \* policy.MaxBytes; 0 is unlimited
    HotLimit,   \* hotLimit; 0 is no limit
    HotPin      \* policy.Kind is EvictionLRUHotPin; otherwise pins are ignored

ASSUME PolicyAssumption ==
    /\ Size \in [BlobIDs -> Nat]
    /\ MaxBytes \in Nat /\ HotLimit \in Nat /\ HotPin \in BOOLEAN

-----------------------------------------------------------------------------
(* Lists that hold a blob at most once.                                    *)

Elements(s) == {s[i] : i \in DOMAIN s}
Once(s) == \A i, j \in DOMAIN s : s[i] = s[j] => i = j

PushFront(s, b) == <<b>> \o s
Remove(s, b) ==
    LET k == CHOOSE i \in DOMAIN s : s[i] = b
    IN  [i \in 1..(Len(s) - 1) |-> IF i < k THEN s[i] ELSE s[i + 1]]
MoveToFront(s, b) == PushFront(Remove(s, b), b)

-----------------------------------------------------------------------------
(* Caches.                                                                 *)

EntryKinds == {"absent", "evictable", "protected"}
IndexEntries == [pinned : BOOLEAN, kind : EntryKinds]
NoEntry == [pinned |-> FALSE, kind |-> "absent"]
NewEntry(pinHot, nonEvictable) ==
    [pinned |-> pinHot /\ HotPin,
     kind |-> IF nonEvictable THEN "protected" ELSE "evictable"]

Caches ==
    [hot : Seq(BlobIDs), main : Seq(BlobIDs), entry : [BlobIDs -> IndexEntries],
     bytesUsed : Nat, hotBytes : Nat]
EmptyCache ==
    [hot |-> <<>>, main |-> <<>>, entry |-> [b \in BlobIDs |-> NoEntry],
     bytesUsed |-> 0, hotBytes |-> 0]

Indexed(c) == {b \in BlobIDs : c.entry[b].kind # "absent"}

\* The bytes of a set of blobs, one by one.
Bytes(set) == Cardinality(UNION {{b} \X (1..Size[b]) : b \in set})

removed_KeepsHotBytes(c, b) ==
    LET pinned == c.entry[b].pinned
    IN  [hot |-> IF pinned THEN Remove(c.hot, b) ELSE c.hot,
         main |-> IF pinned THEN c.main ELSE Remove(c.main, b),
         entry |-> [c.entry EXCEPT ![b] = NoEntry],
         bytesUsed |-> c.bytesUsed - Size[b],
         hotBytes |-> c.hotBytes]
\* removeLocked, of an indexed blob.
removed(c, b) ==
    LET pinned == c.entry[b].pinned
    IN  [hot |-> IF pinned THEN Remove(c.hot, b) ELSE c.hot,
         main |-> IF pinned THEN c.main ELSE Remove(c.main, b),
         entry |-> [c.entry EXCEPT ![b] = NoEntry],
         bytesUsed |-> c.bytesUsed - Size[b],
         hotBytes |-> IF pinned THEN c.hotBytes - Size[b] ELSE c.hotBytes]

\* What ends a Put: the new entry e is at the front of its list.
added(c, b, e) ==
    [hot |-> IF e.pinned THEN PushFront(c.hot, b) ELSE c.hot,
     main |-> IF e.pinned THEN c.main ELSE PushFront(c.main, b),
     entry |-> [c.entry EXCEPT ![b] = e],
     bytesUsed |-> c.bytesUsed + Size[b],
     hotBytes |-> IF e.pinned THEN c.hotBytes + Size[b] ELSE c.hotBytes]

\* A Get that hits.
touched(c, b) ==
    [hot |-> IF c.entry[b].pinned THEN MoveToFront(c.hot, b) ELSE c.hot,
     main |-> IF c.entry[b].pinned THEN c.main ELSE MoveToFront(c.main, b),
     entry |-> c.entry, bytesUsed |-> c.bytesUsed, hotBytes |-> c.hotBytes]

-----------------------------------------------------------------------------
(* The loops that make room.                                               *)

Evictable_All(c, s) == DOMAIN s
\* The entries of a list that may go, and the one that a scan from the back
\* stops at.
Evictable(c, s) == {i \in DOMAIN s : c.entry[s[i]].kind = "evictable"}
Victims(c, s) == {s[i] : i \in {k \in Evictable(c, s) : \A j \in Evictable(c, s) : j <= k}}

\* Does evictHotLocked go another round for so many bytes?
HotFull(c, incoming) ==
    HotLimit > 0 /\ c.hotBytes + incoming > HotLimit /\ Evictable(c, c.hot) # {}

\* evictMainLocked looks at the hot list only when the main list is empty.
Scanned(c) == IF c.main = <<>> THEN c.hot ELSE c.main

Full_NoIncoming(c, incoming) ==
    MaxBytes > 0 /\ c.bytesUsed > MaxBytes /\ Evictable(c, Scanned(c)) # {}
Full(c, incoming) ==
    MaxBytes > 0 /\ c.bytesUsed + incoming > MaxBytes /\ Evictable(c, Scanned(c)) # {}

-----------------------------------------------------------------------------
(* The Put that holds the mutex, cut into the rounds of these loops and     *)
(* what follows them; a warm-up that trims.                                 *)

PutSteps == {"hot", "main", "publish", "meta", "index"}
Puts == [step : PutSteps, blob : BlobIDs, new : IndexEntries, old : EntryKinds]
NoPut == [step |-> "none"]
Trimming == [step |-> "trim"]
Calls == Puts \cup {NoPut, Trimming}

\* Is a body of b accepted at all?
Fits(b) == MaxBytes = 0 \/ Size[b] <= MaxBytes

Started(c, b, e) ==
    [step |-> IF e.pinned THEN "hot" ELSE "main", blob |-> b, new |-> e,
     old |-> c.entry[b].kind]

Incoming(p) == IF p.step = "trim" THEN 0 ELSE Size[p.blob]

-----------------------------------------------------------------------------
(* What is said of both caches.                                            *)

\* The lists, the index and the counters of a cache agree.
Balanced(c) ==
    /\ Elements(c.hot) = {b \in Indexed(c) : c.entry[b].pinned}
    /\ Elements(c.main) = {b \in Indexed(c) : ~c.entry[b].pinned}
    /\ Once(c.hot) /\ Once(c.main)
    /\ c.bytesUsed = Bytes(Indexed(c))
    /\ c.hotBytes = Bytes(Elements(c.hot))

\* The cache as HotCache sees it: what a running Put replaces is there until
\* the Put returns.
HeldFor(c, p) ==
    [b \in BlobIDs |-> IF p.step \in PutSteps /\ p.blob = b THEN p.old ELSE c.entry[b].kind]
CallOf(p) ==
    IF p.step \in PutSteps THEN [does |-> "put", blob |-> p.blob, new |-> p.new.kind]
    ELSE [does |-> IF p.step = "trim" THEN "warm" ELSE "nothing"]

=============================================================================
