--------------------------- MODULE HotCacheProofs ---------------------------
(* Lemmas about the lists, counters and operators of LRUIndex, and proofs   *)
(* about the memory cache, for any blobs, sizes, budget and pins.           *)
EXTENDS MemoryCache, FiniteSetTheorems, TLAPS

-----------------------------------------------------------------------------
(* Lists.                                                                  *)

\* The elements of a list are finitely many blobs.
LEMMA ElementsOf ==
    ASSUME NEW S, NEW s \in Seq(S)
    PROVE  Elements(s) \in SUBSET S /\ IsFiniteSet(Elements(s))
<1>1. Len(s) \in Nat /\ s \in [1..Len(s) -> S] /\ DOMAIN s = 1..Len(s)
    OBVIOUS
<1>2. Elements(s) \in SUBSET S
    BY <1>1 DEF Elements
<1>3. s \in Surjection(1..Len(s), Elements(s))
    BY <1>1, Zenon DEF Elements, Surjection
<1>4. IsFiniteSet(1..Len(s))
    BY <1>1, FS_Interval
<1> QED
    BY <1>2, <1>3, <1>4, FS_Surjection

\* A pushed blob is the first of the list.
LEMMA PushFrontList ==
    ASSUME NEW S, NEW s \in Seq(S), NEW b \in S
    PROVE  /\ PushFront(s, b) \in Seq(S)
           /\ Elements(PushFront(s, b)) = Elements(s) \cup {b}
           /\ Once(s) /\ b \notin Elements(s) => Once(PushFront(s, b))
<1> DEFINE t == <<b>> \o s
<1>1. Len(s) \in Nat /\ DOMAIN s = 1..Len(s)
    OBVIOUS
<1>2. <<b>> \in Seq(S) /\ Len(<<b>>) = 1 /\ <<b>>[1] = b
    OBVIOUS
<1>3. /\ t \in Seq(S)
      /\ Len(t) = Len(<<b>>) + Len(s)
      /\ \A i \in 1..(Len(<<b>>) + Len(s)) : t[i] = IF i <= Len(<<b>>) THEN <<b>>[i] ELSE s[i - Len(<<b>>)]
    BY <1>2
<1>4. /\ DOMAIN t = 1..(1 + Len(s))
      /\ t[1] = b
      /\ \A i \in 1..(1 + Len(s)) : i # 1 => i - 1 \in DOMAIN s /\ t[i] = s[i - 1]
      /\ \A i \in DOMAIN s : i + 1 \in 1..(1 + Len(s)) /\ t[i + 1] = s[i]
  <2>1. Len(t) = 1 + Len(s) /\ DOMAIN t = 1..(1 + Len(s))
      BY <1>2, <1>3
  <2>2. \A i \in 1..(1 + Len(s)) : t[i] = IF i <= 1 THEN <<b>>[i] ELSE s[i - 1]
      BY <1>2, <1>3
  <2> HIDE DEF t
  <2> QED
      BY <1>1, <1>2, <2>1, <2>2
<1> HIDE DEF t
<1>5. Elements(t) = Elements(s) \cup {b}
  <2>1. ASSUME NEW x \in Elements(t) PROVE x \in Elements(s) \cup {b}
      BY <1>4, <2>1 DEF Elements
  <2>2. ASSUME NEW x \in Elements(s) PROVE x \in Elements(t)
      BY <1>4, <2>2 DEF Elements
  <2>3. b \in Elements(t)
      BY <1>1, <1>4 DEF Elements
  <2> QED
      BY <2>1, <2>2, <2>3
<1>6. ASSUME Once(s), b \notin Elements(s) PROVE Once(t)
  <2> SUFFICES ASSUME NEW i \in DOMAIN t, NEW j \in DOMAIN t, t[i] = t[j] PROVE i = j
      BY DEF Once
  <2>1. CASE i = 1 /\ j # 1
      BY <1>4, <1>6, <2>1 DEF Elements
  <2>2. CASE i # 1 /\ j = 1
      BY <1>4, <1>6, <2>2 DEF Elements
  <2>3. CASE i # 1 /\ j # 1
    <3>1. i - 1 \in DOMAIN s /\ j - 1 \in DOMAIN s /\ s[i - 1] = s[j - 1] /\ i \in Nat /\ j \in Nat
        BY <1>1, <1>4, <2>3
    <3>2. i - 1 = j - 1
        BY <1>6, <3>1 DEF Once
    <3> QED
        BY <3>1, <3>2
  <2> QED
      BY <2>1, <2>2, <2>3
<1> QED
    BY <1>3, <1>5, <1>6 DEF t, PushFront

\* Removing an element takes away its one occurrence.
LEMMA RemoveList ==
    ASSUME NEW S, NEW s \in Seq(S), NEW b \in Elements(s), Once(s)
    PROVE  /\ Remove(s, b) \in Seq(S)
           /\ Elements(Remove(s, b)) = Elements(s) \ {b}
           /\ Once(Remove(s, b))
<1> DEFINE k == CHOOSE i \in DOMAIN s : s[i] = b
           n == Len(s)
           t == [i \in 1..(n - 1) |-> IF i < k THEN s[i] ELSE s[i + 1]]
<1>1. n \in Nat /\ DOMAIN s = 1..n /\ s \in [1..n -> S]
    OBVIOUS
<1>2. k \in 1..n /\ s[k] = b
  <2>1. \E i \in DOMAIN s : s[i] = b
      BY DEF Elements
  <2>2. k \in DOMAIN s /\ s[k] = b
      BY <2>1, Zenon
  <2> QED
      BY <1>1, <2>2
<1> HIDE DEF k, n
<1>3. \A i \in 1..(n - 1) : /\ i \in 1..n /\ i + 1 \in 1..n
                            /\ t[i] = IF i < k THEN s[i] ELSE s[i + 1]
    BY <1>1
<1>4. t \in Seq(S)
    BY <1>1, <1>3
<1>5. DOMAIN t = 1..(n - 1)
    OBVIOUS
<1> HIDE DEF t
<1>6. Elements(t) = Elements(s) \ {b}
  <2>1. ASSUME NEW x \in Elements(t) PROVE x \in Elements(s) \ {b}
    <3>1. PICK i \in 1..(n - 1) : x = t[i]
        BY <1>5 DEF Elements
    <3>2. CASE i < k
        BY <1>1, <1>2, <1>3, <3>1, <3>2 DEF Elements, Once
    <3>3. CASE ~(i < k)
        BY <1>1, <1>2, <1>3, <3>1, <3>3 DEF Elements, Once
    <3> QED
        BY <3>2, <3>3
  <2>2. ASSUME NEW x \in Elements(s), x # b PROVE x \in Elements(t)
    <3>1. PICK i \in 1..n : x = s[i]
        BY <1>1 DEF Elements
    <3>2. CASE i < k
      <4>1. i \in 1..(n - 1) /\ t[i] = x
          BY <1>1, <1>2, <1>3, <3>1, <3>2
      <4> QED
          BY <1>5, <4>1 DEF Elements
    <3>3. CASE i > k
      <4>1. i - 1 \in 1..(n - 1) /\ ~(i - 1 < k) /\ (i - 1) + 1 = i
          BY <1>1, <1>2, <3>1, <3>3
      <4>2. t[i - 1] = x
          BY <1>3, <3>1, <4>1
      <4> QED
          BY <1>5, <4>1, <4>2 DEF Elements
    <3> QED
        BY <1>2, <2>2, <3>1, <3>2, <3>3
  <2> QED
      BY <2>1, <2>2
<1>7. Once(t)
  <2> SUFFICES ASSUME NEW i \in 1..(n - 1), NEW j \in 1..(n - 1), t[i] = t[j] PROVE i = j
      BY <1>5 DEF Once
  <2>1. CASE i < k /\ j < k
      BY <1>1, <1>3, <2>1 DEF Once
  <2>2. CASE i < k /\ ~(j < k)
      BY <1>1, <1>2, <1>3, <2>2 DEF Once
  <2>3. CASE ~(i < k) /\ j < k
      BY <1>1, <1>2, <1>3, <2>3 DEF Once
  <2>4. CASE ~(i < k) /\ ~(j < k)
      BY <1>1, <1>3, <2>4 DEF Once
  <2> QED
      BY <2>1, <2>2, <2>3, <2>4
<1> QED
    BY <1>4, <1>6, <1>7 DEF t, k, n, Remove

-----------------------------------------------------------------------------
(* Bytes.                                                                  *)

\* Finitely many blobs have finitely many bytes.
LEMMA BytesFinite ==
    ASSUME NEW S \in SUBSET BlobIDs, IsFiniteSet(S)
    PROVE  /\ IsFiniteSet(UNION {{b} \X (1..Size[b]) : b \in S})
           /\ Bytes(S) \in Nat
<1> DEFINE Of(b) == {b} \X (1..Size[b])
           T == {Of(b) : b \in S}
           f == [b \in S |-> Of(b)]
<1>1. f \in Surjection(S, T)
  <2>1. f \in [S -> T]
      OBVIOUS
  <2>2. \A t \in T : \E b \in S : f[b] = t
      OBVIOUS
  <2> HIDE DEF f, T
  <2> QED
      BY <2>1, <2>2 DEF Surjection
<1>2. IsFiniteSet(T)
    BY <1>1, FS_Surjection
<1>3. ASSUME NEW t \in T PROVE IsFiniteSet(t)
  <2>1. PICK b \in S : t = {b} \X (1..Size[b])
      OBVIOUS
  <2>2. Size[b] \in Nat
      BY PolicyAssumption
  <2>3. IsFiniteSet({b})
      BY FS_Singleton, Zenon
  <2>4. IsFiniteSet(1..Size[b])
      BY <2>2, FS_Interval
  <2> QED
      BY <2>1, <2>3, <2>4, FS_Product, Zenon
<1>4. IsFiniteSet(UNION T)
    BY <1>2, <1>3, FS_UNION, Zenon
<1> QED
    BY <1>4, FS_CardinalityType DEF Bytes

\* No blob, no bytes; one blob more adds its size.
LEMMA BytesAdd ==
    ASSUME NEW S \in SUBSET BlobIDs, IsFiniteSet(S), NEW x \in BlobIDs, x \notin S
    PROVE  Bytes(S \cup {x}) = Bytes(S) + Size[x]
<1> DEFINE all(T) == UNION {{b} \X (1..Size[b]) : b \in T}
           one == {x} \X (1..Size[x])
<1>1. Size[x] \in Nat
    BY PolicyAssumption
<1>2. IsFiniteSet(one) /\ Cardinality(one) = Size[x]
  <2>1. IsFiniteSet({x}) /\ Cardinality({x}) = 1
      BY FS_Singleton
  <2>2. IsFiniteSet(1..Size[x]) /\ Cardinality(1..Size[x]) = Size[x]
    <3>1. 1 \in Int /\ Size[x] \in Int
        BY <1>1
    <3>2. /\ IsFiniteSet(1..Size[x])
          /\ Cardinality(1..Size[x]) = IF 1 > Size[x] THEN 0 ELSE Size[x] - 1 + 1
        BY <3>1, FS_Interval, Zenon
    <3> QED
        BY <1>1, <3>2
  <2>3. IsFiniteSet(one) /\ Cardinality(one) = Cardinality({x}) * Cardinality(1..Size[x])
      BY <2>1, <2>2, FS_Product, Zenon
  <2> QED
      BY <1>1, <2>1, <2>2, <2>3
<1>3. IsFiniteSet(all(S)) /\ Cardinality(all(S)) \in Nat
    BY BytesFinite, FS_CardinalityType
<1>4. all(S \cup {x}) = all(S) \cup one
  <2>1. ASSUME NEW y \in all(S \cup {x}) PROVE y \in all(S) \cup one
      OBVIOUS
  <2>2. ASSUME NEW y \in all(S) \cup one PROVE y \in all(S \cup {x})
      OBVIOUS
  <2> HIDE DEF all, one
  <2> QED
      BY <2>1, <2>2
<1>5. all(S) \cap one = {}
    OBVIOUS
<1> HIDE DEF all, one
<1>6. Cardinality(all(S) \cup one) = Cardinality(all(S)) + Cardinality(one)
  <2>1. Cardinality(all(S) \cup one)
            = Cardinality(all(S)) + Cardinality(one) - Cardinality(all(S) \cap one)
      BY <1>2, <1>3, FS_Union
  <2>2. Cardinality(all(S) \cap one) = 0
      BY <1>5, FS_EmptySet, Zenon
  <2> QED
      BY <1>1, <1>2, <1>3, <2>1, <2>2
<1> QED
    BY <1>2, <1>4, <1>6, Zenon DEF all, Bytes

\* The same, backwards.
LEMMA BytesRemove ==
    ASSUME NEW S \in SUBSET BlobIDs, IsFiniteSet(S), NEW x \in S
    PROVE  Bytes(S \ {x}) = Bytes(S) - Size[x] /\ Bytes(S) - Size[x] \in Nat
<1>1. IsFiniteSet(S \ {x}) /\ S \ {x} \in SUBSET BlobIDs /\ S = (S \ {x}) \cup {x}
    BY FS_RemoveElement
<1>2. Bytes(S) = Bytes(S \ {x}) + Size[x]
    BY <1>1, BytesAdd
<1>3. Bytes(S \ {x}) \in Nat /\ Size[x] \in Nat
    BY <1>1, BytesFinite, PolicyAssumption, Zenon
<1> QED
    BY <1>2, <1>3

\* An empty list has no bytes.
LEMMA BytesNone == Bytes({}) = 0
<1>1. UNION {{b} \X (1..Size[b]) : b \in {}} = {}
    OBVIOUS
<1> QED
    BY <1>1, FS_EmptySet, Zenon DEF Bytes

-----------------------------------------------------------------------------
(* Caches.                                                                 *)

\* What is indexed is in the lists, hence finite.
LEMMA IndexedFinite ==
    ASSUME NEW c \in Caches, Balanced(c)
    PROVE  /\ Indexed(c) \in SUBSET BlobIDs /\ IsFiniteSet(Indexed(c))
           /\ Elements(c.hot) \in SUBSET BlobIDs /\ IsFiniteSet(Elements(c.hot))
<1>1. c.hot \in Seq(BlobIDs) /\ c.main \in Seq(BlobIDs)
    BY DEF Caches
<1>2. /\ Elements(c.hot) \in SUBSET BlobIDs /\ IsFiniteSet(Elements(c.hot))
      /\ Elements(c.main) \in SUBSET BlobIDs /\ IsFiniteSet(Elements(c.main))
    BY <1>1, ElementsOf
<1>3. Indexed(c) = Elements(c.hot) \cup Elements(c.main)
    BY DEF Balanced
<1> QED
    BY <1>2, <1>3, FS_Union, Zenon

\* A new cache is balanced.
LEMMA EmptyIsBalanced == EmptyCache \in Caches /\ Balanced(EmptyCache)
<1>1. <<>> \in Seq(BlobIDs) /\ Elements(<<>>) = {} /\ Once(<<>>)
    BY DEF Elements, Once
<1>2. EmptyCache \in Caches
    BY <1>1 DEF EmptyCache, Caches, NoEntry, IndexEntries, EntryKinds
<1>3. Indexed(EmptyCache) = {}
    BY DEF Indexed, EmptyCache, NoEntry
<1>4. /\ EmptyCache.hot = <<>> /\ EmptyCache.main = <<>>
      /\ EmptyCache.bytesUsed = 0 /\ EmptyCache.hotBytes = 0
    BY DEF EmptyCache
<1> QED
    BY <1>1, <1>2, <1>3, <1>4, BytesNone, Zenon DEF Balanced

\* removeLocked keeps the lists, the index and the counters in agreement, and
\* takes away the entry of its blob only.
LEMMA RemovedBalanced ==
    ASSUME NEW c \in Caches, Balanced(c), NEW b \in Indexed(c)
    PROVE  /\ removed(c, b) \in Caches
           /\ Balanced(removed(c, b))
           /\ removed(c, b).entry = [c.entry EXCEPT ![b] = NoEntry]
           /\ Indexed(removed(c, b)) = Indexed(c) \ {b}
           /\ removed(c, b).bytesUsed <= c.bytesUsed
           /\ Elements(removed(c, b).main) \in SUBSET Elements(c.main)
<1> DEFINE d == removed(c, b)
           pin == c.entry[b].pinned
<1>1. /\ c.hot \in Seq(BlobIDs) /\ c.main \in Seq(BlobIDs) /\ c.entry \in [BlobIDs -> IndexEntries]
      /\ c.bytesUsed \in Nat /\ c.hotBytes \in Nat /\ b \in BlobIDs /\ Size[b] \in Nat
    BY PolicyAssumption DEF Caches, Indexed
<1>2. /\ d.hot = (IF pin THEN Remove(c.hot, b) ELSE c.hot)
      /\ d.main = (IF pin THEN c.main ELSE Remove(c.main, b))
      /\ d.entry = [c.entry EXCEPT ![b] = NoEntry]
      /\ d.bytesUsed = c.bytesUsed - Size[b]
      /\ d.hotBytes = (IF pin THEN c.hotBytes - Size[b] ELSE c.hotBytes)
      /\ d = [hot |-> d.hot, main |-> d.main, entry |-> d.entry,
              bytesUsed |-> d.bytesUsed, hotBytes |-> d.hotBytes]
    BY Zenon DEF removed
<1> HIDE DEF d
<1>3. /\ Elements(c.hot) = {x \in Indexed(c) : c.entry[x].pinned}
      /\ Elements(c.main) = {x \in Indexed(c) : ~c.entry[x].pinned}
      /\ Once(c.hot) /\ Once(c.main)
      /\ c.bytesUsed = Bytes(Indexed(c)) /\ c.hotBytes = Bytes(Elements(c.hot))
    BY Zenon DEF Balanced
<1>4. NoEntry \in IndexEntries /\ NoEntry.kind = "absent"
    BY DEF NoEntry, IndexEntries, EntryKinds
<1>5. /\ d.entry \in [BlobIDs -> IndexEntries]
      /\ Indexed(d) = Indexed(c) \ {b}
      /\ \A x \in Indexed(d) : d.entry[x] = c.entry[x]
    BY <1>1, <1>2, <1>4 DEF Indexed
<1>6. /\ d.hot \in Seq(BlobIDs) /\ Once(d.hot)
      /\ Elements(d.hot) = {x \in Indexed(d) : d.entry[x].pinned}
      /\ d.main \in Seq(BlobIDs) /\ Once(d.main)
      /\ Elements(d.main) = {x \in Indexed(d) : ~d.entry[x].pinned}
  <2>1. CASE pin
    <3>1. b \in Elements(c.hot) /\ b \notin Elements(c.main)
        BY <1>3, <2>1
    <3>2. d.hot \in Seq(BlobIDs) /\ Once(d.hot) /\ Elements(d.hot) = Elements(c.hot) \ {b}
        BY <1>1, <1>2, <1>3, <2>1, <3>1, RemoveList
    <3>3. d.main = c.main
        BY <1>2, <2>1
    <3> QED
        BY <1>1, <1>3, <1>5, <3>1, <3>2, <3>3, Zenon
  <2>2. CASE ~pin
    <3>1. b \in Elements(c.main) /\ b \notin Elements(c.hot)
        BY <1>3, <2>2
    <3>2. d.main \in Seq(BlobIDs) /\ Once(d.main) /\ Elements(d.main) = Elements(c.main) \ {b}
        BY <1>1, <1>2, <1>3, <2>2, <3>1, RemoveList
    <3>3. d.hot = c.hot
        BY <1>2, <2>2
    <3> QED
        BY <1>1, <1>3, <1>5, <3>1, <3>2, <3>3, Zenon
  <2> QED
      BY <2>1, <2>2
<1>7. d.bytesUsed = Bytes(Indexed(d)) /\ d.bytesUsed \in Nat
    BY <1>2, <1>3, <1>5, IndexedFinite, BytesRemove
<1>8. d.hotBytes = Bytes(Elements(d.hot)) /\ d.hotBytes \in Nat
  <2>1. CASE pin
    <3>1. b \in Elements(c.hot) /\ Elements(d.hot) = Elements(c.hot) \ {b}
        BY <1>3, <1>5, <1>6, <2>1
    <3>2. d.hotBytes = c.hotBytes - Size[b]
        BY <1>2, <2>1
    <3>3. /\ Bytes(Elements(c.hot) \ {b}) = Bytes(Elements(c.hot)) - Size[b]
          /\ Bytes(Elements(c.hot)) - Size[b] \in Nat
        BY <3>1, IndexedFinite, BytesRemove
    <3> QED
        BY <1>3, <3>1, <3>2, <3>3
  <2>2. CASE ~pin
    <3>1. d.hotBytes = c.hotBytes /\ d.hot = c.hot
        BY <1>2, <2>2
    <3> QED
        BY <1>1, <1>3, <3>1, Zenon
  <2> QED
      BY <2>1, <2>2
<1>9. d \in Caches
    BY <1>2, <1>5, <1>6, <1>7, <1>8, Zenon DEF Caches
<1>10. Balanced(d)
    BY <1>6, <1>7, <1>8 DEF Balanced
<1>11. Elements(d.main) \in SUBSET Elements(c.main)
    BY <1>3, <1>5, <1>6
<1>12. d.bytesUsed <= c.bytesUsed
    BY <1>1, <1>2
<1> QED
    BY <1>2, <1>5, <1>9, <1>10, <1>11, <1>12 DEF d

\* Putting an entry for a blob that has none does too.
LEMMA AddedBalanced ==
    ASSUME NEW c \in Caches, Balanced(c), NEW b \in BlobIDs, b \notin Indexed(c),
           NEW e \in IndexEntries, e.kind # "absent"
    PROVE  /\ added(c, b, e) \in Caches
           /\ Balanced(added(c, b, e))
           /\ added(c, b, e).entry = [c.entry EXCEPT ![b] = e]
           /\ Indexed(added(c, b, e)) = Indexed(c) \cup {b}
           /\ added(c, b, e).bytesUsed = c.bytesUsed + Size[b]
           /\ Elements(added(c, b, e).main) \in SUBSET (Elements(c.main) \cup {b})
<1> DEFINE d == added(c, b, e)
           pin == e.pinned
<1>1. /\ c.hot \in Seq(BlobIDs) /\ c.main \in Seq(BlobIDs) /\ c.entry \in [BlobIDs -> IndexEntries]
      /\ c.bytesUsed \in Nat /\ c.hotBytes \in Nat /\ Size[b] \in Nat
    BY PolicyAssumption DEF Caches
<1>2. /\ d.hot = (IF pin THEN PushFront(c.hot, b) ELSE c.hot)
      /\ d.main = (IF pin THEN c.main ELSE PushFront(c.main, b))
      /\ d.entry = [c.entry EXCEPT ![b] = e]
      /\ d.bytesUsed = c.bytesUsed + Size[b]
      /\ d.hotBytes = (IF pin THEN c.hotBytes + Size[b] ELSE c.hotBytes)
      /\ d = [hot |-> d.hot, main |-> d.main, entry |-> d.entry,
              bytesUsed |-> d.bytesUsed, hotBytes |-> d.hotBytes]
    BY Zenon DEF added
<1> HIDE DEF d
<1>3. /\ Elements(c.hot) = {x \in Indexed(c) : c.entry[x].pinned}
      /\ Elements(c.main) = {x \in Indexed(c) : ~c.entry[x].pinned}
      /\ Once(c.hot) /\ Once(c.main)
      /\ c.bytesUsed = Bytes(Indexed(c)) /\ c.hotBytes = Bytes(Elements(c.hot))
    BY Zenon DEF Balanced
<1>4. b \notin Elements(c.hot) /\ b \notin Elements(c.main)
    BY <1>3
<1>5. /\ d.entry \in [BlobIDs -> IndexEntries]
      /\ Indexed(d) = Indexed(c) \cup {b}
      /\ d.entry[b] = e
      /\ \A x \in Indexed(c) : d.entry[x] = c.entry[x]
    BY <1>1, <1>2, Zenon DEF Indexed
<1>6. /\ d.hot \in Seq(BlobIDs) /\ Once(d.hot)
      /\ Elements(d.hot) = {x \in Indexed(d) : d.entry[x].pinned}
      /\ d.main \in Seq(BlobIDs) /\ Once(d.main)
      /\ Elements(d.main) = {x \in Indexed(d) : ~d.entry[x].pinned}
  <2>1. CASE pin
    <3>1. d.hot \in Seq(BlobIDs) /\ Once(d.hot) /\ Elements(d.hot) = Elements(c.hot) \cup {b}
      <4>1. d.hot = PushFront(c.hot, b)
          BY <1>2, <2>1
      <4> QED
          BY <1>1, <1>3, <1>4, <4>1, PushFrontList
    <3>2. d.main = c.main
        BY <1>2, <2>1
    <3> QED
        BY <1>1, <1>3, <1>5, <2>1, <3>1, <3>2, Zenon
  <2>2. CASE ~pin
    <3>1. d.main \in Seq(BlobIDs) /\ Once(d.main) /\ Elements(d.main) = Elements(c.main) \cup {b}
      <4>1. d.main = PushFront(c.main, b)
          BY <1>2, <2>2
      <4> QED
          BY <1>1, <1>3, <1>4, <4>1, PushFrontList
    <3>2. d.hot = c.hot
        BY <1>2, <2>2
    <3> QED
        BY <1>1, <1>3, <1>5, <2>2, <3>1, <3>2
  <2> QED
      BY <2>1, <2>2
<1>7. d.bytesUsed = Bytes(Indexed(d)) /\ d.bytesUsed \in Nat
    BY <1>1, <1>2, <1>3, <1>5, IndexedFinite, BytesAdd
<1>8. d.hotBytes = Bytes(Elements(d.hot)) /\ d.hotBytes \in Nat
  <2>1. CASE pin
    <3>1. Elements(d.hot) = Elements(c.hot) \cup {b}
        BY <1>3, <1>5, <1>6, <2>1
    <3>2. d.hotBytes = c.hotBytes + Size[b]
        BY <1>2, <2>1
    <3>3. Bytes(Elements(c.hot) \cup {b}) = Bytes(Elements(c.hot)) + Size[b]
        BY <1>4, IndexedFinite, BytesAdd
    <3> QED
        BY <1>1, <1>3, <3>1, <3>2, <3>3
  <2>2. CASE ~pin
    <3>1. d.hotBytes = c.hotBytes /\ d.hot = c.hot
        BY <1>2, <2>2
    <3> QED
        BY <1>1, <1>3, <3>1, Zenon
  <2> QED
      BY <2>1, <2>2
<1>9. d \in Caches
    BY <1>2, <1>5, <1>6, <1>7, <1>8, Zenon DEF Caches
<1>10. Balanced(d)
    BY <1>6, <1>7, <1>8 DEF Balanced
<1>11. Elements(d.main) \in SUBSET (Elements(c.main) \cup {b})
    BY <1>3, <1>5, <1>6
<1> QED
    BY <1>2, <1>5, <1>9, <1>10, <1>11 DEF d

\* A hit changes the order of a list and nothing else.
LEMMA TouchedBalanced ==
    ASSUME NEW c \in Caches, Balanced(c), NEW b \in Indexed(c)
    PROVE  /\ touched(c, b) \in Caches
           /\ Balanced(touched(c, b))
           /\ touched(c, b).entry = c.entry
           /\ touched(c, b).bytesUsed = c.bytesUsed
           /\ Elements(touched(c, b).main) = Elements(c.main)
<1> DEFINE d == touched(c, b)
           pin == c.entry[b].pinned
<1>1. /\ c.hot \in Seq(BlobIDs) /\ c.main \in Seq(BlobIDs) /\ b \in BlobIDs
    BY DEF Caches, Indexed
<1>2. /\ d.hot = (IF pin THEN MoveToFront(c.hot, b) ELSE c.hot)
      /\ d.main = (IF pin THEN c.main ELSE MoveToFront(c.main, b))
      /\ d.entry = c.entry /\ d.bytesUsed = c.bytesUsed /\ d.hotBytes = c.hotBytes
      /\ d = [hot |-> d.hot, main |-> d.main, entry |-> d.entry,
              bytesUsed |-> d.bytesUsed, hotBytes |-> d.hotBytes]
    BY Zenon DEF touched
<1> HIDE DEF d
<1>3. /\ Elements(c.hot) = {x \in Indexed(c) : c.entry[x].pinned}
      /\ Elements(c.main) = {x \in Indexed(c) : ~c.entry[x].pinned}
      /\ Once(c.hot) /\ Once(c.main)
    BY Zenon DEF Balanced
<1>4. ASSUME NEW s \in Seq(BlobIDs), Once(s), b \in Elements(s)
      PROVE  /\ MoveToFront(s, b) \in Seq(BlobIDs) /\ Once(MoveToFront(s, b))
             /\ Elements(MoveToFront(s, b)) = Elements(s)
  <2>1. /\ Remove(s, b) \in Seq(BlobIDs) /\ Once(Remove(s, b))
        /\ Elements(Remove(s, b)) = Elements(s) \ {b}
      BY <1>4, RemoveList
  <2>2. /\ PushFront(Remove(s, b), b) \in Seq(BlobIDs) /\ Once(PushFront(Remove(s, b), b))
        /\ Elements(PushFront(Remove(s, b), b)) = Elements(Remove(s, b)) \cup {b}
    <3>1. b \notin Elements(Remove(s, b))
        BY <2>1
    <3>2. PICK t \in Seq(BlobIDs) : t = Remove(s, b)
        BY <2>1
    <3>3. PushFront(t, b) \in Seq(BlobIDs) /\ Elements(PushFront(t, b)) = Elements(t) \cup {b}
        BY <1>1, PushFrontList
    <3>4. Once(PushFront(t, b))
        BY <1>1, <2>1, <3>1, <3>2, PushFrontList
    <3> QED
        BY <3>2, <3>3, <3>4
  <2> QED
      BY <1>4, <2>1, <2>2 DEF MoveToFront
<1>5. /\ d.hot \in Seq(BlobIDs) /\ Once(d.hot) /\ Elements(d.hot) = Elements(c.hot)
      /\ d.main \in Seq(BlobIDs) /\ Once(d.main) /\ Elements(d.main) = Elements(c.main)
  <2>1. CASE pin
    <3>1. b \in Elements(c.hot)
        BY <1>3, <2>1
    <3> QED
        BY <1>1, <1>2, <1>3, <1>4, <2>1, <3>1, Zenon
  <2>2. CASE ~pin
    <3>1. b \in Elements(c.main)
        BY <1>3, <2>2
    <3> QED
        BY <1>1, <1>2, <1>3, <1>4, <2>2, <3>1, Zenon
  <2> QED
      BY <2>1, <2>2
<1>6. Indexed(d) = Indexed(c)
    BY <1>2 DEF Indexed
<1>7. d \in Caches
    BY <1>2, <1>5 DEF Caches
<1>8. Balanced(d)
    BY <1>2, <1>5, <1>6, Zenon DEF Balanced
<1> QED
    BY <1>2, <1>5, <1>7, <1>8 DEF d

\* What a scan of a list stops at is an evictable entry of that list.
LEMMA VictimsEvictable ==
    ASSUME NEW c \in Caches, Balanced(c),
           NEW s \in {c.hot, c.main}, NEW v \in Victims(c, s)
    PROVE  v \in Indexed(c) /\ v \in BlobIDs /\ c.entry[v].kind = "evictable"
<1>1. v \in Elements(s) /\ c.entry[v].kind = "evictable"
    BY DEF Victims, Evictable, Elements
<1>2. v \in Indexed(c)
    BY <1>1 DEF Balanced
<1> QED
    BY <1>1, <1>2 DEF Indexed

-----------------------------------------------------------------------------
(* What HotCache sees of a cache and the call that holds its mutex.         *)

\* The call of a Put, of a warm-up and of neither.
LEMMA CallOfSteps ==
    /\ CallOf(NoPut) = [does |-> "nothing"]
    /\ CallOf(Trimming) = [does |-> "warm"]
    /\ \A p : p.step \in PutSteps =>
            CallOf(p) = [does |-> "put", blob |-> p.blob, new |-> p.new.kind]
BY DEF CallOf, PutSteps, NoPut, Trimming

\* Removing an entry that no Put is replacing takes it from what is held.
LEMMA HeldRemoved ==
    ASSUME NEW c \in Caches, Balanced(c), NEW b \in Indexed(c),
           NEW p, p.step \in PutSteps => p.blob # b
    PROVE  HeldFor(removed(c, b), p) = [HeldFor(c, p) EXCEPT ![b] = "absent"]
<1>1. b \in BlobIDs /\ removed(c, b).entry = [c.entry EXCEPT ![b] = NoEntry]
    BY RemovedBalanced DEF Indexed
<1>2. c.entry \in [BlobIDs -> IndexEntries] /\ NoEntry.kind = "absent"
    BY DEF Caches, NoEntry
<1>3. /\ removed(c, b).entry[b].kind = "absent"
      /\ \A x \in BlobIDs \ {b} : removed(c, b).entry[x] = c.entry[x]
    BY <1>1, <1>2
<1> QED
    BY <1>1, <1>3, Zenon DEF HeldFor

\* A Put that starts changes nothing yet, whether or not there was an entry.
LEMMA HeldStarted ==
    ASSUME NEW c \in Caches, Balanced(c), NEW b \in BlobIDs, NEW e \in IndexEntries, NEW d,
           d = IF b \in Indexed(c) THEN removed(c, b) ELSE c
    PROVE  /\ d \in Caches /\ Balanced(d) /\ d.entry[b].kind = "absent" /\ b \notin Indexed(d)
           /\ Started(c, b, e) \in Puts /\ Started(c, b, e).step \in {"hot", "main"}
           /\ Started(c, b, e).blob = b /\ Started(c, b, e).new = e
           /\ HeldFor(d, Started(c, b, e)) = HeldFor(c, NoPut)
<1> DEFINE p == Started(c, b, e)
<1>1. c.entry \in [BlobIDs -> IndexEntries]
    BY DEF Caches
<1>2. c.entry[b].kind \in EntryKinds
    BY <1>1 DEF IndexEntries
<1>3. p \in Puts /\ p.step \in {"hot", "main"} /\ p.blob = b /\ p.new = e /\ p.old = c.entry[b].kind
    BY <1>2 DEF Started, Puts, PutSteps
<1>4. /\ d \in Caches /\ Balanced(d) /\ d.entry[b].kind = "absent"
      /\ \A x \in BlobIDs \ {b} : d.entry[x] = c.entry[x]
  <2>1. CASE b \in Indexed(c)
    <3>1. d \in Caches /\ Balanced(d) /\ d.entry = [c.entry EXCEPT ![b] = NoEntry]
        BY <2>1, RemovedBalanced
    <3> QED
        BY <1>1, <3>1 DEF NoEntry
  <2>2. CASE b \notin Indexed(c)
      BY <2>2 DEF Indexed
  <2> QED
      BY <2>1, <2>2
<1>5. b \notin Indexed(d)
    BY <1>4 DEF Indexed
<1>6. p.step \in PutSteps /\ NoPut.step \notin PutSteps
    BY <1>3 DEF PutSteps, NoPut
<1> HIDE DEF p
<1>7. HeldFor(d, p) = HeldFor(c, NoPut)
    BY <1>3, <1>4, <1>6 DEF HeldFor
<1> QED
    BY <1>3, <1>4, <1>5, <1>7, Zenon DEF p

\* When a Put returns, what is held for its blob is what the index has.
LEMMA HeldReturned ==
    ASSUME NEW c \in Caches, NEW p \in Puts, NEW d,
           \A x \in BlobIDs \ {p.blob} : d.entry[x].kind = c.entry[x].kind
    PROVE  /\ HeldFor(d, NoPut) = [HeldFor(c, p) EXCEPT ![p.blob] = d.entry[p.blob].kind]
           /\ HeldFor(d, Trimming) = [HeldFor(c, p) EXCEPT ![p.blob] = d.entry[p.blob].kind]
<1>1. /\ p.blob \in BlobIDs /\ p.step \in PutSteps
      /\ NoPut.step \notin PutSteps /\ Trimming.step \notin PutSteps
    BY DEF Puts, PutSteps, NoPut, Trimming
<1> QED
    BY <1>1, Zenon DEF HeldFor

\* The entry of a Put is present, pinned only where pins count.
LEMMA NewEntryType ==
    ASSUME NEW pinHot \in BOOLEAN, NEW nonEvictable \in BOOLEAN
    PROVE  /\ NewEntry(pinHot, nonEvictable) \in IndexEntries
           /\ NewEntry(pinHot, nonEvictable).kind \in {"evictable", "protected"}
BY PolicyAssumption DEF NewEntry, IndexEntries, EntryKinds

-----------------------------------------------------------------------------
(* The memory cache.                                                       *)

\* What every step of the memory cache keeps: the blob of a running Put has
\* left the index, so adding its entry cannot count it twice.
MemInv ==
    /\ mem \in Caches /\ Balanced(mem)
    /\ \/ memPut = NoPut
       \/ /\ memPut \in Puts /\ memPut.step \in {"hot", "main"}
          /\ memPut.blob \notin Indexed(mem)
          /\ memPut.new.kind \in {"evictable", "protected"}

\* A new memory cache satisfies the invariant.
LEMMA MemInitInv == MemInit => MemInv
BY EmptyIsBalanced DEF MemInit, MemInv

\* The removal of an indexed blob keeps the invariant, during a Put or not.
LEMMA MemRemoved ==
    ASSUME MemInv, NEW b \in Indexed(mem), mem' = removed(mem, b), UNCHANGED memPut
    PROVE  MemInv'
<1>1. /\ mem' \in Caches /\ Balanced(mem') /\ Indexed(mem') = Indexed(mem) \ {b}
    BY RemovedBalanced, Zenon DEF MemInv
<1> QED
    BY <1>1, Zenon DEF MemInv, Balanced, Indexed

\* Every step of the memory cache keeps the invariant.
LEMMA MemNextInv == MemInv /\ [MemNext]_memVars => MemInv'
<1> SUFFICES ASSUME MemInv, [MemNext]_memVars
             PROVE  MemInv'
    OBVIOUS
<1>1. mem \in Caches /\ Balanced(mem)
    BY DEF MemInv
<1>2. CASE UNCHANGED memVars
    BY <1>2, Zenon DEF memVars, MemInv, Balanced, Indexed
<1>3. ASSUME NEW b \in BlobIDs, MemGet(b)
      PROVE  MemInv'
  <2>1. b \in Indexed(mem) /\ memPut = NoPut /\ memPut' = memPut
      BY <1>3 DEF MemGet
  <2>2. CASE mem' = touched(mem, b)
    <3>1. mem' \in Caches /\ Balanced(mem')
        BY <1>1, <2>1, <2>2, TouchedBalanced
    <3> QED
        BY <2>1, <3>1, Zenon DEF MemInv, Balanced, Indexed
  <2>3. CASE mem' = removed(mem, b)
      BY <2>1, <2>3, MemRemoved
  <2> QED
      BY <1>3, <2>2, <2>3 DEF MemGet
<1>4. ASSUME NEW b \in BlobIDs, MemEvict(b)
      PROVE  MemInv'
    BY <1>4, MemRemoved DEF MemEvict
<1>5. ASSUME NEW b \in BlobIDs, NEW pinHot \in BOOLEAN, NEW nonEvictable \in BOOLEAN,
             MemStartPut(b, pinHot, nonEvictable)
      PROVE  MemInv'
  <2> DEFINE e == NewEntry(pinHot, nonEvictable)
  <2>1. e \in IndexEntries /\ e.kind \in {"evictable", "protected"}
      BY NewEntryType
  <2>2. memPut' = Started(mem, b, e) /\ mem' = IF b \in Indexed(mem) THEN removed(mem, b) ELSE mem
      BY <1>5 DEF MemStartPut
  <2> HIDE DEF e
  <2>3. /\ mem' \in Caches /\ Balanced(mem') /\ b \notin Indexed(mem')
        /\ memPut' \in Puts /\ memPut'.step \in {"hot", "main"}
        /\ memPut'.blob = b /\ memPut'.new = e
      BY <1>1, <2>1, <2>2, HeldStarted
  <2> QED
      BY <2>1, <2>3, Zenon DEF MemInv, Balanced, Indexed
<1>6. CASE MemEvictHot
  <2>1. /\ memPut \in Puts /\ memPut.step = "hot" /\ memPut.blob \notin Indexed(mem)
        /\ memPut.new.kind \in {"evictable", "protected"}
      BY <1>6 DEF MemEvictHot, MemInv, NoPut
  <2>2. CASE HotFull(mem, Incoming(memPut))
    <3>1. PICK b \in Victims(mem, mem.hot) : mem' = removed(mem, b)
        BY <1>6, <2>2 DEF MemEvictHot
    <3> QED
        BY <1>1, <1>6, <2>2, <3>1, VictimsEvictable, MemRemoved DEF MemEvictHot
  <2>3. CASE ~HotFull(mem, Incoming(memPut))
    <3>1. memPut' = [memPut EXCEPT !.step = "main"] /\ mem' = mem
        BY <1>6, <2>3 DEF MemEvictHot
    <3>2. /\ memPut' \in Puts /\ memPut'.step = "main"
          /\ memPut'.blob = memPut.blob /\ memPut'.new = memPut.new
        BY <2>1, <3>1 DEF Puts, PutSteps
    <3>3. mem' \in Caches /\ Balanced(mem)' /\ Indexed(mem)' = Indexed(mem)
        BY <1>1, <3>1, Zenon DEF Balanced, Indexed
    <3> QED
        BY <2>1, <3>2, <3>3, Zenon DEF MemInv
  <2> QED
      BY <2>2, <2>3
<1>7. CASE MemEvictMain
  <2>1. /\ memPut \in Puts /\ memPut.step = "main" /\ memPut.blob \notin Indexed(mem)
        /\ memPut.new.kind \in {"evictable", "protected"}
      BY <1>7 DEF MemEvictMain, MemInv, NoPut
  <2>2. CASE Full(mem, Incoming(memPut))
    <3>1. PICK b \in Victims(mem, Scanned(mem)) : mem' = removed(mem, b)
        BY <1>7, <2>2 DEF MemEvictMain
    <3>2. Scanned(mem) \in {mem.hot, mem.main}
        BY DEF Scanned
    <3> QED
        BY <1>1, <1>7, <2>2, <3>1, <3>2, VictimsEvictable, MemRemoved, Zenon DEF MemEvictMain
  <2>3. CASE ~Full(mem, Incoming(memPut))
    <3>1. memPut' = NoPut /\ mem' = added(mem, memPut.blob, memPut.new)
        BY <1>7, <2>3 DEF MemEvictMain
    <3>2. memPut.blob \in BlobIDs /\ memPut.new \in IndexEntries
        BY <2>1 DEF Puts
    <3>3. mem' \in Caches /\ Balanced(mem')
        BY <1>1, <2>1, <3>1, <3>2, AddedBalanced, Zenon
    <3> QED
        BY <3>1, <3>3, Zenon DEF MemInv, Balanced, Indexed
  <2> QED
      BY <2>2, <2>3
<1> QED
    BY <1>2, <1>3, <1>4, <1>5, <1>6, <1>7 DEF MemNext

\* The invariant holds in every state of the memory cache.
LEMMA MemAlwaysInv == MemSpec => []MemInv
<1> QED
    BY MemInitInv, MemNextInv, PTL DEF MemSpec

\* In every state of the memory cache the counters, the lists and the index
\* agree, whatever the blobs, their sizes and the policy (memory_cache.go).
THEOREM MemoryAccountingHolds == MemSpec => []MemoryAccounting
<1>1. MemInv => MemoryAccounting
    BY DEF MemInv, MemoryAccounting
<1> QED
    BY <1>1, MemAlwaysInv, PTL

\* A removal by the eviction loops is the step of HotCache that makes room.
LEMMA MemMakesRoom ==
    ASSUME MemInv, memPut \in Puts, NEW b \in Indexed(mem), mem.entry[b].kind = "evictable",
           mem' = removed(mem, b), UNCHANGED memPut
    PROVE  MemoryPromise!Next
<1>1. b \in BlobIDs /\ memPut.step \in PutSteps /\ memPut.blob # b
    BY DEF Indexed, MemInv, Puts, PutSteps, NoPut
<1>2. HeldFor(mem', memPut') = [HeldFor(mem, memPut) EXCEPT ![b] = "absent"]
    BY <1>1, HeldRemoved, Zenon DEF MemInv
<1>3. HeldFor(mem, memPut)[b] = "evictable"
    BY <1>1 DEF HeldFor
<1>4. CallOf(memPut).blob = memPut.blob /\ CallOf(memPut) # [does |-> "nothing"]
    BY <1>1, CallOfSteps
<1>5. CallOf(memPut)' = CallOf(memPut)
    BY DEF CallOf, PutSteps
<1> QED
    BY <1>1, <1>2, <1>3, <1>4, <1>5, Zenon
    DEF MemoryPromise!Next, MemoryPromise!MakeRoom, MemoryPromise!NoCall

\* Every step of the memory cache is a step of HotCache, or changes nothing
\* that HotCache sees.
LEMMA MemStepKeepsPromise ==
    ASSUME MemInv, [MemNext]_memVars
    PROVE  [MemoryPromise!Next]_(MemoryPromise!vars)
<1> DEFINE held == HeldFor(mem, memPut)
           call == CallOf(memPut)
<1> USE DEF MemoryPromise!vars
<1>1. mem \in Caches /\ Balanced(mem)
    BY DEF MemInv
<1>2. CASE UNCHANGED memVars
    BY <1>2 DEF memVars, HeldFor, CallOf
<1>3. ASSUME NEW b \in Indexed(mem), memPut = NoPut, memPut' = memPut, mem' = removed(mem, b)
      PROVE  MemoryPromise!Next
  <2>1. NoPut.step \notin PutSteps /\ b \in BlobIDs
      BY DEF NoPut, PutSteps, Indexed
  <2>2. HeldFor(mem', memPut') = [held EXCEPT ![b] = "absent"]
      BY <1>1, <1>3, <2>1, HeldRemoved
  <2>3. call = [does |-> "nothing"] /\ call' = call
      BY <1>3, CallOfSteps, Zenon DEF CallOf, PutSteps
  <2> QED
      BY <2>1, <2>2, <2>3, Zenon DEF MemoryPromise!Next, MemoryPromise!Drop, MemoryPromise!NoCall
<1>4. ASSUME NEW b \in BlobIDs, MemGet(b)
      PROVE  [MemoryPromise!Next]_(MemoryPromise!vars)
  <2>1. b \in Indexed(mem) /\ memPut = NoPut /\ memPut' = memPut
      BY <1>4 DEF MemGet
  <2>2. CASE mem' = touched(mem, b)
    <3>1. mem'.entry = mem.entry
        BY <1>1, <2>1, <2>2, TouchedBalanced
    <3> QED
        BY <2>1, <3>1, Zenon DEF HeldFor, CallOf
  <2>3. CASE mem' = removed(mem, b)
      BY <1>3, <2>1, <2>3
  <2> QED
      BY <1>4, <2>2, <2>3, Zenon DEF MemGet
<1>5. ASSUME NEW b \in BlobIDs, MemEvict(b)
      PROVE  MemoryPromise!Next
    BY <1>3, <1>5 DEF MemEvict
<1>6. ASSUME NEW b \in BlobIDs, NEW pinHot \in BOOLEAN, NEW nonEvictable \in BOOLEAN,
             MemStartPut(b, pinHot, nonEvictable)
      PROVE  MemoryPromise!Next
  <2> DEFINE e == NewEntry(pinHot, nonEvictable)
  <2>1. e \in IndexEntries /\ e.kind \in {"evictable", "protected"}
      BY NewEntryType
  <2>2. /\ memPut = NoPut /\ memPut' = Started(mem, b, e)
        /\ mem' = IF b \in Indexed(mem) THEN removed(mem, b) ELSE mem
      BY <1>6 DEF MemStartPut
  <2> HIDE DEF e
  <2>3. /\ memPut'.step \in {"hot", "main"} /\ memPut'.blob = b /\ memPut'.new = e
        /\ HeldFor(mem', memPut') = held
      BY <1>1, <2>1, <2>2, HeldStarted
  <2>4. call = [does |-> "nothing"]
      BY <2>2, CallOfSteps, Zenon
  <2>5. CallOf(memPut') = [does |-> "put", blob |-> b, new |-> e.kind]
      BY <2>3, CallOfSteps DEF PutSteps
  <2>6. MemoryPromise!Begin(b, e.kind)
      BY <2>3, <2>4, <2>5, Zenon DEF MemoryPromise!Begin, MemoryPromise!NoCall
  <2> QED
      BY <2>1, <2>6 DEF MemoryPromise!Next, MemoryPromise!Kinds
<1>7. CASE MemEvictHot
  <2>1. memPut \in Puts /\ memPut.step = "hot"
      BY <1>7 DEF MemEvictHot, MemInv, NoPut
  <2>2. CASE HotFull(mem, Incoming(memPut))
    <3>1. PICK b \in Victims(mem, mem.hot) : mem' = removed(mem, b)
        BY <1>7, <2>2 DEF MemEvictHot
    <3>2. memPut' = memPut
        BY <1>7, <2>2 DEF MemEvictHot
    <3> QED
        BY <1>1, <2>1, <3>1, <3>2, VictimsEvictable, MemMakesRoom, Zenon
  <2>3. CASE ~HotFull(mem, Incoming(memPut))
    <3>1. memPut' = [memPut EXCEPT !.step = "main"] /\ mem' = mem
        BY <1>7, <2>3 DEF MemEvictHot
    <3>2. memPut'.step = "main" /\ memPut'.blob = memPut.blob
          /\ memPut'.new = memPut.new /\ memPut'.old = memPut.old
        BY <2>1, <3>1 DEF Puts
    <3> QED
        BY <2>1, <3>1, <3>2 DEF HeldFor, CallOf, PutSteps
  <2> QED
      BY <2>2, <2>3
<1>8. CASE MemEvictMain
  <2>1. /\ memPut \in Puts /\ memPut.step = "main" /\ memPut.blob \notin Indexed(mem)
        /\ memPut.new.kind \in {"evictable", "protected"}
      BY <1>8 DEF MemEvictMain, MemInv, NoPut
  <2>2. CASE Full(mem, Incoming(memPut))
    <3>1. PICK b \in Victims(mem, Scanned(mem)) : mem' = removed(mem, b)
        BY <1>8, <2>2 DEF MemEvictMain
    <3>2. memPut' = memPut /\ Scanned(mem) \in {mem.hot, mem.main}
        BY <1>8, <2>2 DEF MemEvictMain, Scanned
    <3> QED
        BY <1>1, <2>1, <3>1, <3>2, VictimsEvictable, MemMakesRoom, Zenon
  <2>3. CASE ~Full(mem, Incoming(memPut))
    <3>1. memPut' = NoPut /\ mem' = added(mem, memPut.blob, memPut.new)
        BY <1>8, <2>3 DEF MemEvictMain
    <3>2. memPut.blob \in BlobIDs /\ memPut.new \in IndexEntries /\ memPut.step \in PutSteps
        BY <2>1 DEF Puts
    <3>3. mem'.entry = [mem.entry EXCEPT ![memPut.blob] = memPut.new]
        BY <1>1, <2>1, <3>1, <3>2, AddedBalanced
    <3>4. /\ mem'.entry[memPut.blob] = memPut.new
          /\ \A x \in BlobIDs \ {memPut.blob} : mem'.entry[x].kind = mem.entry[x].kind
        BY <1>1, <3>2, <3>3, Zenon DEF Caches
    <3>5. HeldFor(mem', NoPut) = [held EXCEPT ![memPut.blob] = memPut.new.kind]
        BY <1>1, <2>1, <3>4, HeldReturned
    <3>6. /\ call = [does |-> "put", blob |-> memPut.blob, new |-> memPut.new.kind]
          /\ CallOf(memPut') = [does |-> "nothing"]
        BY <3>1, <3>2, CallOfSteps, Zenon
    <3>7. call \in [does : {"put"}, blob : BlobIDs, new : {"protected", "evictable"}]
        BY <2>1, <3>2, <3>6
    <3> QED
        BY <3>1, <3>5, <3>6, <3>7
        DEF MemoryPromise!Next, MemoryPromise!Return, MemoryPromise!Puts,
            MemoryPromise!Kinds, MemoryPromise!NoCall
  <2> QED
      BY <2>2, <2>3
<1> QED
    BY <1>2, <1>4, <1>5, <1>6, <1>7, <1>8 DEF MemNext

\* The memory cache implements HotCache, whatever the blobs, their sizes, the
\* budget, the pins and the expiries: evictHotLocked and evictMainLocked give
\* up evictable entries of other blobs only.
THEOREM MemoryPromiseHolds == MemSpec => MemoryKeepsPromise
<1>1. MemInit => MemoryPromise!Init
  <2> SUFFICES ASSUME MemInit
               PROVE  MemoryPromise!Init
      OBVIOUS
  <2>1. mem.entry = [b \in BlobIDs |-> NoEntry] /\ memPut = NoPut
      BY DEF MemInit, EmptyCache
  <2>2. NoPut.step \notin PutSteps /\ NoEntry.kind = "absent"
      BY DEF NoPut, PutSteps, NoEntry
  <2>3. HeldFor(mem, memPut) = [b \in BlobIDs |-> "absent"]
      BY <2>1, <2>2 DEF HeldFor
  <2>4. CallOf(memPut) = [does |-> "nothing"]
      BY <2>1, CallOfSteps
  <2> QED
      BY <2>3, <2>4 DEF MemoryPromise!Init, MemoryPromise!NoCall
<1> QED
    BY <1>1, MemStepKeepsPromise, MemAlwaysInv, PTL
    DEF MemSpec, MemoryKeepsPromise, MemoryPromise!Spec

=============================================================================
