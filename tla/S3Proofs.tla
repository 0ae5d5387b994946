------------------------------ MODULE S3Proofs ------------------------------
(* Proofs about S3Store, for any callers, any page size and any failures,   *)
(* and about MultipartPromotion, for every number of parts and workers:     *)
(* what becomes visible is whole, no upload stays open behind a promotion   *)
(* that has returned, and the pooled buffers are bounded.                   *)
EXTENDS S3Store, MultipartPromotion, FiniteSetTheorems, TLAPS

-----------------------------------------------------------------------------
(* The provider: the bucket, the results and the purge.                    *)

Versions == [key : ObjectKeys, id : Nat, locked : BOOLEAN]

\* What is in the bucket: finitely many versions, none newer than newest, one
\* per version ID.
BucketInv ==
    /\ newest \in Nat
    /\ bucket \subseteq Versions /\ IsFiniteSet(bucket)
    /\ \A v \in bucket : v.id <= newest
    /\ \A v, w \in bucket : v.id = w.id => v = w

CallsInv ==
    /\ call = [c \in Callers |-> call[c]]
    /\ answer \in [Callers -> {"none", "ok", "err"}]

\* No version of the bucket that the purge must remove is left, but for those
\* it has listed and those the bucket refused.
Left(c, listed) ==
    \A v \in bucket : v.id \in call[c].start => v.id \in call[c].refused \cup listed

\* A set of version IDs that are, now and later, those of versions of key k.
IDsFor(k, ids) ==
    /\ ids \subseteq Nat /\ \A i \in ids : i <= newest
    /\ \A v \in bucket : v.id \in ids => v.key = k

PurgeInv(c) ==
    /\ call[c].kind \in {"list", "delete"} => IDsFor(call[c].key, call[c].start)
    /\ call[c].kind = "list" /\ call[c].fits => call[c].marker = 0 \/ Left(c, {})
    /\ call[c].kind = "delete" =>
        /\ IDsFor(call[c].key, {v.id : v \in call[c].objects})
        /\ call[c].fits => Left(c, {v.id : v \in call[c].objects})

S3Inv == BucketInv /\ CallsInv /\ \A c \in Callers : PurgeInv(c)

\* The bucket changed, but no old version ID came back or changed its key.
Evolves ==
    /\ newest' \in Nat /\ newest <= newest'
    /\ \A v \in bucket' : v.id > newest \/ \E w \in bucket : w.id = v.id /\ w.key = v.key

\* What others do to the bucket keeps the invariant of a purge.
LEMMA PurgeInvRest ==
    ASSUME NEW c \in Callers, BucketInv, BucketInv', Evolves, PurgeInv(c), call'[c] = call[c]
    PROVE  PurgeInv(c)'
<1>1. ASSUME NEW v \in bucket', v.id \in Nat, v.id <= newest
      PROVE  \E w \in bucket : w.id = v.id /\ w.key = v.key
    BY <1>1 DEF Evolves, BucketInv
<1>2. \A v \in bucket' : v.id \in Nat
    BY DEF BucketInv, Versions
<1>3. (call[c].kind \in {"list", "delete"} => IDsFor(call[c].key, call[c].start))'
    BY <1>1, <1>2 DEF PurgeInv, IDsFor, Evolves, BucketInv
<1>4. (call[c].kind = "list" /\ call[c].fits => call[c].marker = 0 \/ Left(c, {}))'
    BY <1>1, <1>2 DEF PurgeInv, IDsFor, Left
<1>5. (call[c].kind = "delete" => IDsFor(call[c].key, {v.id : v \in call[c].objects}))'
    BY <1>1, <1>2 DEF PurgeInv, IDsFor, Evolves, BucketInv
<1>6. (call[c].kind = "delete" /\ call[c].fits => Left(c, {v.id : v \in call[c].objects}))'
    BY <1>1, <1>2 DEF PurgeInv, IDsFor, Left
<1> QED
    BY <1>3, <1>4, <1>5, <1>6 DEF PurgeInv

\* A write adds a version with a new ID.
LEMMA StoredBucket ==
    ASSUME NEW k \in ObjectKeys, NEW locked \in BOOLEAN, BucketInv, Stored(k, locked)
    PROVE  BucketInv' /\ Evolves
<1> DEFINE new == NewVersion(k, locked)
<1>1. new \in Versions /\ new.id = newest + 1 /\ newest' = newest + 1 /\ bucket' = bucket \cup {new}
    BY DEF BucketInv, Stored, NewVersion, Versions
<1>2. IsFiniteSet(bucket')
    BY <1>1, FS_AddElement DEF BucketInv
<1> HIDE DEF new
<1> QED
    BY <1>1, <1>2 DEF BucketInv, Evolves, Versions

\* Removals leave old versions only.
LEMMA RemovedBucket ==
    ASSUME BucketInv, bucket' \subseteq bucket, newest' = newest
    PROVE  BucketInv' /\ Evolves
<1>1. IsFiniteSet(bucket')
    BY FS_Subset DEF BucketInv
<1> QED
    BY <1>1 DEF BucketInv, Evolves, Versions

\* A lock changes neither ID nor key.
LEMMA LockedBucket ==
    ASSUME NEW v \in bucket, BucketInv, SetLock(v)
    PROVE  BucketInv' /\ Evolves
<1> DEFINE new == [v EXCEPT !.locked = ~@]
<1>1. new \in Versions /\ new.id = v.id /\ new.key = v.key
    BY Zenon DEF BucketInv, Versions
<1>2. bucket' = (bucket \ {v}) \cup {new} /\ newest' = newest
    BY DEF SetLock
<1>3. IsFiniteSet(bucket')
    BY <1>2, FS_AddElement, FS_RemoveElement, Zenon DEF BucketInv
<1> HIDE DEF new
<1> QED
    BY <1>1, <1>2, <1>3 DEF BucketInv, Evolves, Versions

\* A call that ends, or that only waits for its HEAD, holds nothing of a purge.
LEMMA OthersKept ==
    ASSUME S3Inv, BucketInv', Evolves, NEW c \in Callers, NEW r, NEW res \in {"none", "ok", "err"},
           call' = [call EXCEPT ![c] = r], answer' = [answer EXCEPT ![c] = res],
           r.kind \notin {"list", "delete"}
    PROVE  S3Inv'
<1>1. CallsInv' /\ call'[c] = r /\ \A d \in Callers \ {c} : call'[d] = call[d]
    BY DEF S3Inv, CallsInv
<1>2. PurgeInv(c)'
    BY <1>1 DEF PurgeInv
<1> QED
    BY <1>1, <1>2, PurgeInvRest DEF S3Inv

\* Put and Delete keep the invariant.
LEMMA PutStep ==
    ASSUME S3Inv, NEW c \in Callers, NEW k \in ObjectKeys, NEW locked \in BOOLEAN,
           PutObject(c, k, locked)
    PROVE  S3Inv'
<1>1. BucketInv' /\ Evolves
    BY StoredBucket DEF S3Inv, PutObject
<1> QED
    BY <1>1, OthersKept DEF PutObject, Ends, NoCall

\* The first request of CompleteMultipart and of a copy keeps the invariant.
LEMMA AssembleStep ==
    ASSUME S3Inv, NEW c \in Callers, NEW k \in ObjectKeys, NEW exact, Assemble(c, k, exact)
    PROVE  S3Inv'
<1>1. BucketInv' /\ Evolves
    BY StoredBucket, Zenon DEF S3Inv, Assemble
<1> QED
    BY <1>1, OthersKept DEF Assemble, Ends, Begins, NoCall

\* A step that leaves the bucket alone.
LEMMA Still == ASSUME BucketInv, UNCHANGED <<bucket, newest>> PROVE BucketInv' /\ Evolves
    BY RemovedBucket

\* The HEAD that names a version sees that one or none.
LEMMA HeadStep == ASSUME S3Inv, NEW c \in Callers, HeadAfter(c) PROVE S3Inv'
<1>1. BucketInv' /\ Evolves
    BY Still DEF S3Inv, HeadAfter
<1>2. PICK seen : Ends(c, Result(c, seen)) /\ (call[c].exact => seen \subseteq {call[c].id})
    BY DEF HeadAfter
<1>3. Result(c, seen) = "ok"
    BY <1>2 DEF Result
<1> QED
    BY <1>1, <1>2, <1>3, OthersKept, Zenon DEF Ends, NoCall

\* A step of one purge keeps the invariant of the others.
LEMMA PurgeKept ==
    ASSUME S3Inv, BucketInv', Evolves, NEW c \in Callers, PurgeInv(c)', NEW r,
           call' = [call EXCEPT ![c] = r],
           answer' = answer \/ \E res \in {"none", "ok", "err"} : answer' = [answer EXCEPT ![c] = res]
    PROVE  S3Inv'
<1>1. CallsInv' /\ \A d \in Callers \ {c} : call'[d] = call[d]
    BY DEF S3Inv, CallsInv
<1> QED
    BY <1>1, PurgeInvRest DEF S3Inv

\* A purge begins with the IDs of its key.
LEMMA StartStep == ASSUME S3Inv, NEW c \in Callers, NEW k \in ObjectKeys, StartPurge(c, k) PROVE S3Inv'
<1>1. BucketInv' /\ Evolves
    BY Still DEF S3Inv, StartPurge
<1>2. IDsFor(k, IDsOf(k))
    BY DEF S3Inv, BucketInv, Versions, IDsFor, IDsOf, Of
<1> DEFINE r == [kind |-> "list", key |-> k, marker |-> 0, start |-> IDsOf(k), fits |-> TRUE,
                 refused |-> {}]
<1>3. call' = [call EXCEPT ![c] = r] /\ call'[c] = r
    BY DEF S3Inv, CallsInv, StartPurge, Begins
<1>4. PurgeInv(c)'
  <2>1. newest' = newest /\ bucket' = bucket
      BY Zenon DEF StartPurge
  <2> QED
      BY <1>2, <1>3, <2>1 DEF PurgeInv, IDsFor
<1> QED
    BY <1>1, <1>3, <1>4, PurgeKept, Zenon DEF StartPurge, Begins

\* The first page has every version of the key, when they fit on a page.
LEMMA FirstPage ==
    ASSUME BucketInv, NEW k \in ObjectKeys, Cardinality(Of(k)) <= MaxKeys
    PROVE  Of(k) \subseteq Objects(k, ListedPage(k, 0))
<1> SUFFICES ASSUME NEW v \in Of(k)
             PROVE  v \in ListedPage(k, 0) /\ v.key = k
    BY DEF Objects
<1> DEFINE before == {w \in Covered(k, 0) : Precedes(w, v)}
<1>1. v.key = k /\ v \in Covered(k, 0)
    BY S3Assumption DEF Of, Covered, BucketInv, Versions
<1>2. before \subseteq Of(k) \ {v}
  <2> SUFFICES ASSUME NEW w \in before PROVE w \in Of(k) /\ w # v
      OBVIOUS
  <2>1. w \in bucket /\ w.key \in Nat /\ w.id \in Nat /\ v.id \in Nat /\ k \in Nat
      BY S3Assumption, Zenon DEF Covered, Of, BucketInv, Versions
  <2>2. w.key >= k /\ (w.key < v.key \/ (w.key = v.key /\ w.id > v.id))
      BY DEF Covered, Precedes
  <2> QED
      BY <1>1, <2>1, <2>2 DEF Of
<1>3. IsFiniteSet(Of(k))
    BY FS_Subset DEF Of, BucketInv
<1>4. /\ Cardinality(Of(k)) \in Nat
      /\ IsFiniteSet(Of(k) \ {v}) /\ Cardinality(Of(k) \ {v}) = Cardinality(Of(k)) - 1
    BY <1>3, FS_CardinalityType, FS_RemoveElement
<1>5. Cardinality(before) \in Nat /\ Cardinality(before) <= Cardinality(Of(k)) - 1
    BY <1>2, <1>4, FS_Subset, FS_CardinalityType
<1>6. Cardinality(before) < MaxKeys
    BY <1>4, <1>5, S3Assumption
<1> QED
    BY <1>1, <1>6 DEF ListedPage

\* A page has only versions of the key, and the first page has all if they fit.
LEMMA ListStep == ASSUME S3Inv, NEW c \in Callers, List(c) PROVE S3Inv'
<1>1. BucketInv' /\ Evolves
    BY Still DEF S3Inv, List
<1>2. CASE Ends(c, "err")
    BY <1>1, <1>2, OthersKept, Zenon DEF Ends, NoCall
<1> DEFINE k == call[c].key
           page == ListedPage(k, call[c].marker)
           objects == Objects(k, page)
           fits == call[c].fits /\ Cardinality(Of(k)) <= MaxKeys
<1>3. ASSUME NEW ends, NEW marker,
             call' = [call EXCEPT ![c] =
                [kind |-> "delete", key |-> k, start |-> call[c].start, refused |-> call[c].refused,
                 fits |-> fits, objects |-> objects, ends |-> ends, marker |-> marker]],
             answer' = answer
      PROVE  S3Inv'
  <2>1. /\ call'[c] = [kind |-> "delete", key |-> k, start |-> call[c].start,
                       refused |-> call[c].refused, fits |-> fits, objects |-> objects,
                       ends |-> ends, marker |-> marker]
        /\ bucket' = bucket /\ newest' = newest /\ call[c].kind = "list" /\ PurgeInv(c)
      BY <1>3 DEF S3Inv, CallsInv, List
  <2>2. IDsFor(k, {v.id : v \in objects})
      BY Zenon DEF Objects, ListedPage, Covered, IDsFor, S3Inv, BucketInv, Versions
  <2>3. ASSUME fits PROVE Left(c, {v.id : v \in objects})
    <3>1. CASE call[c].marker = 0
        BY <2>1, <2>3, <3>1, FirstPage DEF PurgeInv, IDsFor, Left, Of, S3Inv, BucketInv, Versions
    <3> QED
        BY <2>1, <2>3, <3>1 DEF PurgeInv, Left
  <2> HIDE DEF objects, fits, k
  <2>4. IDsFor(k, call[c].start)
      BY <2>1 DEF PurgeInv, k
  <2>5. PurgeInv(c)'
    <3>1. call'[c].kind = "delete" /\ IDsFor(call[c].key, call[c].start)'
        BY <2>1, <2>4 DEF IDsFor
    <3>2. IDsFor(call[c].key, {v.id : v \in call[c].objects})'
        BY <2>1, <2>2 DEF IDsFor
    <3>3. (call[c].fits => Left(c, {v.id : v \in call[c].objects}))'
        BY <2>1, <2>3 DEF Left
    <3> QED
        BY <3>1, <3>2, <3>3 DEF PurgeInv
  <2> QED
      BY <1>1, <1>3, <2>5, PurgeKept, Zenon
<1> QED
    BY <1>2, <1>3 DEF List

\* What was listed is gone, except for what the bucket refused.
LEMMA DeleteStep == ASSUME S3Inv, NEW c \in Callers, DeleteObjects(c) PROVE S3Inv'
<1>1. BucketInv' /\ Evolves
    BY RemovedBucket DEF S3Inv, DeleteObjects
<1>2. CASE \E res \in {"ok", "err"} : Ends(c, res)
    BY <1>1, <1>2, OthersKept, Zenon DEF Ends, NoCall
<1> DEFINE next == [kind |-> "list", key |-> call[c].key, marker |-> call[c].marker,
                    start |-> call[c].start, fits |-> call[c].fits, refused |-> Refused(c)]
<1>3. CASE /\ bucket' = {v \in bucket : v.locked \/ v.id \notin {w.id : w \in call[c].objects}}
           /\ call' = [call EXCEPT ![c] = next] /\ answer' = answer
  <2>1. call'[c] = next /\ PurgeInv(c) /\ newest' = newest /\ call[c].kind = "delete"
      BY <1>3 DEF S3Inv, CallsInv, DeleteObjects
  <2>2. ASSUME call[c].fits, NEW v \in bucket', v.id \in call[c].start
        PROVE  v.id \in Refused(c)
      BY <1>3, <2>1, <2>2 DEF PurgeInv, Left, Refused
  <2>3. PurgeInv(c)'
      BY <1>3, <2>1, <2>2 DEF PurgeInv, Left, IDsFor
  <2> QED
      BY <1>1, <1>3, <2>3, PurgeKept, Zenon
<1> QED
    BY <1>2, <1>3 DEF DeleteObjects

\* The invariant holds initially.
LEMMA S3InvInit == S3Init => S3Inv
<1> SUFFICES ASSUME S3Init PROVE S3Inv
    OBVIOUS
<1>1. BucketInv
    BY FS_EmptySet DEF S3Init, BucketInv, Versions
<1> QED
    BY <1>1 DEF S3Init, S3Inv, CallsInv, PurgeInv, NoCall

\* Every step keeps the invariant.
LEMMA S3InvStep == S3Inv /\ [S3Next]_s3Vars => S3Inv'
<1> SUFFICES ASSUME S3Inv, [S3Next]_s3Vars PROVE S3Inv'
    OBVIOUS
<1>1. ASSUME NEW c \in Callers, NEW k \in ObjectKeys,
             \/ StartPurge(c, k) \/ \E locked \in BOOLEAN : PutObject(c, k, locked)
             \/ DeleteObject(c, k) \/ CompleteMultipartUpload(c, k) \/ CopyWithinProvider(c, k)
      PROVE  S3Inv'
    BY <1>1, StartStep, PutStep, AssembleStep, Zenon
       DEF DeleteObject, CompleteMultipartUpload, CopyWithinProvider
<1>2. ASSUME NEW c \in Callers, HeadAfter(c) \/ Purging(c)
      PROVE  S3Inv'
    BY <1>2, HeadStep, ListStep, DeleteStep DEF Purging
<1>3. ASSUME NEW v \in bucket, SetLock(v) \/ DeleteObjectVersion(v)
      PROVE  S3Inv'
  <2>1. BucketInv' /\ Evolves /\ call' = call /\ answer' = answer
      BY <1>3, LockedBucket, RemovedBucket DEF S3Inv, SetLock, DeleteObjectVersion
  <2> QED
      BY <2>1, PurgeInvRest DEF S3Inv, CallsInv
<1>4. CASE UNCHANGED s3Vars
  <2>1. BucketInv' /\ Evolves /\ call' = call /\ answer' = answer
      BY <1>4, Still DEF S3Inv, s3Vars
  <2> QED
      BY <2>1, PurgeInvRest DEF S3Inv, CallsInv
<1> QED
    BY <1>1, <1>2, <1>3, <1>4 DEF S3Next

\* S3Inv is an invariant: one version per ID, and a purge under way has listed,
\* or has been refused, every version it began with that is still there.
THEOREM S3InvHolds == S3Spec => []S3Inv
    BY S3InvInit, S3InvStep, PTL DEF S3Spec

\* CompleteMultipart never returns the size and the checksum of another version,
\* for any callers and any failures between its two requests.
THEOREM ResultNamesItsVersionHolds == S3Spec => []ResultNamesItsVersion
<1>1. S3Inv => ResultNamesItsVersion
    BY DEF S3Inv, CallsInv, ResultNamesItsVersion
<1> QED
    BY <1>1, S3InvHolds, PTL

\* No DeleteObjects of a purge removes a version of another key, although the
\* listing is by prefix and the deletion by version ID, for any keys and callers.
THEOREM PurgeKeepsOthersHolds == S3Spec => PurgeKeepsOthers
<1>1. S3Inv /\ [S3Next]_s3Vars => [PurgeKeepsOthersStep]_s3Vars
  <2> SUFFICES ASSUME S3Inv, NEW c \in Callers, DeleteObjects(c), NEW v \in bucket \ bucket'
               PROVE  v.key = call[c].key
      BY DEF PurgeKeepsOthersStep
  <2>1. call[c].kind = "delete" /\ v.id \in {w.id : w \in call[c].objects}
      BY DEF DeleteObjects
  <2> QED
      BY <2>1, Zenon DEF S3Inv, PurgeInv, IDsFor
<1> QED
    BY <1>1, S3InvHolds, PTL DEF S3Spec, PurgeKeepsOthers

\* A purge that returned nil has removed every version its key had when it began,
\* except those the bucket refused, provided they fitted on one page, for any page
\* size and any concurrent writes, locks and deletions.
THEOREM PurgeCompleteHolds == S3Spec => PurgeComplete
<1>1. S3Inv /\ [S3Next]_s3Vars => [PurgeCompleteStep]_s3Vars
  <2> SUFFICES ASSUME S3Inv, NEW c \in Callers, Purged(c), call[c].fits,
                      NEW v \in bucket', v.id \in call[c].start, v.id \notin Refused(c)
               PROVE  FALSE
      BY DEF PurgeCompleteStep, Forgotten
  <2>1. call[c].kind = "delete" /\ PurgeInv(c)
      BY DEF S3Inv, Purged, DeleteObjects
  <2>2. ~Ends(c, "err")
      BY DEF Purged, Ends, S3Inv, CallsInv
  <2>3. bucket' = {w \in bucket : w.locked \/ w.id \notin {o.id : o \in call[c].objects}}
      BY <2>2 DEF Purged, DeleteObjects
  <2> QED
      BY <2>1, <2>3 DEF PurgeInv, Left, Refused
<1> QED
    BY <1>1, S3InvHolds, PTL DEF S3Spec, PurgeComplete

-----------------------------------------------------------------------------
(* Multipart promotion: the inductive invariant.                           *)

Results == [part : Nat, ok : BOOLEAN]
Busy == {"upload", "sendOk", "sendErr"}

MultipartType ==
    /\ promoter \in {"create", "collect", "complete", "abort", "cancel", "done"}
    /\ reader \in {"off", "check", "read", "send", "exit"}
    /\ partNum \in Nat \ {0}
    /\ last \in BOOLEAN
    /\ partCh \in Seq(Nat)
    /\ resultCh \in Seq(Results)
    /\ worker \in [Workers -> {"off", "receive", "exit"} \cup Busy]
    /\ inHand \in [Workers -> Nat]

\* Where a part may be once the reader has sent it.
Queued(n) == \E i \in 1..Len(partCh) : partCh[i] = n
Held(n) == \E w \in Workers : worker[w] \in Busy /\ inHand[w] = n
Answered(n) == \E i \in 1..Len(resultCh) : resultCh[i].part = n

\* No part the reader has sent is dropped on its way to the collector, and the
\* collector sees no other.
NoneDropped ==
    \A n \in Nat : n \in 1..(partNum - 1) <=>
        Queued(n) \/ Held(n) \/ Answered(n) \/ n \in collected

\* Workers outlive the reader and empty the queue.
WorkersLast ==
    \A w \in Workers : worker[w] = "exit" => reader = "exit" /\ partCh = <<>>

\* Nothing has happened before the upload is created.
NotStarted == promoter = "create" => object = {} /\ \A w \in Workers : worker[w] = "off"

\* Past its last check the promoter has every part, and nothing runs beside it
\* that could still change what was read.
CheckedWhole ==
    /\ promoter = "complete" => collected = Parts /\ intact /\ reader = "exit"
    /\ object # {} => object = Parts /\ intact /\ reader = "exit"

\* What is known of the upload as the promoter ends.
Ending ==
    /\ outcome = "ok" =>
        object = Parts /\ multipartUpload = "completed" /\ promoter \in {"cancel", "done"}
    /\ promoter \in {"cancel", "done"} => multipartUpload # "open" \/ lost

MultipartInv ==
    /\ MultipartType /\ NoneDropped /\ WorkersLast /\ NotStarted
    /\ CheckedWhole /\ Ending
    /\ collected \subseteq Nat
    /\ Len(partCh) <= Parallelism

-----------------------------------------------------------------------------
(* Lemmas.                                                                 *)

\* The pool is finite and not empty.
LEMMA ParallelismPositive == Parallelism \in Nat \ {0}
BY MultipartAssumption, FS_CardinalityType, FS_EmptySet DEF Parallelism

\* What the promoter has is not changed by the other goroutines, nor by the
\* caller: such a step keeps the facts about its end.
LEMMA PromoterRests ==
    ASSUME MultipartInv,
           UNCHANGED <<promoter, outcome, collected, multipartUpload, object, lost>>,
           reader = "exit" => UNCHANGED <<reader, intact>>
    PROVE  CheckedWhole' /\ Ending' /\ (collected \subseteq Nat)'
BY DEF MultipartInv, CheckedWhole, Ending, Parts

\* A step that touches neither the channels nor the workers keeps the facts
\* about them.
LEMMA PoolRests ==
    ASSUME MultipartInv, UNCHANGED <<partNum, pool, collected>>,
           reader = "exit" => reader' = "exit"
    PROVE  /\ NoneDropped' /\ WorkersLast' /\ (Len(partCh) <= Parallelism)'
           /\ partCh' \in Seq(Nat) /\ resultCh' \in Seq(Results)
           /\ worker' \in [Workers -> {"off", "receive", "exit"} \cup Busy]
           /\ inHand' \in [Workers -> Nat]
BY DEF MultipartInv, MultipartType, NoneDropped, Queued, Held, Answered, WorkersLast, Parallelism, pool

-----------------------------------------------------------------------------
(* The promoter.                                                           *)

\* The upload is created and the goroutines start.
LEMMA StartUploadStep == MultipartInv /\ StartUpload => MultipartInv'
<1> SUFFICES ASSUME MultipartInv, StartUpload PROVE MultipartInv'
    OBVIOUS
<1>1. MultipartType' /\ NotStarted'
    BY DEF MultipartInv, MultipartType, NotStarted, StartUpload, Busy
<1>2. \A n \in Nat : ~Held(n) /\ ~Held(n)'
    BY DEF MultipartInv, NotStarted, Held, StartUpload, Busy
<1>3. NoneDropped'
    BY <1>2 DEF MultipartInv, NoneDropped, Queued, Answered, StartUpload
<1>4. WorkersLast' /\ CheckedWhole' /\ Ending'
    BY Zenon DEF MultipartInv, NotStarted, WorkersLast, CheckedWhole, Ending, StartUpload, Parts
<1> QED
    BY <1>1, <1>3, <1>4 DEF MultipartInv, StartUpload, Parallelism

\* The collector takes a result.
LEMMA CollectStep == MultipartInv /\ Collect => MultipartInv'
<1> SUFFICES ASSUME MultipartInv, Collect PROVE MultipartInv'
    OBVIOUS
<1> USE DEF MultipartInv
<1>1. /\ Head(resultCh) = resultCh[1] /\ resultCh[1] \in Results
      /\ resultCh' \in Seq(Results) /\ Len(resultCh') = Len(resultCh) - 1
      /\ Len(resultCh) \in Nat \ {0}
      /\ \A i \in 1..Len(resultCh') : resultCh'[i] = resultCh[i + 1]
    BY DEF Collect, MultipartType
<1>2. \A n \in Nat : Answered(n) \/ n \in collected <=> Answered(n)' \/ n \in collected'
  <2> TAKE n \in Nat
  <2>1. ASSUME Answered(n) PROVE Answered(n)' \/ n \in collected'
    <3>1. PICK i \in 1..Len(resultCh) : resultCh[i].part = n
        BY <2>1 DEF Answered
    <3>2. CASE i = 1
        BY <1>1, <3>1, <3>2 DEF Collect
    <3>3. CASE i # 1
      <4>1. i - 1 \in 1..Len(resultCh') /\ resultCh'[i - 1] = resultCh[i]
          BY <1>1, <3>3
      <4> QED
          BY <3>1, <4>1 DEF Answered
    <3> QED
        BY <3>2, <3>3
  <2>2. ASSUME Answered(n)' PROVE Answered(n)
    <3>1. PICK i \in 1..Len(resultCh') : resultCh'[i].part = n
        BY <2>2 DEF Answered
    <3>2. i + 1 \in 1..Len(resultCh) /\ resultCh[i + 1].part = n
        BY <1>1, <3>1
    <3> QED
        BY <3>2 DEF Answered
  <2>3. ASSUME n \in collected' PROVE Answered(n) \/ n \in collected
      BY <1>1, <2>3 DEF Collect, Answered
  <2> QED
      BY <2>1, <2>2, <2>3 DEF Collect
<1>3. NoneDropped'
    BY <1>2 DEF Collect, NoneDropped, Queued, Held, reading
<1>4. MultipartType' /\ (collected \subseteq Nat)'
    BY <1>1, Zenon DEF Collect, Fail, MultipartType, Results, reading
<1>5. WorkersLast' /\ NotStarted' /\ CheckedWhole' /\ Ending' /\ (Len(partCh) <= Parallelism)'
    BY DEF Collect, Fail, WorkersLast, NotStarted, CheckedWhole, Ending, Parallelism, Parts,
           reading, remote
<1> QED
    BY <1>3, <1>4, <1>5

\* The collector drains after a failure.
LEMMA DrainStep == MultipartInv /\ Drain => MultipartInv'
<1> SUFFICES ASSUME MultipartInv, Drain PROVE MultipartInv'
    OBVIOUS
<1> USE DEF MultipartInv
<1>1. reader = "exit" /\ partCh = <<>>
    BY MultipartAssumption DEF Drain, WorkersLast
<1>2. \A n \in Nat : ~Queued(n) /\ ~Held(n)
    BY <1>1 DEF Drain, Queued, Held, Busy
<1>r. Range(resultCh) = {resultCh[i] : i \in 1..Len(resultCh)}
    BY DEF MultipartType, Range
<1>p. \A i \in 1..Len(resultCh) : resultCh[i].part \in Nat
  <2>1. \A i \in 1..Len(resultCh) : resultCh[i] \in Results
      BY DEF MultipartType
  <2> QED
      BY <2>1 DEF Results
<1>3. \A n \in Nat : n \in collected' <=> Answered(n) \/ n \in collected
    BY <1>r DEF Drain, Answered
<1>4. \A n \in Nat : n \in 1..(partNum - 1) <=> n \in collected'
    BY <1>2, <1>3 DEF NoneDropped
<1>5. collected' \subseteq Nat
    BY <1>r, <1>p, Zenon DEF Drain
<1>6. NoneDropped'
    BY <1>2, <1>4 DEF Drain, NoneDropped, Queued, Held, Answered, reading
<1>7. partNum = NParts + 1 => collected' = Parts
  <2> HAVE partNum = NParts + 1
  <2>1. \A n \in Nat : n \in Parts <=> n \in collected'
      BY <1>4, MultipartAssumption DEF Parts
  <2>2. Parts \subseteq Nat
      BY MultipartAssumption DEF Parts
  <2> QED
      BY <1>5, <2>1, <2>2, Zenon
<1>8. MultipartType'
    BY DEF Drain, Fail, MultipartType, reading
<1>9. CheckedWhole'
    BY <1>1, <1>7 DEF Drain, Fail, CheckedWhole, Parts, reading, remote
<1>10. WorkersLast' /\ NotStarted' /\ Ending' /\ (Len(partCh) <= Parallelism)'
    BY DEF Drain, Fail, WorkersLast, NotStarted, Ending, Parallelism, Parts, reading, remote
<1> QED
    BY <1>5, <1>6, <1>8, <1>9, <1>10

\* The other steps of the promoter touch neither channels nor workers.
LEMMA PromoterEndsStep ==
    MultipartInv /\ (CollectCancelled \/ CompleteUpload \/ AbortUpload \/ Cancel) => MultipartInv'
<1> SUFFICES ASSUME MultipartInv, CollectCancelled \/ CompleteUpload \/ AbortUpload \/ Cancel
             PROVE  MultipartInv'
    OBVIOUS
<1>1. /\ UNCHANGED <<partNum, pool, collected, reader, last, intact>>
      /\ promoter' \in {"complete", "abort", "cancel", "done"}
    BY DEF CollectCancelled, CompleteUpload, AbortUpload, Cancel, Fail, reading
<1>2. /\ NoneDropped' /\ WorkersLast' /\ NotStarted' /\ MultipartType'
      /\ (Len(partCh) <= Parallelism)' /\ (collected \subseteq Nat)'
    BY <1>1, PoolRests DEF MultipartInv, MultipartType, NotStarted
<1>3. CheckedWhole' /\ Ending'
  <2>1. CASE CollectCancelled
      BY <2>1 DEF MultipartInv, CollectCancelled, Fail, CheckedWhole, Ending, Parts, reading, remote
  <2>2. CASE CompleteUpload
      BY <2>2 DEF MultipartInv, CompleteUpload, Fail, CheckedWhole, Ending, Parts, reading
  <2>3. CASE AbortUpload
      BY <2>3 DEF MultipartInv, AbortUpload, CheckedWhole, Ending, Parts, reading
  <2>4. CASE Cancel
      BY <2>4 DEF MultipartInv, Cancel, CheckedWhole, Ending, Parts, reading, remote
  <2> QED
      BY <2>1, <2>2, <2>3, <2>4
<1> QED
    BY <1>2, <1>3 DEF MultipartInv

-----------------------------------------------------------------------------
(* The reader.                                                             *)

\* The reader checks the context and reads; the caller may cancel.
LEMMA ReadStep == MultipartInv /\ (CheckContext \/ ReadPart \/ CallerCancels) => MultipartInv'
<1> SUFFICES ASSUME MultipartInv, CheckContext \/ ReadPart \/ CallerCancels PROVE MultipartInv'
    OBVIOUS
<1>1. /\ UNCHANGED <<partNum, pool, collected, promoter, outcome, multipartUpload, object, lost>>
      /\ reader = "exit" => UNCHANGED <<reader, intact>>
      /\ reader' \in {reader, "read", "send", "exit"} /\ last' \in BOOLEAN
    BY Zenon DEF MultipartInv, MultipartType, CheckContext, ReadPart, CallerCancels, ReaderExits,
           local, reading, remote
<1>2. CheckedWhole' /\ Ending' /\ (collected \subseteq Nat)'
    BY <1>1, PromoterRests
<1>3. /\ NoneDropped' /\ WorkersLast' /\ NotStarted' /\ MultipartType'
      /\ (Len(partCh) <= Parallelism)'
    BY <1>1, PoolRests DEF MultipartInv, MultipartType, NotStarted, pool
<1> QED
    BY <1>2, <1>3 DEF MultipartInv

\* The reader hands a part to the workers.
LEMMA SendPartStep == MultipartInv /\ SendPart => MultipartInv'
<1> SUFFICES ASSUME MultipartInv, SendPart PROVE MultipartInv'
    OBVIOUS
<1>1. CheckedWhole' /\ Ending' /\ (collected \subseteq Nat)'
    BY PromoterRests DEF SendPart, local, remote
<1>2. NotStarted'
    BY DEF MultipartInv, NotStarted, SendPart, local, remote
<1>3. WorkersLast'
    BY DEF MultipartInv, WorkersLast, SendPart
<1>4. CASE UNCHANGED <<partCh, partNum>>
  <2>1. NoneDropped' /\ MultipartType' /\ (Len(partCh) <= Parallelism)'
      BY <1>4, PoolRests DEF MultipartInv, MultipartType, SendPart, ReaderExits, local, pool
  <2> QED
      BY <1>1, <1>2, <1>3, <2>1 DEF MultipartInv
<1>5. CASE Len(partCh) < Parallelism /\ partCh' = Append(partCh, partNum) /\ partNum' = partNum + 1
  <2>1. /\ partCh' \in Seq(Nat) /\ Len(partCh') = Len(partCh) + 1
        /\ Len(partCh) \in Nat /\ partNum \in Nat \ {0}
        /\ partCh'[Len(partCh) + 1] = partNum
        /\ \A i \in 1..Len(partCh) : partCh'[i] = partCh[i]
      BY <1>5 DEF MultipartInv, MultipartType
  <2>2. \A n \in Nat : Queued(n)' <=> Queued(n) \/ n = partNum
    <3>1. 1..Len(partCh') = 1..Len(partCh) \cup {Len(partCh) + 1}
        BY <2>1
    <3>2. \A i \in 1..Len(partCh') : i \in 1..Len(partCh) \/ i = Len(partCh) + 1
        BY <3>1, Zenon
    <3> QED
        BY <2>1, <3>1, <3>2, Zenon DEF Queued
  <2>3. \A n \in Nat : n \in 1..(partNum' - 1) <=> n \in 1..(partNum - 1) \/ n = partNum
      BY <1>5, <2>1
  <2>4. NoneDropped'
      BY <2>2, <2>3 DEF MultipartInv, NoneDropped, Held, Answered, SendPart, local
  <2>5. MultipartType'
      BY <1>5, <2>1 DEF MultipartInv, MultipartType, SendPart, ReaderExits, local
  <2>6. (Len(partCh) <= Parallelism)'
      BY <1>5, <2>1, ParallelismPositive DEF Parallelism
  <2> QED
      BY <1>1, <1>2, <1>3, <2>4, <2>5, <2>6 DEF MultipartInv
<1> QED
    BY <1>4, <1>5, Zenon DEF SendPart

-----------------------------------------------------------------------------
(* The workers.                                                            *)

\* A worker leaves the promoter and the reader alone.
LEMMA WorkerFrame ==
    ASSUME MultipartInv, NEW w \in Workers, Worker(w)
    PROVE  /\ UNCHANGED <<promoter, outcome, collected, multipartUpload, object, lost, reading>>
           /\ CheckedWhole' /\ Ending' /\ NotStarted' /\ (collected \subseteq Nat)'
<1>1. UNCHANGED <<promoter, outcome, collected, multipartUpload, object, lost, reading>>
    BY DEF Worker, Receive, UploadJob, SendResult, local, remote
<1>2. CheckedWhole' /\ Ending' /\ (collected \subseteq Nat)'
    BY <1>1, PromoterRests DEF reading
<1>3. NotStarted'
    BY <1>1 DEF MultipartInv, NotStarted, Worker, Receive, UploadJob, SendResult
<1> QED
    BY <1>1, <1>2, <1>3

\* A job goes from the queue to the worker's hand.
LEMMA ReceiveStep == ASSUME NEW w \in Workers PROVE MultipartInv /\ Receive(w) => MultipartInv'
<1> SUFFICES ASSUME MultipartInv, Receive(w) PROVE MultipartInv'
    OBVIOUS
<1>1. /\ UNCHANGED <<promoter, collected, reading, resultCh>>
      /\ CheckedWhole' /\ Ending' /\ NotStarted' /\ (collected \subseteq Nat)'
    BY WorkerFrame DEF Worker, Receive
<1>2. CASE partCh = <<>>
  <2>1. /\ UNCHANGED <<partCh, inHand>> /\ reader = "exit"
        /\ worker' = [worker EXCEPT ![w] = "exit"]
      BY <1>2 DEF Receive
  <2>2. MultipartType' /\ WorkersLast'
      BY <1>1, <1>2, <2>1 DEF MultipartInv, MultipartType, WorkersLast, reading
  <2>3. \A n \in Nat : Held(n)' <=> Held(n)
      BY <2>1 DEF MultipartInv, MultipartType, Held, Receive, Busy
  <2>4. NoneDropped' /\ (Len(partCh) <= Parallelism)'
      BY <1>1, <2>1, <2>3 DEF MultipartInv, NoneDropped, Queued, Answered, Parallelism, reading
  <2> QED
      BY <1>1, <2>2, <2>4 DEF MultipartInv
<1>3. CASE partCh # <<>>
  <2>1. /\ partCh' = Tail(partCh) /\ inHand' = [inHand EXCEPT ![w] = Head(partCh)]
        /\ worker[w] = "receive"
        /\ \E s \in {"upload", "sendErr"} : worker' = [worker EXCEPT ![w] = s]
      BY <1>3 DEF Receive
  <2>2. /\ Len(partCh) \in Nat \ {0} /\ Head(partCh) = partCh[1] /\ partCh[1] \in Nat
        /\ partCh' \in Seq(Nat) /\ Len(partCh') = Len(partCh) - 1
        /\ \A i \in 1..Len(partCh') : partCh'[i] = partCh[i + 1]
      BY <1>3, <2>1 DEF MultipartInv, MultipartType
  <2>3. MultipartType' /\ WorkersLast'
      BY <1>1, <1>3, <2>1, <2>2 DEF MultipartInv, MultipartType, WorkersLast, reading, Busy
  <2>4. \A n \in Nat : Held(n)' <=> Held(n) \/ n = partCh[1]
      BY <2>1, <2>2 DEF MultipartInv, MultipartType, Held, Busy
  <2>5. \A n \in Nat : Queued(n) <=> Queued(n)' \/ n = partCh[1]
    <3> TAKE n \in Nat
    <3>1. ASSUME NEW i \in 1..Len(partCh), partCh[i] = n, i # 1 PROVE Queued(n)'
      <4>1. i - 1 \in 1..Len(partCh') /\ partCh'[i - 1] = partCh[i]
          BY <2>2, <3>1
      <4> QED
          BY <3>1, <4>1 DEF Queued
    <3>2. ASSUME NEW i \in 1..Len(partCh'), partCh'[i] = n PROVE Queued(n)
      <4>1. i + 1 \in 1..Len(partCh) /\ partCh[i + 1] = n
          BY <2>2, <3>2
      <4> QED
          BY <4>1 DEF Queued
    <3>3. 1 \in 1..Len(partCh)
        BY <2>2
    <3> QED
        BY <3>1, <3>2, <3>3 DEF Queued
  <2>6. NoneDropped'
      BY <1>1, <2>4, <2>5 DEF MultipartInv, NoneDropped, Answered, reading
  <2>7. (Len(partCh) <= Parallelism)'
      BY <2>2, ParallelismPositive DEF MultipartInv, Parallelism
  <2> QED
      BY <1>1, <2>3, <2>6, <2>7 DEF MultipartInv
<1> QED
    BY <1>2, <1>3

\* A worker uploads the part it holds.
LEMMA UploadJobStep == ASSUME NEW w \in Workers PROVE MultipartInv /\ UploadJob(w) => MultipartInv'
<1> SUFFICES ASSUME MultipartInv, UploadJob(w) PROVE MultipartInv'
    OBVIOUS
<1>1. /\ UNCHANGED <<promoter, collected, reading, partCh, resultCh, inHand>>
      /\ CheckedWhole' /\ Ending' /\ NotStarted' /\ (collected \subseteq Nat)'
    BY WorkerFrame DEF Worker, UploadJob
<1>2. /\ worker[w] = "upload"
      /\ \E s \in {"sendOk", "sendErr"} : worker' = [worker EXCEPT ![w] = s]
    BY DEF UploadJob
<1>3. MultipartType' /\ WorkersLast'
    BY <1>1, <1>2 DEF MultipartInv, MultipartType, WorkersLast, reading, Busy
<1>4. \A n \in Nat : Held(n)' <=> Held(n)
    BY <1>1, <1>2 DEF MultipartInv, MultipartType, Held, Busy
<1>5. NoneDropped' /\ (Len(partCh) <= Parallelism)'
    BY <1>1, <1>4 DEF MultipartInv, NoneDropped, Queued, Answered, Parallelism, reading
<1> QED
    BY <1>1, <1>3, <1>5 DEF MultipartInv

\* A job goes from the worker's hand to the results.
LEMMA SendResultStep == ASSUME NEW w \in Workers PROVE MultipartInv /\ SendResult(w) => MultipartInv'
<1> SUFFICES ASSUME MultipartInv, SendResult(w) PROVE MultipartInv'
    OBVIOUS
<1>1. /\ UNCHANGED <<promoter, collected, reading, partCh>>
      /\ CheckedWhole' /\ Ending' /\ NotStarted' /\ (collected \subseteq Nat)'
    BY WorkerFrame, Zenon DEF Worker, SendResult
<1>2. /\ worker[w] \in {"sendOk", "sendErr"}
      /\ worker' = [worker EXCEPT ![w] = "receive"] /\ inHand' = [inHand EXCEPT ![w] = 0]
    BY DEF SendResult, NoPart
<1>3. /\ resultCh' \in Seq(Results) /\ Len(resultCh') = Len(resultCh) + 1
      /\ Len(resultCh) \in Nat
      /\ resultCh'[Len(resultCh) + 1].part = inHand[w]
      /\ \A i \in 1..Len(resultCh) : resultCh'[i] = resultCh[i]
    BY DEF MultipartInv, MultipartType, Results, SendResult
<1>4. MultipartType' /\ WorkersLast'
    BY <1>1, <1>2, <1>3 DEF MultipartInv, MultipartType, WorkersLast, reading
<1>5. \A n \in Nat : Held(n) <=> Held(n)' \/ n = inHand[w]
    BY <1>2 DEF MultipartInv, MultipartType, Held, Busy
<1>6. \A n \in Nat : Answered(n)' <=> Answered(n) \/ n = inHand[w]
  <2>1. 1..Len(resultCh') = 1..Len(resultCh) \cup {Len(resultCh) + 1}
      BY <1>3
  <2> QED
      BY <1>3, <2>1 DEF Answered
<1>7. NoneDropped' /\ (Len(partCh) <= Parallelism)'
    BY <1>1, <1>5, <1>6 DEF MultipartInv, NoneDropped, Queued, Parallelism, reading
<1> QED
    BY <1>1, <1>4, <1>7 DEF MultipartInv

-----------------------------------------------------------------------------
(* Theorems about multipart promotion.                                     *)

\* The invariant holds initially.
LEMMA MultipartInvInit == MultipartInit => MultipartInv
<1> SUFFICES ASSUME MultipartInit PROVE MultipartInv
    OBVIOUS
<1>1. MultipartType
  <2>1. partCh \in Seq(Nat) /\ resultCh \in Seq(Results)
      BY DEF MultipartInit
  <2>2. worker \in [Workers -> {"off", "receive", "exit"} \cup Busy]
      BY DEF MultipartInit
  <2>3. inHand \in [Workers -> Nat]
      BY DEF MultipartInit, NoPart
  <2>4. promoter = "create" /\ reader = "off" /\ partNum = 1
      BY DEF MultipartInit
  <2>5. last \in BOOLEAN
      BY Zenon DEF MultipartInit
  <2> QED
      BY <2>1, <2>2, <2>3, <2>4, <2>5 DEF MultipartType
<1>3. WorkersLast /\ NotStarted /\ CheckedWhole /\ Ending
    BY DEF MultipartInit, WorkersLast, NotStarted, CheckedWhole, Ending
<1>2. NoneDropped
    BY DEF MultipartInit, NoneDropped, Queued, Held, Answered, Busy
<1> QED
    BY <1>1, <1>2, <1>3, ParallelismPositive DEF MultipartInv, MultipartInit

\* Every step keeps the invariant.
LEMMA MultipartInvStep == MultipartInv /\ [MultipartNext]_multipartVars => MultipartInv'
<1> SUFFICES ASSUME MultipartInv, [MultipartNext]_multipartVars PROVE MultipartInv'
    OBVIOUS
<1>1. CASE Promoter
    BY <1>1, StartUploadStep, CollectStep, DrainStep, PromoterEndsStep DEF Promoter
<1>2. CASE Reader \/ CallerCancels
    BY <1>2, ReadStep, SendPartStep DEF Reader
<1>3. ASSUME NEW w \in Workers, Worker(w) PROVE MultipartInv'
    BY <1>3, ReceiveStep, UploadJobStep, SendResultStep DEF Worker
<1>4. CASE UNCHANGED multipartVars
  <2>1. /\ UNCHANGED <<partNum, pool, collected, promoter, outcome, multipartUpload, object, lost>>
        /\ UNCHANGED <<reader, intact, last>>
      BY <1>4 DEF multipartVars, local, reading, remote
  <2>2. CheckedWhole' /\ Ending' /\ (collected \subseteq Nat)'
      BY <2>1, PromoterRests
  <2>3. NoneDropped' /\ WorkersLast' /\ NotStarted' /\ MultipartType' /\ (Len(partCh) <= Parallelism)'
      BY <2>1, PoolRests DEF MultipartInv, MultipartType, NotStarted, pool
  <2> QED
      BY <2>2, <2>3 DEF MultipartInv
<1> QED
    BY <1>1, <1>2, <1>3, <1>4 DEF MultipartNext

\* The invariant of promoteMultipart: no part the reader has sent is lost on
\* its way through the two channels and the pool.
THEOREM MultipartInvHolds == MultipartSpec => []MultipartInv
BY MultipartInvInit, MultipartInvStep, PTL DEF MultipartSpec

\* Whatever fails, is cancelled or is cut short, the object CompleteMultipart
\* makes visible has every part of the recorded content, and promoteMultipart
\* reports success for no other.
THEOREM WholeObjectHolds == MultipartSpec => []WholeObject
<1>1. MultipartInv => WholeObject
    BY DEF MultipartInv, CheckedWhole, Ending, WholeObject
<1> QED
    BY <1>1, MultipartInvHolds, PTL

\* Every return of promoteMultipart leaves no open upload behind, unless an
\* answer was lost or the abort refused.
THEOREM UploadSettledHolds == MultipartSpec => []UploadSettled
<1>1. MultipartInv => UploadSettled
    BY DEF MultipartInv, Ending, UploadSettled
<1> QED
    BY <1>1, MultipartInvHolds, PTL

\* The pooled part buffers in use never exceed twice the parallelism and one,
\* however large the body and the pool.
THEOREM BuffersBoundedHolds == MultipartSpec => []BuffersBounded
<1>1. ASSUME MultipartInv PROVE BuffersBounded
  <2> DEFINE uploading == {w \in Workers : worker[w] = "upload"}
             reading1 == {reader} \cap {"read", "send"}
  <2>1. Cardinality(uploading) \in Nat /\ Cardinality(uploading) <= Parallelism
      BY MultipartAssumption, FS_Subset, FS_CardinalityType DEF Parallelism
  <2>2. Cardinality(reading1) \in Nat /\ Cardinality(reading1) <= 1
    <3>1. IsFiniteSet({reader}) /\ Cardinality({reader}) = 1
        BY FS_Singleton
    <3> QED
        BY <3>1, FS_Subset, FS_CardinalityType
  <2>3. Len(partCh) \in Nat /\ Len(partCh) <= Parallelism
      BY <1>1 DEF MultipartInv, MultipartType
  <2> QED
      BY <2>1, <2>2, <2>3, ParallelismPositive DEF BuffersBounded
<1> QED
    BY <1>1, MultipartInvHolds, PTL

=============================================================================
