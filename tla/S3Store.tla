----------------------------- MODULE S3Store ------------------------------
(* The S3 provider over a versioned bucket: writes whose result is completed *)
(* by a second request, and PurgeAllVersions, which lists and deletes page   *)
(* by page while others write.  The bucket itself is external: a set of      *)
(* versions that the requests of the provider read and change atomically.    *)
(* Keys are numbers such that k is a prefix of every key from k on.          *)
EXTENDS Naturals, FiniteSets

CONSTANTS
    ObjectKeys,    \* 1..n
    MaxObjects,    \* bound: versions ever written
    MaxKeys,       \* MaxKeys of ListObjectVersions (1000 in the code)
    Callers,       \* callers of the provider
    RequestFaults  \* subset of {"request", "head"}

VARIABLES
    bucket,        \* versions: key, id (newer is larger), locked
    newest,
    call,          \* per client, the call under way with its locals
    answer         \* per client, what its last call returned: "ok", "err", or "mixed"
                   \* for a version with the size and the checksum of another one

ASSUME S3Assumption == ObjectKeys \subseteq Nat \ {0} /\ MaxObjects \in Nat /\ MaxKeys \in Nat

s3Vars == <<bucket, newest, call, answer>>

NoCall == [kind |-> "idle"]
Of(k) == {v \in bucket : v.key = k}
IDsOf(k) == {v.id : v \in Of(k)}
NewVersion(k, locked) == [key |-> k, id |-> newest + 1, locked |-> locked]

S3Init ==
    /\ bucket = {}
    /\ newest = 0
    /\ call = [c \in Callers |-> NoCall]
    /\ answer = [c \in Callers |-> "none"]

Ends(c, res) ==
    /\ call' = [call EXCEPT ![c] = NoCall]
    /\ answer' = [answer EXCEPT ![c] = res]

Begins(c, locals) ==
    /\ call' = [call EXCEPT ![c] = locals]
    /\ answer' = [answer EXCEPT ![c] = "none"]

-----------------------------------------------------------------------------
(* Writes.                                                                 *)

\* A new version or a delete marker enters the bucket.
Stored(k, locked) ==
    /\ newest < MaxObjects
    /\ newest' = newest + 1
    /\ bucket' = bucket \cup {NewVersion(k, locked)}

\* One request, whose answer describes the version it made or is lost.
PutObject(c, k, locked) ==
    /\ call[c] = NoCall
    /\ Stored(k, locked)
    /\ Ends(c, "ok") \/ ("request" \in RequestFaults /\ Ends(c, "err"))

\* A delete marker, which is a version to all that follows.
DeleteObject(c, k) == PutObject(c, k, FALSE)

\* The request that makes the version answers without size and checksum, so a
\* HEAD follows; exact says that the HEAD names the new version.
Assemble(c, k, exact) ==
    /\ call[c] = NoCall
    /\ Stored(k, FALSE)
    /\ \/ Begins(c, [kind |-> "head", key |-> k, id |-> newest', exact |-> exact])
       \/ "request" \in RequestFaults /\ Ends(c, "err")

CompleteMultipartUpload(c, k) == Assemble(c, k, TRUE)

CopyWithinProvider(c, k) == Assemble(c, k, FALSE)

\* What a call returns whose HEAD saw this version, or none.  A copy's HEAD
\* does not name a version and is not held to one.
Result(c, seen) == IF call[c].exact /\ ~(seen \subseteq {call[c].id}) THEN "mixed" ELSE "ok"

HeadAfter_Latest(c) ==
    /\ call[c].kind = "head"
    /\ LET found == IDsOf(call[c].key)
           latest == {i \in found : \A j \in found : j <= i}
       IN  Ends(c, Result(c, latest))
    /\ UNCHANGED <<bucket, newest>>
\* The version whose size and checksum the result carries; none when the HEAD
\* fails, which is not an error.
HeadAfter(c) ==
    /\ call[c].kind = "head"
    /\ LET found == IDsOf(call[c].key) \cap
                        (IF call[c].exact THEN {call[c].id} ELSE 1..MaxObjects)
           latest == {i \in found : \A j \in found : j <= i}
       IN  \E seen \in {latest} \cup (IF "head" \in RequestFaults THEN {{}} ELSE {}) :
             Ends(c, Result(c, seen))
    /\ UNCHANGED <<bucket, newest>>

\* UpdateRetention and SetLegalHold lock a version or free it again.
SetLock(v) ==
    /\ v \in bucket
    /\ bucket' = (bucket \ {v}) \cup {[v EXCEPT !.locked = ~@]}
    /\ UNCHANGED <<newest, call, answer>>

\* DeleteVersion; the bucket refuses a locked version.
DeleteObjectVersion(v) ==
    /\ v \in bucket /\ ~v.locked
    /\ bucket' = bucket \ {v}
    /\ UNCHANGED <<newest, call, answer>>

-----------------------------------------------------------------------------
(* PurgeAllVersions.                                                       *)

\* The listing order: by key, the newest version of a key first.
Precedes(v, w) == v.key < w.key \/ (v.key = w.key /\ v.id > w.id)

\* The entries a ListObjectVersions request with this prefix and key marker
\* covers; without a version marker it starts after the whole marker key.
Covered(k, marker) == {v \in bucket : v.key >= k /\ v.key > marker}

ListedPage(k, marker) ==
    {v \in Covered(k, marker) :
        Cardinality({w \in Covered(k, marker) : Precedes(w, v)}) < MaxKeys}

StartPurge(c, k) ==
    /\ call[c] = NoCall
    /\ Begins(c, [kind |-> "list", key |-> k, marker |-> 0, start |-> IDsOf(k), fits |-> TRUE,
                  refused |-> {}])
    /\ UNCHANGED <<bucket, newest>>

Objects_Prefix(k, page) == page
Objects_KeepLatest(k, page) == {v \in page : v.key = k /\ \E w \in page : w.key = k /\ w.id > v.id}
\* The identifiers to delete: exact matches, although the listing is by prefix.
Objects(k, page) == {v \in page : v.key = k}

\* One page.  fits records whether the key's versions were on one page.
List(c) ==
    LET k == call[c].key
        page == ListedPage(k, call[c].marker)
    IN  /\ call[c].kind = "list"
        /\ \/ call' = [call EXCEPT ![c] =
                [kind |-> "delete", key |-> k, start |-> @.start, refused |-> @.refused,
                 fits |-> @.fits /\ Cardinality(Of(k)) <= MaxKeys,
                 objects |-> Objects(k, page),
                 ends |-> \/ \E v \in page : v.key > k
                          \/ page = Covered(k, @.marker),
                 marker |-> IF page = {} THEN @.marker
                            ELSE CHOOSE m \in ObjectKeys : \E v \in page :
                                    v.key = m /\ \A w \in page : w.key <= m]]
              /\ UNCHANGED answer
           \/ "request" \in RequestFaults /\ Ends(c, "err")
        /\ UNCHANGED <<bucket, newest>>

\* Bookkeeping: what the bucket has refused to delete so far.
Refused(c) ==
    call[c].refused \cup
        {v.id : v \in {w \in bucket : w.locked /\ \E o \in call[c].objects : o.id = w.id}}

DeleteObjects_Stuck(c) ==
    /\ call[c].kind = "delete"
    /\ bucket' = bucket \ {v \in call[c].objects : ~v.locked}
    /\ IF call[c].ends
       THEN Ends(c, "ok")
       ELSE /\ call' = [call EXCEPT ![c] = [kind |-> "list", key |-> @.key, marker |-> 0,
                                            start |-> @.start, fits |-> @.fits,
                                            refused |-> Refused(c)]]
            /\ UNCHANGED answer
    /\ UNCHANGED newest
\* DeleteObjects, if there is anything to delete.  Refusals of single versions
\* are in the answer and are not looked at.
DeleteObjects(c) ==
    /\ call[c].kind = "delete"
    /\ \/ /\ bucket' = {v \in bucket : v.locked \/ v.id \notin {w.id : w \in call[c].objects}}
          /\ IF call[c].ends
             THEN Ends(c, "ok")
             ELSE /\ call' = [call EXCEPT ![c] =
                        [kind |-> "list", key |-> @.key, marker |-> @.marker,
                         start |-> @.start, fits |-> @.fits, refused |-> Refused(c)]]
                  /\ UNCHANGED answer
       \/ /\ "request" \in RequestFaults /\ call[c].objects # {}
          /\ \E done \in SUBSET {v.id : v \in call[c].objects} :
                bucket' = {v \in bucket : v.locked \/ v.id \notin done}
          /\ Ends(c, "err")
    /\ UNCHANGED newest

Purging(c) == List(c) \/ DeleteObjects(c)

S3Next ==
    \/ \E c \in Callers :
        \/ \E k \in ObjectKeys :
            \/ StartPurge(c, k)
            \/ \E locked \in BOOLEAN : PutObject(c, k, locked)
            \/ DeleteObject(c, k) \/ CompleteMultipartUpload(c, k) \/ CopyWithinProvider(c, k)
        \/ HeadAfter(c) \/ Purging(c)
    \/ \E v \in bucket : SetLock(v) \/ DeleteObjectVersion(v)

S3Spec == S3Init /\ [][S3Next]_s3Vars

\* Requests return.
S3Fairness == \A c \in Callers : WF_s3Vars(Purging(c))

S3FairSpec == S3Spec /\ S3Fairness

-----------------------------------------------------------------------------
(* Properties.                                                             *)

\* PurgeAllVersions returns nil.
Purged(c) == DeleteObjects(c) /\ call'[c] = NoCall /\ answer'[c] = "ok"

\* The versions a purge was asked to remove and has not, except those the
\* bucket refused to delete because they were locked.
Forgotten(c) == {v \in bucket' : v.id \in call[c].start \ Refused(c)}

\* A purge that returned nil has removed every version the key had when it
\* began, whatever was written, locked or freed meanwhile, provided the
\* versions were on one page; only what the bucket refused to delete stays.
PurgeCompleteStep == \A c \in Callers : Purged(c) /\ call[c].fits => Forgotten(c) = {}
PurgeComplete == [][PurgeCompleteStep]_s3Vars

\* The same without the proviso: a purge that returned nil leaves no version
\* behind, however many the key had, except what the bucket refused to delete.
PurgedIsGone == [][\A c \in Callers : Purged(c) => Forgotten(c) = {}]_s3Vars

\* A purge removes versions of its own key only, although it lists a prefix.
PurgeKeepsOthersStep ==
    \A c \in Callers : DeleteObjects(c) => \A v \in bucket \ bucket' : v.key = call[c].key
PurgeKeepsOthers == [][PurgeKeepsOthersStep]_s3Vars

\* A purge ends although others keep writing and pages stay truncated.
PurgeEnds == \A c \in Callers : (call[c].kind \in {"list", "delete"}) ~> (call[c] = NoCall)

\* The size and the checksum in the result of CompleteMultipart are those of
\* the version the result names, or missing, although other writes and purges
\* come between its two requests.
ResultNamesItsVersion ==
    \A c \in Callers : answer[c] # "mixed"

=============================================================================
