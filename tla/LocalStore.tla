---------------------------- MODULE LocalStore ----------------------------
(* The development store (local_fs_dev): versions, delete markers,          *)
(* retention and multipart uploads as files.  A version is a body file and  *)
(* a sidecar; the sidecar makes it visible.  Every operation but UploadPart *)
(* holds one mutex, so an operation is cut only where the process may die   *)
(* with other files on disk.  Version IDs and write times grow together, so *)
(* an ID orders versions; a body is the ID it was first written under and   *)
(* whether a part it was assembled from was incomplete.                     *)
EXTENDS Naturals, FiniteSetsExt

CONSTANTS
    Keys,          \* 1..n, in the order of their names; none is a path prefix of another
    MaxVersions,   \* bound: version IDs handed out
    Uploads,       \* upload IDs
    MaxParts,      \* parts of an upload
    Specs,         \* the retention callers ask for, in writes and in updates
    MaxDate,       \* dates are 1..MaxDate; 0 is no date
    PageSize,      \* MaxKeys of a listing; 0 when nobody lists
    FileFaults     \* subset of {"sidecar", "part", "remove", "crash"}

VARIABLES
    sidecar,       \* the .json files, by version ID
    body,          \* the .bin files, by version ID
    lastID,        \* the last version ID handed out
    upload,        \* the staging directories
    writing,       \* UploadPart calls under way
    partAcked,     \* parts whose UploadPart returned success, per upload
    op,            \* the operation that holds mu, with its locals
    torn,          \* keys whose purge was cut short
    scan           \* a reconciler that pages through ListObjects

files == <<sidecar, body, lastID>>
staging == <<upload, writing, partAcked>>
localVars == <<files, staging, op, torn, scan>>

IDs == 1..MaxVersions
PartNums == 1..MaxParts
NoFile == [key |-> 0]
Unlocked == [kind |-> "idle"]
NoUpload == "none"
NoScan == [on |-> FALSE, cursor |-> 0, seen |-> {}, all |-> {}]
NoLock == [mode |-> "NONE", until |-> 0, hold |-> FALSE]
Modes == {"NONE", "GOVERNANCE", "COMPLIANCE"}
Retentions == [mode : Modes, until : 0..MaxDate, hold : BOOLEAN]
Contents == [origin : 0..MaxVersions, partial : BOOLEAN]
Marker == [origin |-> 0, partial |-> FALSE]

ASSUME LocalAssumption ==
    /\ Keys \subseteq Nat \ {0} /\ IsFiniteSet(Keys)
    /\ NoUpload \notin Uploads /\ Specs \subseteq Retentions
    /\ {MaxVersions, MaxParts, MaxDate, PageSize} \subseteq Nat

LocalInit ==
    /\ sidecar = [v \in IDs |-> NoFile]
    /\ body = [v \in IDs |-> NoFile]
    /\ lastID = 0
    /\ upload = [u \in Uploads |-> NoFile]
    /\ writing = {}
    /\ partAcked = [u \in Uploads |-> {}]
    /\ op = Unlocked
    /\ torn = {}
    /\ scan = NoScan

-----------------------------------------------------------------------------
(* What the files say.                                                     *)

hasAnyVersion(k) == \E v \in IDs : sidecar[v].key = k

\* latestNonDeleteMarker: none or one.
latestNonDeleteMarker(k) ==
    LET live == {v \in IDs : sidecar[v].key = k /\ sidecar[v].sum # Marker}
    IN  {v \in live : \A w \in live : w <= v}

NewSidecar(k, sum, ret) == [key |-> k, sum |-> sum, retention |-> ret]

Unlock == op' = Unlocked

-----------------------------------------------------------------------------
(* Writes: Put, CopyWithinProvider and CompleteMultipart rename the body    *)
(* into place, publish the sidecar and, for an upload, remove the staging   *)
(* directory.                                                               *)

Rename(k, content, ret, u) ==
    /\ lastID < MaxVersions
    /\ lastID' = lastID + 1
    /\ body' = [body EXCEPT ![lastID'] = [key |-> k, content |-> content]]
    /\ op' = [kind |-> "publish", key |-> k, id |-> lastID', sum |-> content,
              retention |-> ret, upload |-> u]
    /\ UNCHANGED <<sidecar, staging, torn, scan>>

\* Put, up to the rename.  IfNoneMatch refuses a key with any version.
Put(k, ret, ifNoneMatch) ==
    /\ op = Unlocked
    /\ ifNoneMatch => ~hasAnyVersion(k)
    /\ Rename(k, [origin |-> lastID + 1, partial |-> FALSE], ret, NoUpload)

\* CopyWithinProvider, of a version or of the latest that is no marker; the
\* bytes must have the checksum of the source's sidecar.
Copy(src, v, dst, ret) ==
    /\ op = Unlocked
    /\ v \in {w \in IDs : sidecar[w].key = src /\ body[w].key = src}
    /\ body[v].content = sidecar[v].sum
    /\ Rename(dst, body[v].content, ret, NoUpload)

\* CompleteMultipart of the parts 1..m, up to the rename: the upload's metadata
\* and every listed part must be readable.  The retention is the request's.
CompleteMultipart(u, m, ret) ==
    /\ op = Unlocked
    /\ upload[u] # NoFile /\ upload[u].meta
    /\ 1..m \subseteq partAcked[u]
    /\ \A i \in 1..m : upload[u].parts[i] # "none"
    /\ Rename(upload[u].key,
              [origin |-> lastID + 1, partial |-> \E i \in 1..m : upload[u].parts[i] = "partial"],
              ret, u)

\* writeSidecar; when it fails the body is removed again.
Publish ==
    /\ op.kind = "publish"
    /\ \/ /\ sidecar' = [sidecar EXCEPT ![op.id] = NewSidecar(op.key, op.sum, op.retention)]
          /\ op' = IF op.upload = NoUpload THEN Unlocked
                   ELSE [kind |-> "unstage", upload |-> op.upload]
          /\ UNCHANGED body
       \/ /\ "sidecar" \in FileFaults
          /\ body' = [body EXCEPT ![op.id] = NoFile]
          /\ Unlock
          /\ UNCHANGED sidecar
    /\ UNCHANGED <<lastID, staging, torn, scan>>

\* Delete adds a marker to a key that has versions.
Delete(k) ==
    /\ op = Unlocked
    /\ hasAnyVersion(k)
    /\ lastID < MaxVersions
    /\ lastID' = lastID + 1
    /\ sidecar' = [sidecar EXCEPT ![lastID'] = NewSidecar(k, Marker, NoLock)]
    /\ UNCHANGED <<body, staging, op, torn, scan>>

-----------------------------------------------------------------------------
(* Removals.                                                               *)

DeleteVersion_BodyFirst(v) ==
    /\ op = Unlocked
    /\ body[v] # NoFile
    /\ body' = [body EXCEPT ![v] = NoFile]
    /\ op' = [kind |-> "unlink", id |-> v]
    /\ UNCHANGED <<sidecar, lastID, staging, torn, scan>>
\* DeleteVersion removes the sidecar, then the body; DeleteBatch is a series
\* of such calls, each with the mutex of its own.
DeleteVersion(v) ==
    /\ op = Unlocked
    /\ sidecar[v] # NoFile
    /\ sidecar' = [sidecar EXCEPT ![v] = NoFile]
    /\ op' = [kind |-> "unlink", id |-> v]
    /\ UNCHANGED <<body, lastID, staging, torn, scan>>

DeleteBody ==
    /\ op.kind = "unlink"
    /\ \/ body' = [body EXCEPT ![op.id] = NoFile]
       \/ "remove" \in FileFaults /\ UNCHANGED body
    /\ Unlock
    /\ UNCHANGED <<sidecar, lastID, staging, torn, scan>>

\* PurgeAllVersions: RemoveAll of the key's directory, file by file in no
\* particular order; it may fail on the way.
Purge(k) ==
    /\ op = Unlocked
    /\ \E v \in IDs : k \in {sidecar[v].key, body[v].key}
    /\ op' = [kind |-> "purge", key |-> k]
    /\ UNCHANGED <<files, staging, torn, scan>>

PurgeFile ==
    /\ op.kind = "purge"
    /\ \E v \in IDs :
        \/ sidecar[v].key = op.key /\ sidecar' = [sidecar EXCEPT ![v] = NoFile] /\ UNCHANGED body
        \/ body[v].key = op.key /\ body' = [body EXCEPT ![v] = NoFile] /\ UNCHANGED sidecar
    /\ UNCHANGED <<lastID, staging, op, torn, scan>>

PurgeReturns ==
    /\ op.kind = "purge"
    /\ \/ /\ \A v \in IDs : op.key \notin {sidecar[v].key, body[v].key}
          /\ torn' = torn \ {op.key}
       \/ "remove" \in FileFaults /\ torn' = torn \cup {op.key}
    /\ Unlock
    /\ UNCHANGED <<files, staging, scan>>

-----------------------------------------------------------------------------
(* Retention.                                                              *)

Updated_MayShorten(old, mode, until, clear) ==
    LET dated == IF until = 0 THEN old ELSE [old EXCEPT !.until = until]
    IN  CASE old.mode = "COMPLIANCE" ->
                IF clear \/ mode \notin {"NONE", "COMPLIANCE"} THEN {} ELSE {dated}
          [] old.mode # "COMPLIANCE" /\ clear -> {NoLock}
          [] OTHER -> {IF mode = "NONE" THEN dated ELSE [dated EXCEPT !.mode = mode]}
\* What UpdateRetention makes of the retention old; nothing when it refuses.
\* A clear resets the whole record, the legal hold included.
Updated(old, mode, until, clear) ==
    LET dated == IF until = 0 THEN old ELSE [old EXCEPT !.until = until]
        shorter == until # 0 /\ until < old.until
    IN  CASE old.mode = "COMPLIANCE" ->
                IF clear \/ shorter \/ mode \notin {"NONE", "COMPLIANCE"} THEN {} ELSE {dated}
          [] old.mode # "COMPLIANCE" /\ clear -> {NoLock}
          [] OTHER ->
                IF shorter THEN {}
                ELSE {IF mode = "NONE" THEN dated ELSE [dated EXCEPT !.mode = mode]}

UpdateRetention(v, mode, until, clear) ==
    /\ op = Unlocked
    /\ sidecar[v] # NoFile
    /\ \E new \in Updated(sidecar[v].retention, mode, until, clear) :
          sidecar' = [sidecar EXCEPT ![v].retention = new]
    /\ UNCHANGED <<body, lastID, staging, op, torn, scan>>

SetLegalHold(v, enabled) ==
    /\ op = Unlocked
    /\ sidecar[v] # NoFile
    /\ sidecar' = [sidecar EXCEPT ![v].retention.hold = enabled]
    /\ UNCHANGED <<body, lastID, staging, op, torn, scan>>

-----------------------------------------------------------------------------
(* Multipart uploads.                                                      *)

\* CreateMultipart makes the directory, then writes upload.json.
CreateMultipart(k, u) ==
    /\ op = Unlocked
    /\ upload[u] = NoFile /\ partAcked[u] = {} /\ \A n \in PartNums : <<u, n>> \notin writing
    /\ upload' = [upload EXCEPT ![u] =
                    [key |-> k, meta |-> FALSE, parts |-> [n \in PartNums |-> "none"]]]
    /\ op' = [kind |-> "create", upload |-> u]
    /\ UNCHANGED <<files, writing, partAcked, torn, scan>>

WriteUploadMeta ==
    /\ op.kind = "create"
    /\ \/ upload' = [upload EXCEPT ![op.upload].meta = TRUE]
       \/ "sidecar" \in FileFaults /\ upload' = [upload EXCEPT ![op.upload] = NoFile]
    /\ Unlock
    /\ UNCHANGED <<files, writing, partAcked, torn, scan>>

UploadPart_AckEarly(u, n) ==
    /\ upload[u] # NoFile /\ upload[u].meta
    /\ n \notin partAcked[u] /\ <<u, n>> \notin writing
    /\ upload' = [upload EXCEPT ![u].parts[n] = "partial"]
    /\ writing' = writing \cup {<<u, n>>}
    /\ partAcked' = [partAcked EXCEPT ![u] = @ \cup {n}]
    /\ UNCHANGED <<files, op, torn, scan>>
\* UploadPart takes no lock: it creates the part file, then fills it.
UploadPart(u, n) ==
    /\ upload[u] # NoFile /\ upload[u].meta
    /\ n \notin partAcked[u] /\ <<u, n>> \notin writing
    /\ upload' = [upload EXCEPT ![u].parts[n] = "partial"]
    /\ writing' = writing \cup {<<u, n>>}
    /\ UNCHANGED <<files, partAcked, op, torn, scan>>

\* The copy ends.  The file may have been unlinked by an abort in the
\* meantime; the call succeeds all the same.
FillPart(u, n) ==
    /\ <<u, n>> \in writing
    /\ writing' = writing \ {<<u, n>>}
    /\ \/ /\ upload' = IF upload[u] = NoFile THEN upload ELSE [upload EXCEPT ![u].parts[n] = "part"]
          /\ partAcked' = [partAcked EXCEPT ![u] = @ \cup {n}]
       \/ "part" \in FileFaults /\ UNCHANGED <<upload, partAcked>>
    /\ UNCHANGED <<files, op, torn, scan>>

\* AbortMultipart, and the RemoveAll that ends CompleteMultipart, whose error
\* is ignored.
Abort(u) ==
    /\ op = Unlocked
    /\ upload[u] # NoFile
    /\ upload' = [upload EXCEPT ![u] = NoFile]
    /\ UNCHANGED <<files, writing, partAcked, op, torn, scan>>

Unstage ==
    /\ op.kind = "unstage"
    /\ \/ upload' = [upload EXCEPT ![op.upload] = NoFile]
       \/ "remove" \in FileFaults /\ UNCHANGED upload
    /\ Unlock
    /\ UNCHANGED <<files, writing, partAcked, torn, scan>>

-----------------------------------------------------------------------------
(* ListObjects, page by page, while others write.                          *)

Listed == {k \in Keys : latestNonDeleteMarker(k) # {}}

StartScan ==
    /\ op = Unlocked
    /\ ~scan.on /\ PageSize > 0
    /\ scan' = [on |-> TRUE, cursor |-> 0, seen |-> {}, all |-> Listed]
    /\ UNCHANGED <<files, staging, op, torn>>

After_Inclusive(cursor) == {k \in Listed : k >= cursor}
\* The keys a request with this cursor is about, and the first PageSize of them.
After(cursor) == {k \in Listed : k > cursor}
Page(cursor) ==
    {k \in After(cursor) : Cardinality({j \in After(cursor) : j < k}) < PageSize}

\* The next page; when it is truncated its last key is the next cursor,
\* otherwise the scan ends.
ListObjects ==
    /\ op = Unlocked
    /\ scan.on
    /\ LET page == Page(scan.cursor)
       IN  scan' = IF page = After(scan.cursor) THEN NoScan
                   ELSE [on |-> TRUE, cursor |-> Max(page), seen |-> scan.seen \cup page,
                         all |-> scan.all \cap Listed]
    /\ UNCHANGED <<files, staging, op, torn>>

-----------------------------------------------------------------------------
\* The process dies: the mutex, the calls and their callers are gone, the
\* files stay.
ProcessDies ==
    /\ "crash" \in FileFaults
    /\ op' = Unlocked
    /\ writing' = {}
    /\ partAcked' = [u \in Uploads |-> {}]
    /\ torn' = IF op.kind = "purge" THEN torn \cup {op.key} ELSE torn
    /\ UNCHANGED <<files, upload, scan>>

LocalNext ==
    \/ \E k \in Keys, ret \in Specs :
        \/ \E c \in BOOLEAN : Put(k, ret, c)
        \/ \E src \in Keys, v \in IDs : Copy(src, v, k, ret)
    \/ \E u \in Uploads, m \in PartNums, ret \in Specs : CompleteMultipart(u, m, ret)
    \/ Publish \/ DeleteBody \/ PurgeFile \/ PurgeReturns \/ WriteUploadMeta \/ Unstage
    \/ \E k \in Keys : Delete(k) \/ Purge(k) \/ \E u \in Uploads : CreateMultipart(k, u)
    \/ \E v \in IDs :
        \/ DeleteVersion(v)
        \/ \E s \in Specs : SetLegalHold(v, s.hold)
        \/ \E s \in Specs, until \in 0..MaxDate, clear \in BOOLEAN :
              UpdateRetention(v, s.mode, until, clear)
    \/ \E u \in Uploads : Abort(u) \/ \E n \in PartNums : UploadPart(u, n) \/ FillPart(u, n)
    \/ StartScan \/ ListObjects
    \/ ProcessDies

LocalSpec == LocalInit /\ [][LocalNext]_localVars

-----------------------------------------------------------------------------
(* Properties.                                                             *)

\* Behind every visible version there is a body with the recorded checksum,
\* through failed sidecar writes and crashes, unless the key's purge was cut
\* short: Head never announces what Get cannot read.
BodyBehindSidecar ==
    \A v \in IDs :
        /\ sidecar[v] # NoFile /\ sidecar[v].sum # Marker
        /\ sidecar[v].key \notin torn
        /\ ~(op.kind = "purge" /\ op.key = sidecar[v].key)
        => body[v] = [key |-> sidecar[v].key, content |-> sidecar[v].sum]

\* A completed upload contains whole parts only, although UploadPart takes no
\* lock and may still run beside an abort or a completion.
PartsWhole == \A v \in IDs : body[v] # NoFile => ~body[v].content.partial

\* A listing has no key twice and, once finished, has every key that was
\* listable during the whole scan, whatever was written between its pages.
ListingStep ==
    ListObjects =>
        /\ Page(scan.cursor) \cap scan.seen = {}
        /\ ~scan'.on => scan.all \cap Listed \subseteq scan.seen \cup Page(scan.cursor)
ListingComplete == [][ListingStep]_localVars

\* listVersionsLocked: what has a sidecar can be read, in the order of the IDs.
listVersions ==
    {[key |-> sidecar[v].key, id |-> v, marker |-> sidecar[v].sum = Marker,
      content |-> sidecar[v].sum, retention |-> sidecar[v].retention] :
        v \in {w \in IDs : sidecar[w] # NoFile}}

\* The files implement VersionedStore: the visible versions change as it allows,
\* and nothing a failed or interrupted call leaves behind is visible.
Store == INSTANCE VersionedStore WITH versions <- listVersions
FilesKeepVersions == Store!Spec

=============================================================================
