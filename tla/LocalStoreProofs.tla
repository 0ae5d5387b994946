------------------------- MODULE LocalStoreProofs -------------------------
EXTENDS LocalStore, FiniteSetTheorems, TLAPS

Sidecars == [key : Keys, sum : Contents, retention : Retentions]
Bodies == [key : Keys, content : Contents]
Staged == [key : Keys, meta : BOOLEAN, parts : [PartNums -> {"none", "partial", "part"}]]

FilesType ==
    /\ sidecar \in [IDs -> Sidecars \cup {NoFile}]
    /\ body \in [IDs -> Bodies \cup {NoFile}]
    /\ lastID \in 0..MaxVersions
    /\ \A v \in IDs : v > lastID => sidecar[v] = NoFile

StagingType ==
    /\ upload \in [Uploads -> Staged \cup {NoFile}]
    /\ writing \subseteq Uploads \X PartNums
    /\ partAcked \in [Uploads -> SUBSET PartNums]

\* The operation under way and the files it is about to change.
OpInv ==
    /\ op.kind \in {"idle", "publish", "unlink", "purge", "create", "unstage"}
    /\ op.kind = "publish" =>
        /\ op.key \in Keys /\ op.id \in IDs /\ op.id <= lastID /\ op.sum \in Contents /\ op.retention \in Retentions
        /\ op.upload \in Uploads \cup {NoUpload}
        /\ sidecar[op.id] = NoFile
        /\ body[op.id] = [key |-> op.key, content |-> op.sum]
    /\ op.kind = "unlink" => op.id \in IDs /\ sidecar[op.id] = NoFile
    /\ op.kind \in {"create", "unstage"} => op.upload \in Uploads
    /\ op.kind = "create" => upload[op.upload] # NoFile

\* A part whose UploadPart has returned is on disk as long as the upload is.
AckedWhole ==
    \A u \in Uploads : \A n \in partAcked[u] :
        /\ <<u, n>> \notin writing
        /\ upload[u] # NoFile => upload[u].parts[n] = "part"

LocalInv ==
    FilesType /\ StagingType /\ OpInv /\ AckedWhole /\ BodyBehindSidecar /\ PartsWhole

\* A file that exists is not NoFile, and no key is 0.
LEMMA FileKeys ==
    /\ \A s \in Sidecars : s # NoFile /\ s.key # 0
    /\ \A b \in Bodies : b # NoFile /\ b.key # 0
    /\ \A u \in Staged : u # NoFile
    /\ NoFile.key = 0
    BY LocalAssumption DEF Sidecars, Bodies, Staged, NoFile

\* The invariant holds initially.
LEMMA LocalInvInit == LocalInit => LocalInv
    BY LocalAssumption DEF LocalInit, LocalInv, FilesType, StagingType, OpInv, AckedWhole, BodyBehindSidecar,
       PartsWhole, Unlocked, IDs

\* The rename of a body under a new version ID.
LEMMA RenameStep ==
    ASSUME LocalInv, NEW k \in Keys, NEW content \in Contents, NEW ret \in Retentions,
           NEW u \in Uploads \cup {NoUpload}, op = Unlocked, ~content.partial,
           Rename(k, content, ret, u)
    PROVE  LocalInv'
<1>1. /\ lastID' \in IDs /\ lastID' = lastID + 1 /\ lastID' \in 0..MaxVersions
      /\ sidecar' = sidecar /\ sidecar[lastID'] = NoFile
      /\ body' = [body EXCEPT ![lastID'] = [key |-> k, content |-> content]]
      /\ upload' = upload /\ writing' = writing /\ partAcked' = partAcked /\ torn' = torn
    BY LocalAssumption DEF LocalInv, FilesType, Rename, IDs, staging
<1>2. op' = [kind |-> "publish", key |-> k, id |-> lastID', sum |-> content, retention |-> ret,
             upload |-> u]
    BY DEF Rename
<1>3. FilesType'
    BY <1>1 DEF LocalInv, FilesType, Bodies, IDs
<1>4. StagingType' /\ AckedWhole'
    BY <1>1 DEF LocalInv, StagingType, AckedWhole
<1>5. OpInv'
    BY <1>1, <1>2 DEF LocalInv, OpInv, FilesType
<1>6. BodyBehindSidecar'
    BY <1>1, <1>2 DEF LocalInv, BodyBehindSidecar, FilesType, Unlocked
<1>7. PartsWhole'
    BY <1>1 DEF LocalInv, PartsWhole, FilesType
<1> QED
    BY <1>3, <1>4, <1>5, <1>6, <1>7 DEF LocalInv

\* Put renames a whole body.
LEMMA PutStep ==
    ASSUME LocalInv, NEW k \in Keys, NEW ret \in Specs, NEW c \in BOOLEAN, Put(k, ret, c)
    PROVE  LocalInv'
<1>1. [origin |-> lastID + 1, partial |-> FALSE] \in Contents
    BY LocalAssumption DEF Put, Rename, Contents, LocalInv, FilesType
<1> QED
    BY <1>1, RenameStep, LocalAssumption DEF Put

\* CopyWithinProvider renames a copy of a body, which is whole.
LEMMA CopyStep ==
    ASSUME LocalInv, NEW src \in Keys, NEW v \in IDs, NEW k \in Keys, NEW ret \in Specs,
           Copy(src, v, k, ret)
    PROVE  LocalInv'
<1>1. body[v] \in Bodies /\ ~body[v].content.partial
    BY FileKeys, LocalAssumption DEF Copy, LocalInv, FilesType, PartsWhole
<1>2. body[v].content \in Contents
    BY <1>1 DEF Bodies
<1> QED
    BY <1>1, <1>2, RenameStep, LocalAssumption DEF Copy

\* CompleteMultipart assembles acknowledged parts, which are whole.
LEMMA CompleteStep ==
    ASSUME LocalInv, NEW u \in Uploads, NEW m \in PartNums, NEW ret \in Specs,
           CompleteMultipart(u, m, ret)
    PROVE  LocalInv'
<1> DEFINE partial == \E i \in 1..m : upload[u].parts[i] = "partial"
<1>1. ~partial
    BY Zenon DEF CompleteMultipart, LocalInv, AckedWhole
<1>2. [origin |-> lastID + 1, partial |-> partial] \in Contents
    BY LocalAssumption DEF CompleteMultipart, Rename, Contents, LocalInv, FilesType
<1>3. upload[u].key \in Keys
    BY DEF CompleteMultipart, LocalInv, StagingType, Staged
<1> QED
    BY <1>1, <1>2, <1>3, RenameStep, LocalAssumption, Zenon DEF CompleteMultipart

\* The sidecar is published over the body of its ID, or the body is removed.
LEMMA PublishStep == ASSUME LocalInv, Publish PROVE LocalInv'
<1>1. /\ op.kind = "publish" /\ op.id \in IDs /\ op.key \in Keys /\ op.sum \in Contents
      /\ op.retention \in Retentions /\ op.upload \in Uploads \cup {NoUpload}
      /\ sidecar[op.id] = NoFile /\ body[op.id] = [key |-> op.key, content |-> op.sum]
      /\ lastID' = lastID /\ torn' = torn
      /\ upload' = upload /\ writing' = writing /\ partAcked' = partAcked
    BY DEF LocalInv, OpInv, Publish, staging
<1>2. StagingType' /\ AckedWhole'
    BY <1>1 DEF LocalInv, StagingType, AckedWhole
<1>3. op.id <= lastID
    BY <1>1 DEF LocalInv, OpInv, IDs
<1>4. CASE /\ sidecar' = [sidecar EXCEPT ![op.id] = NewSidecar(op.key, op.sum, op.retention)]
           /\ op' = IF op.upload = NoUpload THEN Unlocked
                    ELSE [kind |-> "unstage", upload |-> op.upload]
           /\ body' = body
  <2>1. FilesType'
      BY <1>1, <1>3, <1>4 DEF LocalInv, FilesType, NewSidecar, Sidecars, IDs
  <2>2. OpInv' /\ op'.kind # "purge"
      BY <1>1, <1>4, LocalAssumption DEF OpInv, Unlocked
  <2>3. BodyBehindSidecar'
      BY <1>1, <1>4, <2>2 DEF LocalInv, FilesType, BodyBehindSidecar, NewSidecar
  <2> QED
      BY <1>2, <1>4, <2>1, <2>2, <2>3 DEF LocalInv, PartsWhole
<1>5. CASE body' = [body EXCEPT ![op.id] = NoFile] /\ Unlock /\ sidecar' = sidecar
  <2>1. FilesType' /\ OpInv' /\ op'.kind # "purge"
      BY <1>1, <1>5 DEF LocalInv, FilesType, OpInv, Unlock, Unlocked
  <2>2. BodyBehindSidecar' /\ PartsWhole'
      BY <1>1, <1>5, <2>1 DEF LocalInv, FilesType, BodyBehindSidecar, PartsWhole
  <2> QED
      BY <1>2, <2>1, <2>2 DEF LocalInv
<1> QED
    BY <1>4, <1>5 DEF Publish

\* A delete marker has no body.
LEMMA DeleteStep == ASSUME LocalInv, NEW k \in Keys, Delete(k) PROVE LocalInv'
<1>1. /\ lastID' \in IDs /\ lastID' = lastID + 1 /\ lastID' \in 0..MaxVersions
      /\ body' = body /\ sidecar' = [sidecar EXCEPT ![lastID'] = NewSidecar(k, Marker, NoLock)]
      /\ upload' = upload /\ writing' = writing /\ partAcked' = partAcked /\ torn' = torn
      /\ op' = op /\ op.kind = "idle"
    BY LocalAssumption DEF LocalInv, FilesType, Delete, IDs, staging, Unlocked
<1>2. NewSidecar(k, Marker, NoLock) \in Sidecars /\ NewSidecar(k, Marker, NoLock).sum = Marker
    BY LocalAssumption DEF NewSidecar, Sidecars, Marker, NoLock, Contents, Retentions, Modes
<1>3. FilesType'
    BY <1>1, <1>2 DEF LocalInv, FilesType, IDs
<1>4. StagingType' /\ AckedWhole' /\ OpInv' /\ PartsWhole'
    BY <1>1 DEF LocalInv, StagingType, AckedWhole, OpInv, PartsWhole
<1>5. BodyBehindSidecar'
    BY <1>1, <1>2 DEF LocalInv, FilesType, BodyBehindSidecar
<1> QED
    BY <1>3, <1>4, <1>5 DEF LocalInv

\* The sidecar goes first.
LEMMA DeleteVersionStep == ASSUME LocalInv, NEW v \in IDs, DeleteVersion(v) PROVE LocalInv'
<1>1. /\ sidecar' = [sidecar EXCEPT ![v] = NoFile] /\ body' = body /\ lastID' = lastID
      /\ op' = [kind |-> "unlink", id |-> v] /\ op.kind = "idle" /\ torn' = torn
      /\ upload' = upload /\ writing' = writing /\ partAcked' = partAcked
    BY DEF DeleteVersion, staging, Unlocked
<1>2. FilesType' /\ StagingType' /\ AckedWhole' /\ PartsWhole'
    BY <1>1 DEF LocalInv, FilesType, StagingType, AckedWhole, PartsWhole
<1>3. OpInv' /\ BodyBehindSidecar'
    BY <1>1 DEF LocalInv, FilesType, OpInv, BodyBehindSidecar
<1> QED
    BY <1>2, <1>3 DEF LocalInv

\* The body goes when its sidecar is gone.
LEMMA DeleteBodyStep == ASSUME LocalInv, DeleteBody PROVE LocalInv'
<1>1. /\ op.kind = "unlink" /\ op.id \in IDs /\ sidecar[op.id] = NoFile
      /\ sidecar' = sidecar /\ lastID' = lastID /\ op'.kind = "idle" /\ torn' = torn
      /\ body' = [body EXCEPT ![op.id] = NoFile] \/ body' = body
      /\ upload' = upload /\ writing' = writing /\ partAcked' = partAcked
    BY DEF LocalInv, OpInv, DeleteBody, Unlock, Unlocked, staging
<1>2. FilesType' /\ StagingType' /\ AckedWhole' /\ PartsWhole'
    BY <1>1 DEF LocalInv, FilesType, StagingType, AckedWhole, PartsWhole
<1>3. OpInv' /\ BodyBehindSidecar'
    BY <1>1 DEF LocalInv, FilesType, OpInv, BodyBehindSidecar
<1> QED
    BY <1>2, <1>3 DEF LocalInv

\* A purge may break the pairs of its own key only.
LEMMA PurgeStep ==
    ASSUME LocalInv, (\E k \in Keys : Purge(k)) \/ PurgeFile \/ PurgeReturns
    PROVE  LocalInv'
<1>1. CASE \E k \in Keys : Purge(k)
    BY <1>1 DEF LocalInv, FilesType, StagingType, AckedWhole, OpInv, BodyBehindSidecar, PartsWhole,
       Purge, files, staging, Unlocked
<1>2. CASE PurgeFile
  <2>1. /\ op.kind = "purge" /\ op' = op /\ lastID' = lastID /\ torn' = torn
        /\ upload' = upload /\ writing' = writing /\ partAcked' = partAcked
        /\ \E v \in IDs :
            \/ sidecar[v].key = op.key /\ sidecar' = [sidecar EXCEPT ![v] = NoFile] /\ body' = body
            \/ body[v].key = op.key /\ body' = [body EXCEPT ![v] = NoFile] /\ sidecar' = sidecar
      BY <1>2 DEF PurgeFile, staging
  <2>2. FilesType' /\ StagingType' /\ AckedWhole' /\ PartsWhole' /\ OpInv'
      BY <2>1 DEF LocalInv, FilesType, StagingType, AckedWhole, PartsWhole, OpInv
  <2>3. BodyBehindSidecar'
      BY <2>1 DEF LocalInv, FilesType, BodyBehindSidecar
  <2> QED
      BY <2>2, <2>3 DEF LocalInv
<1>3. CASE PurgeReturns
  <2>1. /\ op.kind = "purge" /\ op'.kind = "idle" /\ lastID' = lastID
        /\ sidecar' = sidecar /\ body' = body
        /\ upload' = upload /\ writing' = writing /\ partAcked' = partAcked
        /\ \/ (\A v \in IDs : sidecar[v].key # op.key) /\ torn' = torn \ {op.key}
           \/ torn' = torn \cup {op.key}
      BY <1>3 DEF PurgeReturns, files, staging, Unlock, Unlocked
  <2>2. FilesType' /\ StagingType' /\ AckedWhole' /\ PartsWhole' /\ OpInv'
      BY <2>1 DEF LocalInv, FilesType, StagingType, AckedWhole, PartsWhole, OpInv
  <2>3. BodyBehindSidecar'
      BY <2>1 DEF LocalInv, FilesType, BodyBehindSidecar
  <2> QED
      BY <2>2, <2>3 DEF LocalInv
<1> QED
    BY <1>1, <1>2, <1>3

\* UpdateRetention stays within the retentions.
LEMMA UpdatedType ==
    ASSUME NEW old \in Retentions, NEW mode \in Modes, NEW until \in 0..MaxDate, NEW clear \in BOOLEAN
    PROVE  Updated(old, mode, until, clear) \subseteq Retentions
<1> DEFINE dated == IF until = 0 THEN old ELSE [old EXCEPT !.until = until]
           shorter == until # 0 /\ until < old.until
<1>1. dated \in Retentions /\ [dated EXCEPT !.mode = mode] \in Retentions /\ NoLock \in Retentions
    BY LocalAssumption DEF Retentions, NoLock, Modes
<1> HIDE DEF dated, shorter
<1>2. \/ Updated(old, mode, until, clear) = {}
      \/ Updated(old, mode, until, clear) = {dated}
      \/ Updated(old, mode, until, clear) = {NoLock}
      \/ Updated(old, mode, until, clear) = {[dated EXCEPT !.mode = mode]}
    BY DEF Updated, dated
<1> QED
    BY <1>1, <1>2

\* Only the retention of a version changes.
LEMMA RetentionStep ==
    ASSUME LocalInv, NEW v \in IDs, sidecar[v] # NoFile, NEW ret \in Retentions,
           sidecar' = [sidecar EXCEPT ![v].retention = ret],
           UNCHANGED <<body, lastID, staging, op, torn>>, op = Unlocked
    PROVE  LocalInv'
<1>1. /\ sidecar[v] \in Sidecars /\ sidecar'[v] = [sidecar[v] EXCEPT !.retention = ret]
      /\ \A w \in IDs \ {v} : sidecar'[w] = sidecar[w]
    BY DEF LocalInv, FilesType
<1>2. /\ sidecar'[v] \in Sidecars /\ sidecar'[v].key = sidecar[v].key
      /\ sidecar'[v].sum = sidecar[v].sum
    BY <1>1 DEF Sidecars
<1>3. FilesType'
    BY <1>1, <1>2 DEF LocalInv, FilesType
<1>4. StagingType' /\ AckedWhole' /\ PartsWhole' /\ OpInv' /\ op.kind = "idle"
    BY DEF LocalInv, StagingType, AckedWhole, PartsWhole, OpInv, staging, Unlocked
<1>5. BodyBehindSidecar'
    BY <1>1, <1>2, <1>4 DEF LocalInv, BodyBehindSidecar
<1> QED
    BY <1>3, <1>4, <1>5 DEF LocalInv

\* UpdateRetention keeps the invariant.
LEMMA UpdateRetentionStep ==
    ASSUME LocalInv, NEW v \in IDs, NEW mode \in Modes, NEW until \in 0..MaxDate, NEW clear \in BOOLEAN,
           UpdateRetention(v, mode, until, clear)
    PROVE  LocalInv'
<1>1. sidecar[v] \in Sidecars
    BY DEF LocalInv, FilesType, UpdateRetention
<1>2. sidecar[v].retention \in Retentions
    BY <1>1 DEF Sidecars
<1>3. PICK new \in Updated(sidecar[v].retention, mode, until, clear) :
           sidecar' = [sidecar EXCEPT ![v].retention = new]
    BY Zenon DEF UpdateRetention
<1> QED
    BY <1>2, <1>3, UpdatedType, RetentionStep, Zenon DEF UpdateRetention

\* SetLegalHold keeps the invariant.
LEMMA SetLegalHoldStep ==
    ASSUME LocalInv, NEW v \in IDs, NEW enabled \in BOOLEAN, SetLegalHold(v, enabled)
    PROVE  LocalInv'
<1>1. sidecar[v] \in Sidecars
    BY DEF LocalInv, FilesType, SetLegalHold
<1>2. [sidecar[v].retention EXCEPT !.hold = enabled] \in Retentions
    BY <1>1 DEF Sidecars, Retentions
<1>3. sidecar' = [sidecar EXCEPT ![v].retention = [sidecar[v].retention EXCEPT !.hold = enabled]]
    BY <1>1 DEF SetLegalHold, LocalInv, FilesType
<1> QED
    BY <1>2, <1>3, RetentionStep, Zenon DEF SetLegalHold

\* Steps that leave the version files alone and hold no purge.
LEMMA StagingStep ==
    ASSUME LocalInv, UNCHANGED <<files, torn>>, StagingType', AckedWhole', OpInv',
           op' = op \/ (op.kind # "purge" /\ op'.kind # "purge")
    PROVE  LocalInv'
    BY DEF LocalInv, FilesType, BodyBehindSidecar, PartsWhole, files

\* An upload begins with no part acknowledged.
LEMMA CreateStep ==
    ASSUME LocalInv, NEW k \in Keys, NEW u \in Uploads, CreateMultipart(k, u)
    PROVE  LocalInv'
<1> DEFINE new == [key |-> k, meta |-> FALSE, parts |-> [n \in PartNums |-> "none"]]
<1>1. new \in Staged /\ new # NoFile
    BY FileKeys, Zenon DEF Staged
<1>2. /\ upload' = [upload EXCEPT ![u] = new] /\ partAcked[u] = {}
      /\ op' = [kind |-> "create", upload |-> u] /\ op.kind = "idle"
      /\ writing' = writing /\ partAcked' = partAcked /\ UNCHANGED <<files, torn>>
    BY DEF CreateMultipart, Unlocked
<1> HIDE DEF new
<1>3. StagingType' /\ AckedWhole' /\ OpInv'
    BY <1>1, <1>2 DEF LocalInv, StagingType, AckedWhole, OpInv
<1> QED
    BY <1>2, <1>3, StagingStep

\* The metadata of an upload is written, or its directory removed.
LEMMA WriteUploadMetaStep == ASSUME LocalInv, WriteUploadMeta PROVE LocalInv'
<1>1. /\ op.kind = "create" /\ op.upload \in Uploads /\ upload[op.upload] \in Staged
      /\ op'.kind = "idle" /\ writing' = writing /\ partAcked' = partAcked
      /\ UNCHANGED <<files, torn>>
    BY DEF WriteUploadMeta, Unlock, Unlocked, LocalInv, OpInv, StagingType
<1> DEFINE new == [upload[op.upload] EXCEPT !.meta = TRUE]
<1>2. new \in Staged /\ new.parts = upload[op.upload].parts
    BY <1>1, Zenon DEF Staged
<1>3. upload' = [upload EXCEPT ![op.upload] = new] \/ upload' = [upload EXCEPT ![op.upload] = NoFile]
    BY DEF WriteUploadMeta
<1> HIDE DEF new
<1>4. StagingType' /\ OpInv'
    BY <1>1, <1>2, <1>3 DEF LocalInv, StagingType, OpInv
<1>5. AckedWhole'
  <2> SUFFICES ASSUME NEW u \in Uploads, NEW n \in partAcked'[u]
               PROVE  <<u, n>> \notin writing' /\ (upload'[u] # NoFile => upload'[u].parts[n] = "part")
      BY DEF AckedWhole
  <2>1. <<u, n>> \notin writing /\ (upload[u] # NoFile => upload[u].parts[n] = "part")
      BY <1>1 DEF LocalInv, AckedWhole
  <2>2. CASE u = op.upload
      BY <1>1, <1>2, <1>3, <2>1, <2>2, FileKeys DEF LocalInv, StagingType
  <2>3. CASE u # op.upload
      BY <1>1, <1>3, <2>1, <2>3 DEF LocalInv, StagingType
  <2> QED
      BY <2>2, <2>3
<1> QED
    BY <1>1, <1>4, <1>5, StagingStep

\* A staging directory goes.
LEMMA AbortStep ==
    ASSUME LocalInv, NEW u \in Uploads, upload' \in {upload, [upload EXCEPT ![u] = NoFile]},
           op'.kind = "idle", op.kind \in {"idle", "unstage"},
           UNCHANGED <<files, writing, partAcked, torn>>
    PROVE  LocalInv'
<1>1. StagingType' /\ OpInv' /\ AckedWhole'
    BY DEF LocalInv, StagingType, OpInv, AckedWhole
<1> QED
    BY <1>1, StagingStep

\* A part is acknowledged when it is filled, and not opened again.
LEMMA UploadPartStep ==
    ASSUME LocalInv, NEW u \in Uploads, NEW n \in PartNums, UploadPart(u, n) \/ FillPart(u, n)
    PROVE  LocalInv'
<1> DEFINE With(content) == [upload[u] EXCEPT !.parts = [@ EXCEPT ![n] = content]]
<1>1. ASSUME upload[u] # NoFile, NEW content \in {"partial", "part"}
      PROVE  /\ With(content) \in Staged /\ With(content).parts[n] = content
             /\ \A m \in PartNums \ {n} : With(content).parts[m] = upload[u].parts[m]
    BY <1>1 DEF LocalInv, StagingType, Staged
<1>2. CASE UploadPart(u, n)
  <2>1. /\ upload[u] # NoFile /\ n \notin partAcked[u] /\ upload' = [upload EXCEPT ![u] = With("partial")]
        /\ writing' = writing \cup {<<u, n>>} /\ partAcked' = partAcked /\ op' = op
        /\ UNCHANGED <<files, torn>>
      BY <1>2 DEF UploadPart
  <2> HIDE DEF With
  <2>2. StagingType' /\ AckedWhole'
      BY <1>1, <2>1 DEF LocalInv, StagingType, AckedWhole
  <2>3. OpInv'
      BY <1>1, <2>1, FileKeys DEF LocalInv, StagingType, OpInv, files
  <2> QED
      BY <2>1, <2>2, <2>3, StagingStep
<1>3. CASE FillPart(u, n)
  <2>1. /\ <<u, n>> \in writing /\ writing' = writing \ {<<u, n>>} /\ op' = op
        /\ UNCHANGED <<files, torn>>
        /\ \/ /\ partAcked' = [partAcked EXCEPT ![u] = @ \cup {n}]
              /\ upload' = IF upload[u] = NoFile THEN upload ELSE [upload EXCEPT ![u] = With("part")]
           \/ upload' = upload /\ partAcked' = partAcked
      BY <1>3 DEF FillPart
  <2> HIDE DEF With
  <2>2. StagingType'
      BY <1>1, <2>1 DEF LocalInv, StagingType
  <2>3. AckedWhole'
    <3> SUFFICES ASSUME NEW w \in Uploads, NEW m \in partAcked'[w]
                 PROVE  <<w, m>> \notin writing' /\ (upload'[w] # NoFile => upload'[w].parts[m] = "part")
        BY DEF AckedWhole
    <3>1. CASE w = u /\ m = n
        BY <1>1, <2>1, <3>1 DEF LocalInv, StagingType, AckedWhole
    <3>2. CASE w # u \/ m # n
        BY <1>1, <2>1, <3>2 DEF LocalInv, StagingType, AckedWhole
    <3> QED
        BY <3>1, <3>2
  <2>4. OpInv'
      BY <1>1, <2>1, FileKeys DEF LocalInv, StagingType, OpInv, files
  <2> QED
      BY <2>1, <2>2, <2>3, <2>4, StagingStep
<1> QED
    BY <1>2, <1>3

\* A crash at any step keeps the invariant.
LEMMA ProcessDiesStep == ASSUME LocalInv, ProcessDies PROVE LocalInv'
<1>1. /\ op'.kind = "idle" /\ UNCHANGED <<files, upload>> /\ writing' = {}
      /\ partAcked' = [u \in Uploads |-> {}]
      /\ torn' = IF op.kind = "purge" THEN torn \cup {op.key} ELSE torn
    BY DEF ProcessDies, Unlocked
<1>2. FilesType' /\ StagingType' /\ AckedWhole' /\ PartsWhole' /\ OpInv'
    BY <1>1 DEF LocalInv, FilesType, StagingType, AckedWhole, PartsWhole, OpInv, files
<1>3. BodyBehindSidecar'
    BY <1>1 DEF LocalInv, BodyBehindSidecar, files
<1> QED
    BY <1>2, <1>3 DEF LocalInv

\* Every step keeps the invariant.
LEMMA LocalInvStep == LocalInv /\ [LocalNext]_localVars => LocalInv'
<1> SUFFICES ASSUME LocalInv, [LocalNext]_localVars PROVE LocalInv'
    OBVIOUS
<1>1. ASSUME NEW k \in Keys, NEW ret \in Specs,
             (\E c \in BOOLEAN : Put(k, ret, c)) \/ \E src \in Keys, v \in IDs : Copy(src, v, k, ret)
      PROVE  LocalInv'
    BY <1>1, PutStep, CopyStep
<1>2. ASSUME NEW u \in Uploads, NEW m \in PartNums, NEW ret \in Specs, CompleteMultipart(u, m, ret)
      PROVE  LocalInv'
    BY <1>2, CompleteStep
<1>3. CASE Publish \/ DeleteBody \/ PurgeFile \/ PurgeReturns \/ WriteUploadMeta
    BY <1>3, PublishStep, DeleteBodyStep, PurgeStep, WriteUploadMetaStep
<1>4. CASE Unstage
  <2>1. op.kind = "unstage" /\ op.upload \in Uploads /\ op'.kind = "idle"
      BY <1>4 DEF Unstage, Unlock, Unlocked, LocalInv, OpInv
  <2> QED
      BY <1>4, <2>1, AbortStep DEF Unstage
<1>5. ASSUME NEW k \in Keys, Delete(k) \/ Purge(k) \/ \E u \in Uploads : CreateMultipart(k, u)
      PROVE  LocalInv'
    BY <1>5, DeleteStep, PurgeStep, CreateStep
<1>6. ASSUME NEW v \in IDs,
             \/ DeleteVersion(v)
             \/ \E s \in Specs : SetLegalHold(v, s.hold)
             \/ \E s \in Specs, until \in 0..MaxDate, clear \in BOOLEAN :
                    UpdateRetention(v, s.mode, until, clear)
      PROVE  LocalInv'
  <2>1. \A s \in Specs : s.hold \in BOOLEAN /\ s.mode \in Modes
      BY LocalAssumption DEF Retentions
  <2> QED
      BY <1>6, <2>1, DeleteVersionStep, SetLegalHoldStep, UpdateRetentionStep
<1>7. ASSUME NEW u \in Uploads, Abort(u) \/ \E n \in PartNums : UploadPart(u, n) \/ FillPart(u, n)
      PROVE  LocalInv'
  <2>1. CASE Abort(u)
      BY <2>1, AbortStep, Zenon DEF Abort, Unlocked
  <2> QED
      BY <1>7, <2>1, UploadPartStep
<1>8. CASE StartScan \/ ListObjects \/ UNCHANGED localVars
  <2>1. UNCHANGED <<files, staging, op, torn>>
      BY <1>8 DEF StartScan, ListObjects, localVars
  <2> QED
      BY <2>1 DEF files, staging, LocalInv, FilesType, StagingType, OpInv, AckedWhole,
         BodyBehindSidecar, PartsWhole
<1> QED
    BY <1>1, <1>2, <1>3, <1>4, <1>5, <1>6, <1>7, <1>8, ProcessDiesStep DEF LocalNext

\* LocalInv, the conjunction of the two properties below with what each step
\* knows of the files it is about to change, is an invariant.
THEOREM LocalInvHolds == LocalSpec => []LocalInv
    BY LocalInvInit, LocalInvStep, PTL DEF LocalSpec

\* Behind every visible version there is its body, whatever fails and whenever
\* the process dies, for any keys, versions and uploads; only a purge that was cut
\* short may leave a sidecar without one.
THEOREM BodyBehindSidecarHolds == LocalSpec => []BodyBehindSidecar
    BY LocalInvHolds, PTL DEF LocalInv

\* No body contains an incomplete part, although UploadPart takes no lock, for
\* any uploads and any number of parts.
THEOREM PartsWholeHolds == LocalSpec => []PartsWhole
    BY LocalInvHolds, PTL DEF LocalInv

-----------------------------------------------------------------------------
(* The listing.                                                            *)

\* In a finite set of numbers, every rank is taken.
LEMMA Ranks ==
    ASSUME NEW S \in SUBSET Nat, IsFiniteSet(S), NEW i \in Nat, i < Cardinality(S)
    PROVE  \E x \in S : Cardinality({y \in S : y < x}) = i
<1> DEFINE n == Cardinality(S)
           Below(x) == {y \in S : y < x}
           rank == [x \in S |-> Cardinality(Below(x))]
<1>1. n \in Nat
    BY FS_CardinalityType
<1>2. ASSUME NEW x \in S
      PROVE  IsFiniteSet(Below(x)) /\ Cardinality(Below(x)) \in 0..(n - 1)
  <2>1. IsFiniteSet(Below(x)) /\ Cardinality(Below(x)) <= n /\ (n = Cardinality(Below(x)) => S = Below(x))
      BY FS_Subset
  <2>2. Cardinality(Below(x)) \in Nat
      BY <2>1, FS_CardinalityType
  <2>3. x \notin Below(x)
      OBVIOUS
  <2> QED
      BY <1>1, <2>1, <2>2, <2>3
<1>3. ASSUME NEW x \in S, NEW y \in S, x < y
      PROVE  Cardinality(Below(x)) < Cardinality(Below(y))
  <2>1. Below(x) \in SUBSET Below(y) /\ x \in Below(y) /\ x \notin Below(x)
    <3>1. ASSUME NEW z \in S, z < x PROVE z < y
        BY <1>3, <3>1
    <3>2. Below(x) \in SUBSET Below(y)
        BY <3>1, Zenon
    <3>3. ~(x < x)
        OBVIOUS
    <3> QED
        BY <1>3, <3>2, <3>3
  <2>2. /\ Cardinality(Below(x)) <= Cardinality(Below(y))
        /\ Cardinality(Below(y)) = Cardinality(Below(x)) => Below(y) = Below(x)
      BY <1>2, <2>1, FS_Subset
  <2> QED
      BY <1>2, <2>1, <2>2
<1> HIDE DEF Below
<1>4. rank \in Injection(S, 0..(n - 1))
    BY <1>2, <1>3 DEF Injection, IsInjective
<1>5. IsFiniteSet(0..(n - 1)) /\ Cardinality(0..(n - 1)) = n
  <2>1. 0 \in Int /\ n - 1 \in Int
      BY <1>1
  <2> HIDE DEF n
  <2> QED
      BY <1>1, <2>1, FS_Interval
<1>6. rank \in Surjection(S, 0..(n - 1))
    BY <1>4, <1>5, FS_Injection
<1>7. i \in 0..(n - 1)
    BY <1>1
<1>8. PICK x \in S : rank[x] = i
    BY <1>6, <1>7, Zenon DEF Surjection
<1> QED
    BY <1>8 DEF Below

\* A finite set of numbers that is not empty has a largest element.
LEMMA FiniteMax ==
    ASSUME NEW S \in SUBSET Nat, IsFiniteSet(S), S # {}
    PROVE  Max(S) \in S /\ \A y \in S : y <= Max(S)
<1>1. Cardinality(S) \in Nat /\ Cardinality(S) # 0
    BY FS_CardinalityType, FS_EmptySet
<1>2. Cardinality(S) - 1 \in Nat /\ Cardinality(S) - 1 < Cardinality(S)
    BY <1>1
<1>3. PICK x \in S : Cardinality({y \in S : y < x}) = Cardinality(S) - 1
    BY <1>2, Ranks
<1>4. IsFiniteSet(S \ {x}) /\ Cardinality(S \ {x}) = Cardinality(S) - 1
    BY FS_RemoveElement
<1>5. {y \in S : y < x} \in SUBSET (S \ {x})
    OBVIOUS
<1>6. S \ {x} = {y \in S : y < x}
    BY <1>3, <1>4, <1>5, FS_Subset
<1>7. \A y \in S : x >= y
    BY <1>6
<1>8. \E z \in S : \A y \in S : z >= y
    BY <1>7
<1> QED
    BY <1>8, Zenon DEF Max

\* The scan so far: the keys up to the cursor that were listable throughout
\* have been seen, and no key beyond it has.
ScanInv ==
    scan.on =>
        /\ PageSize > 0 /\ scan.cursor \in Nat
        /\ \A k \in scan.seen : k \in Nat /\ k <= scan.cursor
        /\ \A k \in scan.all : k <= scan.cursor => k \in scan.seen

\* A truncated page ends with its largest key and skips none before it.
LEMMA PageFacts ==
    ASSUME NEW cursor \in Nat, PageSize > 0, Page(cursor) # After(cursor)
    PROVE  /\ Max(Page(cursor)) \in Page(cursor)
           /\ \A k \in After(cursor) : k <= Max(Page(cursor)) <=> k \in Page(cursor)
<1> DEFINE all == After(cursor)
           page == Page(cursor)
           Before(k) == {j \in all : j < k}
<1>1. all \in SUBSET Nat /\ IsFiniteSet(all) /\ page \in SUBSET all /\ PageSize \in Nat
    BY LocalAssumption, FS_Subset, Zenon DEF After, Page, Listed
<1>2. all # {}
    BY DEF Page
<1>3. Cardinality(all) \in Nat /\ 0 < Cardinality(all)
    BY <1>1, <1>2, FS_CardinalityType, FS_EmptySet
<1>4. \E k \in all : Cardinality(Before(k)) = 0
    BY <1>1, <1>3, Ranks
<1>5. page # {}
    BY <1>4 DEF Page
<1>6. page \in SUBSET Nat /\ IsFiniteSet(page)
    BY <1>1, FS_Subset
<1>7. Max(page) \in page /\ \A k \in page : k <= Max(page)
    BY <1>5, <1>6, FiniteMax
<1>8. ASSUME NEW k \in all, k <= Max(page) PROVE k \in page
  <2> DEFINE m == Max(page)
  <2>1. m \in all /\ k \in Nat /\ m \in Nat /\ Cardinality(Before(m)) < PageSize
      BY <1>1, <1>7 DEF Page
  <2>2. Before(k) \in SUBSET Before(m) /\ Before(m) \in SUBSET all
    <3>1. ASSUME NEW j \in all, j < k PROVE j < m
      <4>1. j \in Nat
          BY <1>1
      <4> HIDE DEF m
      <4> QED
          BY <1>8, <2>1, <3>1, <4>1 DEF m
    <3> HIDE DEF m, all
    <3> QED
        BY <3>1
  <2>3. /\ IsFiniteSet(Before(m)) /\ IsFiniteSet(Before(k))
        /\ Cardinality(Before(k)) <= Cardinality(Before(m))
      BY <1>1, <2>2, FS_Subset
  <2>4. Cardinality(Before(m)) \in Nat /\ Cardinality(Before(k)) \in Nat
      BY <2>3, FS_CardinalityType
  <2>5. Cardinality(Before(k)) < PageSize
      BY <1>1, <2>1, <2>3, <2>4
  <2> QED
      BY <2>5 DEF Page
<1> QED
    BY <1>7, <1>8

\* A page keeps the invariant and is as ListingStep says.
LEMMA ListObjectsStep == ASSUME ScanInv, ListObjects PROVE ScanInv' /\ ListingStep
<1> DEFINE page == Page(scan.cursor)
           after == After(scan.cursor)
<1>1. /\ PageSize > 0 /\ scan.cursor \in Nat
      /\ \A k \in scan.seen : k \in Nat /\ k <= scan.cursor
      /\ \A k \in scan.all : k <= scan.cursor => k \in scan.seen
    BY DEF ScanInv, ListObjects
<1>2. \A k \in after : k \in Nat /\ k > scan.cursor /\ k \in Listed
    BY LocalAssumption DEF After, Listed
<1>3. page \subseteq after /\ \A k \in Listed : k \in Nat /\ (k > scan.cursor => k \in after)
    BY LocalAssumption DEF Page, After, Listed
<1>4. CASE page = after /\ scan' = NoScan
  <2>1. ScanInv' /\ ~scan'.on
      BY <1>4 DEF ScanInv, NoScan
  <2>2. page \cap scan.seen = {} /\ scan.all \cap Listed \subseteq scan.seen \cup page
      BY <1>1, <1>2, <1>3, <1>4
  <2> QED
      BY <2>1, <2>2 DEF ListingStep
<1>5. CASE /\ page # after
           /\ scan' = [on |-> TRUE, cursor |-> Max(page), seen |-> scan.seen \cup page,
                       all |-> scan.all \cap Listed]
  <2>1. Max(page) \in page /\ \A k \in after : k <= Max(page) <=> k \in page
      BY <1>1, <1>5, PageFacts
  <2> HIDE DEF page, after
  <2>2. Max(page) \in Nat /\ Max(page) > scan.cursor
      BY <1>2, <1>3, <2>1
  <2>3. \A k \in scan.seen \cup page : k \in Nat /\ k <= Max(page)
      BY <1>1, <1>2, <1>3, <2>1, <2>2
  <2>4. \A k \in scan.all \cap Listed : k <= Max(page) => k \in scan.seen \cup page
      BY <1>1, <1>2, <1>3, <2>1, <2>2
  <2>5. ScanInv' /\ scan'.on
      BY <1>1, <1>5, <2>2, <2>3, <2>4 DEF ScanInv
  <2>6. page \cap scan.seen = {}
      BY <1>1, <1>2, <1>3
  <2> QED
      BY <2>5, <2>6 DEF ListingStep, page
<1> QED
    BY <1>4, <1>5 DEF ListObjects

\* A scan of ListObjects has no key twice and misses none that was listable
\* throughout, for any set of keys, any page size and any writes between the pages.
THEOREM ListingCompleteHolds == LocalSpec => ListingComplete
<1>1. LocalInit => ScanInv
    BY DEF LocalInit, ScanInv, NoScan
<1>2. ScanInv /\ [LocalNext]_localVars => ScanInv'
  <2> SUFFICES ASSUME ScanInv, [LocalNext]_localVars PROVE ScanInv'
      OBVIOUS
  <2>1. CASE StartScan
      BY <2>1, LocalAssumption DEF StartScan, ScanInv, Listed
  <2>2. CASE UNCHANGED scan
      BY <2>2 DEF ScanInv
  <2>3. StartScan \/ ListObjects \/ UNCHANGED scan
      BY Zenon DEF LocalNext, localVars, Put, Copy, CompleteMultipart, Rename, Publish, DeleteBody, PurgeFile,
         PurgeReturns, WriteUploadMeta, Unstage, Delete, Purge, CreateMultipart, DeleteVersion,
         SetLegalHold, UpdateRetention, Abort, UploadPart, FillPart, ProcessDies
  <2> QED
      BY <2>1, <2>2, <2>3, ListObjectsStep
<1>3. ScanInv /\ [LocalNext]_localVars => [ListingStep]_localVars
    BY ListObjectsStep DEF ListingStep
<1> QED
    BY <1>1, <1>2, <1>3, PTL DEF LocalSpec, ListingComplete

-----------------------------------------------------------------------------
(* The refinement of VersionedStore.                                       *)

\* While a version is being published no other ID is handed out, and no body
\* looks like a delete marker.
VersionInv ==
    /\ op.kind = "publish" => op.id = lastID
    /\ \A v \in IDs : body[v] # NoFile => body[v].content # Marker

\* The last ID and the bodies change in the writes, which rename a body that is
\* no marker under a new ID.
LEMMA RenameVersion ==
    ASSUME LocalInv, VersionInv, NEW k \in Keys, NEW content \in Contents, NEW ret, NEW u,
           content # Marker, Rename(k, content, ret, u)
    PROVE  VersionInv'
<1>1. /\ lastID' \in IDs /\ op'.id = lastID'
      /\ body' = [body EXCEPT ![lastID'] = [key |-> k, content |-> content]]
    BY LocalAssumption DEF Rename, LocalInv, FilesType, IDs
<1>2. body \in [IDs -> Bodies \cup {NoFile}]
    BY DEF LocalInv, FilesType
<1>3. \A v \in IDs : body'[v] = IF v = lastID' THEN [key |-> k, content |-> content] ELSE body[v]
    BY <1>1, <1>2
<1> QED
    BY <1>1, <1>3 DEF VersionInv

\* The steps that touch no version file, and start no write.
LEMMA FilesAlone ==
    ASSUME \/ UNCHANGED localVars \/ PurgeReturns \/ WriteUploadMeta \/ Unstage
           \/ (\E k \in Keys : Purge(k) \/ \E u \in Uploads : CreateMultipart(k, u))
           \/ (\E u \in Uploads : Abort(u) \/ \E n \in PartNums : UploadPart(u, n) \/ FillPart(u, n))
           \/ StartScan \/ ListObjects \/ ProcessDies
    PROVE  UNCHANGED files /\ (op' = op \/ op'.kind # "publish")
<1>1. CASE UNCHANGED localVars \/ StartScan \/ ListObjects
    BY <1>1 DEF localVars, StartScan, ListObjects
<1>2. CASE PurgeReturns \/ WriteUploadMeta \/ Unstage \/ ProcessDies
  <2>1. UNCHANGED files
      BY <1>2 DEF PurgeReturns, WriteUploadMeta, Unstage, ProcessDies
  <2>2. op' = Unlocked
      BY <1>2 DEF PurgeReturns, WriteUploadMeta, Unstage, ProcessDies, Unlock
  <2> QED
      BY <2>1, <2>2 DEF Unlocked
<1>3. CASE \E k \in Keys : Purge(k)
    BY <1>3 DEF Purge
<1>4. CASE \E k \in Keys, u \in Uploads : CreateMultipart(k, u)
  <2>1. PICK k \in Keys, u \in Uploads : CreateMultipart(k, u)
      BY <1>4
  <2>2. UNCHANGED files
      BY <2>1 DEF CreateMultipart
  <2>3. op' = [kind |-> "create", upload |-> u]
      BY <2>1 DEF CreateMultipart
  <2> QED
      BY <2>2, <2>3
<1>5. CASE \E u \in Uploads : Abort(u)
    BY <1>5 DEF Abort
<1>6. CASE \E u \in Uploads, n \in PartNums : UploadPart(u, n) \/ FillPart(u, n)
    BY <1>6 DEF UploadPart, FillPart
<1> QED
    BY <1>1, <1>2, <1>3, <1>4, <1>5, <1>6

\* Every step keeps this.
LEMMA VersionInvStep == LocalInv /\ VersionInv /\ [LocalNext]_localVars => VersionInv'
<1> SUFFICES ASSUME LocalInv, VersionInv, [LocalNext]_localVars PROVE VersionInv'
    OBVIOUS
<1>0. lastID \in Nat /\ body \in [IDs -> Bodies \cup {NoFile}]
    BY LocalAssumption DEF LocalInv, FilesType
<1>1. ASSUME UNCHANGED <<body, lastID>>, op' = op \/ op'.kind # "publish"
      PROVE  VersionInv'
    BY <1>1 DEF VersionInv
<1>2. ASSUME NEW v \in IDs, body' = [body EXCEPT ![v] = NoFile], lastID' = lastID,
             op' = op \/ op'.kind # "publish"
      PROVE  VersionInv'
  <2>1. \A w \in IDs : body'[w] = IF w = v THEN NoFile ELSE body[w]
      BY <1>0, <1>2
  <2> QED
      BY <1>2, <2>1 DEF VersionInv
<1>3. ASSUME NEW k \in Keys, NEW ret \in Specs, NEW c \in BOOLEAN, Put(k, ret, c)
      PROVE  VersionInv'
  <2>1. /\ [origin |-> lastID + 1, partial |-> FALSE] \in Contents
        /\ [origin |-> lastID + 1, partial |-> FALSE] # Marker
      BY <1>0, <1>3, LocalAssumption DEF Put, Rename, Contents, Marker
  <2> QED
      BY <1>3, <2>1, RenameVersion DEF Put
<1>4. ASSUME NEW k \in Keys, NEW ret \in Specs, NEW src \in Keys, NEW v \in IDs, Copy(src, v, k, ret)
      PROVE  VersionInv'
  <2>1. body[v] # NoFile /\ body[v] \in Bodies
      BY <1>0, <1>4, LocalAssumption DEF Copy, NoFile
  <2>2. body[v].content \in Contents /\ body[v].content # Marker
      BY <2>1 DEF Bodies, VersionInv
  <2> QED
      BY <1>4, <2>2, RenameVersion DEF Copy
<1>5. ASSUME NEW u \in Uploads, NEW m \in PartNums, NEW ret \in Specs, CompleteMultipart(u, m, ret)
      PROVE  VersionInv'
  <2> DEFINE whole == [origin |-> lastID + 1,
                       partial |-> \E i \in 1..m : upload[u].parts[i] = "partial"]
  <2>1. lastID + 1 \in 0..MaxVersions /\ lastID + 1 # 0
    <3>1. lastID < MaxVersions
        BY <1>5 DEF CompleteMultipart, Rename
    <3> QED
        BY <1>0, <3>1, LocalAssumption
  <2>2. whole \in Contents /\ whole # Marker
      BY <2>1 DEF Contents, Marker
  <2>3. upload[u].key \in Keys
      BY <1>5 DEF CompleteMultipart, LocalInv, StagingType, Staged
  <2>4. Rename(upload[u].key, whole, ret, u)
      BY <1>5 DEF CompleteMultipart
  <2> QED
      BY <2>2, <2>3, <2>4, RenameVersion
<1>6. CASE Publish
  <2>1. op.id \in IDs /\ op'.kind # "publish" /\ lastID' = lastID
    <3>1. op.kind = "publish" /\ lastID' = lastID
        BY <1>6 DEF Publish
    <3>2. op.id \in IDs
        BY <3>1 DEF LocalInv, OpInv
    <3>3. op' = Unlocked \/ op' = [kind |-> "unstage", upload |-> op.upload]
        BY <1>6 DEF Publish, Unlock
    <3> QED
        BY <3>1, <3>2, <3>3 DEF Unlocked
  <2> QED
      BY <1>1, <1>2, <1>6, <2>1 DEF Publish
<1>7. ASSUME NEW k \in Keys, Delete(k)
      PROVE  VersionInv'
    BY <1>7 DEF Delete, Unlocked, VersionInv
<1>8. CASE DeleteBody
  <2>1. op.id \in IDs /\ op'.kind # "publish" /\ lastID' = lastID
      BY <1>8 DEF DeleteBody, Unlock, Unlocked, LocalInv, OpInv
  <2> QED
      BY <1>1, <1>2, <1>8, <2>1 DEF DeleteBody
<1>9. CASE PurgeFile
    BY <1>1, <1>2, <1>9 DEF PurgeFile
<1>10. ASSUME NEW v \in IDs,
              \/ DeleteVersion(v) \/ (\E s \in Specs : SetLegalHold(v, s.hold))
              \/ \E s \in Specs, until \in 0..MaxDate, clear \in BOOLEAN :
                    UpdateRetention(v, s.mode, until, clear)
       PROVE  VersionInv'
    BY <1>1, <1>10 DEF DeleteVersion, SetLegalHold, UpdateRetention
<1>11. ASSUME \/ UNCHANGED localVars \/ PurgeReturns \/ WriteUploadMeta \/ Unstage
              \/ (\E k \in Keys : Purge(k) \/ \E u \in Uploads : CreateMultipart(k, u))
              \/ (\E u \in Uploads : Abort(u) \/ \E n \in PartNums : UploadPart(u, n) \/ FillPart(u, n))
              \/ StartScan \/ ListObjects \/ ProcessDies
       PROVE  VersionInv'
    BY <1>1, <1>11, FilesAlone DEF files
<1> QED
    BY <1>3, <1>4, <1>5, <1>6, <1>7, <1>8, <1>9, <1>10, <1>11 DEF LocalNext

\* The version that a sidecar shows.
Row(s, v) ==
    [key |-> s.key, id |-> v, marker |-> s.sum = Marker, content |-> s.sum, retention |-> s.retention]

\* The sidecars show typed versions, one per ID.
LEMMA RowTypes ==
    ASSUME NEW s \in Sidecars, NEW v \in IDs
    PROVE  /\ Row(s, v) \in Store!Versions /\ Row(s, v).id = v /\ Row(s, v).key = s.key
           /\ Row(s, v).marker = (s.sum = Marker) /\ Row(s, v).retention = s.retention
           /\ Row(s, v).content = s.sum
<1>1. v \in Nat /\ s.key \in Keys /\ s.sum \in Contents /\ s.retention \in Retentions
    BY LocalAssumption DEF IDs, Sidecars
<1> QED
    BY <1>1 DEF Row, Store!Versions

\* A change of the sidecar of one ID changes at most one visible version.
LEMMA OneSidecar ==
    ASSUME NEW v \in IDs, \A w \in IDs \ {v} : sidecar'[w] = sidecar[w]
    PROVE  LET old == Row(sidecar[v], v)
               new == Row(sidecar'[v], v)
           IN  /\ sidecar[v] = NoFile /\ sidecar'[v] # NoFile =>
                    listVersions' = listVersions \cup {new} /\ new \notin listVersions
               /\ sidecar[v] # NoFile /\ sidecar'[v] = NoFile =>
                    listVersions' = listVersions \ {old} /\ old \in listVersions
               /\ sidecar[v] # NoFile /\ sidecar'[v] # NoFile /\ old # new =>
                    /\ listVersions' = (listVersions \ {old}) \cup {new}
                    /\ old \in listVersions /\ new \notin listVersions
<1> DEFINE old == Row(sidecar[v], v)
           new == Row(sidecar'[v], v)
           others == {Row(sidecar[w], w) : w \in {u \in IDs \ {v} : sidecar[u] # NoFile}}
<1>1. \A w \in IDs : Row(sidecar[w], w).id = w /\ Row(sidecar'[w], w).id = w
    BY DEF Row
<1>2. listVersions = others \cup (IF sidecar[v] = NoFile THEN {} ELSE {old})
  <2>1. listVersions = {Row(sidecar[w], w) : w \in {u \in IDs : sidecar[u] # NoFile}}
      BY DEF listVersions, Row
  <2> HIDE DEF Row
  <2> QED
      BY <2>1
<1>3. listVersions' = others \cup (IF sidecar'[v] = NoFile THEN {} ELSE {new})
  <2>1. listVersions' = {Row(sidecar'[w], w) : w \in {u \in IDs : sidecar'[u] # NoFile}}
      BY DEF listVersions, Row
  <2> HIDE DEF Row
  <2> QED
      BY <2>1
<1>4. old \notin others /\ new \notin others
    BY <1>1
<1> HIDE DEF old, new, others
<1> QED
    BY <1>2, <1>3, <1>4 DEF old, new

\* The same sidecars show the same versions.
LEMMA SameSidecars == ASSUME sidecar' = sidecar PROVE listVersions' = listVersions
    BY DEF listVersions

\* A sidecar under an ID above all the visible ones pushes a version.
LEMMA PushKept ==
    ASSUME LocalInv, NEW v \in IDs, NEW s \in Sidecars,
           sidecar' = [sidecar EXCEPT ![v] = s], sidecar[v] = NoFile,
           \A w \in IDs : sidecar[w] # NoFile => w < v,
           s.sum = Marker => hasAnyVersion(s.key)
    PROVE  Store!Next
<1> DEFINE new == Row(s, v)
<1>1. sidecar \in [IDs -> Sidecars \cup {NoFile}]
    BY DEF LocalInv, FilesType
<1>2. sidecar'[v] = s /\ s # NoFile /\ \A w \in IDs \ {v} : sidecar'[w] = sidecar[w]
    BY <1>1, FileKeys
<1>3. listVersions' = listVersions \cup {new} /\ new \notin listVersions
    BY <1>2, OneSidecar
<1>4. /\ new \in Store!Versions /\ new.id = v /\ new.key = s.key
      /\ new.marker = (s.sum = Marker)
    BY RowTypes
<1>5. \A x \in listVersions : \E w \in IDs : sidecar[w] # NoFile /\ x = Row(sidecar[w], w)
    BY DEF listVersions, Row
<1>6. \A x \in listVersions : x.id < v
  <2> TAKE x \in listVersions
  <2>1. PICK w \in IDs : sidecar[w] # NoFile /\ x = Row(sidecar[w], w)
      BY <1>5
  <2> QED
      BY <2>1 DEF Row
<1>7. ASSUME new.marker
      PROVE  \E x \in listVersions : x.key = new.key
  <2>1. PICK w \in IDs : sidecar[w].key = s.key
      BY <1>4, <1>7 DEF hasAnyVersion
  <2>2. sidecar[w] # NoFile
      BY <2>1, FileKeys
  <2>3. Row(sidecar[w], w) \in listVersions
      BY <2>2 DEF listVersions, Row
  <2>4. Row(sidecar[w], w).key = s.key
      BY <2>1 DEF Row
  <2> QED
      BY <1>4, <2>3, <2>4
<1> HIDE DEF new
<1>8. Store!Push(new)
    BY <1>3, <1>4, <1>6, <1>7 DEF Store!Push
<1> QED
    BY <1>3, <1>8 DEF Store!Next

\* The removal of a sidecar drops a version.
LEMMA DropKept ==
    ASSUME LocalInv, NEW v \in IDs, sidecar[v] # NoFile, sidecar' = [sidecar EXCEPT ![v] = NoFile]
    PROVE  Store!Next
<1>1. sidecar \in [IDs -> Sidecars \cup {NoFile}]
    BY DEF LocalInv, FilesType
<1>2. sidecar'[v] = NoFile /\ \A w \in IDs \ {v} : sidecar'[w] = sidecar[w]
    BY <1>1
<1>3. /\ listVersions' = listVersions \ {Row(sidecar[v], v)}
      /\ Row(sidecar[v], v) \in listVersions
    BY <1>2, OneSidecar
<1> HIDE DEF Row
<1> QED
    BY <1>3 DEF Store!Next, Store!Drop

\* A change of retention that the interface allows, or none.
LEMMA RetainKept ==
    ASSUME LocalInv, NEW v \in IDs, sidecar[v] # NoFile, NEW ret \in Retentions,
           sidecar' = [sidecar EXCEPT ![v].retention = ret],
           \/ Store!Extends(sidecar[v].retention, ret)
           \/ Store!Clears(sidecar[v].retention, ret)
           \/ Store!Holds(sidecar[v].retention, ret)
    PROVE  Store!Next \/ listVersions' = listVersions
<1> DEFINE s == sidecar[v]
           t == [key |-> s.key, sum |-> s.sum, retention |-> ret]
           old == Row(s, v)
           new == Row(t, v)
<1>1. sidecar \in [IDs -> Sidecars \cup {NoFile}] /\ s \in Sidecars
    BY DEF LocalInv, FilesType
<1>2. t \in Sidecars /\ [s EXCEPT !.retention = ret] = t
    BY <1>1 DEF Sidecars
<1>3. sidecar'[v] = t /\ t # NoFile /\ \A w \in IDs \ {v} : sidecar'[w] = sidecar[w]
    BY <1>1, <1>2, FileKeys
<1>4. /\ old.retention = s.retention /\ new.retention = ret
      /\ new = [old EXCEPT !.retention = ret]
    BY DEF Row
<1>5. CASE old # new
  <2>1. /\ listVersions' = (listVersions \ {old}) \cup {new}
        /\ old \in listVersions /\ new \notin listVersions
      BY <1>3, <1>5, OneSidecar
  <2> HIDE DEF old, new, t
  <2>2. Store!Retain(old, new)
      BY <1>4, <2>1 DEF Store!Retain
  <2>3. new \in listVersions' \ listVersions /\ old \in listVersions \ listVersions'
      BY <1>5, <2>1
  <2> QED
      BY <2>2, <2>3 DEF Store!Next
<1>6. CASE old = new
  <2>1. s.retention = ret
      BY <1>4, <1>6
  <2>2. \A w \in IDs : sidecar'[w] = sidecar[w]
      BY <1>1, <1>2, <1>3, <2>1 DEF Sidecars
  <2>3. sidecar' = sidecar
      BY <1>1, <2>2
  <2> QED
      BY <2>3, SameSidecars
<1> QED
    BY <1>5, <1>6

\* What UpdateRetention makes of a retention is an extension or a clear.
LEMMA UpdatedAllowed ==
    ASSUME NEW old \in Retentions, NEW mode \in Modes, NEW until \in 0..MaxDate, NEW clear \in BOOLEAN,
           NEW new \in Updated(old, mode, until, clear)
    PROVE  Store!Extends(old, new) \/ Store!Clears(old, new)
<1> DEFINE dated == IF until = 0 THEN old ELSE [old EXCEPT !.until = until]
           shorter == until # 0 /\ until < old.until
<1>1. old.mode \in Modes /\ old.until \in Nat /\ until \in Nat
    BY LocalAssumption DEF Retentions
<1>2. dated.mode = old.mode /\ dated.hold = old.hold /\ dated.until = (IF until = 0 THEN old.until ELSE until)
    BY DEF Retentions
<1>3. dated \in Retentions
    BY DEF Retentions
<1>4. ~shorter => dated.until >= old.until
    BY <1>1, <1>2
<1>5. CASE old.mode = "COMPLIANCE"
  <2>1. new = dated /\ ~shorter
      BY <1>5 DEF Updated
  <2> HIDE DEF dated, shorter
  <2> QED
      BY <1>2, <1>4, <1>5, <2>1 DEF Store!Extends
<1>6. CASE old.mode # "COMPLIANCE" /\ clear
  <2>1. new = NoLock
      BY <1>6 DEF Updated
  <2> QED
      BY <1>6, <2>1 DEF Store!Clears, NoLock
<1>7. CASE old.mode # "COMPLIANCE" /\ ~clear
  <2>1. ~shorter /\ new = IF mode = "NONE" THEN dated ELSE [dated EXCEPT !.mode = mode]
      BY <1>7 DEF Updated
  <2> HIDE DEF dated, shorter
  <2>2. CASE mode = "NONE"
      BY <1>2, <1>4, <1>7, <2>1, <2>2 DEF Store!Extends
  <2>3. CASE mode # "NONE"
    <3>1. new.mode = mode /\ new.hold = dated.hold /\ new.until = dated.until
        BY <1>3, <2>1, <2>3 DEF Retentions
    <3> QED
        BY <1>2, <1>4, <1>7, <2>1, <2>3, <3>1 DEF Store!Extends
  <2> QED
      BY <2>2, <2>3
<1> QED
    BY <1>5, <1>6, <1>7

\* Every step of the files is a step of VersionedStore, or shows nothing.
LEMMA VersionsKept ==
    ASSUME LocalInv, VersionInv, [LocalNext]_localVars
    PROVE  [Store!Next]_listVersions
<1>0. /\ sidecar \in [IDs -> Sidecars \cup {NoFile}] /\ lastID \in Nat
      /\ \A w \in IDs : sidecar[w] # NoFile => w <= lastID
    BY LocalAssumption DEF LocalInv, FilesType, IDs
<1>1. ASSUME sidecar' = sidecar
      PROVE  [Store!Next]_listVersions
    BY <1>1, SameSidecars
<1>2. ASSUME NEW k, NEW content, NEW ret, NEW u, Rename(k, content, ret, u)
      PROVE  sidecar' = sidecar
    BY <1>2 DEF Rename
<1>3. CASE \/ \E k \in Keys, ret \in Specs :
                \/ \E c \in BOOLEAN : Put(k, ret, c)
                \/ \E src \in Keys, v \in IDs : Copy(src, v, k, ret)
           \/ \E u \in Uploads, m \in PartNums, ret \in Specs : CompleteMultipart(u, m, ret)
    BY <1>1, <1>2, <1>3 DEF Put, Copy, CompleteMultipart
<1>4. CASE Publish
  <2> DEFINE s == NewSidecar(op.key, op.sum, op.retention)
  <2>0. /\ op.kind = "publish" /\ op.id \in IDs /\ op.key \in Keys /\ op.sum \in Contents
        /\ op.retention \in Retentions /\ sidecar[op.id] = NoFile
        /\ body[op.id] = [key |-> op.key, content |-> op.sum]
      BY <1>4 DEF Publish, LocalInv, OpInv
  <2>1. op.id = lastID /\ s \in Sidecars /\ s.sum = op.sum
      BY <2>0 DEF VersionInv, NewSidecar, Sidecars
  <2>2. s.sum # Marker
    <3>1. [key |-> op.key, content |-> op.sum] \in Bodies
        BY <2>0 DEF Bodies
    <3>2. body[op.id] # NoFile /\ body[op.id].content = op.sum
        BY <2>0, <3>1, FileKeys
    <3> QED
        BY <2>0, <2>1, <3>2 DEF VersionInv
  <2>3. \A w \in IDs : sidecar[w] # NoFile => w < op.id
      BY <1>0, <2>0, <2>1 DEF IDs
  <2> HIDE DEF s
  <2>4. CASE sidecar' = [sidecar EXCEPT ![op.id] = s]
      BY <2>0, <2>1, <2>2, <2>3, <2>4, PushKept
  <2>5. CASE sidecar' = sidecar
      BY <1>1, <2>5
  <2> QED
      BY <1>4, <2>4, <2>5 DEF Publish, s
<1>5. ASSUME NEW k \in Keys, Delete(k)
      PROVE  Store!Next
  <2> DEFINE s == NewSidecar(k, Marker, NoLock)
  <2>1. lastID' \in IDs /\ lastID' = lastID + 1 /\ sidecar' = [sidecar EXCEPT ![lastID'] = s]
      BY <1>0, <1>5, LocalAssumption DEF Delete, IDs
  <2>2. s \in Sidecars /\ s.key = k /\ hasAnyVersion(k)
      BY <1>5, LocalAssumption DEF Delete, NewSidecar, Sidecars, Marker, NoLock, Contents, Retentions, Modes
  <2>3. sidecar[lastID'] = NoFile /\ \A w \in IDs : sidecar[w] # NoFile => w < lastID'
      BY <1>0, <2>1 DEF IDs
  <2> HIDE DEF s
  <2> QED
      BY <2>1, <2>2, <2>3, PushKept
<1>6. ASSUME NEW v \in IDs, DeleteVersion(v)
      PROVE  Store!Next
    BY <1>6, DropKept DEF DeleteVersion
<1>7. CASE PurgeFile
  <2>1. PICK v \in IDs :
            \/ sidecar[v].key = op.key /\ sidecar' = [sidecar EXCEPT ![v] = NoFile]
            \/ sidecar' = sidecar
      BY <1>7 DEF PurgeFile
  <2>2. CASE sidecar[v] = NoFile
    <3>1. sidecar' = sidecar
        BY <1>0, <2>1, <2>2
    <3> QED
        BY <1>1, <3>1
  <2>3. CASE sidecar[v] # NoFile
      BY <1>1, <2>1, <2>3, DropKept
  <2> QED
      BY <2>2, <2>3
<1>8. CASE DeleteBody
    BY <1>1, <1>8 DEF DeleteBody
<1>9. ASSUME NEW v \in IDs, NEW r \in Specs, SetLegalHold(v, r.hold)
      PROVE  [Store!Next]_listVersions
  <2> DEFINE old == sidecar[v].retention
             new == [old EXCEPT !.hold = r.hold]
  <2>1. sidecar[v] # NoFile /\ sidecar[v] \in Sidecars /\ old \in Retentions /\ r.hold \in BOOLEAN
      BY <1>0, <1>9, LocalAssumption DEF SetLegalHold, Sidecars, Retentions
  <2>2. new \in Retentions /\ sidecar' = [sidecar EXCEPT ![v].retention = new]
      BY <1>9, <2>1 DEF SetLegalHold, Retentions
  <2>3. Store!Extends(old, new) \/ Store!Holds(old, new)
    <3>1. CASE r.hold = old.hold
        BY <2>1, <3>1, LocalAssumption DEF Store!Extends, Retentions
    <3>2. CASE r.hold = ~old.hold
        BY <3>2 DEF Store!Holds
    <3> QED
        BY <2>1, <3>1, <3>2 DEF Retentions
  <2> HIDE DEF new
  <2> QED
      BY <2>1, <2>2, <2>3, RetainKept
<1>10. ASSUME NEW v \in IDs, NEW r \in Specs, NEW until \in 0..MaxDate, NEW clear \in BOOLEAN,
              UpdateRetention(v, r.mode, until, clear)
       PROVE  [Store!Next]_listVersions
  <2>1. sidecar[v] # NoFile /\ sidecar[v].retention \in Retentions /\ r.mode \in Modes
      BY <1>0, <1>10, LocalAssumption DEF UpdateRetention, Sidecars, Retentions
  <2>2. PICK new \in Updated(sidecar[v].retention, r.mode, until, clear) :
            sidecar' = [sidecar EXCEPT ![v].retention = new]
      BY <1>10 DEF UpdateRetention
  <2>3. new \in Retentions
      BY <2>1, UpdatedType
  <2>4. Store!Extends(sidecar[v].retention, new) \/ Store!Clears(sidecar[v].retention, new)
      BY <2>1, UpdatedAllowed
  <2> QED
      BY <2>1, <2>2, <2>3, <2>4, RetainKept
<1>11. CASE \/ UNCHANGED localVars \/ PurgeReturns \/ WriteUploadMeta \/ Unstage
            \/ (\E k \in Keys : Purge(k) \/ \E u \in Uploads : CreateMultipart(k, u))
            \/ (\E u \in Uploads : Abort(u) \/ \E n \in PartNums : UploadPart(u, n) \/ FillPart(u, n))
            \/ StartScan \/ ListObjects \/ ProcessDies
    BY <1>1, <1>11, FilesAlone DEF files
<1> QED
    BY <1>3, <1>4, <1>5, <1>6, <1>7, <1>8, <1>9, <1>10, <1>11 DEF LocalNext

\* The files of the development store implement VersionedStore, whatever fails
\* and whenever the process dies, for any keys, versions, uploads and
\* retentions: writes and deletes add one version on top, versions leave one at
\* a time, and a retention is only extended, cleared outside compliance mode or
\* put on hold.
THEOREM FilesKeepVersionsHolds == LocalSpec => FilesKeepVersions
<1>1. LocalInit => Store!Init /\ VersionInv
  <2> SUFFICES ASSUME LocalInit PROVE Store!Init /\ VersionInv
      OBVIOUS
  <2>1. \A v \in IDs : sidecar[v] = NoFile /\ body[v] = NoFile
      BY DEF LocalInit
  <2>2. listVersions = {}
      BY <2>1 DEF listVersions
  <2> QED
      BY <2>1, <2>2 DEF Store!Init, VersionInv, LocalInit, Unlocked
<1> QED
    BY <1>1, LocalInvHolds, VersionInvStep, VersionsKept, PTL
    DEF LocalSpec, FilesKeepVersions, Store!Spec

=============================================================================
