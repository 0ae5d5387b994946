--------------------------- MODULE ContentDedup ---------------------------
(* Deduplicated uploads: content check, chunk check, blob upload, content   *)
(* registration and commit, as the gateway's handlers serve them, on        *)
(* Postgres or on the bounded maps of the development mode.  A request is   *)
(* cut where it makes its next call on the database or on the blob store.   *)
(* Content IDs are keyed hashes of a tenant's content, so all clients here  *)
(* belong to the tenant of the contents and the ownership checks pass.  A   *)
(* chunk is its hash; its blob key is the content it was first uploaded for *)
(* and the hash.                                                            *)
EXTENDS Naturals, Sequences, FiniteSets, Functions

CONSTANTS
    Clients,
    ContentIDs,    \* content IDs
    ChunkHashes,   \* per content, the hashes of its chunks
    InDatabase,    \* metaDB # nil
    MaxEntries,    \* memContentStoreMax
    UploadFirst,   \* clients upload the blobs before they register the content
    DedupFaults    \* subset of {"store", "db", "crash"}

ASSUME DedupAssumption ==
    /\ \A c \in ContentIDs : Len(ChunkHashes[c]) \in Nat
    /\ InDatabase \in BOOLEAN /\ UploadFirst \in BOOLEAN

VARIABLES
    uploadedBlobs,  \* blob keys in the durable store
    entries,        \* registered contents: content_entries, memContentStore
    chunks,         \* per content, the blob keys of its rows: content_chunks
    request         \* per client, its next request and what it knows so far

tables == <<entries, chunks>>
dedupVars == <<uploadedBlobs, tables, request>>

Count(c) == Len(ChunkHashes[c])
BlobKey(c, i) == <<c, ChunkHashes[c][i]>>
NoRequest == [at |-> "idle"]

DedupInit ==
    /\ uploadedBlobs = {}
    /\ entries = {}
    /\ chunks = [c \in ContentIDs |-> <<>>]
    /\ request = [p \in Clients |-> NoRequest]

\* The client's next request; plan is the blob key per chunk, missing are the
\* keys it still has to upload, new those it uploaded itself.
Proceeds(p, step) == request' = [request EXCEPT ![p] = [@ EXCEPT !.at = step]]
GivesUp(p) == request' = [request EXCEPT ![p] = NoRequest]
Fails(p, fault) == fault \in DedupFaults /\ GivesUp(p)

-----------------------------------------------------------------------------
(* What is known.                                                          *)

\* handleContentCheck: the keys of a registered content.  chunk_count tells
\* the client whether they are all there.
ContentCheck(p, c) ==
    /\ request[p].at \in {"idle", "accepted"}
    /\ LET known == c \in entries /\ Len(chunks[c]) = Count(c)
       IN  request' = [request EXCEPT ![p] =
             [at |-> IF known THEN "commit" ELSE "checkChunks", content |-> c,
              plan |-> IF known THEN chunks[c] ELSE <<>>, missing |-> {}, new |-> {}]]
    /\ UNCHANGED <<uploadedBlobs, tables>>

\* CheckChunkHashes: the keys under which the tenant has this hash, in any content.
Known(hash) ==
    {key \in UNION {Range(chunks[c]) : c \in entries} : key[2] = hash}

\* handleContentCheckChunks: of several keys the last row read wins.
ContentCheckChunks(p) ==
    LET c == request[p].content
        choices(i) == IF Known(ChunkHashes[c][i]) = {} THEN {BlobKey(c, i)}
                      ELSE Known(ChunkHashes[c][i])
    IN  /\ request[p].at = "checkChunks"
        /\ \/ \E plan \in [1..Count(c) -> UNION {choices(i) : i \in 1..Count(c)}] :
                /\ \A i \in 1..Count(c) : plan[i] \in choices(i)
                /\ LET new == {BlobKey(c, i) : i \in {j \in 1..Count(c) : Known(ChunkHashes[c][j]) = {}}}
                   IN  request' = [request EXCEPT ![p] =
                         [@ EXCEPT !.at = IF UploadFirst THEN "upload" ELSE "register",
                                   !.plan = plan, !.missing = new, !.new = new]]
           \/ InDatabase /\ Fails(p, "db")
        /\ UNCHANGED <<uploadedBlobs, tables>>

BlobUpload_IgnoresError(p) ==
    /\ request[p].at = "upload"
    /\ \/ \E key \in request[p].missing :
            /\ request' = [request EXCEPT ![p].missing = @ \ {key}]
            /\ uploadedBlobs' \in {uploadedBlobs, uploadedBlobs \cup {key}}
       \/ /\ request[p].missing = {}
          /\ Proceeds(p, IF UploadFirst THEN "register" ELSE "commit")
          /\ UNCHANGED uploadedBlobs
    /\ UNCHANGED tables
\* handleBlobUpload, blob by blob; a failed Put may have stored the blob.
BlobUpload(p) ==
    /\ request[p].at = "upload"
    /\ \/ \E key \in request[p].missing :
            \/ /\ uploadedBlobs' = uploadedBlobs \cup {key}
               /\ request' = [request EXCEPT ![p].missing = @ \ {key}]
            \/ /\ Fails(p, "store")
               /\ uploadedBlobs' \in {uploadedBlobs, uploadedBlobs \cup {key}}
       \/ /\ request[p].missing = {}
          /\ Proceeds(p, IF UploadFirst THEN "register" ELSE "commit")
          /\ UNCHANGED uploadedBlobs
    /\ UNCHANGED tables

-----------------------------------------------------------------------------
(* handleContentRegister.                                                  *)

Registered(p) == Proceeds(p, IF UploadFirst THEN "commit" ELSE "upload")

\* The lookups: an entry means the content is registered already.
ContentRegister(p) ==
    /\ request[p].at = "register"
    /\ \/ IF request[p].content \in entries
          THEN Registered(p)
          ELSE Proceeds(p, IF InDatabase THEN "entry" ELSE "putMem")
       \/ InDatabase /\ Fails(p, "db")
    /\ UNCHANGED <<uploadedBlobs, tables>>

\* CreateContentEntry, ON CONFLICT DO NOTHING.
CreateContentEntry(p) ==
    /\ request[p].at = "entry"
    /\ \/ entries' = entries \cup {request[p].content} /\ Proceeds(p, "chunks")
       \/ Fails(p, "db") /\ entries' \in {entries, entries \cup {request[p].content}}
    /\ UNCHANGED <<uploadedBlobs, chunks>>

CreateContentChunks_NoTx(p) ==
    LET c == request[p].content
    IN  /\ request[p].at = "chunks"
        /\ \/ Registered(p) /\ chunks' = [chunks EXCEPT ![c] = request[p].plan]
           \/ Fails(p, "db") /\ \E n \in 0..Count(c) :
                chunks' = [chunks EXCEPT ![c] = SubSeq(request[p].plan, 1, n)]
        /\ UNCHANGED <<uploadedBlobs, entries>>
\* CreateContentChunks: one transaction, and rows that exist stay as they are.
CreateContentChunks(p) ==
    LET c == request[p].content
        inserted == [chunks EXCEPT ![c] = IF @ = <<>> THEN request[p].plan ELSE @]
    IN  /\ request[p].at = "chunks"
        /\ \/ Registered(p) /\ chunks' = inserted
           \/ Fails(p, "db") /\ chunks' \in {chunks, inserted}
        /\ UNCHANGED <<uploadedBlobs, entries>>

\* putMemContent: a full map loses some entry first, with its chunks.
PutMemContent(p) ==
    LET c == request[p].content
        put(kept, rows) == /\ entries' = kept \cup {c}
                           /\ chunks' = [rows EXCEPT ![c] = request[p].plan]
    IN  /\ request[p].at = "putMem"
        /\ IF Cardinality(entries) >= MaxEntries
           THEN \E e \in entries : put(entries \ {e}, [chunks EXCEPT ![e] = <<>>])
           ELSE put(entries, chunks)
        /\ Registered(p)
        /\ UNCHANGED uploadedBlobs

-----------------------------------------------------------------------------
(* handleUploadCommitDedup.                                                *)

Reused(p) == Range(request[p].plan) \ request[p].new

\* The content must be registered, with every reused key among its rows.
CommitCheck(p) ==
    /\ request[p].at = "commit"
    /\ \/ IF /\ request[p].content \in entries
             /\ Reused(p) \subseteq Range(chunks[request[p].content])
          THEN Proceeds(p, "head")
          ELSE GivesUp(p)
       \/ InDatabase /\ Fails(p, "db")
    /\ UNCHANGED <<uploadedBlobs, tables>>

\* A HEAD per new key; the version is accepted when they are all found.
CommitHead(p) ==
    /\ request[p].at = "head"
    /\ \/ request[p].new \subseteq uploadedBlobs /\ Proceeds(p, "accepted")
       \/ ~(request[p].new \subseteq uploadedBlobs) /\ GivesUp(p)
       \/ Fails(p, "store")
    /\ UNCHANGED <<uploadedBlobs, tables>>

-----------------------------------------------------------------------------
\* A client gives up, or the gateway dies in the middle of its request.
ClientCrash(p) ==
    /\ "crash" \in DedupFaults
    /\ request[p] # NoRequest
    /\ GivesUp(p)
    /\ UNCHANGED <<uploadedBlobs, tables>>

\* The gateway restarts: the development maps are gone.
Restart ==
    /\ "crash" \in DedupFaults /\ ~InDatabase
    /\ entries # {}
    /\ entries' = {}
    /\ chunks' = [c \in ContentIDs |-> <<>>]
    /\ request' = [p \in Clients |-> NoRequest]
    /\ UNCHANGED uploadedBlobs

DedupNext ==
    \/ \E p \in Clients :
        \/ \E c \in ContentIDs : ContentCheck(p, c)
        \/ ContentCheckChunks(p) \/ BlobUpload(p)
        \/ ContentRegister(p) \/ CreateContentEntry(p) \/ CreateContentChunks(p)
        \/ PutMemContent(p) \/ CommitCheck(p) \/ CommitHead(p) \/ ClientCrash(p)
    \/ Restart

DedupSpec == DedupInit /\ [][DedupNext]_dedupVars

-----------------------------------------------------------------------------
(* Properties.                                                             *)

\* Everything an accepted commit refers to is in the durable store, although
\* the keys it reuses are only looked up in the tables, were planned before
\* other clients registered, failed or were evicted, and are not HEADed.
CommitsStored ==
    \A p \in Clients : request[p].at = "accepted" => Range(request[p].plan) \subseteq uploadedBlobs

\* The rows of a content are those of one registration, all or none: a failed
\* or a racing registration never leaves some of them, and eviction from the
\* development maps never leaves chunks behind.
RowsAllOrNone ==
    \A c \in ContentIDs :
        /\ Len(chunks[c]) \in {0, Count(c)}
        /\ chunks[c] # <<>> => c \in entries

\* Whoever is told that the content is registered can rely on its rows.
RegisteredHasRows ==
    \A p \in Clients :
        request[p].at = "commit" => chunks[request[p].content] # <<>>

=============================================================================
