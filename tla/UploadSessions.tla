-------------------------- MODULE UploadSessions --------------------------
(* KDRV1 upload sessions: upload:initiate creates a session, and            *)
(* chunks/{n}:register stores a chunk's ciphertext and appends it to the    *)
(* session's list, a JSON array that is read, extended and written back.    *)
(* Requests run concurrently; a client whose answer was lost repeats the    *)
(* request with the same ciphertext.  Nothing in the gateway ends a         *)
(* session.                                                                 *)
EXTENDS Naturals, Sequences, Functions

CONSTANTS
    Sessions,      \* session IDs generateID will hand out
    Ordinals,      \* chunk numbers
    Handlers,      \* requests the gateway serves at a time
    Postgres,      \* metaDB # nil; otherwise the sessions map of the process
    MaxListed,     \* bound: length of a session's list
    Faults         \* subset of {"store", "db", "crash"}

VARIABLES
    created,       \* sessions with a row
    listed,        \* per session, the chunks of its list
    blobs,         \* chunks whose ciphertext is in the durable store
    handler,       \* the step of each request, with its locals
    locked,        \* sessions whose row a transaction has locked
    acked          \* chunks a client was told are registered

vars == <<created, listed, blobs, handler, locked, acked>>

Idle == [at |-> "idle"]

Init ==
    /\ created = {}
    /\ listed = [s \in Sessions |-> <<>>]
    /\ blobs = {}
    /\ handler = [h \in Handlers |-> Idle]
    /\ locked = {}
    /\ acked = {}

Goes(h, step) == handler' = [handler EXCEPT ![h].at = step]
Returns(h) == handler' = [handler EXCEPT ![h] = Idle]

\* handleUploadInitiate, CreateKDRV1UploadSession.
UploadInitiate(s) ==
    /\ s \notin created
    /\ created' = created \cup {s}
    /\ listed' = [listed EXCEPT ![s] = <<>>]
    /\ UNCHANGED <<blobs, handler, locked, acked>>

\* handleUploadChunks begins.
UploadChunk(h, s, n) ==
    /\ handler[h] = Idle
    /\ Len(listed[s]) < MaxListed
    /\ handler' = [handler EXCEPT ![h] = [at |-> "put", session |-> s, chunk |-> n, read |-> <<>>]]
    /\ UNCHANGED <<created, listed, blobs, locked, acked>>

PutChunk_IgnoresError(h) ==
    /\ handler[h].at = "put"
    /\ blobs' \in {blobs, blobs \cup {<<handler[h].session, handler[h].chunk>>}}
    /\ Goes(h, "select")
    /\ UNCHANGED <<created, listed, locked, acked>>
\* store.Put, before the session is looked at.
PutChunk(h) ==
    /\ handler[h].at = "put"
    /\ LET stored == blobs \cup {<<handler[h].session, handler[h].chunk>>}
       IN  \/ blobs' = stored /\ Goes(h, "select")
           \/ "store" \in Faults /\ blobs' \in {blobs, stored} /\ Returns(h)
    /\ UNCHANGED <<created, listed, locked, acked>>

SelectForUpdate_NoLock(h) ==
    LET s == handler[h].session
    IN  /\ handler[h].at = "select"
        /\ IF s \in created
           THEN handler' = [handler EXCEPT ![h] = [@ EXCEPT !.at = "update", !.read = listed[s]]]
           ELSE Returns(h)
        /\ UNCHANGED <<created, listed, blobs, locked, acked>>
\* SELECT ... FOR UPDATE waits for the row's lock; the lookup in the sessions
\* map keeps none.  404 when the session is not there.
SelectForUpdate(h) ==
    LET s == handler[h].session
    IN  /\ handler[h].at = "select"
        /\ s \notin locked
        /\ IF s \in created
           THEN /\ locked' = IF Postgres THEN locked \cup {s} ELSE locked
                /\ handler' = [handler EXCEPT ![h] = [@ EXCEPT !.at = "update", !.read = listed[s]]]
           ELSE Returns(h) /\ UNCHANGED locked
        /\ UNCHANGED <<created, listed, blobs, acked>>

\* UPDATE and COMMIT, or the append to the map's list under sessionsMu.  A
\* failed transaction changes nothing, one whose COMMIT was not answered may
\* have.
UpdateCommit(h) ==
    LET s == handler[h].session
        appended == [listed EXCEPT ![s] =
                        Append(IF Postgres THEN handler[h].read ELSE @, handler[h].chunk)]
    IN  /\ handler[h].at = "update"
        /\ locked' = locked \ {s}
        /\ \/ listed' = appended /\ Goes(h, "answer")
           \/ /\ "db" \in Faults /\ Postgres
              /\ listed' \in {listed, appended}
              /\ Returns(h)
        /\ UNCHANGED <<created, blobs, acked>>

\* 200 reaches the client, or is lost.
Answer(h) ==
    /\ handler[h].at = "answer"
    /\ acked' \in {acked, acked \cup {<<handler[h].session, handler[h].chunk>>}}
    /\ Returns(h)
    /\ UNCHANGED <<created, listed, blobs, locked>>

\* The gateway dies: transactions roll back; the sessions map is lost with
\* what clients were told about it.
Crash ==
    /\ "crash" \in Faults
    /\ handler' = [h \in Handlers |-> Idle]
    /\ locked' = {}
    /\ IF Postgres THEN UNCHANGED <<created, listed, acked>>
       ELSE created' = {} /\ listed' = [s \in Sessions |-> <<>>] /\ acked' = {}
    /\ UNCHANGED blobs

Next ==
    \/ \E s \in Sessions : UploadInitiate(s)
    \/ \E h \in Handlers :
        \/ \E s \in Sessions, n \in Ordinals : UploadChunk(h, s, n)
        \/ PutChunk(h) \/ SelectForUpdate(h) \/ UpdateCommit(h) \/ Answer(h)
    \/ Crash

Spec == Init /\ [][Next]_vars

-----------------------------------------------------------------------------
(* Properties.                                                             *)

\* A chunk a client was told is registered stays in the session's list: no
\* concurrent registration overwrites it, and no failed one removes it.
AckedListed == \A a \in acked : a[2] \in Range(listed[a[1]])

\* Every listed chunk is in the durable store, although storing and listing
\* are two steps that fail apart.
ListedStored == \A s \in Sessions : \A n \in Range(listed[s]) : <<s, n>> \in blobs

=============================================================================
