--------------------------- MODULE GatewayProofs ----------------------------
(* Proofs about UploadSessions and ContentDedup, for any sessions, chunks,  *)
(* contents and concurrent requests, with and without PostgreSQL, under any *)
(* of the faults.                                                           *)
EXTENDS UploadSessions, ContentDedup, TLAPS

-----------------------------------------------------------------------------
(* Upload sessions.                                                        *)

Busy == [at : {"put", "select", "update", "answer"}, session : Sessions,
         chunk : Ordinals, read : Seq(Ordinals)]

Typed ==
    /\ created \subseteq Sessions
    /\ listed \in [Sessions -> Seq(Ordinals)]
    /\ handler \in [Handlers -> {Idle} \cup Busy]
    /\ locked \subseteq Sessions
    /\ acked \subseteq Sessions \X Ordinals

At(h, steps) == handler[h].at \in steps
ChunkOf(h) == <<handler[h].session, handler[h].chunk>>

\* A session without a row has no list to lose.
NoRowNoList == \A s \in Sessions \ created : listed[s] = <<>>

\* A transaction between its SELECT ... FOR UPDATE and its COMMIT has the row
\* to itself, so the list it read is the list it replaces.
RowLock ==
    Postgres => \A h \in Handlers : At(h, {"update"}) =>
        /\ handler[h].session \in locked
        /\ handler[h].read = listed[handler[h].session]
        /\ \A k \in Handlers :
            At(k, {"update"}) /\ handler[k].session = handler[h].session => k = h

\* A request past the session lookup found the session.
FoundRow == \A h \in Handlers : At(h, {"update", "answer"}) => handler[h].session \in created

\* A request past store.Put has its ciphertext in the durable store.
PutDone == \A h \in Handlers : At(h, {"select", "update", "answer"}) => ChunkOf(h) \in blobs

\* A request that will be answered 200 is in its session's list.
Appended ==
    \A h \in Handlers : At(h, {"answer"}) => handler[h].chunk \in Range(listed[handler[h].session])

SessionInv ==
    /\ Typed /\ NoRowNoList /\ RowLock /\ FoundRow /\ PutDone /\ Appended
    /\ AckedListed /\ ListedStored

\* What an Append adds to the chunks of a list.
LEMMA RangeAppend ==
    ASSUME NEW q \in Seq(Ordinals), NEW n \in Ordinals
    PROVE  /\ Append(q, n) \in Seq(Ordinals)
           /\ Range(Append(q, n)) = Range(q) \cup {n}
<1>1. /\ Append(q, n) \in Seq(Ordinals) /\ Len(Append(q, n)) = Len(q) + 1
      /\ \A i \in 1..Len(q) : Append(q, n)[i] = q[i]
      /\ Append(q, n)[Len(q) + 1] = n
  OBVIOUS
<1>2. DOMAIN Append(q, n) = 1..(Len(q) + 1) /\ DOMAIN q = 1..Len(q)
  BY <1>1
<1>3. 1..(Len(q) + 1) = (1..Len(q)) \cup {Len(q) + 1}
  OBVIOUS
<1> QED
  BY <1>1, <1>2, <1>3 DEF Range

\* The empty list has no elements.
LEMMA RangeEmpty == Range(<<>>) = {}
BY DEF Range

\* The fields of a request that is under way, and of one that is not.
LEMMA Fields ==
    /\ Idle.at = "idle" /\ Idle \notin Busy
    /\ \A r \in Busy : /\ r.at \in {"put", "select", "update", "answer"}
                       /\ r.session \in Sessions /\ r.chunk \in Ordinals /\ r.read \in Seq(Ordinals)
BY DEF Idle, Busy

\* A step of one request leaves the others where they are.
LEMMA OneHandler ==
    ASSUME handler \in [Handlers -> {Idle} \cup Busy], NEW h \in Handlers, NEW r \in {Idle} \cup Busy,
           handler' = [handler EXCEPT ![h] = r]
    PROVE  /\ handler' \in [Handlers -> {Idle} \cup Busy]
           /\ handler'[h] = r
           /\ \A k \in Handlers : k # h => handler'[k] = handler[k]
OBVIOUS

\* A request that moves to its next step keeps its session and its chunk.
LEMMA MovedOn ==
    ASSUME NEW r \in Busy, NEW step \in {"put", "select", "update", "answer"}
    PROVE  LET t == [r EXCEPT !.at = step]
           IN  /\ t \in Busy /\ t.at = step
               /\ t.session = r.session /\ t.chunk = r.chunk /\ t.read = r.read
BY DEF Busy

\* In every reachable state a registered chunk is listed and stored, and a
\* transaction that will write the list back has read the current one.
THEOREM SessionInvHolds == Spec => []SessionInv
<1>1. Init => SessionInv
  <2> SUFFICES ASSUME Init
               PROVE  SessionInv
    OBVIOUS
  <2>1. /\ created = {} /\ blobs = {} /\ locked = {} /\ acked = {}
        /\ listed \in [Sessions -> Seq(Ordinals)]
        /\ \A s \in Sessions : listed[s] = <<>>
        /\ handler \in [Handlers -> {Idle} \cup Busy]
        /\ \A h \in Handlers : handler[h].at = "idle"
    BY Fields DEF Init
  <2>2. Typed
    BY <2>1 DEF Typed
  <2> QED
    BY <2>1, <2>2, RangeEmpty DEF SessionInv, NoRowNoList, RowLock, FoundRow, PutDone, Appended, At,
       AckedListed, ListedStored
<1>2. SessionInv /\ [Next]_vars => SessionInv'
  <2> SUFFICES ASSUME SessionInv, [Next]_vars
               PROVE  SessionInv'
    OBVIOUS
  <2> USE DEF SessionInv
  <2>0. /\ handler \in [Handlers -> {Idle} \cup Busy]
        /\ \A h \in Handlers : handler[h].at # "idle" => handler[h] \in Busy
    BY Fields DEF Typed
  <2>1. ASSUME NEW s \in Sessions, UploadInitiate(s)
        PROVE  SessionInv'
    <3>1. /\ UNCHANGED <<blobs, handler, locked, acked>>
          /\ created' = created \cup {s}
          /\ listed' = listed
      BY <2>1 DEF UploadInitiate, NoRowNoList, Typed
    <3> QED
      BY <3>1 DEF Typed, NoRowNoList, RowLock, FoundRow, PutDone, Appended, At, ChunkOf,
         AckedListed, ListedStored
  <2>2. ASSUME NEW h \in Handlers, NEW s \in Sessions, NEW n \in Ordinals, UploadChunk(h, s, n)
        PROVE  SessionInv'
    <3> DEFINE r == [at |-> "put", session |-> s, chunk |-> n, read |-> <<>>]
    <3>1. r \in Busy /\ r.at = "put"
      BY DEF Busy
    <3>2. handler' = [handler EXCEPT ![h] = r] /\ UNCHANGED <<created, listed, blobs, locked, acked>>
      BY <2>2 DEF UploadChunk
    <3> HIDE DEF r
    <3>3. /\ handler' \in [Handlers -> {Idle} \cup Busy] /\ handler'[h].at = "put"
          /\ \A k \in Handlers : k # h => handler'[k] = handler[k]
      BY <3>1, <3>2, <2>0, OneHandler
    <3> QED
      BY <3>2, <3>3 DEF Typed, NoRowNoList, RowLock, FoundRow, PutDone, Appended, At, ChunkOf,
         AckedListed, ListedStored
  <2>3. ASSUME NEW h \in Handlers, PutChunk(h)
        PROVE  SessionInv'
    <3> DEFINE r == [handler[h] EXCEPT !.at = "select"]
    <3>1. /\ r \in Busy /\ r.at = "select"
          /\ r.session = handler[h].session /\ r.chunk = handler[h].chunk
      BY <2>3, <2>0, MovedOn, Zenon DEF PutChunk
    <3>2. /\ UNCHANGED <<created, listed, locked, acked>>
          /\ blobs \subseteq blobs'
          /\ \/ handler' = [handler EXCEPT ![h] = r] /\ ChunkOf(h) \in blobs'
             \/ handler' = [handler EXCEPT ![h] = Idle]
      BY <2>3 DEF PutChunk, Goes, Returns, ChunkOf
    <3> HIDE DEF r
    <3>3. /\ handler' \in [Handlers -> {Idle} \cup Busy]
          /\ \A k \in Handlers : k # h => handler'[k] = handler[k]
          /\ \/ handler'[h] = r /\ ChunkOf(h) \in blobs'
             \/ handler'[h] = Idle
      BY <3>1, <3>2, <2>0, OneHandler
    <3>4. /\ handler'[h].at \in {"select", "idle"}
          /\ handler'[h].at = "select" => ChunkOf(h)' \in blobs'
      BY <3>1, <3>3, Fields DEF ChunkOf
    <3>5. PutDone'
      BY <3>2, <3>3, <3>4 DEF PutDone, At, ChunkOf
    <3> QED
      BY <3>2, <3>3, <3>4, <3>5 DEF Typed, NoRowNoList, RowLock, FoundRow, Appended, At,
         AckedListed, ListedStored
  <2>4. ASSUME NEW h \in Handlers, SelectForUpdate(h)
        PROVE  SessionInv'
    <3> DEFINE s == handler[h].session
               r == [handler[h] EXCEPT !.at = "update", !.read = listed[s]]
    <3>1. handler[h] \in Busy /\ s \in Sessions /\ listed[s] \in Seq(Ordinals)
      BY <2>4, <2>0, Fields DEF SelectForUpdate, Typed
    <3>2. /\ r \in Busy /\ r.at = "update" /\ r.read = listed[s]
          /\ r.session = s /\ r.chunk = handler[h].chunk
      BY <3>1, Zenon DEF Busy
    <3>3. /\ UNCHANGED <<created, listed, blobs, acked>>
          /\ s \notin locked
          /\ \/ /\ s \in created
                /\ locked' = IF Postgres THEN locked \cup {s} ELSE locked
                /\ handler' = [handler EXCEPT ![h] = r]
             \/ handler' = [handler EXCEPT ![h] = Idle] /\ UNCHANGED locked
      BY <2>4 DEF SelectForUpdate, Returns
    <3>4. ChunkOf(h) \in blobs
      BY <2>4 DEF SelectForUpdate, PutDone, At
    <3> HIDE DEF r
    <3>5. CASE handler' = [handler EXCEPT ![h] = Idle] /\ UNCHANGED locked
      <4>1. /\ handler' \in [Handlers -> {Idle} \cup Busy] /\ handler'[h].at = "idle"
            /\ \A k \in Handlers : k # h => handler'[k] = handler[k]
        BY <3>5, <2>0, OneHandler, Fields
      <4> QED
        BY <3>3, <3>5, <4>1 DEF Typed, NoRowNoList, RowLock, FoundRow, PutDone, Appended, At,
           ChunkOf, AckedListed, ListedStored
    <3>6. CASE /\ s \in created
               /\ locked' = IF Postgres THEN locked \cup {s} ELSE locked
               /\ handler' = [handler EXCEPT ![h] = r]
      <4>1. /\ handler' \in [Handlers -> {Idle} \cup Busy] /\ handler'[h] = r
            /\ \A k \in Handlers : k # h => handler'[k] = handler[k]
        BY <3>2, <3>6, <2>0, OneHandler
      <4>2. Typed'
        BY <3>1, <3>3, <3>6, <4>1 DEF Typed
      <4>3. RowLock'
        <5> SUFFICES ASSUME Postgres
                     PROVE  \A g \in Handlers : At(g, {"update"})' =>
                                /\ handler'[g].session \in locked'
                                /\ handler'[g].read = listed[handler'[g].session]
                                /\ \A k \in Handlers :
                                    At(k, {"update"})' /\ handler'[k].session = handler'[g].session
                                        => k = g
          BY <3>3 DEF RowLock
        <5>1. \A k \in Handlers : k # h /\ At(k, {"update"})' => handler'[k].session \in locked
          BY <4>1 DEF RowLock, At
        <5> QED
          BY <5>1, <3>2, <3>3, <3>6, <4>1 DEF RowLock, At
      <4>4. FoundRow' /\ PutDone'
        BY <3>2, <3>3, <3>4, <3>6, <4>1 DEF FoundRow, PutDone, At, ChunkOf
      <4> QED
        BY <3>2, <3>3, <4>1, <4>2, <4>3, <4>4 DEF NoRowNoList, Appended, At, AckedListed, ListedStored
    <3> QED
      BY <3>3, <3>5, <3>6
  <2>5. ASSUME NEW h \in Handlers, UpdateCommit(h)
        PROVE  SessionInv'
    <3> DEFINE s == handler[h].session
               n == handler[h].chunk
               r == [handler[h] EXCEPT !.at = "answer"]
               appended == [listed EXCEPT ![s] = Append(listed[s], n)]
    <3>1. /\ handler[h] \in Busy /\ s \in Sessions /\ n \in Ordinals
          /\ s \in created /\ ChunkOf(h) \in blobs
      BY <2>5, <2>0, Fields DEF UpdateCommit, FoundRow, PutDone, At
    <3>2. r \in Busy /\ r.at = "answer" /\ r.session = s /\ r.chunk = n
      BY <3>1, MovedOn, Zenon
    <3>3. Postgres => handler[h].read = listed[s]
      BY <2>5 DEF UpdateCommit, RowLock, At
    <3>4. /\ UNCHANGED <<created, blobs, acked>>
          /\ locked' = locked \ {s}
          /\ \/ listed' = appended /\ handler' = [handler EXCEPT ![h] = r]
             \/ listed' \in {listed, appended} /\ handler' = [handler EXCEPT ![h] = Idle]
      <4>1. appended = [listed EXCEPT ![s] = Append(IF Postgres THEN handler[h].read ELSE @, n)]
        BY <3>3, Zenon
      <4> QED
        BY <2>5, <4>1, Zenon DEF UpdateCommit, Goes, Returns
    <3> HIDE DEF r
    <3>5. /\ handler' \in [Handlers -> {Idle} \cup Busy]
          /\ \A k \in Handlers : k # h => handler'[k] = handler[k]
          /\ \/ handler'[h] = r /\ listed' = appended
             \/ handler'[h] = Idle
      BY <3>2, <3>4, <2>0, OneHandler
    <3>6. /\ listed \in [Sessions -> Seq(Ordinals)]
          /\ Append(listed[s], n) \in Seq(Ordinals)
          /\ Range(Append(listed[s], n)) = Range(listed[s]) \cup {n}
      BY <3>1, RangeAppend DEF Typed
    <3>7. /\ listed' \in [Sessions -> Seq(Ordinals)]
          /\ \A t \in Sessions : t # s => listed'[t] = listed[t]
          /\ listed'[s] \in {listed[s], Append(listed[s], n)}
          /\ listed' = appended => listed'[s] = Append(listed[s], n)
      BY <3>1, <3>4, <3>6, Zenon
    <3> HIDE DEF appended
    <3>8. /\ \A t \in Sessions : Range(listed[t]) \subseteq Range(listed'[t])
          /\ \A t \in Sessions : \A m \in Range(listed'[t]) :
                m \in Range(listed[t]) \/ <<t, m>> = ChunkOf(h)
          /\ listed' = appended => n \in Range(listed'[s])
      BY <3>6, <3>7, Zenon DEF ChunkOf
    <3>9. Typed'
      BY <3>4, <3>5, <3>7 DEF Typed
    <3>10. NoRowNoList'
      BY <3>1, <3>4, <3>7 DEF NoRowNoList
    <3>11. /\ handler'[h].at \in {"answer", "idle"}
           /\ handler'[h].at = "answer" => /\ ChunkOf(h)' = ChunkOf(h)
                                           /\ handler'[h].session = s /\ handler'[h].chunk = n
                                           /\ listed' = appended
      BY <3>2, <3>5, Fields DEF ChunkOf
    <3>12. RowLock'
      <4> SUFFICES ASSUME Postgres, NEW g \in Handlers, At(g, {"update"})'
                   PROVE  /\ handler'[g].session \in locked'
                          /\ handler'[g].read = listed'[handler'[g].session]
                          /\ \A k \in Handlers :
                              At(k, {"update"})' /\ handler'[k].session = handler'[g].session => k = g
        BY DEF RowLock
      <4>1. g # h /\ handler'[g] = handler[g] /\ At(g, {"update"}) /\ At(h, {"update"})
        BY <2>5, <3>5, <3>11 DEF At, UpdateCommit
      <4>2. /\ handler[g].session # s /\ handler[g].session \in locked
            /\ handler[g].read = listed[handler[g].session]
        BY <4>1 DEF RowLock
      <4>3. listed'[handler[g].session] = listed[handler[g].session]
        BY <4>1, <4>2, <3>7, <2>0, Fields DEF At
      <4>4. ASSUME NEW k \in Handlers, At(k, {"update"})', handler'[k].session = handler'[g].session
            PROVE  k = g
        <5>1. k # h
          BY <4>4, <3>11 DEF At
        <5> QED
          BY <5>1, <4>1, <4>4, <3>5 DEF RowLock, At
      <4> QED
        BY <4>1, <4>2, <4>3, <4>4, <3>4
    <3>13. FoundRow' /\ PutDone'
      BY <3>1, <3>4, <3>5, <3>11 DEF FoundRow, PutDone, At, ChunkOf
    <3>14. Appended'
      <4> SUFFICES ASSUME NEW g \in Handlers, At(g, {"answer"})'
                   PROVE  handler'[g].chunk \in Range(listed'[handler'[g].session])
        BY DEF Appended
      <4>1. CASE g = h
        BY <4>1, <3>8, <3>11 DEF At
      <4>2. CASE g # h
        <5>1. /\ handler'[g] = handler[g] /\ handler[g].session \in Sessions
              /\ handler[g].chunk \in Range(listed[handler[g].session])
          BY <4>2, <3>5, <2>0, Fields DEF At, Appended
        <5> QED
          BY <5>1, <3>8
      <4> QED
        BY <4>1, <4>2
    <3>15. AckedListed'
      BY <3>4, <3>8 DEF AckedListed, Typed
    <3>16. ListedStored'
      BY <3>1, <3>4, <3>8 DEF ListedStored
    <3> QED
      BY <3>9, <3>10, <3>12, <3>13, <3>14, <3>15, <3>16
  <2>6. ASSUME NEW h \in Handlers, Answer(h)
        PROVE  SessionInv'
    <3>1. /\ UNCHANGED <<created, listed, blobs, locked>>
          /\ acked' \in {acked, acked \cup {ChunkOf(h)}}
          /\ handler' = [handler EXCEPT ![h] = Idle]
      BY <2>6 DEF Answer, Returns, ChunkOf
    <3>2. /\ handler' \in [Handlers -> {Idle} \cup Busy] /\ handler'[h].at = "idle"
          /\ \A k \in Handlers : k # h => handler'[k] = handler[k]
      BY <3>1, <2>0, OneHandler, Fields
    <3>3. /\ ChunkOf(h) \in Sessions \X Ordinals
          /\ ChunkOf(h)[2] \in Range(listed[ChunkOf(h)[1]])
      BY <2>6, <2>0, Fields DEF Answer, Appended, At, ChunkOf
    <3>4. Typed' /\ AckedListed'
      BY <3>1, <3>2, <3>3 DEF Typed, AckedListed
    <3> QED
      BY <3>1, <3>2, <3>4 DEF NoRowNoList, RowLock, FoundRow, PutDone, Appended, At, ChunkOf, ListedStored
  <2>7. ASSUME Crash
        PROVE  SessionInv'
    <3>1. /\ handler' \in [Handlers -> {Idle} \cup Busy]
          /\ \A h \in Handlers : handler'[h].at = "idle"
          /\ locked' = {} /\ blobs' = blobs
      BY <2>7, Fields DEF Crash
    <3>2. CASE UNCHANGED <<created, listed, acked>>
      BY <3>1, <3>2 DEF Typed, NoRowNoList, RowLock, FoundRow, PutDone, Appended, At,
         AckedListed, ListedStored
    <3>3. CASE created' = {} /\ listed' = [s \in Sessions |-> <<>>] /\ acked' = {}
      BY <3>1, <3>3, RangeEmpty DEF Typed, NoRowNoList, RowLock, FoundRow, PutDone, Appended, At,
         AckedListed, ListedStored
    <3> QED
      BY <2>7, <3>2, <3>3 DEF Crash
  <2>8. CASE UNCHANGED vars
    BY <2>8 DEF vars, Typed, NoRowNoList, RowLock, FoundRow, PutDone, Appended, At, ChunkOf,
       AckedListed, ListedStored
  <2> QED
    BY <2>1, <2>2, <2>3, <2>4, <2>5, <2>6, <2>7, <2>8 DEF Next
<1> QED
  BY <1>1, <1>2, PTL DEF Spec

\* A chunk whose registration a client saw succeed is never dropped from the
\* list AppendKDRV1UploadChunk rewrites.
THEOREM AckedListedHolds == Spec => []AckedListed
<1>1. SessionInv => AckedListed
  BY DEF SessionInv
<1> QED
  BY <1>1, SessionInvHolds, PTL

\* handleUploadChunks never lists a chunk whose ciphertext is not stored.
THEOREM ListedStoredHolds == Spec => []ListedStored
<1>1. SessionInv => ListedStored
  BY DEF SessionInv
<1> QED
  BY <1>1, SessionInvHolds, PTL

-----------------------------------------------------------------------------
(* Content deduplication.                                                  *)

Planned == {"upload", "register", "entry", "chunks", "putMem"}
DedupSteps == {"checkChunks", "commit", "head", "accepted"} \cup Planned
BlobKeys == {BlobKey(c, i) : c \in ContentIDs, i \in Nat}
Plans == Seq(BlobKeys)
Requests ==
    {NoRequest} \cup
    [at : DedupSteps, content : ContentIDs, plan : Plans, missing : SUBSET BlobKeys, new : SUBSET BlobKeys]

DedupType ==
    /\ entries \subseteq ContentIDs
    /\ chunks \in [ContentIDs -> Plans]
    /\ request \in [Clients -> Requests]

\* A registration carries a key per chunk, and reaches only the tables of its
\* mode; on Postgres its entry, once made, stays.
Registering ==
    \A p \in Clients :
        /\ request[p].at \in Planned => Len(request[p].plan) = Count(request[p].content)
        /\ request[p].at \in {"entry", "chunks"} => InDatabase
        /\ request[p].at = "putMem" => ~InDatabase
        /\ request[p].at = "chunks" => request[p].content \in entries

RowsInv == DedupType /\ Registering /\ RowsAllOrNone

-----------------------------------------------------------------------------
(* Lemmas.                                                                 *)

\* A key per chunk is a sequence of keys.
LEMMA PlanIsSeq ==
    ASSUME NEW n \in Nat, NEW S \in SUBSET BlobKeys, NEW f \in [1..n -> S]
    PROVE  f \in Plans /\ Len(f) = n
BY DEF Plans

\* A client that gives up.
LEMMA GivesUpType ==
    ASSUME DedupType, NEW p \in Clients, GivesUp(p)
    PROVE  /\ request' \in [Clients -> Requests]
           /\ request'[p].at = "idle"
           /\ \A q \in Clients \ {p} : request'[q] = request[q]
BY DEF DedupType, GivesUp, Requests, NoRequest

\* A client that goes on to its next request.
LEMMA ProceedsType ==
    ASSUME DedupType, NEW p \in Clients, NEW s \in DedupSteps, request[p].at # "idle", Proceeds(p, s)
    PROVE  /\ request' \in [Clients -> Requests]
           /\ request'[p] = [request[p] EXCEPT !.at = s]
           /\ request'[p].at = s /\ request'[p].plan = request[p].plan
           /\ request'[p].content = request[p].content /\ request'[p].content \in ContentIDs
           /\ \A q \in Clients \ {p} : request'[q] = request[q]
BY DEF DedupType, Proceeds, Requests, NoRequest

\* A client that has planned its upload.
LEMMA PlansType ==
    ASSUME DedupType, NEW p \in Clients, NEW s \in DedupSteps, request[p].at # "idle",
           NEW plan \in Plans, NEW new \in SUBSET BlobKeys,
           request' = [request EXCEPT ![p] =
              [@ EXCEPT !.at = s, !.plan = plan, !.missing = new, !.new = new]]
    PROVE  /\ request' \in [Clients -> Requests]
           /\ request'[p].at = s /\ request'[p].plan = plan
           /\ request'[p].missing = new /\ request'[p].new = new
           /\ request'[p].content = request[p].content /\ request[p].content \in ContentIDs
           /\ \A q \in Clients \ {p} : request'[q] = request[q]
<1>1. request[p] \in Requests \ {NoRequest}
    BY DEF DedupType, NoRequest
<1>2. request[p].content \in ContentIDs
    BY <1>1 DEF Requests
<1>3. [request[p] EXCEPT !.at = s, !.plan = plan, !.missing = new, !.new = new] \in Requests
    BY <1>1, Zenon DEF Requests
<1> QED
    BY <1>1, <1>2, <1>3 DEF DedupType, Requests

\* A step that leaves the tables alone keeps what is said of them, and what is
\* said of the other clients.
LEMMA TablesRest ==
    ASSUME RowsInv, UNCHANGED tables, request' \in [Clients -> Requests], NEW p \in Clients,
           \A q \in Clients \ {p} : request'[q] = request[q],
           request'[p].at \in Planned => Len(request'[p].plan) = Count(request'[p].content),
           request'[p].at \in {"entry", "chunks"} => InDatabase,
           request'[p].at = "putMem" => ~InDatabase,
           request'[p].at = "chunks" => request'[p].content \in entries
    PROVE  RowsInv'
<1>1. DedupType' /\ RowsAllOrNone'
    BY DEF RowsInv, DedupType, RowsAllOrNone, tables, Count
<1>2. Registering'
    BY DEF RowsInv, Registering, tables, Count
<1> QED
    BY <1>1, <1>2 DEF RowsInv

-----------------------------------------------------------------------------
(* The rows.                                                               *)

\* The requests that only read the tables.
LEMMA ReadingStep ==
    ASSUME NEW p \in Clients, RowsInv,
           \/ \E c \in ContentIDs : ContentCheck(p, c)
           \/ BlobUpload(p) \/ ContentRegister(p) \/ CommitCheck(p) \/ CommitHead(p) \/ ClientCrash(p)
    PROVE  RowsInv'
<1>1. UNCHANGED tables
    BY DEF ContentCheck, BlobUpload, ContentRegister, CommitCheck, CommitHead, ClientCrash
<1>2. CASE GivesUp(p)
    BY <1>1, <1>2, GivesUpType, TablesRest DEF RowsInv, Planned
<1>3. ASSUME NEW c \in ContentIDs, ContentCheck(p, c) PROVE RowsInv'
  <2>1. request' \in [Clients -> Requests] /\ request'[p].at \in {"commit", "checkChunks"}
      BY <1>3 DEF RowsInv, DedupType, ContentCheck, Requests, Plans, DedupSteps
  <2>2. \A q \in Clients \ {p} : request'[q] = request[q]
      BY <1>3 DEF RowsInv, DedupType, ContentCheck
  <2> QED
      BY <1>1, <2>1, <2>2, TablesRest DEF Planned
<1>4. ASSUME NEW s \in {"commit", "upload", "head", "accepted", "register"}, Proceeds(p, s),
             request[p].at # "idle", s \in Planned => request[p].at \in Planned
      PROVE RowsInv'
    BY <1>1, <1>4, ProceedsType, TablesRest, ZenonT(30) DEF RowsInv, Registering, Planned, DedupSteps
<1>5. CASE BlobUpload(p)
  <2>1. ASSUME NEW key \in request[p].missing, request' = [request EXCEPT ![p].missing = @ \ {key}]
        PROVE  RowsInv'
    <3>1. /\ request' \in [Clients -> Requests]
          /\ request'[p].at = request[p].at /\ request'[p].plan = request[p].plan
          /\ request'[p].content = request[p].content
          /\ \A q \in Clients \ {p} : request'[q] = request[q]
        BY <1>5, <2>1 DEF RowsInv, DedupType, Requests, NoRequest, BlobUpload
    <3> QED
        BY <1>1, <3>1, TablesRest DEF RowsInv, Registering
  <2> QED
      BY <1>2, <1>4, <1>5, <2>1 DEF BlobUpload, Fails, Planned
<1>6. CASE ContentRegister(p)
  <2>1. ASSUME NEW s \in {"entry", "putMem"}, Proceeds(p, s), InDatabase <=> s = "entry"
        PROVE  RowsInv'
      BY <1>1, <1>6, <2>1, ProceedsType, TablesRest, ZenonT(30)
         DEF RowsInv, Registering, Planned, DedupSteps, ContentRegister
  <2> QED
      BY <1>2, <1>4, <1>6, <2>1, DedupAssumption DEF ContentRegister, Registered, Fails, Planned
<1>7. CASE CommitCheck(p) \/ CommitHead(p) \/ ClientCrash(p)
    BY <1>2, <1>4, <1>7 DEF CommitCheck, CommitHead, ClientCrash, Fails, Planned
<1> QED
    BY <1>3, <1>5, <1>6, <1>7

\* The plan has a key for each chunk.
LEMMA CheckChunksStep == ASSUME NEW p \in Clients, RowsInv, ContentCheckChunks(p) PROVE RowsInv'
<1> DEFINE c == request[p].content
           choices(i) == IF Known(ChunkHashes[c][i]) = {} THEN {BlobKey(c, i)} ELSE Known(ChunkHashes[c][i])
<1>1. CASE GivesUp(p)
    BY <1>1, GivesUpType, TablesRest, Zenon DEF RowsInv, Planned, ContentCheckChunks
<1>2. c \in ContentIDs /\ Count(c) \in Nat
  <2>0. request[p].at = "checkChunks"
      BY Zenon DEF ContentCheckChunks
  <2>1. request[p] \in Requests \ {NoRequest}
      BY <2>0 DEF RowsInv, DedupType, NoRequest
  <2>2. c \in ContentIDs
      BY <2>1 DEF Requests
  <2> QED
      BY <2>2, DedupAssumption DEF Count
<1>3. \A i \in 1..Count(c) : choices(i) \subseteq BlobKeys
  <2>1. \A d \in ContentIDs : Range(chunks[d]) \subseteq BlobKeys
      BY DEF RowsInv, DedupType, Plans, Range
  <2>2. \A h : Known(h) \subseteq BlobKeys
      BY <2>1 DEF Known, RowsInv, DedupType
  <2>3. \A i \in 1..Count(c) : BlobKey(c, i) \in BlobKeys
      BY <1>2 DEF BlobKeys
  <2> QED
      BY <2>2, <2>3
<1>4. ASSUME NEW plan \in [1..Count(c) -> UNION {choices(i) : i \in 1..Count(c)}],
             NEW s \in {"upload", "register"}, NEW new \in SUBSET BlobKeys,
             request' = [request EXCEPT ![p] =
                [@ EXCEPT !.at = s, !.plan = plan, !.missing = new, !.new = new]]
      PROVE  RowsInv'
  <2>1. plan \in Plans /\ Len(plan) = Count(c)
    <3>1. UNION {choices(i) : i \in 1..Count(c)} \in SUBSET BlobKeys
        BY <1>3, Zenon
    <3> HIDE DEF c, choices
    <3> QED
        BY <1>2, <1>4, <3>1, PlanIsSeq, Zenon
  <2>2. /\ request' \in [Clients -> Requests]
        /\ request'[p].at = s /\ request'[p].plan = plan /\ request'[p].content = c
        /\ \A q \in Clients \ {p} : request'[q] = request[q]
      BY <1>4, <2>1, PlansType, ZenonT(30) DEF RowsInv, DedupSteps, Planned, ContentCheckChunks
  <2> QED
      BY <2>1, <2>2, TablesRest, Zenon DEF ContentCheckChunks
<1>5. {BlobKey(c, i) : i \in {j \in 1..Count(c) : Known(ChunkHashes[c][j]) = {}}} \subseteq BlobKeys
    BY <1>2 DEF BlobKeys
<1> QED
    BY <1>1, <1>4, <1>5, DedupAssumption, ZenonT(30) DEF ContentCheckChunks, Fails

\* The insert of the entry, on Postgres, keeps the invariant.
LEMMA CreateEntryStep == ASSUME NEW p \in Clients, RowsInv, CreateContentEntry(p) PROVE RowsInv'
<1>1. /\ request[p].at = "entry" /\ chunks' = chunks
      /\ entries \subseteq entries' /\ entries' \subseteq entries \cup {request[p].content}
    BY DEF CreateContentEntry
<1>2. /\ request' \in [Clients -> Requests] /\ request[p].content \in ContentIDs
      /\ \A q \in Clients \ {p} : request'[q] = request[q]
      /\ \/ request'[p].at = "idle"
         \/ /\ request'[p].at = "chunks" /\ request'[p].plan = request[p].plan
            /\ request'[p].content = request[p].content /\ request'[p].content \in entries'
  <2>1. request[p].content \in ContentIDs
      BY <1>1 DEF RowsInv, DedupType, Requests, NoRequest
  <2>2. CASE GivesUp(p)
      BY <2>1, <2>2, GivesUpType DEF RowsInv
  <2>3. CASE Proceeds(p, "chunks") /\ entries' = entries \cup {request[p].content}
      BY <1>1, <2>1, <2>3, ProceedsType, Zenon DEF RowsInv, DedupSteps, Planned
  <2> QED
      BY <2>2, <2>3 DEF CreateContentEntry, Fails
<1>3. DedupType' /\ RowsAllOrNone'
    BY <1>1, <1>2 DEF RowsInv, DedupType, RowsAllOrNone, Count
<1>4. Registering'
    BY <1>1, <1>2 DEF RowsInv, Registering, Planned, Count
<1> QED
    BY <1>3, <1>4 DEF RowsInv

\* The client's next request once it is registered.
LEMMA RegisteredType ==
    ASSUME RowsInv, NEW p \in Clients, request[p].at \in {"chunks", "putMem"},
           Registered(p) \/ GivesUp(p)
    PROVE  /\ request' \in [Clients -> Requests]
           /\ request[p].content \in ContentIDs /\ request[p].plan \in Plans
           /\ Len(request[p].plan) = Count(request[p].content)
           /\ \A q \in Clients \ {p} : request'[q] = request[q]
           /\ request'[p].at \in {"idle", "commit", "upload"}
           /\ request'[p].at # "idle" =>
                request'[p].plan = request[p].plan /\ request'[p].content = request[p].content
<1>1. request[p].content \in ContentIDs /\ request[p].plan \in Plans
    BY DEF RowsInv, DedupType, Requests, NoRequest
<1>2. Len(request[p].plan) = Count(request[p].content)
    BY DEF RowsInv, Registering, Planned
<1>3. CASE GivesUp(p)
    BY <1>1, <1>2, <1>3, GivesUpType DEF RowsInv
<1>4. CASE Registered(p)
  <2>1. PICK s \in {"commit", "upload"} : Proceeds(p, s)
      BY <1>4, DedupAssumption DEF Registered
  <2> QED
      BY <1>1, <1>2, <2>1, ProceedsType, Zenon DEF RowsInv, DedupSteps, Planned
<1> QED
    BY <1>3, <1>4

\* The insert of the chunks ends a registration on Postgres.
LEMMA CreateChunksStep == ASSUME NEW p \in Clients, RowsInv, CreateContentChunks(p) PROVE RowsInv'
<1> DEFINE c == request[p].content
<1>1. /\ request[p].at = "chunks" /\ entries' = entries /\ (Registered(p) \/ GivesUp(p))
      /\ chunks' \in {chunks, [chunks EXCEPT ![c] = IF @ = <<>> THEN request[p].plan ELSE @]}
    BY DEF CreateContentChunks, Fails
<1>2. c \in ContentIDs /\ c \in entries /\ request[p].plan \in Plans /\ Len(request[p].plan) = Count(c)
    BY <1>1, RegisteredType DEF RowsInv, Registering
<1>3. /\ chunks' \in [ContentIDs -> Plans]
      /\ \A d \in ContentIDs :
            chunks'[d] = chunks[d] \/ (d = c /\ chunks'[d] = request[p].plan)
    BY <1>1, <1>2 DEF RowsInv, DedupType
<1>4. DedupType' /\ RowsAllOrNone'
    BY <1>1, <1>2, <1>3, RegisteredType DEF RowsInv, DedupType, RowsAllOrNone, Count
<1>5. Registering'
    BY <1>1, <1>2, RegisteredType DEF RowsInv, Registering, Planned, Count
<1> QED
    BY <1>4, <1>5 DEF RowsInv

\* The maps take the entry and its chunks in one step.
LEMMA PutMemStep == ASSUME NEW p \in Clients, RowsInv, PutMemContent(p) PROVE RowsInv'
<1> DEFINE c == request[p].content
<1>1. request[p].at = "putMem" /\ Registered(p) /\ ~InDatabase
    BY DEF PutMemContent, RowsInv, Registering
<1>2. c \in ContentIDs /\ request[p].plan \in Plans /\ Len(request[p].plan) = Count(c)
    BY <1>1, RegisteredType
<1>3. /\ chunks' \in [ContentIDs -> Plans] /\ entries' \subseteq ContentIDs
      /\ chunks'[c] = request[p].plan /\ c \in entries'
      /\ \A d \in ContentIDs \ {c} :
            \/ chunks'[d] = chunks[d] /\ (d \in entries => d \in entries')
            \/ chunks'[d] = <<>>
  <2>1. <<>> \in Plans
      BY DEF Plans
  <2>2. CASE entries' = entries \cup {c} /\ chunks' = [chunks EXCEPT ![c] = request[p].plan]
      BY <1>2, <2>2 DEF RowsInv, DedupType
  <2>3. ASSUME NEW e \in entries, entries' = (entries \ {e}) \cup {c},
               chunks' = [[chunks EXCEPT ![e] = <<>>] EXCEPT ![c] = request[p].plan]
        PROVE  <1>3!:
      BY <1>2, <2>1, <2>3 DEF RowsInv, DedupType
  <2> QED
      BY <2>2, <2>3 DEF PutMemContent
<1>4. DedupType' /\ RowsAllOrNone'
    BY <1>1, <1>2, <1>3, RegisteredType DEF RowsInv, DedupType, RowsAllOrNone, Count
<1>5. Registering'
    BY <1>1, <1>2, RegisteredType DEF RowsInv, Registering, Planned, Count
<1> QED
    BY <1>4, <1>5 DEF RowsInv

\* A restart, which empties the maps, keeps the invariant.
LEMMA RestartStep == RowsInv /\ Restart => RowsInv'
<1> SUFFICES ASSUME RowsInv, Restart PROVE RowsInv'
    OBVIOUS
<1>1. \A p \in Clients : request'[p].at = "idle" /\ request'[p] \in Requests
    BY DEF Restart, NoRequest, Requests
<1>2. DedupType' /\ Registering'
    BY <1>1 DEF Restart, DedupType, Registering, Planned, Plans
<1>3. RowsAllOrNone'
    BY DEF Restart, RowsAllOrNone
<1> QED
    BY <1>2, <1>3 DEF RowsInv

\* The invariant holds initially.
LEMMA RowsInvInit == DedupInit => RowsInv
<1> SUFFICES ASSUME DedupInit PROVE RowsInv
    OBVIOUS
<1>1. \A p \in Clients : request[p].at = "idle" /\ request[p] \in Requests
    BY DEF DedupInit, NoRequest, Requests
<1>2. DedupType /\ Registering
    BY <1>1 DEF DedupInit, DedupType, Registering, Planned, Plans
<1>3. RowsAllOrNone
    BY DEF DedupInit, RowsAllOrNone
<1> QED
    BY <1>2, <1>3 DEF RowsInv

\* Every step keeps the invariant.
LEMMA RowsInvStep == RowsInv /\ [DedupNext]_dedupVars => RowsInv'
<1> SUFFICES ASSUME RowsInv, [DedupNext]_dedupVars PROVE RowsInv'
    OBVIOUS
<1>1. CASE UNCHANGED dedupVars
    BY <1>1 DEF dedupVars, tables, RowsInv, DedupType, Registering, RowsAllOrNone, Count
<1> QED
    BY <1>1, ReadingStep, CheckChunksStep, CreateEntryStep, CreateChunksStep, PutMemStep, RestartStep
       DEF DedupNext

\* For any number of clients, contents and chunks, on Postgres and on the maps,
\* through failed and racing registrations, evictions and restarts, a content
\* has the rows of one whole registration or none.
THEOREM RowsAllOrNoneHolds == DedupSpec => []RowsAllOrNone
<1>1. RowsInv => RowsAllOrNone
    BY DEF RowsInv
<1> QED
    BY <1>1, RowsInvInit, RowsInvStep, PTL DEF DedupSpec

-----------------------------------------------------------------------------
(* The blobs.                                                              *)

PastUpload == {"register", "entry", "chunks", "putMem", "commit", "head", "accepted"}

\* What the tables name is stored, and so is what a client plans to use, but
\* for what it has still to upload.
PlansStored ==
    /\ \A c \in ContentIDs : Range(chunks[c]) \subseteq uploadedBlobs
    /\ \A p \in Clients :
        /\ request[p].at = "upload" =>
            Range(request[p].plan) \subseteq uploadedBlobs \cup request[p].missing
        /\ request[p].at \in PastUpload => Range(request[p].plan) \subseteq uploadedBlobs

\* A step of one client that leaves the tables alone.
LEMMA OthersStored ==
    ASSUME PlansStored, UNCHANGED tables, uploadedBlobs \subseteq uploadedBlobs', NEW p \in Clients,
           \A q \in Clients \ {p} : request'[q] = request[q],
           request'[p].at = "upload" =>
              Range(request'[p].plan) \subseteq uploadedBlobs' \cup request'[p].missing,
           request'[p].at \in PastUpload => Range(request'[p].plan) \subseteq uploadedBlobs'
    PROVE  PlansStored'
BY DEF PlansStored, tables

\* A plan takes its keys from the tables, or is going to upload them.
LEMMA CheckChunksStored ==
    ASSUME UploadFirst, NEW p \in Clients, RowsInv, PlansStored, ContentCheckChunks(p)
    PROVE  PlansStored'
<1> DEFINE c == request[p].content
           fresh == {j \in 1..Count(c) : Known(ChunkHashes[c][j]) = {}}
           new == {BlobKey(c, i) : i \in fresh}
<1>1. CASE GivesUp(p)
    BY <1>1, GivesUpType, OthersStored, ZenonT(30) DEF RowsInv, PastUpload, ContentCheckChunks
<1>2. ASSUME NEW plan \in [1..Count(c) ->
                UNION {IF Known(ChunkHashes[c][i]) = {} THEN {BlobKey(c, i)}
                       ELSE Known(ChunkHashes[c][i]) : i \in 1..Count(c)}],
             \A i \in 1..Count(c) :
                plan[i] \in IF Known(ChunkHashes[c][i]) = {} THEN {BlobKey(c, i)}
                            ELSE Known(ChunkHashes[c][i]),
             request' = [request EXCEPT ![p] =
                [@ EXCEPT !.at = "upload", !.plan = plan, !.missing = new, !.new = new]]
      PROVE  PlansStored'
  <2>1. Range(plan) \subseteq uploadedBlobs \cup new
    <3>1. \A h : Known(h) \subseteq uploadedBlobs
        BY DEF Known, PlansStored, RowsInv, DedupType
    <3>2. \A i \in 1..Count(c) : plan[i] \in uploadedBlobs \cup new
        BY <1>2, <3>1, Zenon
    <3> QED
        BY <3>2, Zenon DEF Range
  <2>2. request[p] \in Requests \ {NoRequest}
    <3>1. request[p].at = "checkChunks"
        BY Zenon DEF ContentCheckChunks
    <3> QED
        BY <3>1 DEF RowsInv, DedupType, NoRequest
  <2>3. /\ request'[p].at = "upload" /\ request'[p].plan = plan /\ request'[p].missing = new
        /\ \A q \in Clients \ {p} : request'[q] = request[q]
      BY <1>2, <2>2 DEF RowsInv, DedupType, Requests
  <2> QED
      BY <2>1, <2>3, OthersStored, Zenon DEF PastUpload, ContentCheckChunks
<1> QED
    BY <1>1, <1>2, ZenonT(30) DEF ContentCheckChunks, Fails

\* An upload adds its key to the store before the plan goes on.
LEMMA BlobUploadStored ==
    ASSUME UploadFirst, NEW p \in Clients, RowsInv, PlansStored, BlobUpload(p)
    PROVE  PlansStored'
<1>1. request[p].at = "upload" /\ UNCHANGED tables /\ uploadedBlobs \subseteq uploadedBlobs'
    BY DEF BlobUpload
<1>2. CASE GivesUp(p)
    BY <1>1, <1>2, GivesUpType, OthersStored DEF RowsInv, PastUpload
<1>3. CASE request[p].missing = {} /\ Proceeds(p, "register")
    BY <1>1, <1>3, ProceedsType, OthersStored, ZenonT(30) DEF RowsInv, PlansStored, PastUpload, DedupSteps, Planned
<1>4. ASSUME NEW key \in request[p].missing, uploadedBlobs' = uploadedBlobs \cup {key},
             request' = [request EXCEPT ![p].missing = @ \ {key}]
      PROVE  PlansStored'
  <2>1. request[p] \in Requests \ {NoRequest}
      BY <1>1 DEF RowsInv, DedupType, NoRequest
  <2>2. /\ request'[p].at = "upload" /\ request'[p].plan = request[p].plan
        /\ request'[p].missing = request[p].missing \ {key}
        /\ \A q \in Clients \ {p} : request'[q] = request[q]
      BY <1>1, <1>4, <2>1 DEF RowsInv, DedupType, Requests
  <2>3. Range(request[p].plan) \subseteq uploadedBlobs \cup request[p].missing
      BY <1>1 DEF PlansStored
  <2> QED
      BY <1>1, <1>4, <2>2, <2>3, OthersStored DEF PastUpload
<1> QED
    BY <1>2, <1>3, <1>4 DEF BlobUpload, Fails

\* The other requests store nothing and plan nothing.
LEMMA ReadingStored ==
    ASSUME UploadFirst, NEW p \in Clients, RowsInv, PlansStored,
           \/ \E c \in ContentIDs : ContentCheck(p, c)
           \/ ContentRegister(p) \/ CommitCheck(p) \/ CommitHead(p) \/ ClientCrash(p)
    PROVE  PlansStored'
<1>1. UNCHANGED <<uploadedBlobs, tables>>
    BY DEF ContentCheck, ContentRegister, CommitCheck, CommitHead, ClientCrash
<1>2. CASE GivesUp(p)
    BY <1>1, <1>2, GivesUpType, OthersStored DEF RowsInv, PastUpload
<1>3. ASSUME NEW c \in ContentIDs, ContentCheck(p, c) PROVE PlansStored'
  <2>1. /\ request'[p].at \in {"commit", "checkChunks"}
        /\ request'[p].at = "commit" => request'[p].plan = chunks[c]
        /\ \A q \in Clients \ {p} : request'[q] = request[q]
      BY <1>3 DEF RowsInv, DedupType, ContentCheck
  <2> QED
      BY <1>1, <2>1, OthersStored DEF PlansStored, PastUpload
<1>4. ASSUME NEW s \in PastUpload, Proceeds(p, s), request[p].at \in PastUpload PROVE PlansStored'
    BY <1>1, <1>4, ProceedsType, OthersStored, ZenonT(30) DEF RowsInv, PlansStored, PastUpload, DedupSteps, Planned
<1>5. CASE ContentRegister(p)
    BY <1>2, <1>4, <1>5, DedupAssumption DEF ContentRegister, Registered, Fails, PastUpload
<1>6. CASE CommitCheck(p) \/ CommitHead(p) \/ ClientCrash(p)
    BY <1>2, <1>4, <1>6 DEF CommitCheck, CommitHead, ClientCrash, Fails, PastUpload
<1> QED
    BY <1>3, <1>5, <1>6

\* A registration writes its own plan.
LEMMA RegisterStored ==
    ASSUME UploadFirst, NEW p \in Clients, RowsInv, PlansStored,
           CreateContentEntry(p) \/ CreateContentChunks(p) \/ PutMemContent(p)
    PROVE  PlansStored'
<1>0. request[p].at \in {"entry", "chunks", "putMem"}
    BY Zenon DEF CreateContentEntry, CreateContentChunks, PutMemContent
<1>1. /\ UNCHANGED uploadedBlobs
      /\ Registered(p) \/ GivesUp(p) \/ (request[p].at = "entry" /\ Proceeds(p, "chunks"))
    BY DEF CreateContentEntry, CreateContentChunks, PutMemContent, Fails
<1>2. Range(request[p].plan) \subseteq uploadedBlobs
    BY <1>0, Zenon DEF PlansStored, PastUpload
<1>3. request[p].content \in ContentIDs
  <2>1. request[p] \in Requests \ {NoRequest}
      BY <1>0 DEF RowsInv, DedupType, NoRequest
  <2> QED
      BY <2>1 DEF Requests
<1>4. \A d \in ContentIDs : chunks'[d] \in {chunks[d], request[p].plan, <<>>}
    BY <1>3 DEF RowsInv, DedupType, CreateContentEntry, CreateContentChunks, PutMemContent
<1>5. \A d \in ContentIDs : Range(chunks'[d]) \subseteq uploadedBlobs'
  <2>1. Range(<<>>) = {}
      BY DEF Range
  <2> QED
      BY <1>1, <1>2, <1>4, <2>1, Zenon DEF PlansStored
<1>6. /\ request'[p].at \in {"idle", "commit", "chunks"}
      /\ request'[p].at # "idle" => request'[p].plan = request[p].plan
      /\ \A q \in Clients \ {p} : request'[q] = request[q]
  <2>1. CASE GivesUp(p)
      BY <2>1, GivesUpType DEF RowsInv
  <2>2. ASSUME NEW s \in {"commit", "chunks"}, Proceeds(p, s) PROVE <1>6!:
      BY <1>0, <2>2, ProceedsType, Zenon DEF RowsInv, DedupSteps, Planned
  <2> QED
      BY <1>1, <2>1, <2>2 DEF Registered
<1> QED
    BY <1>0, <1>1, <1>2, <1>5, <1>6 DEF PlansStored, PastUpload

\* Every step keeps PlansStored.
LEMMA PlansStoredStep ==
    ASSUME UploadFirst PROVE RowsInv /\ PlansStored /\ [DedupNext]_dedupVars => PlansStored'
<1> SUFFICES ASSUME RowsInv, PlansStored, [DedupNext]_dedupVars PROVE PlansStored'
    OBVIOUS
<1>1. CASE UNCHANGED dedupVars
    BY <1>1, Zenon DEF dedupVars, tables, PlansStored
<1>2. CASE Restart
  <2>1. \A c \in ContentIDs : chunks'[c] = <<>>
      BY <1>2 DEF Restart
  <2>2. \A p \in Clients : request'[p] = NoRequest
      BY <1>2 DEF Restart
  <2>3. NoRequest.at # "upload" /\ NoRequest.at \notin PastUpload
      BY DEF NoRequest, PastUpload
  <2>4. Range(<<>>) = {}
      BY DEF Range
  <2> QED
      BY <2>1, <2>2, <2>3, <2>4 DEF PlansStored
<1> QED
    BY <1>1, <1>2, CheckChunksStored, BlobUploadStored, ReadingStored, RegisterStored DEF DedupNext

\* When clients upload before they register, everything an accepted commit
\* refers to is in the durable store, although reused keys are looked up only
\* in the tables: a key enters a table after its blob was stored.
THEOREM CommitsStoredHolds == ASSUME UploadFirst PROVE DedupSpec => []CommitsStored
<1>1. DedupInit => PlansStored
    BY DEF DedupInit, PlansStored, PastUpload, NoRequest, Range
<1>2. PlansStored => CommitsStored
    BY DEF PlansStored, CommitsStored, PastUpload
<1>3. RowsInv /\ PlansStored /\ [DedupNext]_dedupVars => PlansStored'
    BY PlansStoredStep
<1> QED
    BY <1>1, <1>2, <1>3, RowsInvInit, RowsInvStep, PTL DEF DedupSpec

=============================================================================
