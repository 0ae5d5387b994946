---------------------- MODULE BlobPipelineSafetyProofs ----------------------
(***************************************************************************)
(* In BlobPipeline a durable status is backed by the durable store, bodies *)
(* stay intact and an acknowledged blob is never lost, for every set of    *)
(* blobs, replicas and goroutines.                                         *)
(***************************************************************************)
EXTENDS BlobPipelineTypeProofs

\* The steps taken only once the object has been seen in, or put into, L2.
ReachedStored ==
    \A p \in Procs :
        pc[p] \in {"p_skip", "p_mark", "p_reget", "p_reput", "f_put", "f_status"}
        => blob[p] \in stored

\* The outcome of a flight: an error, or a blob the durable store holds.
OutcomeStored ==
    \A p \in Procs :
        pc[p] \in {"p_close", "p_delete", "p_ret", "r_close", "r_delete", "r_ret"}
        => result[p] = "err" \/ (result[p] = "ok" /\ blob[p] \in stored)

\* The outcome left in the singleflight maps for callers that join late.
CallsStored ==
    \A r \in Replicas, b \in Blobs :
        /\ promoting[r][b].done /\ ~promoting[r][b].err => b \in stored
        /\ restoring[r][b].done /\ ~restoring[r][b].err => b \in stored

NoHollow == \A r \in Replicas, b \in Blobs : cache[r][b] # "hollow"

\* What Crash leaves of the caches.
LEMMA CrashCache ==
    ASSUME CacheOK, NEW r \in Replicas, Crash(r)
    PROVE  /\ \A b \in Blobs : cache'[r][b] \in AfterCrash(r, b)
           /\ \A s \in Replicas : s # r => cache'[s] = cache[s]
BY DEF Crash, CacheOK

\* No cache operation creates a hollow entry unless it is asked to put one.
LEMMA CachePutIntact ==
    ASSUME CacheOK, NoHollow, NEW r \in Replicas, NEW b \in Blobs, NEW e \in EntryStates,
           e # "hollow", CachePut(r, b, e)
    PROVE  NoHollow'
BY DEF CachePut, CacheOK, NoHollow

\* Nor does a failed put, a miss or a removal.
LEMMA CacheStepIntact ==
    ASSUME CacheOK, NoHollow, NEW r \in Replicas, NEW b \in Blobs,
           CachePutFails(r, b) \/ CacheMiss(r, b) \/ CacheDrop(r, b)
    PROVE  NoHollow'
<1>1. CASE CachePutFails(r, b)
  <2>1. PICK left \in {cache[r][b], "absent"} : CachePut(r, b, left)
    BY <1>1 DEF CachePutFails
  <2>2. left \in EntryStates /\ left # "hollow"
    BY DEF CacheOK, NoHollow, EntryStates
  <2> QED
    BY <2>1, <2>2, CachePutIntact
<1>2. CASE CacheMiss(r, b) \/ CacheDrop(r, b)
  BY <1>2 DEF CacheMiss, CacheDrop, CacheOK, NoHollow
<1> QED
  BY <1>1, <1>2

\* The inductive invariant behind DurableIsStored and BodiesIntact.
StoredInv == DurableIsStored /\ BodiesIntact /\ ReachedStored /\ OutcomeStored /\ CallsStored

\* A step that only adds objects to the store keeps the shared part of the
\* invariant.
LEMMA SharedFrame ==
    ASSUME StoredInv, stored \subseteq stored', UNCHANGED <<status, cache, flights, history>>
    PROVE  DurableIsStored' /\ NoHollow' /\ CallsStored'
BY DEF StoredInv, DurableIsStored, BodiesIntact, NoHollow, CallsStored, flights, history

\* A goroutine that returns, or settles its flight with an outcome that is
\* true, keeps the local part of the invariant.
LEMMA ReturnFrame ==
    ASSUME LocalsOK, StoredInv, NEW p \in Procs, Return(p), stored \subseteq stored'
    PROVE  (\A q \in Procs : body'[q] # "empty") /\ ReachedStored' /\ OutcomeStored'
<1> USE DEF LocalsOK, StoredInv, Return, Goto
<1>1. \A q \in Procs : body'[q] # "empty"
  BY DEF BodiesIntact
<1>2. ReachedStored'
  BY DEF ReachedStored
<1>3. OutcomeStored'
  BY DEF OutcomeStored
<1> QED
  BY <1>1, <1>2, <1>3

\* A leader that settles its flight with a true outcome keeps the local part too.
LEMMA SettleFrame ==
    ASSUME LocalsOK, StoredInv, NEW p \in Procs, NEW s \in {"p_close", "r_close"},
           NEW res \in {"ok", "err"}, Settle(p, s, res), stored \subseteq stored',
           res = "ok" => blob[p] \in stored
    PROVE  (\A q \in Procs : body'[q] # "empty") /\ ReachedStored' /\ OutcomeStored'
<1> USE DEF LocalsOK, StoredInv, Settle, Goto
<1>1. \A q \in Procs : body'[q] # "empty"
  BY DEF BodiesIntact
<1>2. ReachedStored'
  BY DEF ReachedStored
<1>3. OutcomeStored'
  BY DEF OutcomeStored
<1> QED
  BY <1>1, <1>2, <1>3

\* The invariant behind the theorems below holds throughout.
LEMMA StoredInvHolds ==
    ASSUME "panic" \notin Faults
    PROVE  Spec => []StoredInv
<1>1. Init => StoredInv
  BY DEF Init, NoCall, StoredInv, DurableIsStored, BodiesIntact, ReachedStored,
         OutcomeStored, CallsStored
<1>2. TypeOK /\ StoredInv /\ [Next]_vars => StoredInv'
  <2> SUFFICES ASSUME TypeOK, StoredInv, [Next]_vars
               PROVE  StoredInv'
    OBVIOUS
  <2> CacheOK /\ LocalsOK /\ FlightsOK /\ RestOK
    BY TypeParts
  <2> DurableIsStored /\ BodiesIntact /\ NoHollow /\ ReachedStored /\ OutcomeStored /\ CallsStored
    BY DEF StoredInv, BodiesIntact, NoHollow
  <2>1. ASSUME NEW p \in Procs, StartWrite(p)
         PROVE  StoredInv'
    BY <2>1, PipelineAssumption DEF StartWrite, Start, Goto, StoredInv, DurableIsStored,
       BodiesIntact, ReachedStored, OutcomeStored, CallsStored, CacheOK, FlightsOK,
       LocalsOK, RestOK, shared, flights, locals, history
  <2>2. ASSUME NEW p \in Procs, StartRead(p)
         PROVE  StoredInv'
    BY <2>2, PipelineAssumption DEF StartRead, Start, Goto, StoredInv, DurableIsStored,
       BodiesIntact, ReachedStored, OutcomeStored, CallsStored, CacheOK, FlightsOK,
       LocalsOK, RestOK, shared, flights, locals, history
  <2>3. ASSUME NEW p \in Procs, StartPromote(p)
         PROVE  StoredInv'
    BY <2>3, PipelineAssumption DEF StartPromote, Start, Goto, StoredInv, DurableIsStored,
       BodiesIntact, ReachedStored, OutcomeStored, CallsStored, CacheOK, FlightsOK,
       LocalsOK, RestOK, shared, flights, locals, history
  <2>4. ASSUME NEW p \in Procs, StartEvict(p)
         PROVE  StoredInv'
    BY <2>4, PipelineAssumption DEF StartEvict, Start, Goto, StoredInv, DurableIsStored,
       BodiesIntact, ReachedStored, OutcomeStored, CallsStored, CacheOK, FlightsOK,
       LocalsOK, RestOK, shared, flights, locals, history
  <2>5. ASSUME NEW p \in Procs, WriteCache(p)
         PROVE  StoredInv'
    <3>1. DurableIsStored'
      BY <2>5 DEF WriteCache, DurableIsStored, ReachedStored, OutcomeStored, LocalsOK, RestOK,
         shared, history
    <3>2. BodiesIntact'
      <4>1. NoHollow'
        BY <2>5, PipelineAssumption, CachePutIntact, CacheStepIntact DEF WriteCache,
           NoHollow, BodiesIntact, LocalsOK, EntryFor, EntryStates, shared
      <4>2. \A q \in Procs : body'[q] # "empty"
        BY <2>5, PipelineAssumption DEF WriteCache, BodiesIntact, OutcomeStored, LocalsOK,
           locals, Goto, Return
      <4> QED
        BY <4>1, <4>2 DEF NoHollow, BodiesIntact
    <3>3. ReachedStored'
      BY <2>5 DEF WriteCache, ReachedStored, OutcomeStored, LocalsOK, shared, locals, Goto,
         Return
    <3>4. OutcomeStored'
      BY <2>5 DEF WriteCache, DurableIsStored, CallsStored, ReachedStored, OutcomeStored,
         LocalsOK, shared, locals, Goto, Return
    <3>5. CallsStored'
      BY <2>5, PipelineAssumption DEF WriteCache, CallsStored, OutcomeStored, FlightsOK,
         LocalsOK, shared, flights, NoCall
    <3> QED
      BY <3>1, <3>2, <3>3, <3>4, <3>5 DEF StoredInv
  <2>6. ASSUME NEW p \in Procs, WriteStatus(p)
         PROVE  StoredInv'
    <3>1. DurableIsStored'
      BY <2>6 DEF WriteStatus, DurableIsStored, ReachedStored, OutcomeStored, LocalsOK, RestOK,
         shared, history
    <3>2. BodiesIntact'
      <4>1. NoHollow'
        BY <2>6, PipelineAssumption, CachePutIntact, CacheStepIntact, Zenon DEF WriteStatus,
           NoHollow, BodiesIntact, LocalsOK, EntryFor, EntryStates, shared
      <4>2. \A q \in Procs : body'[q] # "empty"
        BY <2>6, PipelineAssumption DEF WriteStatus, BodiesIntact, OutcomeStored, LocalsOK,
           locals, Goto, Return
      <4> QED
        BY <4>1, <4>2 DEF NoHollow, BodiesIntact
    <3>3. ReachedStored'
      BY <2>6 DEF WriteStatus, ReachedStored, OutcomeStored, LocalsOK, shared, locals, Goto,
         Return
    <3>4. OutcomeStored'
      BY <2>6 DEF WriteStatus, DurableIsStored, CallsStored, ReachedStored, OutcomeStored,
         LocalsOK, shared, locals, Goto, Return
    <3>5. CallsStored'
      BY <2>6, PipelineAssumption DEF WriteStatus, CallsStored, OutcomeStored, FlightsOK,
         LocalsOK, shared, flights, NoCall
    <3> QED
      BY <3>1, <3>2, <3>3, <3>4, <3>5 DEF StoredInv
  <2>7. ASSUME NEW p \in Procs, PromoteJoin(p)
         PROVE  StoredInv'
    <3>1. DurableIsStored'
      BY <2>7 DEF PromoteJoin, DurableIsStored, ReachedStored, OutcomeStored, LocalsOK, RestOK,
         shared, history
    <3>2. BodiesIntact'
      <4>1. NoHollow'
        BY <2>7, PipelineAssumption, CachePutIntact, CacheStepIntact DEF PromoteJoin,
           NoHollow, BodiesIntact, LocalsOK, EntryFor, EntryStates, shared
      <4>2. \A q \in Procs : body'[q] # "empty"
        BY <2>7, PipelineAssumption DEF PromoteJoin, BodiesIntact, OutcomeStored, LocalsOK,
           locals, Goto, Settle
      <4> QED
        BY <4>1, <4>2 DEF NoHollow, BodiesIntact
    <3>3. ReachedStored'
      BY <2>7 DEF PromoteJoin, ReachedStored, OutcomeStored, LocalsOK, shared, locals, Goto,
         Settle
    <3>4. OutcomeStored'
      BY <2>7, PipelineAssumption DEF PromoteJoin, DurableIsStored, CallsStored,
         ReachedStored, OutcomeStored, LocalsOK, shared, locals, Goto, Settle
    <3>5. CallsStored'
      <4>1. Home[p] \in Replicas /\ blob[p] \in Blobs
        BY PipelineAssumption DEF LocalsOK
      <4>2. /\ promoting' = promoting \/ promoting' = [promoting EXCEPT ![Home[p]][blob[p]] =
                            [leader |-> p, done |-> FALSE, err |-> FALSE]]
            /\ UNCHANGED <<restoring, stored>>
        BY <2>7 DEF PromoteJoin, shared
      <4>3. CASE promoting' = promoting
        BY <4>2, <4>3 DEF CallsStored
      <4>4. CASE promoting' = [promoting EXCEPT ![Home[p]][blob[p]] =
                            [leader |-> p, done |-> FALSE, err |-> FALSE]]
        BY <4>1, <4>2, <4>4 DEF CallsStored, FlightsOK
      <4> QED
        BY <4>2, <4>3, <4>4
    <3> QED
      BY <3>1, <3>2, <3>3, <3>4, <3>5 DEF StoredInv
  <2>8. ASSUME NEW p \in Procs, PromoteStatus(p)
         PROVE  StoredInv'
    <3>1. DurableIsStored' /\ NoHollow' /\ CallsStored' /\ UNCHANGED stored
      BY <2>8, SharedFrame DEF PromoteStatus, shared
    <3>2. CASE Goto(p, "p_head") /\ UNCHANGED locals
      <4>1. (\A q \in Procs : body'[q] # "empty") /\ ReachedStored' /\ OutcomeStored'
        BY <3>1, <3>2 DEF BodiesIntact, ReachedStored, OutcomeStored, Goto, locals, LocalsOK
      <4> QED
        BY <3>1, <4>1 DEF StoredInv, BodiesIntact, NoHollow
    <3>3. CASE \/ status[blob[p]] = "COMMITTED_DURABLE" /\ Settle(p, "p_close", "ok")
               \/ Settle(p, "p_close", "err")
      <4>1. status[blob[p]] = "COMMITTED_DURABLE" => blob[p] \in stored
        BY DEF DurableIsStored, LocalsOK
      <4>2. (\A q \in Procs : body'[q] # "empty") /\ ReachedStored' /\ OutcomeStored'
        BY <3>1, <3>3, <4>1, SettleFrame
      <4> QED
        BY <3>1, <4>2 DEF StoredInv, BodiesIntact, NoHollow
    <3> QED
      BY <2>8, <3>2, <3>3 DEF PromoteStatus
  <2>9. ASSUME NEW p \in Procs, PromoteHead(p)
         PROVE  StoredInv'
    BY <2>9, PipelineAssumption DEF PromoteHead, Goto, StoredInv, DurableIsStored,
       BodiesIntact, ReachedStored, OutcomeStored, CallsStored, CacheOK, FlightsOK,
       LocalsOK, RestOK, shared, flights, locals, history
  <2>10. ASSUME NEW p \in Procs, PromoteSkip(p)
         PROVE  StoredInv'
    <3>1. DurableIsStored'
      BY <2>10 DEF PromoteSkip, DurableIsStored, ReachedStored, OutcomeStored, LocalsOK, RestOK,
         shared, history, MarkDurable
    <3>2. BodiesIntact'
      <4>1. NoHollow'
        BY <2>10, PipelineAssumption, CachePutIntact, CacheStepIntact DEF PromoteSkip,
           NoHollow, BodiesIntact, LocalsOK, EntryFor, EntryStates, shared
      <4>2. \A q \in Procs : body'[q] # "empty"
        BY <2>10, PipelineAssumption DEF PromoteSkip, BodiesIntact, OutcomeStored, LocalsOK,
           locals, Goto, Settle
      <4> QED
        BY <4>1, <4>2 DEF NoHollow, BodiesIntact
    <3>3. ReachedStored'
      BY <2>10 DEF PromoteSkip, ReachedStored, OutcomeStored, LocalsOK, shared, locals,
         Goto, Settle
    <3>4. OutcomeStored'
      BY <2>10 DEF PromoteSkip, DurableIsStored, CallsStored, ReachedStored, OutcomeStored,
         LocalsOK, shared, locals, Goto, Settle
    <3>5. CallsStored'
      BY <2>10, PipelineAssumption DEF PromoteSkip, CallsStored, OutcomeStored, FlightsOK,
         LocalsOK, shared, flights, NoCall
    <3> QED
      BY <3>1, <3>2, <3>3, <3>4, <3>5 DEF StoredInv
  <2>11. ASSUME NEW p \in Procs, PromoteGet(p)
         PROVE  StoredInv'
    <3>1. DurableIsStored'
      BY <2>11 DEF PromoteGet, DurableIsStored, ReachedStored, OutcomeStored, LocalsOK, RestOK,
         shared, history
    <3>2. BodiesIntact'
      <4>1. NoHollow'
        BY <2>11, PipelineAssumption, CachePutIntact, CacheStepIntact, Zenon DEF PromoteGet,
           NoHollow, BodiesIntact, LocalsOK, EntryFor, EntryStates, shared
      <4>2. \A q \in Procs : body'[q] # "empty"
        <5>1. BodyOf(Home[p], blob[p]) # "empty"
          BY PipelineAssumption DEF BodyOf, NoHollow, LocalsOK
        <5>2. \/ body' = body
              \/ body' = [body EXCEPT ![p] = BodyOf(Home[p], blob[p])]
          BY <2>11, Zenon DEF PromoteGet, Settle
        <5> QED
          BY <5>1, <5>2 DEF BodiesIntact, LocalsOK
      <4> QED
        BY <4>1, <4>2 DEF NoHollow, BodiesIntact
    <3>3. ReachedStored'
      BY <2>11 DEF PromoteGet, ReachedStored, OutcomeStored, LocalsOK, shared, locals, Goto,
         Settle
    <3>4. OutcomeStored'
      BY <2>11 DEF PromoteGet, DurableIsStored, CallsStored, ReachedStored, OutcomeStored,
         LocalsOK, shared, locals, Goto, Settle
    <3>5. CallsStored'
      BY <2>11, PipelineAssumption DEF PromoteGet, CallsStored, OutcomeStored, FlightsOK,
         LocalsOK, shared, flights, NoCall
    <3> QED
      BY <3>1, <3>2, <3>3, <3>4, <3>5 DEF StoredInv
  <2>12. ASSUME NEW p \in Procs, PromotePut(p)
         PROVE  StoredInv'
    <3>1. DurableIsStored' /\ NoHollow' /\ CallsStored' /\ stored \subseteq stored'
      BY <2>12, SharedFrame DEF PromotePut
    <3>2. CASE /\ stored' = stored \cup {blob[p]}
               /\ Goto(p, "p_mark") /\ UNCHANGED locals
      <4>1. \A q \in Procs : body'[q] # "empty"
        BY <3>2 DEF BodiesIntact, locals
      <4>2. ReachedStored' /\ OutcomeStored'
        BY <3>2 DEF ReachedStored, OutcomeStored, Goto, locals, LocalsOK
      <4> QED
        BY <3>1, <4>1, <4>2 DEF StoredInv, BodiesIntact, NoHollow
    <3>3. CASE Settle(p, "p_close", "err")
      <4>1. (\A q \in Procs : body'[q] # "empty") /\ ReachedStored' /\ OutcomeStored'
        BY <3>1, <3>3, SettleFrame
      <4> QED
        BY <3>1, <4>1 DEF StoredInv, BodiesIntact, NoHollow
    <3> QED
      BY <2>12, <3>2, <3>3 DEF PromotePut
  <2>13. ASSUME NEW p \in Procs, PromoteMark(p)
         PROVE  StoredInv'
    <3>1. DurableIsStored'
      BY <2>13 DEF PromoteMark, DurableIsStored, ReachedStored, OutcomeStored, LocalsOK, RestOK,
         shared, history, MarkDurable
    <3>2. BodiesIntact'
      <4>1. NoHollow'
        BY <2>13, PipelineAssumption, CachePutIntact, CacheStepIntact DEF PromoteMark,
           NoHollow, BodiesIntact, LocalsOK, EntryFor, EntryStates, shared
      <4>2. \A q \in Procs : body'[q] # "empty"
        BY <2>13, PipelineAssumption DEF PromoteMark, BodiesIntact, OutcomeStored, LocalsOK,
           locals, Goto, Settle
      <4> QED
        BY <4>1, <4>2 DEF NoHollow, BodiesIntact
    <3>3. ReachedStored'
      BY <2>13 DEF PromoteMark, ReachedStored, OutcomeStored, LocalsOK, shared, locals,
         Goto, Settle
    <3>4. OutcomeStored'
      BY <2>13 DEF PromoteMark, DurableIsStored, CallsStored, ReachedStored, OutcomeStored,
         LocalsOK, shared, locals, Goto, Settle
    <3>5. CallsStored'
      BY <2>13, PipelineAssumption DEF PromoteMark, CallsStored, OutcomeStored, FlightsOK,
         LocalsOK, shared, flights, NoCall
    <3> QED
      BY <3>1, <3>2, <3>3, <3>4, <3>5 DEF StoredInv
  <2>14. ASSUME NEW p \in Procs, PromoteReget(p)
         PROVE  StoredInv'
    <3>1. DurableIsStored'
      BY <2>14 DEF PromoteReget, DurableIsStored, ReachedStored, OutcomeStored, LocalsOK,
         RestOK, shared, history
    <3>2. BodiesIntact'
      <4>1. NoHollow'
        BY <2>14, PipelineAssumption, CachePutIntact, CacheStepIntact, Zenon DEF PromoteReget,
           NoHollow, BodiesIntact, LocalsOK, EntryFor, EntryStates, shared
      <4>2. \A q \in Procs : body'[q] # "empty"
        <5>1. BodyOf(Home[p], blob[p]) # "empty"
          BY PipelineAssumption DEF BodyOf, NoHollow, LocalsOK
        <5>2. \/ body' = body
              \/ body' = [body EXCEPT ![p] = BodyOf(Home[p], blob[p])]
          BY <2>14, Zenon DEF PromoteReget, Settle
        <5> QED
          BY <5>1, <5>2 DEF BodiesIntact, LocalsOK
      <4> QED
        BY <4>1, <4>2 DEF NoHollow, BodiesIntact
    <3>3. ReachedStored'
      BY <2>14 DEF PromoteReget, ReachedStored, OutcomeStored, LocalsOK, shared, locals,
         Goto, Settle
    <3>4. OutcomeStored'
      BY <2>14 DEF PromoteReget, DurableIsStored, CallsStored, ReachedStored, OutcomeStored,
         LocalsOK, shared, locals, Goto, Settle
    <3>5. CallsStored'
      BY <2>14, PipelineAssumption DEF PromoteReget, CallsStored, OutcomeStored, FlightsOK,
         LocalsOK, shared, flights, NoCall
    <3> QED
      BY <3>1, <3>2, <3>3, <3>4, <3>5 DEF StoredInv
  <2>15. ASSUME NEW p \in Procs, PromoteReput(p)
         PROVE  StoredInv'
    <3>1. DurableIsStored'
      BY <2>15 DEF PromoteReput, DurableIsStored, ReachedStored, OutcomeStored, LocalsOK,
         RestOK, shared, history
    <3>2. BodiesIntact'
      <4>1. NoHollow'
        BY <2>15, PipelineAssumption, CachePutIntact, CacheStepIntact, Zenon DEF PromoteReput,
           NoHollow, BodiesIntact, LocalsOK, EntryFor, EntryStates, shared
      <4>2. \A q \in Procs : body'[q] # "empty"
        BY <2>15, PipelineAssumption, Zenon DEF PromoteReput, BodiesIntact, OutcomeStored,
           LocalsOK, locals, Goto, Settle, BodyOf, NoHollow, EntryFor
      <4> QED
        BY <4>1, <4>2 DEF NoHollow, BodiesIntact
    <3>3. ReachedStored'
      BY <2>15 DEF PromoteReput, ReachedStored, OutcomeStored, LocalsOK, shared, locals,
         Goto, Settle
    <3>4. OutcomeStored'
      BY <2>15 DEF PromoteReput, DurableIsStored, CallsStored, ReachedStored, OutcomeStored,
         LocalsOK, shared, locals, Goto, Settle
    <3>5. CallsStored'
      BY <2>15, PipelineAssumption DEF PromoteReput, CallsStored, OutcomeStored, FlightsOK,
         LocalsOK, shared, flights, NoCall
    <3> QED
      BY <3>1, <3>2, <3>3, <3>4, <3>5 DEF StoredInv
  <2>16. ASSUME NEW p \in Procs, PromoteClose(p)
         PROVE  StoredInv'
    <3>1. DurableIsStored'
      BY <2>16 DEF PromoteClose, DurableIsStored, ReachedStored, OutcomeStored, LocalsOK,
         RestOK, shared, history
    <3>2. BodiesIntact'
      <4>1. NoHollow'
        BY <2>16, PipelineAssumption, CachePutIntact, CacheStepIntact DEF PromoteClose,
           NoHollow, BodiesIntact, LocalsOK, EntryFor, EntryStates, shared
      <4>2. \A q \in Procs : body'[q] # "empty"
        BY <2>16, PipelineAssumption DEF PromoteClose, BodiesIntact, OutcomeStored,
           LocalsOK, locals
      <4> QED
        BY <4>1, <4>2 DEF NoHollow, BodiesIntact
    <3>3. ReachedStored'
      BY <2>16 DEF PromoteClose, ReachedStored, OutcomeStored, LocalsOK, shared, locals
    <3>4. OutcomeStored'
      <4> SUFFICES ASSUME NEW q \in Procs,
                          pc'[q] \in {"p_close", "p_delete", "p_ret", "r_close", "r_delete", "r_ret"}
                   PROVE  result'[q] = "err" \/ (result'[q] = "ok" /\ blob'[q] \in stored')
        BY DEF OutcomeStored
      <4>1. blob' = blob /\ stored' = stored
        BY <2>16 DEF PromoteClose, shared
      <4>2. result[p] = "err" \/ (result[p] = "ok" /\ blob[p] \in stored)
        BY <2>16 DEF PromoteClose, OutcomeStored
      <4>3. CASE q # p /\ pc[q] = "p_wait" /\ Home[q] = Home[p] /\ blob[q] = blob[p]
        BY <2>16, <4>1, <4>2, <4>3 DEF PromoteClose
      <4>4. CASE q = p
        BY <2>16, <4>1, <4>2, <4>4 DEF PromoteClose, LocalsOK
      <4>5. CASE q # p /\ ~(pc[q] = "p_wait" /\ Home[q] = Home[p] /\ blob[q] = blob[p])
        <5>1. pc'[q] = pc[q] /\ result'[q] = result[q]
          BY <2>16, <4>5 DEF PromoteClose
        <5> QED
          BY <5>1, <4>1 DEF OutcomeStored
      <4> QED
        BY <4>3, <4>4, <4>5
    <3>5. CallsStored'
      <4>1. stored' = stored /\ restoring' = restoring
        BY <2>16 DEF PromoteClose, shared
      <4>2. result[p] # "ok" \/ blob[p] \in stored
        BY <2>16 DEF PromoteClose, OutcomeStored
      <4>3. \A r \in Replicas, b \in Blobs :
                \/ promoting'[r][b] = promoting[r][b]
                \/ b = blob[p] /\ promoting'[r][b].err = (result[p] # "ok")
        BY <2>16, PipelineAssumption DEF PromoteClose, FlightsOK
      <4> QED
        BY <4>1, <4>2, <4>3, Zenon DEF CallsStored
    <3> QED
      BY <3>1, <3>2, <3>3, <3>4, <3>5 DEF StoredInv
  <2>17. ASSUME NEW p \in Procs, PromoteDelete(p)
         PROVE  StoredInv'
    <3>1. DurableIsStored'
      BY <2>17 DEF PromoteDelete, DurableIsStored, ReachedStored, OutcomeStored, LocalsOK,
         RestOK, shared, history
    <3>2. BodiesIntact'
      <4>1. NoHollow'
        BY <2>17, PipelineAssumption, CachePutIntact, CacheStepIntact DEF PromoteDelete,
           NoHollow, BodiesIntact, LocalsOK, EntryFor, EntryStates, shared
      <4>2. \A q \in Procs : body'[q] # "empty"
        BY <2>17, PipelineAssumption DEF PromoteDelete, BodiesIntact, OutcomeStored,
           LocalsOK, locals, Goto
      <4> QED
        BY <4>1, <4>2 DEF NoHollow, BodiesIntact
    <3>3. ReachedStored'
      BY <2>17 DEF PromoteDelete, ReachedStored, OutcomeStored, LocalsOK, shared, locals, Goto
    <3>4. OutcomeStored'
      BY <2>17 DEF PromoteDelete, DurableIsStored, CallsStored, ReachedStored,
         OutcomeStored, LocalsOK, shared, locals, Goto
    <3>5. CallsStored'
      BY <2>17, PipelineAssumption DEF PromoteDelete, CallsStored, OutcomeStored, FlightsOK,
         LocalsOK, shared, flights, NoCall
    <3> QED
      BY <3>1, <3>2, <3>3, <3>4, <3>5 DEF StoredInv
  <2>18. ASSUME NEW p \in Procs, PromoteReturn(p)
         PROVE  StoredInv'
    <3>1. (\A q \in Procs : body'[q] # "empty") /\ ReachedStored' /\ OutcomeStored'
      BY <2>18, ReturnFrame DEF PromoteReturn, shared
    <3>2. DurableIsStored'
      BY <2>18 DEF PromoteReturn, DurableIsStored, OutcomeStored, shared
    <3>3. NoHollow' /\ CallsStored'
      BY <2>18 DEF PromoteReturn, NoHollow, CallsStored, shared, flights
    <3> QED
      BY <3>1, <3>2, <3>3 DEF StoredInv, BodiesIntact, NoHollow
  <2>19. ASSUME NEW p \in Procs, ReadCache(p)
         PROVE  StoredInv'
    <3>1. DurableIsStored'
      BY <2>19 DEF ReadCache, DurableIsStored, ReachedStored, OutcomeStored, LocalsOK, RestOK,
         shared, history
    <3>2. BodiesIntact'
      <4>1. NoHollow'
        BY <2>19, PipelineAssumption, CachePutIntact, CacheStepIntact, Zenon DEF ReadCache,
           NoHollow, BodiesIntact, LocalsOK, EntryFor, EntryStates, shared
      <4>2. \A q \in Procs : body'[q] # "empty"
        BY <2>19, PipelineAssumption DEF ReadCache, BodiesIntact, OutcomeStored, LocalsOK,
           locals, Goto, Return
      <4> QED
        BY <4>1, <4>2 DEF NoHollow, BodiesIntact
    <3>3. ReachedStored'
      BY <2>19 DEF ReadCache, ReachedStored, OutcomeStored, LocalsOK, shared, locals, Goto,
         Return
    <3>4. OutcomeStored'
      BY <2>19 DEF ReadCache, DurableIsStored, CallsStored, ReachedStored, OutcomeStored,
         LocalsOK, shared, locals, Goto, Return
    <3>5. CallsStored'
      BY <2>19, PipelineAssumption DEF ReadCache, CallsStored, OutcomeStored, FlightsOK,
         LocalsOK, shared, flights, NoCall
    <3> QED
      BY <3>1, <3>2, <3>3, <3>4, <3>5 DEF StoredInv
  <2>20. ASSUME NEW p \in Procs, ReadJoin(p)
         PROVE  StoredInv'
    <3>1. DurableIsStored'
      BY <2>20 DEF ReadJoin, DurableIsStored, ReachedStored, OutcomeStored, LocalsOK, RestOK,
         shared, history
    <3>2. BodiesIntact'
      <4>1. NoHollow'
        BY <2>20, PipelineAssumption, CachePutIntact, CacheStepIntact DEF ReadJoin,
           NoHollow, BodiesIntact, LocalsOK, EntryFor, EntryStates, shared
      <4>2. \A q \in Procs : body'[q] # "empty"
        BY <2>20, PipelineAssumption DEF ReadJoin, BodiesIntact, OutcomeStored, LocalsOK,
           locals, Goto, Settle
      <4> QED
        BY <4>1, <4>2 DEF NoHollow, BodiesIntact
    <3>3. ReachedStored'
      BY <2>20 DEF ReadJoin, ReachedStored, OutcomeStored, LocalsOK, shared, locals, Goto,
         Settle
    <3>4. OutcomeStored'
      <4>1. restoring[Home[p]][blob[p]].done /\ ~restoring[Home[p]][blob[p]].err => blob[p] \in stored
        BY PipelineAssumption DEF CallsStored, LocalsOK
      <4>2. CASE (Goto(p, "r_l2") \/ Goto(p, "r_wait")) /\ UNCHANGED locals
        BY <2>20, <4>2 DEF ReadJoin, OutcomeStored, LocalsOK, shared, locals, Goto
      <4>3. CASE /\ restoring[Home[p]][blob[p]].done
                 /\ Settle(p, "r_ret", IF restoring[Home[p]][blob[p]].err THEN "err" ELSE "ok")
        BY <2>20, <4>1, <4>3 DEF ReadJoin, OutcomeStored, LocalsOK, shared, Settle, Goto
      <4> QED
        BY <2>20, <4>2, <4>3 DEF ReadJoin
    <3>5. CallsStored'
      <4>1. Home[p] \in Replicas /\ blob[p] \in Blobs
        BY PipelineAssumption DEF LocalsOK
      <4>2. /\ restoring' = restoring \/ restoring' = [restoring EXCEPT ![Home[p]][blob[p]] =
                            [leader |-> p, done |-> FALSE, err |-> FALSE]]
            /\ UNCHANGED <<promoting, stored>>
        BY <2>20 DEF ReadJoin, shared
      <4>3. CASE restoring' = restoring
        BY <4>2, <4>3 DEF CallsStored
      <4>4. CASE restoring' = [restoring EXCEPT ![Home[p]][blob[p]] =
                            [leader |-> p, done |-> FALSE, err |-> FALSE]]
        BY <4>1, <4>2, <4>4 DEF CallsStored, FlightsOK
      <4> QED
        BY <4>2, <4>3, <4>4
    <3> QED
      BY <3>1, <3>2, <3>3, <3>4, <3>5 DEF StoredInv
  <2>21. ASSUME NEW p \in Procs, RestoreGet(p)
         PROVE  StoredInv'
    <3>1. DurableIsStored'
      BY <2>21 DEF RestoreGet, DurableIsStored, ReachedStored, OutcomeStored, LocalsOK, RestOK,
         shared, history
    <3>2. BodiesIntact'
      <4>1. NoHollow'
        BY <2>21, PipelineAssumption, CachePutIntact, CacheStepIntact DEF RestoreGet,
           NoHollow, BodiesIntact, LocalsOK, EntryFor, EntryStates, shared
      <4>2. \A q \in Procs : body'[q] # "empty"
        BY <2>21, PipelineAssumption DEF RestoreGet, BodiesIntact, OutcomeStored, LocalsOK,
           locals, Goto, Settle
      <4> QED
        BY <4>1, <4>2 DEF NoHollow, BodiesIntact
    <3>3. ReachedStored'
      BY <2>21 DEF RestoreGet, ReachedStored, OutcomeStored, LocalsOK, shared, locals, Goto,
         Settle
    <3>4. OutcomeStored'
      BY <2>21 DEF RestoreGet, DurableIsStored, CallsStored, ReachedStored, OutcomeStored,
         LocalsOK, shared, locals, Goto, Settle
    <3>5. CallsStored'
      BY <2>21, PipelineAssumption DEF RestoreGet, CallsStored, OutcomeStored, FlightsOK,
         LocalsOK, shared, flights, NoCall
    <3> QED
      BY <3>1, <3>2, <3>3, <3>4, <3>5 DEF StoredInv
  <2>22. ASSUME NEW p \in Procs, RestoreClose(p)
         PROVE  StoredInv'
    <3>1. DurableIsStored'
      BY <2>22 DEF RestoreClose, DurableIsStored, ReachedStored, OutcomeStored, LocalsOK,
         RestOK, shared, history
    <3>2. BodiesIntact'
      <4>1. NoHollow'
        BY <2>22, PipelineAssumption, CachePutIntact, CacheStepIntact DEF RestoreClose,
           NoHollow, BodiesIntact, LocalsOK, EntryFor, EntryStates, shared
      <4>2. \A q \in Procs : body'[q] # "empty"
        BY <2>22, PipelineAssumption DEF RestoreClose, BodiesIntact, OutcomeStored,
           LocalsOK, locals
      <4> QED
        BY <4>1, <4>2 DEF NoHollow, BodiesIntact
    <3>3. ReachedStored'
      BY <2>22 DEF RestoreClose, ReachedStored, OutcomeStored, LocalsOK, shared, locals
    <3>4. OutcomeStored'
      <4> SUFFICES ASSUME NEW q \in Procs,
                          pc'[q] \in {"p_close", "p_delete", "p_ret", "r_close", "r_delete", "r_ret"}
                   PROVE  result'[q] = "err" \/ (result'[q] = "ok" /\ blob'[q] \in stored')
        BY DEF OutcomeStored
      <4>1. blob' = blob /\ stored' = stored
        BY <2>22 DEF RestoreClose, shared
      <4>2. result[p] = "err" \/ (result[p] = "ok" /\ blob[p] \in stored)
        BY <2>22 DEF RestoreClose, OutcomeStored
      <4>3. CASE q # p /\ pc[q] = "r_wait" /\ Home[q] = Home[p] /\ blob[q] = blob[p]
        BY <2>22, <4>1, <4>2, <4>3 DEF RestoreClose
      <4>4. CASE q = p
        BY <2>22, <4>1, <4>2, <4>4 DEF RestoreClose, LocalsOK
      <4>5. CASE q # p /\ ~(pc[q] = "r_wait" /\ Home[q] = Home[p] /\ blob[q] = blob[p])
        <5>1. pc'[q] = pc[q] /\ result'[q] = result[q]
          BY <2>22, <4>5 DEF RestoreClose
        <5> QED
          BY <5>1, <4>1 DEF OutcomeStored
      <4> QED
        BY <4>3, <4>4, <4>5
    <3>5. CallsStored'
      <4>1. stored' = stored /\ promoting' = promoting
        BY <2>22 DEF RestoreClose, shared
      <4>2. result[p] # "ok" \/ blob[p] \in stored
        BY <2>22 DEF RestoreClose, OutcomeStored
      <4>3. \A r \in Replicas, b \in Blobs :
                \/ restoring'[r][b] = restoring[r][b]
                \/ b = blob[p] /\ restoring'[r][b].err = (result[p] # "ok")
        BY <2>22, PipelineAssumption DEF RestoreClose, FlightsOK
      <4> QED
        BY <4>1, <4>2, <4>3, Zenon DEF CallsStored
    <3> QED
      BY <3>1, <3>2, <3>3, <3>4, <3>5 DEF StoredInv
  <2>23. ASSUME NEW p \in Procs, RestoreDelete(p)
         PROVE  StoredInv'
    <3>1. DurableIsStored'
      BY <2>23 DEF RestoreDelete, DurableIsStored, ReachedStored, OutcomeStored, LocalsOK,
         RestOK, shared, history
    <3>2. BodiesIntact'
      <4>1. NoHollow'
        BY <2>23, PipelineAssumption, CachePutIntact, CacheStepIntact DEF RestoreDelete,
           NoHollow, BodiesIntact, LocalsOK, EntryFor, EntryStates, shared
      <4>2. \A q \in Procs : body'[q] # "empty"
        BY <2>23, PipelineAssumption DEF RestoreDelete, BodiesIntact, OutcomeStored,
           LocalsOK, locals, Goto
      <4> QED
        BY <4>1, <4>2 DEF NoHollow, BodiesIntact
    <3>3. ReachedStored'
      BY <2>23 DEF RestoreDelete, ReachedStored, OutcomeStored, LocalsOK, shared, locals, Goto
    <3>4. OutcomeStored'
      BY <2>23 DEF RestoreDelete, DurableIsStored, CallsStored, ReachedStored,
         OutcomeStored, LocalsOK, shared, locals, Goto
    <3>5. CallsStored'
      BY <2>23, PipelineAssumption DEF RestoreDelete, CallsStored, OutcomeStored, FlightsOK,
         LocalsOK, shared, flights, NoCall
    <3> QED
      BY <3>1, <3>2, <3>3, <3>4, <3>5 DEF StoredInv
  <2>24. ASSUME NEW p \in Procs, ReadReturn(p)
         PROVE  StoredInv'
    <3>1. DurableIsStored'
      BY <2>24 DEF ReadReturn, DurableIsStored, ReachedStored, OutcomeStored, LocalsOK, RestOK,
         shared, history
    <3>2. BodiesIntact'
      <4>1. NoHollow'
        BY <2>24, PipelineAssumption, CachePutIntact, CacheStepIntact, Zenon DEF ReadReturn,
           NoHollow, BodiesIntact, LocalsOK, EntryFor, EntryStates, shared
      <4>2. \A q \in Procs : body'[q] # "empty"
        BY <2>24, PipelineAssumption DEF ReadReturn, BodiesIntact, OutcomeStored, LocalsOK,
           locals, Goto, Return
      <4> QED
        BY <4>1, <4>2 DEF NoHollow, BodiesIntact
    <3>3. ReachedStored'
      BY <2>24 DEF ReadReturn, ReachedStored, OutcomeStored, LocalsOK, shared, locals, Goto,
         Return
    <3>4. OutcomeStored'
      BY <2>24 DEF ReadReturn, DurableIsStored, CallsStored, ReachedStored, OutcomeStored,
         LocalsOK, shared, locals, Goto, Return
    <3>5. CallsStored'
      BY <2>24, PipelineAssumption DEF ReadReturn, CallsStored, OutcomeStored, FlightsOK,
         LocalsOK, shared, flights, NoCall
    <3> QED
      BY <3>1, <3>2, <3>3, <3>4, <3>5 DEF StoredInv
  <2>25. ASSUME NEW p \in Procs, FillPut(p)
         PROVE  StoredInv'
    <3>1. DurableIsStored'
      BY <2>25 DEF FillPut, DurableIsStored, ReachedStored, OutcomeStored, LocalsOK, RestOK,
         shared, history
    <3>2. BodiesIntact'
      <4>1. NoHollow'
        BY <2>25, PipelineAssumption, CachePutIntact, CacheStepIntact, Zenon DEF FillPut, NoHollow,
           BodiesIntact, LocalsOK, EntryFor, EntryStates, shared
      <4>2. \A q \in Procs : body'[q] # "empty"
        BY <2>25, PipelineAssumption DEF FillPut, BodiesIntact, OutcomeStored, LocalsOK,
           locals, Goto, Return, BodyOf, NoHollow, EntryFor
      <4> QED
        BY <4>1, <4>2 DEF NoHollow, BodiesIntact
    <3>3. ReachedStored'
      BY <2>25 DEF FillPut, ReachedStored, OutcomeStored, LocalsOK, shared, locals, Goto, Return
    <3>4. OutcomeStored'
      BY <2>25 DEF FillPut, DurableIsStored, CallsStored, ReachedStored, OutcomeStored,
         LocalsOK, shared, locals, Goto, Return
    <3>5. CallsStored'
      BY <2>25, PipelineAssumption DEF FillPut, CallsStored, OutcomeStored, FlightsOK,
         LocalsOK, shared, flights, NoCall
    <3> QED
      BY <3>1, <3>2, <3>3, <3>4, <3>5 DEF StoredInv
  <2>26. ASSUME NEW p \in Procs, FillStatus(p)
         PROVE  StoredInv'
    <3>1. (\A q \in Procs : body'[q] # "empty") /\ ReachedStored' /\ OutcomeStored'
      BY <2>26, ReturnFrame DEF FillStatus
    <3>2. DurableIsStored'
      BY <2>26 DEF FillStatus, MarkDurable, DurableIsStored, ReachedStored, LocalsOK,
         RestOK, history
    <3>3. NoHollow' /\ CallsStored'
      BY <2>26 DEF FillStatus, NoHollow, CallsStored, flights
    <3> QED
      BY <3>1, <3>2, <3>3 DEF StoredInv, BodiesIntact, NoHollow
  <2>27. ASSUME NEW p \in Procs, EvictCheck(p)
         PROVE  StoredInv'
    <3>1. DurableIsStored'
      BY <2>27 DEF EvictCheck, DurableIsStored, ReachedStored, OutcomeStored, LocalsOK, RestOK,
         shared, history
    <3>2. BodiesIntact'
      <4>1. NoHollow'
        BY <2>27, PipelineAssumption, CachePutIntact, CacheStepIntact, Zenon DEF EvictCheck,
           NoHollow, BodiesIntact, LocalsOK, EntryFor, EntryStates, shared
      <4>2. \A q \in Procs : body'[q] # "empty"
        BY <2>27, PipelineAssumption DEF EvictCheck, BodiesIntact, OutcomeStored, LocalsOK,
           locals, Goto, Return
      <4> QED
        BY <4>1, <4>2 DEF NoHollow, BodiesIntact
    <3>3. ReachedStored'
      BY <2>27 DEF EvictCheck, ReachedStored, OutcomeStored, LocalsOK, shared, locals, Goto,
         Return
    <3>4. OutcomeStored'
      BY <2>27 DEF EvictCheck, DurableIsStored, CallsStored, ReachedStored, OutcomeStored,
         LocalsOK, shared, locals, Goto, Return
    <3>5. CallsStored'
      BY <2>27, PipelineAssumption DEF EvictCheck, CallsStored, OutcomeStored, FlightsOK,
         LocalsOK, shared, flights, NoCall
    <3> QED
      BY <3>1, <3>2, <3>3, <3>4, <3>5 DEF StoredInv
  <2>28. ASSUME NEW p \in Procs, EvictDrop(p)
         PROVE  StoredInv'
    <3>1. (\A q \in Procs : body'[q] # "empty") /\ ReachedStored' /\ OutcomeStored'
      BY <2>28, ReturnFrame, Zenon DEF EvictDrop
    <3>2. Home[p] \in Replicas /\ blob[p] \in Blobs
      BY PipelineAssumption DEF LocalsOK
    <3>3. NoHollow'
      BY <2>28, <3>2, CacheStepIntact DEF EvictDrop
    <3>4. DurableIsStored'
      BY <2>28 DEF EvictDrop, DurableIsStored, history
    <3>5. CallsStored'
      <4>1. promoting' = promoting /\ restoring' = restoring /\ stored' = stored
        BY <2>28 DEF EvictDrop, flights
      <4> QED
        BY <4>1, Zenon DEF CallsStored
    <3> QED
      BY <3>1, <3>3, <3>4, <3>5 DEF StoredInv, BodiesIntact, NoHollow
  <2>29. ASSUME NEW p \in Procs, CancelWait(p)
         PROVE  StoredInv'
    <3>1. (\A q \in Procs : body'[q] # "empty") /\ ReachedStored' /\ OutcomeStored'
      BY <2>29, ReturnFrame DEF CancelWait, shared
    <3>2. DurableIsStored' /\ NoHollow' /\ CallsStored'
      BY <2>29, SharedFrame DEF CancelWait, shared
    <3> QED
      BY <3>1, <3>2 DEF StoredInv, BodiesIntact, NoHollow
  <2>30. ASSUME NEW p \in Procs, Panic(p)
         PROVE  StoredInv'
    BY <2>30, PipelineAssumption DEF Panic, Goto, Settle, StoredInv, DurableIsStored,
       BodiesIntact, ReachedStored, OutcomeStored, CallsStored, CacheOK, FlightsOK,
       LocalsOK, RestOK, shared, flights, locals, history
  <2>31. ASSUME NEW r \in Replicas, Close(r)
         PROVE  StoredInv'
    BY <2>31, PipelineAssumption DEF Close, StoredInv, DurableIsStored, BodiesIntact,
       ReachedStored, OutcomeStored, CallsStored, CacheOK, FlightsOK, LocalsOK, RestOK,
       shared, flights, locals, history
  <2>32. ASSUME NEW r \in Replicas, Crash(r)
         PROVE  StoredInv'
    <3>1. DurableIsStored'
      BY <2>32 DEF Crash, DurableIsStored, ReachedStored, OutcomeStored, LocalsOK, RestOK,
         shared, history, At
    <3>2. BodiesIntact'
      <4>1. NoHollow'
        <5>1. \A b \in Blobs : "hollow" \notin AfterCrash(r, b)
          BY DEF AfterCrash, NewEntry, Putting, EntryFor, NoHollow, BodiesIntact
        <5> QED
          BY <2>32, <5>1, CrashCache DEF NoHollow
      <4>2. \A q \in Procs : body'[q] # "empty"
        BY <2>32, PipelineAssumption DEF Crash, BodiesIntact, OutcomeStored, LocalsOK, locals
      <4> QED
        BY <4>1, <4>2 DEF NoHollow, BodiesIntact
    <3>3. ReachedStored'
      BY <2>32 DEF Crash, ReachedStored, OutcomeStored, LocalsOK, shared, locals, At
    <3>4. OutcomeStored'
      BY <2>32 DEF Crash, DurableIsStored, CallsStored, ReachedStored, OutcomeStored,
         LocalsOK, shared, locals, At
    <3>5. CallsStored'
      BY <2>32, PipelineAssumption DEF Crash, CallsStored, OutcomeStored, FlightsOK,
         LocalsOK, shared, flights, NoCall, At
    <3> QED
      BY <3>1, <3>2, <3>3, <3>4, <3>5 DEF StoredInv
  <2>33. CASE UNCHANGED vars
    BY <2>33 DEF vars, StoredInv, DurableIsStored, BodiesIntact, ReachedStored,
       OutcomeStored, CallsStored, CacheOK, FlightsOK, LocalsOK, RestOK, shared, flights,
       locals, history
  <2> QED
    BY <2>1, <2>2, <2>3, <2>4, <2>5, <2>6, <2>7, <2>8, <2>9, <2>10, <2>11, <2>12, <2>13,
       <2>14, <2>15, <2>16, <2>17, <2>18, <2>19, <2>20, <2>21, <2>22, <2>23, <2>24, <2>25,
       <2>26, <2>27, <2>28, <2>29, <2>30, <2>31, <2>32, <2>33 DEF Next, Begin, Step, Write,
       Promote, Read, Evict
<1> QED
  BY <1>1, <1>2, TypeCorrect, PTL DEF Spec

\* Without panics no goroutine of any replica marks or reports a blob durable
\* before the durable store holds it.
THEOREM DurableIsStoredHolds ==
    ASSUME "panic" \notin Faults
    PROVE  Spec => []DurableIsStored
<1>1. StoredInv => DurableIsStored
  BY DEF StoredInv
<1> QED
  BY <1>1, StoredInvHolds, PTL

\* Without panics no read returns or caches the empty body.
THEOREM BodiesIntactHolds ==
    ASSUME "panic" \notin Faults
    PROVE  Spec => []BodiesIntact
<1>1. StoredInv => BodiesIntact
  BY DEF StoredInv
<1> QED
  BY <1>1, StoredInvHolds, PTL

-----------------------------------------------------------------------------
(* No loss.                                                                *)

\* The conditions under which the code keeps its promise: nothing calls Evict,
\* a present body can be opened, no panic, a blob is rewritten only where
\* neither crashes nor failing cache writes occur, and a cache that can crash
\* is a DiskCache.
LossFree ==
    /\ \A p \in Procs : "evict" \notin Does[p]
    /\ Faults \cap {"open", "panic"} = {}
    /\ Rewrites => Faults \cap {"crash", "disk"} = {}
    /\ "crash" \in Faults => Volatile = {}

NoEvictor == \A p \in Procs : pc[p] \notin EvictPCs

\* Between its cache.Put and its status.Put a Write's own entry is in place.
WriteHeld ==
    \A p \in Procs : pc[p] = "w_status" =>
        blob[p] \in stored \/ cache[Home[p]][blob[p]] = "protected"

\* Without rewrites the entry a Write replaces is nobody's only copy.
WriterAlone ==
    ~Rewrites =>
      /\ \A p \in Procs : pc[p] = "w_cache" => blob[p] \notin acked
      /\ \A p, q \in Procs :
            p # q /\ pc[p] \in WritePCs /\ (pc[q] \in WritePCs \/ sync[q]) => blob[p] # blob[q]

\* The inductive invariant behind AckedNotLost.
NoLossInv == AckedNotLost /\ NoEvictor /\ WriteHeld /\ WriterAlone

\* The blobs whose L1 copy may be the only one.
Needed(b) ==
    /\ b \notin stored
    /\ b \in acked \/ \E p \in Procs : pc[p] = "w_status" /\ blob[p] = b

\* What a step must not do to the cache.
KeepsNeeded ==
    \A s \in Replicas, x \in Blobs :
        cache[s][x] = "protected" /\ Needed(x) => cache'[s][x] = "protected"

\* cache.Put and a failed cache.Put touch no NonEvictable entry but their own.
LEMMA CachePutKeeps ==
    ASSUME CacheOK, NEW r \in Replicas, NEW b \in Blobs, NEW e \in EntryStates,
           CachePut(r, b, e)
    PROVE  /\ cache'[r][b] = e
           /\ \A s \in Replicas, x \in Blobs :
                cache[s][x] = "protected" /\ (s # r \/ x # b) => cache'[s][x] = "protected"
BY DEF CachePut, CacheOK, EvictableOthers

\* A put, failed or not, takes no protected entry but the one it is about.
LEMMA PutKeeps ==
    ASSUME CacheOK, NEW r \in Replicas, NEW b \in Blobs, NEW e \in EntryStates,
           CachePut(r, b, e) \/ CachePutFails(r, b)
    PROVE  \A s \in Replicas, x \in Blobs :
               cache[s][x] = "protected" /\ (s # r \/ x # b) => cache'[s][x] = "protected"
<1>1. CASE CachePut(r, b, e)
  BY <1>1, CachePutKeeps
<1>2. CASE CachePutFails(r, b)
  <2>1. PICK left \in {cache[r][b], "absent"} : CachePut(r, b, left)
    BY <1>2 DEF CachePutFails
  <2>2. left \in EntryStates
    BY DEF CacheOK, EntryStates
  <2> QED
    BY <2>1, <2>2, CachePutKeeps
<1> QED
  BY <1>1, <1>2

\* What most steps do to the goroutines: nobody starts or resumes a Write.
Quiet ==
    \A q \in Procs :
        /\ pc'[q] \in WritePCs => pc'[q] = pc[q]
        /\ sync'[q] => sync[q]
        /\ pc'[q] \in WritePCs \/ sync'[q] => blob'[q] = blob[q]
        /\ pc'[q] \notin EvictPCs

\* A quiet step that keeps the needed copies keeps the invariant.
LEMMA QuietStep ==
    ASSUME LocalsOK, RestOK, NoLossInv, Quiet, KeepsNeeded,
           stored \subseteq stored', UNCHANGED acked
    PROVE  NoLossInv'
<1> USE DEF NoLossInv
<1>1. NoEvictor'
  BY DEF Quiet, NoEvictor
<1>2. WriterAlone'
  BY DEF Quiet, WriterAlone, WritePCs
<1>3. WriteHeld'
  <2> SUFFICES ASSUME NEW p \in Procs, pc'[p] = "w_status"
               PROVE  blob'[p] \in stored' \/ cache'[Home[p]][blob'[p]] = "protected"
    BY DEF WriteHeld
  <2>1. pc[p] = "w_status" /\ blob'[p] = blob[p]
    BY DEF Quiet, WritePCs
  <2>2. blob[p] \in Blobs /\ Home[p] \in Replicas
    BY PipelineAssumption DEF LocalsOK
  <2>3. blob[p] \in stored \/ (cache[Home[p]][blob[p]] = "protected" /\ Needed(blob[p]))
    BY <2>1 DEF WriteHeld, Needed
  <2> QED
    BY <2>1, <2>2, <2>3 DEF KeepsNeeded
<1>4. AckedNotLost'
  <2> SUFFICES ASSUME NEW b \in acked, b \notin stored
               PROVE  \E r \in Replicas : cache'[r][b] = "protected"
    BY DEF AckedNotLost
  <2>1. b \in Blobs /\ Needed(b)
    BY DEF RestOK, Needed
  <2>2. PICK r \in Replicas : cache[r][b] = "protected"
    BY DEF AckedNotLost
  <2> QED
    BY <2>1, <2>2 DEF KeepsNeeded
<1> QED
  BY <1>1, <1>2, <1>3, <1>4

\* Under LossFree, a blob some Write has acknowledged is always in the durable
\* store or held NonEvictable by a replica, however writers, readers, fills,
\* promotions, restarts and store failures interleave.
THEOREM AckedNotLostHolds ==
    ASSUME LossFree
    PROVE  Spec => []AckedNotLost
<1>1. Init => NoLossInv
  BY DEF Init, NoLossInv, AckedNotLost, NoEvictor, WriteHeld, WriterAlone, EvictPCs, WritePCs
<1>2. TypeOK /\ StoredInv /\ NoLossInv /\ [Next]_vars => NoLossInv'
  <2> SUFFICES ASSUME TypeOK, StoredInv, NoLossInv, [Next]_vars
               PROVE  NoLossInv'
    OBVIOUS
  <2>t. CacheOK /\ LocalsOK /\ FlightsOK /\ RestOK
    BY TypeParts
  <2>s. ReachedStored /\ OutcomeStored
    BY DEF StoredInv
  <2>n. AckedNotLost /\ NoEvictor /\ WriteHeld /\ WriterAlone
    BY DEF NoLossInv
  <2>h. \A q \in Procs : Home[q] \in Replicas /\ blob[q] \in Blobs
    BY <2>t, PipelineAssumption DEF LocalsOK
  <2>k. UNCHANGED cache => KeepsNeeded
    BY DEF KeepsNeeded
  <2>1. ASSUME NEW p \in Procs, StartWrite(p)
         PROVE  NoLossInv'
    <3>1. PICK b \in Blobs, sy \in BOOLEAN :
            (Rewrites \/ ~WrittenBefore(b)) /\ Start(p, "write", "w_cache", b, sy)
      BY <2>1 DEF StartWrite
    <3>2. WriterAlone'
      <4>1. SUFFICES ASSUME ~Rewrites
                     PROVE  WriterAlone'
        BY DEF WriterAlone
      <4>2. /\ pc' = [pc EXCEPT ![p] = "w_cache"] /\ blob' = [blob EXCEPT ![p] = b]
            /\ sync' = [sync EXCEPT ![p] = sy] /\ acked' = acked
        BY <3>1 DEF Start, Goto, history
      <4>3. b \notin acked /\ \A q \in Procs : pc[q] \in WritePCs \/ sync[q] => blob[q] # b
        BY <3>1, <4>1 DEF WrittenBefore
      <4>4. \A q \in Procs : pc'[q] = "w_cache" => blob'[q] \notin acked'
        BY <4>1, <4>2, <4>3, <2>t, <2>n DEF WriterAlone, LocalsOK
      <4>5. ASSUME NEW x \in Procs, NEW y \in Procs, x # y,
                   pc'[x] \in WritePCs, pc'[y] \in WritePCs \/ sync'[y]
            PROVE  blob'[x] # blob'[y]
        BY <4>1, <4>2, <4>3, <4>5, <2>t, <2>n DEF WriterAlone, LocalsOK, WritePCs
      <4> QED
        BY <4>4, <4>5 DEF WriterAlone
    <3>3. AckedNotLost' /\ NoEvictor' /\ WriteHeld'
      BY <3>1, <2>t, <2>n, Zenon DEF Start, Goto, AckedNotLost, NoEvictor, WriteHeld, LocalsOK,
         EvictPCs, shared, history
    <3> QED
      BY <3>2, <3>3 DEF NoLossInv
  <2>2. ASSUME NEW p \in Procs, StartRead(p)
         PROVE  NoLossInv'
    <3>1. Quiet
      BY <2>2, <2>t, <2>n DEF StartRead, Start, Goto, Quiet, NoEvictor, LocalsOK, locals,
         WritePCs, EvictPCs
    <3>2. UNCHANGED <<cache, acked>> /\ stored \subseteq stored'
      BY <2>2 DEF StartRead, Start, Goto, shared, history
    <3> QED
      BY <3>1, <3>2, <2>t, <2>k, QuietStep
  <2>3. ASSUME NEW p \in Procs, StartPromote(p)
         PROVE  NoLossInv'
    <3>1. Quiet
      BY <2>3, <2>t, <2>n DEF StartPromote, Start, Goto, Quiet, NoEvictor, LocalsOK, locals,
         WritePCs, EvictPCs
    <3>2. UNCHANGED <<cache, acked>> /\ stored \subseteq stored'
      BY <2>3 DEF StartPromote, Start, Goto, shared, history
    <3> QED
      BY <3>1, <3>2, <2>t, <2>k, QuietStep
  <2>4. ASSUME NEW p \in Procs, StartEvict(p)
         PROVE  NoLossInv'
    BY <2>4 DEF StartEvict, Start, LossFree
  <2>5. ASSUME NEW p \in Procs, WriteCache(p)
         PROVE  NoLossInv'
    <3>1. \A s \in Replicas, x \in Blobs :
             cache[s][x] = "protected" /\ (s # Home[p] \/ x # blob[p]) => cache'[s][x] = "protected"
      BY <2>5, <2>t, <2>h, PutKeeps DEF WriteCache, EntryStates
    <3>2. CASE CachePut(Home[p], blob[p], "protected") /\ Goto(p, "w_status") /\ UNCHANGED locals
      <4>1. cache'[Home[p]][blob[p]] = "protected"
        BY <3>2, <2>t, <2>h, CachePutKeeps DEF EntryStates
      <4>2. \A s \in Replicas, x \in Blobs : cache[s][x] = "protected" => cache'[s][x] = "protected"
        BY <3>1, <4>1
      <4>3. /\ pc' = [pc EXCEPT ![p] = "w_status"]
            /\ UNCHANGED <<blob, sync, acked, stored>>
        BY <2>5, <3>2 DEF WriteCache, Goto, locals, history
      <4>4. NoEvictor' /\ WriterAlone'
        BY <2>5, <4>3, <2>t, <2>n DEF WriteCache, NoEvictor, WriterAlone, WritePCs,
           EvictPCs, LocalsOK
      <4>5. WriteHeld'
        BY <4>1, <4>2, <4>3, <2>t, <2>h, <2>n, Zenon DEF WriteHeld, LocalsOK
      <4>6. AckedNotLost'
        BY <4>2, <4>3, <2>t, <2>n, Zenon DEF AckedNotLost, RestOK
      <4> QED
        BY <4>4, <4>5, <4>6 DEF NoLossInv
    <3>3. CASE CachePutFails(Home[p], blob[p]) /\ Return(p)
      <4>1. Quiet
        BY <3>3, <2>t, <2>n DEF Return, Goto, Quiet, NoEvictor, LocalsOK, WritePCs, EvictPCs
      <4>2. UNCHANGED <<stored, acked>>
        BY <2>5 DEF WriteCache, history
      <4>3. ~Rewrites /\ pc[p] = "w_cache"
        BY <2>5, <3>3, Zenon DEF WriteCache, CachePutFails, LossFree
      <4>4. ~Needed(blob[p])
        BY <4>3, <2>n DEF WriterAlone, Needed, WritePCs
      <4>5. KeepsNeeded
        BY <3>1, <4>4 DEF KeepsNeeded
      <4> QED
        BY <4>1, <4>2, <4>5, <2>t, QuietStep
    <3> QED
      BY <2>5, <3>2, <3>3 DEF WriteCache
  <2>6. ASSUME NEW p \in Procs, WriteStatus(p)
         PROVE  NoLossInv'
    <3>1. AckedNotLost'
      BY <2>6, <2>h, <2>n, Zenon DEF WriteStatus, AckedNotLost, WriteHeld
    <3>2. NoEvictor' /\ WriteHeld'
      BY <2>6, <2>t, <2>n DEF WriteStatus, NoEvictor, WriteHeld, EvictPCs, LocalsOK, locals,
         Goto, Return
    <3>3. WriterAlone'
      BY <2>6, <2>t, <2>n DEF WriteStatus, WriterAlone, WritePCs, LocalsOK, locals, Goto, Return
    <3> QED
      BY <3>1, <3>2, <3>3 DEF NoLossInv
  <2>7. ASSUME NEW p \in Procs, PromoteJoin(p)
         PROVE  NoLossInv'
    <3>1. Quiet
      BY <2>7, <2>t, <2>n DEF PromoteJoin, Goto, Settle, Quiet, NoEvictor, LocalsOK, locals,
         WritePCs, EvictPCs
    <3>2. UNCHANGED <<cache, acked>> /\ stored \subseteq stored'
      BY <2>7 DEF PromoteJoin, Goto, Settle, shared, history
    <3> QED
      BY <3>1, <3>2, <2>t, <2>k, QuietStep
  <2>8. ASSUME NEW p \in Procs, PromoteStatus(p)
         PROVE  NoLossInv'
    <3>1. Quiet
      BY <2>8, <2>t, <2>n DEF PromoteStatus, Goto, Settle, Quiet, NoEvictor, LocalsOK,
         locals, WritePCs, EvictPCs
    <3>2. UNCHANGED <<cache, acked>> /\ stored \subseteq stored'
      BY <2>8 DEF PromoteStatus, Goto, Settle, shared, history
    <3> QED
      BY <3>1, <3>2, <2>t, <2>k, QuietStep
  <2>9. ASSUME NEW p \in Procs, PromoteHead(p)
         PROVE  NoLossInv'
    <3>1. Quiet
      BY <2>9, <2>t, <2>n DEF PromoteHead, Goto, Quiet, NoEvictor, LocalsOK, locals,
         WritePCs, EvictPCs
    <3>2. UNCHANGED <<cache, acked>> /\ stored \subseteq stored'
      BY <2>9 DEF PromoteHead, Goto, shared, history
    <3> QED
      BY <3>1, <3>2, <2>t, <2>k, QuietStep
  <2>10. ASSUME NEW p \in Procs, PromoteSkip(p)
         PROVE  NoLossInv'
    <3>1. Quiet
      BY <2>10, <2>t, <2>n DEF PromoteSkip, Settle, Goto, Quiet, NoEvictor, LocalsOK,
         locals, WritePCs, EvictPCs
    <3>2. UNCHANGED <<cache, acked>> /\ stored \subseteq stored'
      BY <2>10 DEF PromoteSkip, Settle, Goto, shared, history
    <3> QED
      BY <3>1, <3>2, <2>t, <2>k, QuietStep
  <2>11. ASSUME NEW p \in Procs, PromoteGet(p)
         PROVE  NoLossInv'
    <3>1. Quiet
      BY <2>11, <2>t, <2>n DEF PromoteGet, Goto, Settle, Quiet, NoEvictor, LocalsOK, locals,
         WritePCs, EvictPCs
    <3>2. UNCHANGED <<stored, acked>>
      BY <2>11, Zenon DEF PromoteGet, history
    <3>3. KeepsNeeded
      BY <2>11 DEF PromoteGet, CacheMiss, LossFree, KeepsNeeded
    <3> QED
      BY <3>1, <3>2, <3>3, <2>t, QuietStep
  <2>12. ASSUME NEW p \in Procs, PromotePut(p)
         PROVE  NoLossInv'
    <3>1. Quiet
      BY <2>12, <2>t, <2>n DEF PromotePut, Goto, Settle, Quiet, NoEvictor, LocalsOK, locals,
         WritePCs, EvictPCs
    <3>2. UNCHANGED <<cache, acked>> /\ stored \subseteq stored'
      BY <2>12 DEF PromotePut, Goto, Settle, shared, history
    <3> QED
      BY <3>1, <3>2, <2>t, <2>k, QuietStep
  <2>13. ASSUME NEW p \in Procs, PromoteMark(p)
         PROVE  NoLossInv'
    <3>1. Quiet
      BY <2>13, <2>t, <2>n DEF PromoteMark, Goto, Settle, Quiet, NoEvictor, LocalsOK,
         locals, WritePCs, EvictPCs
    <3>2. UNCHANGED <<cache, acked>> /\ stored \subseteq stored'
      BY <2>13 DEF PromoteMark, Goto, Settle, shared, history
    <3> QED
      BY <3>1, <3>2, <2>t, <2>k, QuietStep
  <2>14. ASSUME NEW p \in Procs, PromoteReget(p)
         PROVE  NoLossInv'
    <3>1. Quiet
      BY <2>14, <2>t, <2>n DEF PromoteReget, Goto, Settle, Quiet, NoEvictor, LocalsOK,
         locals, WritePCs, EvictPCs
    <3>2. UNCHANGED <<stored, acked>>
      BY <2>14, Zenon DEF PromoteReget, history
    <3>3. KeepsNeeded
      BY <2>14 DEF PromoteReget, CacheMiss, LossFree, KeepsNeeded
    <3> QED
      BY <3>1, <3>2, <3>3, <2>t, QuietStep
  <2>15. ASSUME NEW p \in Procs, PromoteReput(p)
         PROVE  NoLossInv'
    <3>1. Quiet
      BY <2>15, <2>t, <2>n DEF PromoteReput, Goto, Settle, Quiet, NoEvictor, LocalsOK,
         locals, WritePCs, EvictPCs
    <3>2. UNCHANGED <<stored, acked>>
      BY <2>15 DEF PromoteReput, history
    <3>3. KeepsNeeded
      <4>1. blob[p] \in stored
        BY <2>15, <2>s DEF PromoteReput, ReachedStored
      <4>2. EntryFor(body[p]) \in EntryStates
        BY DEF EntryFor, EntryStates
      <4>3. \A s \in Replicas, x \in Blobs :
              cache[s][x] = "protected" /\ x # blob[p] => cache'[s][x] = "protected"
        BY <2>15, <2>t, <2>h, <4>2, PutKeeps DEF PromoteReput
      <4> QED
        BY <4>1, <4>3 DEF KeepsNeeded, Needed
    <3> QED
      BY <3>1, <3>2, <3>3, <2>t, QuietStep
  <2>16. ASSUME NEW p \in Procs, PromoteClose(p)
         PROVE  NoLossInv'
    <3>1. Quiet
      BY <2>16, <2>t, <2>n DEF PromoteClose, Quiet, NoEvictor, LocalsOK, locals, WritePCs,
         EvictPCs
    <3>2. UNCHANGED <<cache, acked>> /\ stored \subseteq stored'
      BY <2>16 DEF PromoteClose, shared, history
    <3> QED
      BY <3>1, <3>2, <2>t, <2>k, QuietStep
  <2>17. ASSUME NEW p \in Procs, PromoteDelete(p)
         PROVE  NoLossInv'
    <3>1. Quiet
      BY <2>17, <2>t, <2>n DEF PromoteDelete, Goto, Quiet, NoEvictor, LocalsOK, locals,
         WritePCs, EvictPCs
    <3>2. UNCHANGED <<cache, acked>> /\ stored \subseteq stored'
      BY <2>17 DEF PromoteDelete, Goto, shared, history
    <3> QED
      BY <3>1, <3>2, <2>t, <2>k, QuietStep
  <2>18. ASSUME NEW p \in Procs, PromoteReturn(p)
         PROVE  NoLossInv'
    <3>1. AckedNotLost'
      BY <2>18, <2>s, <2>n DEF PromoteReturn, AckedNotLost, OutcomeStored, shared
    <3>2. NoEvictor' /\ WriteHeld'
      BY <2>18, <2>t, <2>n DEF PromoteReturn, NoEvictor, WriteHeld, EvictPCs, LocalsOK,
         shared, Goto, Return
    <3>3. WriterAlone'
      BY <2>18, <2>t, <2>n DEF PromoteReturn, WriterAlone, WritePCs, LocalsOK, Goto, Return
    <3> QED
      BY <3>1, <3>2, <3>3 DEF NoLossInv
  <2>19. ASSUME NEW p \in Procs, ReadCache(p)
         PROVE  NoLossInv'
    <3>1. Quiet
      BY <2>19, <2>t, <2>n DEF ReadCache, Goto, Return, Quiet, NoEvictor, LocalsOK, locals,
         WritePCs, EvictPCs
    <3>2. UNCHANGED <<stored, acked>>
      BY <2>19 DEF ReadCache, history
    <3>3. KeepsNeeded
      BY <2>19 DEF ReadCache, CacheMiss, LossFree, KeepsNeeded
    <3> QED
      BY <3>1, <3>2, <3>3, <2>t, QuietStep
  <2>20. ASSUME NEW p \in Procs, ReadJoin(p)
         PROVE  NoLossInv'
    <3>1. Quiet
      BY <2>20, <2>t, <2>n DEF ReadJoin, Goto, Settle, Quiet, NoEvictor, LocalsOK, locals,
         WritePCs, EvictPCs
    <3>2. UNCHANGED <<cache, acked>> /\ stored \subseteq stored'
      BY <2>20 DEF ReadJoin, Goto, Settle, shared, history
    <3> QED
      BY <3>1, <3>2, <2>t, <2>k, QuietStep
  <2>21. ASSUME NEW p \in Procs, RestoreGet(p)
         PROVE  NoLossInv'
    <3>1. Quiet
      BY <2>21, <2>t, <2>n DEF RestoreGet, Goto, Settle, Quiet, NoEvictor, LocalsOK, locals,
         WritePCs, EvictPCs
    <3>2. UNCHANGED <<cache, acked>> /\ stored \subseteq stored'
      BY <2>21 DEF RestoreGet, Goto, Settle, shared, history
    <3> QED
      BY <3>1, <3>2, <2>t, <2>k, QuietStep
  <2>22. ASSUME NEW p \in Procs, RestoreClose(p)
         PROVE  NoLossInv'
    <3>1. Quiet
      BY <2>22, <2>t, <2>n DEF RestoreClose, Quiet, NoEvictor, LocalsOK, locals, WritePCs,
         EvictPCs
    <3>2. UNCHANGED <<cache, acked>> /\ stored \subseteq stored'
      BY <2>22 DEF RestoreClose, shared, history
    <3> QED
      BY <3>1, <3>2, <2>t, <2>k, QuietStep
  <2>23. ASSUME NEW p \in Procs, RestoreDelete(p)
         PROVE  NoLossInv'
    <3>1. Quiet
      BY <2>23, <2>t, <2>n DEF RestoreDelete, Goto, Quiet, NoEvictor, LocalsOK, locals,
         WritePCs, EvictPCs
    <3>2. UNCHANGED <<cache, acked>> /\ stored \subseteq stored'
      BY <2>23 DEF RestoreDelete, Goto, shared, history
    <3> QED
      BY <3>1, <3>2, <2>t, <2>k, QuietStep
  <2>24. ASSUME NEW p \in Procs, ReadReturn(p)
         PROVE  NoLossInv'
    <3>1. Quiet
      BY <2>24, <2>t, <2>n DEF ReadReturn, Return, Goto, Quiet, NoEvictor, LocalsOK, locals,
         WritePCs, EvictPCs
    <3>2. UNCHANGED <<cache, acked>> /\ stored \subseteq stored'
      BY <2>24 DEF ReadReturn, Return, Goto, shared, history
    <3> QED
      BY <3>1, <3>2, <2>t, <2>k, QuietStep
  <2>25. ASSUME NEW p \in Procs, FillPut(p)
         PROVE  NoLossInv'
    <3>1. Quiet
      BY <2>25, <2>t, <2>n DEF FillPut, Goto, Return, Quiet, NoEvictor, LocalsOK, locals,
         WritePCs, EvictPCs
    <3>2. UNCHANGED <<stored, acked>>
      BY <2>25 DEF FillPut, history
    <3>3. KeepsNeeded
      <4>1. blob[p] \in stored
        BY <2>25, <2>s DEF FillPut, ReachedStored
      <4>2. EntryFor(body[p]) \in EntryStates
        BY DEF EntryFor, EntryStates
      <4>3. \A s \in Replicas, x \in Blobs :
              cache[s][x] = "protected" /\ x # blob[p] => cache'[s][x] = "protected"
        BY <2>25, <2>t, <2>h, <4>2, PutKeeps DEF FillPut
      <4> QED
        BY <4>1, <4>3 DEF KeepsNeeded, Needed
    <3> QED
      BY <3>1, <3>2, <3>3, <2>t, QuietStep
  <2>26. ASSUME NEW p \in Procs, FillStatus(p)
         PROVE  NoLossInv'
    <3>1. Quiet
      BY <2>26, <2>t, <2>n DEF FillStatus, Return, Goto, Quiet, NoEvictor, LocalsOK, locals,
         WritePCs, EvictPCs
    <3>2. UNCHANGED <<cache, acked>> /\ stored \subseteq stored'
      BY <2>26 DEF FillStatus, Return, Goto, shared, history
    <3> QED
      BY <3>1, <3>2, <2>t, <2>k, QuietStep
  <2>27. ASSUME NEW p \in Procs, EvictCheck(p)
         PROVE  NoLossInv'
    BY <2>27, <2>n DEF EvictCheck, NoEvictor, EvictPCs
  <2>28. ASSUME NEW p \in Procs, EvictDrop(p)
         PROVE  NoLossInv'
    BY <2>28, <2>n DEF EvictDrop, NoEvictor, EvictPCs
  <2>29. ASSUME NEW p \in Procs, CancelWait(p)
         PROVE  NoLossInv'
    <3>1. Quiet
      BY <2>29, <2>t, <2>n DEF CancelWait, Return, Goto, Quiet, NoEvictor, LocalsOK, locals,
         WritePCs, EvictPCs
    <3>2. UNCHANGED <<cache, acked>> /\ stored \subseteq stored'
      BY <2>29 DEF CancelWait, Return, Goto, shared, history
    <3> QED
      BY <3>1, <3>2, <2>t, <2>k, QuietStep
  <2>30. ASSUME NEW p \in Procs, Panic(p)
         PROVE  NoLossInv'
    <3>1. Quiet
      BY <2>30, <2>t, <2>n DEF Panic, Goto, Settle, Quiet, NoEvictor, LocalsOK, locals,
         WritePCs, EvictPCs
    <3>2. UNCHANGED <<cache, acked>> /\ stored \subseteq stored'
      BY <2>30 DEF Panic, Goto, Settle, shared, history
    <3> QED
      BY <3>1, <3>2, <2>t, <2>k, QuietStep
  <2>31. ASSUME NEW r \in Replicas, Close(r)
         PROVE  NoLossInv'
    <3>1. Quiet /\ UNCHANGED <<cache, stored, acked>>
      BY <2>31, <2>n DEF Close, Quiet, NoEvictor, shared, locals, history
    <3> QED
      BY <3>1, <2>t, <2>k, QuietStep
  <2>32. ASSUME NEW r \in Replicas, Crash(r)
         PROVE  NoLossInv'
    <3>1. Quiet
      BY <2>32, <2>t, <2>n DEF Crash, Quiet, NoEvictor, LocalsOK, WritePCs, EvictPCs
    <3>2. stored \subseteq stored' /\ UNCHANGED acked
      BY <2>32 DEF Crash, history
    <3>3. KeepsNeeded
      <4> SUFFICES ASSUME NEW x \in Blobs, cache[r][x] = "protected", Needed(x)
                   PROVE  cache'[r][x] = "protected"
        BY <2>32, <2>t, CrashCache DEF KeepsNeeded
      <4>1. ~Rewrites /\ r \notin Volatile
        BY <2>32 DEF Crash, LossFree
      <4>2. Putting(r, x) = {}
        BY <4>1, <2>s, <2>n DEF Putting, Needed, ReachedStored, WriterAlone, WritePCs
      <4> QED
        BY <2>32, <4>1, <4>2, <2>t, CrashCache DEF AfterCrash
    <3> QED
      BY <3>1, <3>2, <3>3, <2>t, QuietStep
  <2>33. CASE UNCHANGED vars
    BY <2>33 DEF vars, NoLossInv, AckedNotLost, NoEvictor, WriteHeld, WriterAlone
  <2> QED
    BY <2>1, <2>2, <2>3, <2>4, <2>5, <2>6, <2>7, <2>8, <2>9, <2>10, <2>11, <2>12, <2>13,
       <2>14, <2>15, <2>16, <2>17, <2>18, <2>19, <2>20, <2>21, <2>22, <2>23, <2>24, <2>25,
       <2>26, <2>27, <2>28, <2>29, <2>30, <2>31, <2>32, <2>33
       DEF Next, Begin, Step, Write, Promote, Read, Evict
<1>3. NoLossInv => AckedNotLost
  BY DEF NoLossInv
<1>4. "panic" \notin Faults
  BY DEF LossFree
<1> QED
  BY <1>1, <1>2, <1>3, <1>4, TypeCorrect, StoredInvHolds, PTL DEF Spec

=============================================================================
