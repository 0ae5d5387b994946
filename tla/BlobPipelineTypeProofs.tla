----------------------- MODULE BlobPipelineTypeProofs -----------------------
(***************************************************************************)
(* Type correctness of BlobPipeline, and its single flight: one promotion  *)
(* and one restore per blob and replica at a time.  For every set of blobs,*)
(* replicas and goroutines and every choice of faults.                     *)
(***************************************************************************)
EXTENDS BlobPipeline, TLAPS

CacheOK == cache \in [Replicas -> [Blobs -> EntryStates]]

FlightsOK ==
    /\ promoting \in [Replicas -> [Blobs -> Calls \cup {NoCall}]]
    /\ restoring \in [Replicas -> [Blobs -> Calls \cup {NoCall}]]

LocalsOK ==
    /\ pc \in [Procs -> PCs]
    /\ blob \in [Procs -> Blobs]
    /\ sync \in [Procs -> BOOLEAN]
    /\ body \in [Procs -> Bodies]
    /\ result \in [Procs -> Results]

RestOK ==
    /\ status \in [Blobs -> StatusValues]
    /\ stored \subseteq Blobs
    /\ closed \subseteq Replicas
    /\ acked \subseteq Blobs
    /\ confirmed \subseteq Blobs

\* The type invariant, in the parts that actions disturb separately.
LEMMA TypeParts == TypeOK <=> CacheOK /\ FlightsOK /\ LocalsOK /\ RestOK
BY DEF TypeOK, CacheOK, FlightsOK, LocalsOK, RestOK

\* The program counters, spelled out once for the provers.
LEMMA PCsKnown ==
    PCs = {"idle", "w_cache", "w_status", "p_status", "p_head", "p_skip", "p_get",
           "p_put", "p_mark", "p_reget", "p_reput", "p_start", "p_wait", "p_close",
           "p_delete", "p_ret", "r_get", "r_join", "r_wait", "r_l2", "r_close",
           "r_delete", "r_ret", "f_put", "f_status", "e_status", "e_evict"}
BY DEF PCs, WritePCs, PromotePCs, PromoteLeaderPCs, ReadPCs, FillPCs, EvictPCs

\* cache.Put keeps the type of the cache, whichever other entries it drops.
LEMMA CachePutType ==
    ASSUME CacheOK, NEW r \in Replicas, NEW b \in Blobs, NEW e \in EntryStates,
           CachePut(r, b, e)
    PROVE  CacheOK'
<1>1. PICK dropped \in SUBSET EvictableOthers(r, b) :
        cache' = [cache EXCEPT ![r] =
                    [x \in Blobs |-> IF x = b THEN e
                                     ELSE IF x \in dropped THEN "absent" ELSE cache[r][x]]]
  BY Zenon DEF CachePut
<1>2. [x \in Blobs |-> IF x = b THEN e
                       ELSE IF x \in dropped THEN "absent" ELSE cache[r][x]]
        \in [Blobs -> EntryStates]
  BY DEF CacheOK, EntryStates
<1> QED
  BY <1>1, <1>2 DEF CacheOK

\* A failed cache.Put keeps the type of the cache.
LEMMA CachePutFailsType ==
    ASSUME CacheOK, NEW r \in Replicas, NEW b \in Blobs, CachePutFails(r, b)
    PROVE  CacheOK'
<1>1. PICK left \in {cache[r][b], "absent"} : CachePut(r, b, left)
  BY DEF CachePutFails
<1>2. left \in EntryStates
  BY DEF CacheOK, EntryStates
<1> QED
  BY <1>1, <1>2, CachePutType

\* Neither a dropped entry nor a miss breaks the type of the cache.
LEMMA CacheMissType ==
    ASSUME CacheOK, NEW r \in Replicas, NEW b \in Blobs, CacheMiss(r, b) \/ CacheDrop(r, b)
    PROVE  CacheOK'
BY DEF CacheOK, EntryStates, CacheMiss, CacheDrop

\* Storing a call in a singleflight map keeps the map's type.
LEMMA CallSetType ==
    ASSUME NEW f \in [Replicas -> [Blobs -> Calls \cup {NoCall}]],
           NEW r \in Replicas, NEW b \in Blobs, NEW c \in Calls \cup {NoCall}
    PROVE  [f EXCEPT ![r][b] = c] \in [Replicas -> [Blobs -> Calls \cup {NoCall}]]
OBVIOUS

\* The steps that move a goroutine's control keep the types of its locals.
LEMMA ControlType ==
    ASSUME LocalsOK, NEW p \in Procs, NEW s \in PCs, NEW res \in Results,
           \/ Return(p)
           \/ Settle(p, s, res)
           \/ Goto(p, s) /\ UNCHANGED locals
    PROVE  LocalsOK'
<1>1. "idle" \in PCs /\ FALSE \in BOOLEAN /\ "none" \in Bodies /\ "none" \in Results
  BY PCsKnown DEF Bodies, Results
<1>2. CASE Return(p)
  BY <1>1, <1>2 DEF LocalsOK, Return, Goto
<1>3. CASE Settle(p, s, res)
  BY <1>3 DEF LocalsOK, Settle, Goto
<1>4. CASE Goto(p, s) /\ UNCHANGED locals
  BY <1>4 DEF LocalsOK, Goto, locals
<1> QED
  BY <1>2, <1>3, <1>4

\* Every variable keeps its type whatever the goroutines do.
THEOREM TypeCorrect == Spec => []TypeOK
<1>1. Init => TypeOK
  BY PipelineAssumption, PCsKnown DEF Init, TypeOK, EntryStates, StatusValues, Bodies,
     Results, Calls, NoCall, shared, flights, locals, history
<1>2. TypeOK /\ [Next]_vars => TypeOK'
  <2> SUFFICES ASSUME TypeOK, [Next]_vars
               PROVE  TypeOK'
    OBVIOUS
  <2> CacheOK /\ FlightsOK /\ LocalsOK /\ RestOK
    BY TypeParts
  <2>1. ASSUME NEW p \in Procs, StartWrite(p)
         PROVE  TypeOK'
    BY <2>1, PipelineAssumption, PCsKnown DEF StartWrite, Start, Goto, TypeOK, EntryStates,
       StatusValues, Bodies, Results, Calls, NoCall, shared, flights, locals, history
  <2>2. ASSUME NEW p \in Procs, StartRead(p)
         PROVE  TypeOK'
    BY <2>2, PipelineAssumption, PCsKnown DEF StartRead, Start, Goto, TypeOK, EntryStates,
       StatusValues, Bodies, Results, Calls, NoCall, shared, flights, locals, history
  <2>3. ASSUME NEW p \in Procs, StartPromote(p)
         PROVE  TypeOK'
    BY <2>3, PipelineAssumption, PCsKnown DEF StartPromote, Start, Goto, TypeOK,
       EntryStates, StatusValues, Bodies, Results, Calls, NoCall, shared, flights, locals,
       history
  <2>4. ASSUME NEW p \in Procs, StartEvict(p)
         PROVE  TypeOK'
    BY <2>4, PipelineAssumption, PCsKnown DEF StartEvict, Start, Goto, TypeOK, EntryStates,
       StatusValues, Bodies, Results, Calls, NoCall, shared, flights, locals, history
  <2>5. ASSUME NEW p \in Procs, WriteCache(p)
         PROVE  TypeOK'
    <3>1. CacheOK'
      BY <2>5, PipelineAssumption, CachePutType, CachePutFailsType DEF WriteCache,
         EntryStates, LocalsOK, EntryFor, CacheOK
    <3>2. FlightsOK'
      BY <2>5, PipelineAssumption DEF WriteCache, FlightsOK, LocalsOK, flights
    <3>3. LocalsOK'
      BY <2>5, PCsKnown, ControlType DEF WriteCache, Results, Bodies
    <3>4. RestOK'
      BY <2>5 DEF WriteCache, RestOK, LocalsOK, StatusValues, history, shared
    <3> QED
      BY <3>1, <3>2, <3>3, <3>4 DEF TypeOK, CacheOK, FlightsOK, LocalsOK, RestOK
  <2>6. ASSUME NEW p \in Procs, WriteStatus(p)
         PROVE  TypeOK'
    <3>1. CacheOK'
      BY <2>6, PipelineAssumption DEF WriteStatus, CacheOK, shared
    <3>2. FlightsOK'
      BY <2>6, PipelineAssumption DEF WriteStatus, FlightsOK, LocalsOK, flights
    <3>3. LocalsOK'
      BY <2>6, PCsKnown, ControlType DEF WriteStatus, Results, Bodies, LocalsOK
    <3>4. RestOK'
      BY <2>6 DEF WriteStatus, RestOK, LocalsOK, StatusValues, history, shared
    <3> QED
      BY <3>1, <3>2, <3>3, <3>4 DEF TypeOK, CacheOK, FlightsOK, LocalsOK, RestOK
  <2>7. ASSUME NEW p \in Procs, PromoteJoin(p)
         PROVE  TypeOK'
    <3>1. CacheOK'
      BY <2>7, PipelineAssumption DEF PromoteJoin, CacheOK, shared
    <3>2. FlightsOK'
      <4>1. [leader |-> p, done |-> FALSE, err |-> FALSE] \in Calls
        BY DEF Calls
      <4>2. Home[p] \in Replicas /\ blob[p] \in Blobs
        BY PipelineAssumption DEF LocalsOK
      <4>3. /\ promoting' = promoting \/ promoting' = [promoting EXCEPT ![Home[p]][blob[p]] =
                            [leader |-> p, done |-> FALSE, err |-> FALSE]]
            /\ UNCHANGED restoring
        BY <2>7 DEF PromoteJoin
      <4>4. [promoting EXCEPT ![Home[p]][blob[p]] = [leader |-> p, done |-> FALSE, err |-> FALSE]]
              \in [Replicas -> [Blobs -> Calls \cup {NoCall}]]
        BY <4>1, <4>2, CallSetType DEF FlightsOK
      <4> QED
        BY <4>3, <4>4, Zenon DEF FlightsOK
    <3>3. LocalsOK'
      BY <2>7, PCsKnown, ControlType DEF PromoteJoin, Results, Bodies
    <3>4. RestOK'
      BY <2>7 DEF PromoteJoin, RestOK, LocalsOK, StatusValues, history, shared
    <3> QED
      BY <3>1, <3>2, <3>3, <3>4 DEF TypeOK, CacheOK, FlightsOK, LocalsOK, RestOK
  <2>8. ASSUME NEW p \in Procs, PromoteStatus(p)
         PROVE  TypeOK'
    BY <2>8, PipelineAssumption, PCsKnown, Zenon DEF PromoteStatus, Goto, Settle, TypeOK,
       EntryStates, StatusValues, Bodies, Results, Calls, NoCall, shared, flights, locals,
       history
  <2>9. ASSUME NEW p \in Procs, PromoteHead(p)
         PROVE  TypeOK'
    BY <2>9, PipelineAssumption, PCsKnown, Zenon DEF PromoteHead, Goto, TypeOK, EntryStates,
       StatusValues, Bodies, Results, Calls, NoCall, shared, flights, locals, history
  <2>10. ASSUME NEW p \in Procs, PromoteSkip(p)
         PROVE  TypeOK'
    BY <2>10, PipelineAssumption, PCsKnown, Zenon DEF PromoteSkip, Settle, Goto, MarkDurable,
       TypeOK, EntryStates, StatusValues, Bodies, Results, Calls, NoCall, shared, flights,
       locals, history
  <2>11. ASSUME NEW p \in Procs, PromoteGet(p)
         PROVE  TypeOK'
    <3>1. CacheOK'
      BY <2>11, PipelineAssumption, CacheMissType DEF PromoteGet, LocalsOK, CacheOK
    <3>2. FlightsOK'
      BY <2>11, PipelineAssumption DEF PromoteGet, FlightsOK, LocalsOK, flights
    <3>3. LocalsOK'
      <4>1. CASE /\ body' = [body EXCEPT ![p] = BodyOf(Home[p], blob[p])]
                 /\ Goto(p, "p_put") /\ UNCHANGED <<blob, sync, result>>
        BY <4>1, PCsKnown DEF LocalsOK, BodyOf, Bodies, Goto
      <4>2. CASE Settle(p, "p_close", "err")
        BY <4>2, PCsKnown, ControlType DEF Results
      <4> QED
        BY <2>11, <4>1, <4>2, Zenon DEF PromoteGet
    <3>4. RestOK'
      BY <2>11 DEF PromoteGet, RestOK, LocalsOK, StatusValues, history, shared
    <3> QED
      BY <3>1, <3>2, <3>3, <3>4 DEF TypeOK, CacheOK, FlightsOK, LocalsOK, RestOK
  <2>12. ASSUME NEW p \in Procs, PromotePut(p)
         PROVE  TypeOK'
    <3>1. CacheOK'
      BY <2>12, PipelineAssumption DEF PromotePut, CacheOK, shared
    <3>2. FlightsOK'
      BY <2>12, PipelineAssumption DEF PromotePut, FlightsOK, LocalsOK, flights
    <3>3. LocalsOK'
      BY <2>12, PCsKnown, ControlType DEF PromotePut, Results, Bodies
    <3>4. RestOK'
      BY <2>12 DEF PromotePut, RestOK, LocalsOK, StatusValues, history, shared
    <3> QED
      BY <3>1, <3>2, <3>3, <3>4 DEF TypeOK, CacheOK, FlightsOK, LocalsOK, RestOK
  <2>13. ASSUME NEW p \in Procs, PromoteMark(p)
         PROVE  TypeOK'
    BY <2>13, PipelineAssumption, PCsKnown, Zenon DEF PromoteMark, Goto, Settle, MarkDurable,
       TypeOK, EntryStates, StatusValues, Bodies, Results, Calls, NoCall, shared, flights,
       locals, history
  <2>14. ASSUME NEW p \in Procs, PromoteReget(p)
         PROVE  TypeOK'
    <3>1. CacheOK'
      BY <2>14, PipelineAssumption, CacheMissType DEF PromoteReget, LocalsOK, CacheOK
    <3>2. FlightsOK'
      BY <2>14, PipelineAssumption DEF PromoteReget, FlightsOK, LocalsOK, flights
    <3>3. LocalsOK'
      <4>1. CASE /\ body' = [body EXCEPT ![p] = BodyOf(Home[p], blob[p])]
                 /\ Goto(p, "p_reput") /\ UNCHANGED <<blob, sync, result>>
        BY <4>1, PCsKnown DEF LocalsOK, BodyOf, Bodies, Goto
      <4>2. CASE Settle(p, "p_close", "ok")
        BY <4>2, PCsKnown, ControlType DEF Results
      <4> QED
        BY <2>14, <4>1, <4>2, Zenon DEF PromoteReget
    <3>4. RestOK'
      BY <2>14 DEF PromoteReget, RestOK, LocalsOK, StatusValues, history, shared
    <3> QED
      BY <3>1, <3>2, <3>3, <3>4 DEF TypeOK, CacheOK, FlightsOK, LocalsOK, RestOK
  <2>15. ASSUME NEW p \in Procs, PromoteReput(p)
         PROVE  TypeOK'
    <3>1. CacheOK'
      BY <2>15, PipelineAssumption, CachePutType, CachePutFailsType DEF PromoteReput,
         EntryStates, LocalsOK, EntryFor, CacheOK
    <3>2. FlightsOK'
      BY <2>15, PipelineAssumption DEF PromoteReput, FlightsOK, LocalsOK, flights
    <3>3. LocalsOK'
      BY <2>15, PCsKnown, ControlType DEF PromoteReput, Results, Bodies
    <3>4. RestOK'
      BY <2>15 DEF PromoteReput, RestOK, LocalsOK, StatusValues, history, shared
    <3> QED
      BY <3>1, <3>2, <3>3, <3>4 DEF TypeOK, CacheOK, FlightsOK, LocalsOK, RestOK
  <2>16. ASSUME NEW p \in Procs, PromoteClose(p)
         PROVE  TypeOK'
    BY <2>16, PipelineAssumption, PCsKnown, Zenon DEF PromoteClose, TypeOK, EntryStates,
       StatusValues, Bodies, Results, Calls, NoCall, shared, flights, locals, history
  <2>17. ASSUME NEW p \in Procs, PromoteDelete(p)
         PROVE  TypeOK'
    BY <2>17, PipelineAssumption, PCsKnown, Zenon DEF PromoteDelete, Goto, TypeOK, EntryStates,
       StatusValues, Bodies, Results, Calls, NoCall, shared, flights, locals, history
  <2>18. ASSUME NEW p \in Procs, PromoteReturn(p)
         PROVE  TypeOK'
    BY <2>18, PipelineAssumption, PCsKnown DEF PromoteReturn, Return, Goto, TypeOK,
       EntryStates, StatusValues, Bodies, Results, Calls, NoCall, shared, flights, locals,
       history
  <2>19. ASSUME NEW p \in Procs, ReadCache(p)
         PROVE  TypeOK'
    <3>1. CacheOK'
      BY <2>19, PipelineAssumption, CacheMissType DEF ReadCache, LocalsOK, CacheOK
    <3>2. FlightsOK'
      BY <2>19, PipelineAssumption DEF ReadCache, FlightsOK, LocalsOK, flights
    <3>3. LocalsOK'
      BY <2>19, PCsKnown, ControlType DEF ReadCache, Results, Bodies
    <3>4. RestOK'
      BY <2>19 DEF ReadCache, RestOK, LocalsOK, StatusValues, history, shared
    <3> QED
      BY <3>1, <3>2, <3>3, <3>4 DEF TypeOK, CacheOK, FlightsOK, LocalsOK, RestOK
  <2>20. ASSUME NEW p \in Procs, ReadJoin(p)
         PROVE  TypeOK'
    <3>1. CacheOK'
      BY <2>20, PipelineAssumption DEF ReadJoin, CacheOK, shared
    <3>2. FlightsOK'
      <4>1. [leader |-> p, done |-> FALSE, err |-> FALSE] \in Calls
        BY DEF Calls
      <4>2. Home[p] \in Replicas /\ blob[p] \in Blobs
        BY PipelineAssumption DEF LocalsOK
      <4>3. /\ restoring' = restoring \/ restoring' = [restoring EXCEPT ![Home[p]][blob[p]] =
                            [leader |-> p, done |-> FALSE, err |-> FALSE]]
            /\ UNCHANGED promoting
        BY <2>20 DEF ReadJoin
      <4>4. [restoring EXCEPT ![Home[p]][blob[p]] = [leader |-> p, done |-> FALSE, err |-> FALSE]]
              \in [Replicas -> [Blobs -> Calls \cup {NoCall}]]
        BY <4>1, <4>2, CallSetType DEF FlightsOK
      <4> QED
        BY <4>3, <4>4, Zenon DEF FlightsOK
    <3>3. LocalsOK'
      BY <2>20, PCsKnown, ControlType DEF ReadJoin, Results, Bodies
    <3>4. RestOK'
      BY <2>20 DEF ReadJoin, RestOK, LocalsOK, StatusValues, history, shared
    <3> QED
      BY <3>1, <3>2, <3>3, <3>4 DEF TypeOK, CacheOK, FlightsOK, LocalsOK, RestOK
  <2>21. ASSUME NEW p \in Procs, RestoreGet(p)
         PROVE  TypeOK'
    BY <2>21, PipelineAssumption, PCsKnown, Zenon DEF RestoreGet, Goto, Settle, TypeOK,
       EntryStates, StatusValues, Bodies, Results, Calls, NoCall, shared, flights, locals,
       history
  <2>22. ASSUME NEW p \in Procs, RestoreClose(p)
         PROVE  TypeOK'
    BY <2>22, PipelineAssumption, PCsKnown, Zenon DEF RestoreClose, TypeOK, EntryStates,
       StatusValues, Bodies, Results, Calls, NoCall, shared, flights, locals, history
  <2>23. ASSUME NEW p \in Procs, RestoreDelete(p)
         PROVE  TypeOK'
    BY <2>23, PipelineAssumption, PCsKnown, Zenon DEF RestoreDelete, Goto, TypeOK, EntryStates,
       StatusValues, Bodies, Results, Calls, NoCall, shared, flights, locals, history
  <2>24. ASSUME NEW p \in Procs, ReadReturn(p)
         PROVE  TypeOK'
    BY <2>24, PipelineAssumption, PCsKnown, Zenon DEF ReadReturn, Return, Goto, TypeOK,
       EntryStates, StatusValues, Bodies, Results, Calls, NoCall, shared, flights, locals,
       history
  <2>25. ASSUME NEW p \in Procs, FillPut(p)
         PROVE  TypeOK'
    <3>1. CacheOK'
      BY <2>25, PipelineAssumption, CachePutType, CachePutFailsType DEF FillPut,
         EntryStates, LocalsOK, EntryFor, CacheOK
    <3>2. FlightsOK'
      BY <2>25, PipelineAssumption DEF FillPut, FlightsOK, LocalsOK, flights
    <3>3. LocalsOK'
      BY <2>25, PCsKnown, ControlType DEF FillPut, Results, Bodies
    <3>4. RestOK'
      BY <2>25 DEF FillPut, RestOK, LocalsOK, StatusValues, history, shared
    <3> QED
      BY <3>1, <3>2, <3>3, <3>4 DEF TypeOK, CacheOK, FlightsOK, LocalsOK, RestOK
  <2>26. ASSUME NEW p \in Procs, FillStatus(p)
         PROVE  TypeOK'
    <3>1. CacheOK' /\ FlightsOK'
      BY <2>26 DEF FillStatus, CacheOK, FlightsOK, flights
    <3>2. LocalsOK'
      BY <2>26, PCsKnown, ControlType DEF FillStatus, Results
    <3>3. RestOK'
      BY <2>26 DEF FillStatus, MarkDurable, RestOK, LocalsOK, StatusValues, history
    <3> QED
      BY <3>1, <3>2, <3>3 DEF TypeOK, CacheOK, FlightsOK, LocalsOK, RestOK
  <2>27. ASSUME NEW p \in Procs, EvictCheck(p)
         PROVE  TypeOK'
    BY <2>27, PipelineAssumption, PCsKnown, Zenon DEF EvictCheck, Return, Goto, TypeOK,
       EntryStates, StatusValues, Bodies, Results, Calls, NoCall, shared, flights, locals,
       history
  <2>28. ASSUME NEW p \in Procs, EvictDrop(p)
         PROVE  TypeOK'
    BY <2>28, PipelineAssumption, PCsKnown, Zenon DEF EvictDrop, Return, Goto, CacheDrop, TypeOK,
       EntryStates, StatusValues, Bodies, Results, Calls, NoCall, shared, flights, locals,
       history
  <2>29. ASSUME NEW p \in Procs, CancelWait(p)
         PROVE  TypeOK'
    BY <2>29, PipelineAssumption, PCsKnown DEF CancelWait, Return, Goto, TypeOK,
       EntryStates, StatusValues, Bodies, Results, Calls, NoCall, shared, flights, locals,
       history
  <2>30. ASSUME NEW p \in Procs, Panic(p)
         PROVE  TypeOK'
    BY <2>30, PipelineAssumption, PCsKnown, Zenon DEF Panic, Goto, Settle, TypeOK, EntryStates,
       StatusValues, Bodies, Results, Calls, NoCall, shared, flights, locals, history
  <2>31. ASSUME NEW r \in Replicas, Close(r)
         PROVE  TypeOK'
    BY <2>31, PipelineAssumption, PCsKnown DEF Close, TypeOK, EntryStates, StatusValues,
       Bodies, Results, Calls, NoCall, shared, flights, locals, history
  <2>32. ASSUME NEW r \in Replicas, Crash(r)
         PROVE  TypeOK'
    <3>1. CacheOK'
      <4>1. UNION {AfterCrash(r, b) : b \in Blobs} \subseteq EntryStates
        BY DEF AfterCrash
      <4>2. PICK left \in [Blobs -> UNION {AfterCrash(r, b) : b \in Blobs}] :
              cache' = [cache EXCEPT ![r] = left]
        BY <2>32, Zenon DEF Crash
      <4>3. left \in [Blobs -> EntryStates]
        BY <4>1
      <4> QED
        BY <4>2, <4>3 DEF CacheOK
    <3>2. FlightsOK'
      BY <2>32, PipelineAssumption DEF Crash, FlightsOK, LocalsOK, NoCall
    <3>3. LocalsOK'
      BY <2>32, PCsKnown, Zenon DEF Crash, Results, Bodies, LocalsOK
    <3>4. RestOK'
      BY <2>32 DEF Crash, RestOK, LocalsOK, StatusValues, history, shared, At
    <3> QED
      BY <3>1, <3>2, <3>3, <3>4 DEF TypeOK, CacheOK, FlightsOK, LocalsOK, RestOK
  <2>33. CASE UNCHANGED vars
    BY <2>33 DEF vars, TypeOK, EntryStates, StatusValues, Bodies, Results, Calls, NoCall,
           shared, flights, locals, history
  <2> QED
    BY <2>1, <2>2, <2>3, <2>4, <2>5, <2>6, <2>7, <2>8, <2>9, <2>10, <2>11, <2>12, <2>13,
       <2>14, <2>15, <2>16, <2>17, <2>18, <2>19, <2>20, <2>21, <2>22, <2>23, <2>24, <2>25,
       <2>26, <2>27, <2>28, <2>29, <2>30, <2>31, <2>32, <2>33 DEF Next, Begin, Step, Write,
       Promote, Read, Evict
<1> QED
  BY <1>1, <1>2, PTL DEF Spec

-----------------------------------------------------------------------------
(* Single flight.                                                          *)

\* From LoadOrStore to the deferred Delete.
PromoteFlightPCs == PromoteLeaderPCs \cup {"p_close", "p_delete"}
RestoreFlightPCs == {"r_l2", "r_close", "r_delete"}

\* The inductive invariant behind SingleFlight: whoever is between LoadOrStore
\* and the deferred Delete is the leader its map entry names.
FlightInv ==
    \A p \in Procs :
        /\ pc[p] \in PromoteFlightPCs => promoting[Home[p]][blob[p]].leader = p
        /\ pc[p] \in RestoreFlightPCs => restoring[Home[p]][blob[p]].leader = p

\* A replica never runs two promotions, or two restores, of one blob at a
\* time: the deferred close and Delete of promoteLocked and restoreFromL2 never
\* release a flight that another goroutine leads.
THEOREM SingleFlightHolds == Spec => []SingleFlight
<1>1. Init => FlightInv
  BY DEF Init, FlightInv, PromoteFlightPCs, RestoreFlightPCs, PromoteLeaderPCs
<1>2. TypeOK /\ FlightInv /\ [Next]_vars => FlightInv'
  <2> SUFFICES ASSUME TypeOK, FlightInv, [Next]_vars
               PROVE  FlightInv'
    OBVIOUS
  <2> LocalsOK /\ FlightsOK
    BY TypeParts
  <2>1. ASSUME NEW p \in Procs, StartWrite(p)
         PROVE  FlightInv'
    BY <2>1 DEF StartWrite, Start, Goto, FlightInv, LocalsOK, PromoteFlightPCs,
       RestoreFlightPCs, PromoteLeaderPCs, shared, flights, locals, history
  <2>2. ASSUME NEW p \in Procs, StartRead(p)
         PROVE  FlightInv'
    BY <2>2 DEF StartRead, Start, Goto, FlightInv, LocalsOK, PromoteFlightPCs, RestoreFlightPCs,
           PromoteLeaderPCs, shared, flights, locals, history
  <2>3. ASSUME NEW p \in Procs, StartPromote(p)
         PROVE  FlightInv'
    BY <2>3 DEF StartPromote, Start, Goto, FlightInv, LocalsOK, PromoteFlightPCs,
       RestoreFlightPCs, PromoteLeaderPCs, shared, flights, locals, history
  <2>4. ASSUME NEW p \in Procs, StartEvict(p)
         PROVE  FlightInv'
    BY <2>4 DEF StartEvict, Start, Goto, FlightInv, LocalsOK, PromoteFlightPCs,
       RestoreFlightPCs, PromoteLeaderPCs, shared, flights, locals, history
  <2>5. ASSUME NEW p \in Procs, WriteCache(p)
         PROVE  FlightInv'
    BY <2>5 DEF WriteCache, Goto, Return, CachePut, CachePutFails, EvictableOthers,
       FlightInv, LocalsOK, PromoteFlightPCs, RestoreFlightPCs, PromoteLeaderPCs, shared,
       flights, locals, history
  <2>6. ASSUME NEW p \in Procs, WriteStatus(p)
         PROVE  FlightInv'
    BY <2>6 DEF WriteStatus, Goto, Return, FlightInv, LocalsOK, PromoteFlightPCs,
       RestoreFlightPCs, PromoteLeaderPCs, shared, flights, locals, history
  <2>7. ASSUME NEW p \in Procs, PromoteJoin(p)
         PROVE  FlightInv'
    <3> DEFINE call == promoting[Home[p]][blob[p]]
    <3>1. CASE call = NoCall
      <4>1. /\ promoting' = [promoting EXCEPT ![Home[p]][blob[p]] =
                              [leader |-> p, done |-> FALSE, err |-> FALSE]]
            /\ pc' = [pc EXCEPT ![p] = "p_status"]
            /\ UNCHANGED <<blob, restoring>>
        BY <2>7, <3>1 DEF PromoteJoin, Goto, locals
      <4>2. call.leader \notin Procs
        BY <3>1, PipelineAssumption DEF NoCall
      <4>3. Home[p] \in Replicas /\ blob[p] \in Blobs
        BY PipelineAssumption DEF LocalsOK
      <4>4. promoting'[Home[p]][blob[p]].leader = p
        BY <4>1, <4>3 DEF FlightsOK
      <4> QED
        BY <4>1, <4>2, <4>3, <4>4
           DEF FlightInv, FlightsOK, LocalsOK, PromoteFlightPCs, RestoreFlightPCs, PromoteLeaderPCs
    <3>2. CASE call # NoCall
      BY <2>7, <3>2
         DEF PromoteJoin, Goto, Settle, FlightInv, LocalsOK, PromoteFlightPCs, RestoreFlightPCs,
           PromoteLeaderPCs, shared, flights, locals, history
    <3> QED
      BY <3>1, <3>2
  <2>8. ASSUME NEW p \in Procs, PromoteStatus(p)
         PROVE  FlightInv'
    BY <2>8 DEF PromoteStatus, Goto, Settle, FlightInv, LocalsOK, PromoteFlightPCs,
       RestoreFlightPCs, PromoteLeaderPCs, shared, flights, locals, history
  <2>9. ASSUME NEW p \in Procs, PromoteHead(p)
         PROVE  FlightInv'
    BY <2>9 DEF PromoteHead, Goto, FlightInv, LocalsOK, PromoteFlightPCs, RestoreFlightPCs,
           PromoteLeaderPCs, shared, flights, locals, history
  <2>10. ASSUME NEW p \in Procs, PromoteSkip(p)
         PROVE  FlightInv'
    BY <2>10 DEF PromoteSkip, Settle, Goto, MarkDurable, FlightInv, LocalsOK,
       PromoteFlightPCs, RestoreFlightPCs, PromoteLeaderPCs, shared, flights, locals,
       history
  <2>11. ASSUME NEW p \in Procs, PromoteGet(p)
         PROVE  FlightInv'
    BY <2>11 DEF PromoteGet, Goto, Settle, BodyOf, Present, CacheMiss, CacheDrop, FlightInv,
       LocalsOK, PromoteFlightPCs, RestoreFlightPCs, PromoteLeaderPCs, shared, flights,
       locals, history
  <2>12. ASSUME NEW p \in Procs, PromotePut(p)
         PROVE  FlightInv'
    BY <2>12 DEF PromotePut, Goto, Settle, FlightInv, LocalsOK, PromoteFlightPCs,
       RestoreFlightPCs, PromoteLeaderPCs, shared, flights, locals, history
  <2>13. ASSUME NEW p \in Procs, PromoteMark(p)
         PROVE  FlightInv'
    BY <2>13 DEF PromoteMark, Goto, Settle, MarkDurable, FlightInv, LocalsOK,
       PromoteFlightPCs, RestoreFlightPCs, PromoteLeaderPCs, shared, flights, locals,
       history
  <2>14. ASSUME NEW p \in Procs, PromoteReget(p)
         PROVE  FlightInv'
    BY <2>14 DEF PromoteReget, Goto, Settle, BodyOf, Present, CacheMiss, CacheDrop,
       FlightInv, LocalsOK, PromoteFlightPCs, RestoreFlightPCs, PromoteLeaderPCs, shared,
       flights, locals, history
  <2>15. ASSUME NEW p \in Procs, PromoteReput(p)
         PROVE  FlightInv'
    BY <2>15 DEF PromoteReput, Goto, Settle, CachePut, CachePutFails, EvictableOthers,
       EntryFor, FlightInv, LocalsOK, PromoteFlightPCs, RestoreFlightPCs, PromoteLeaderPCs,
       shared, flights, locals, history
  <2>16. ASSUME NEW p \in Procs, PromoteClose(p)
         PROVE  FlightInv'
    BY <2>16 DEF PromoteClose, FlightInv, LocalsOK, PromoteFlightPCs, RestoreFlightPCs,
           PromoteLeaderPCs, shared, flights, locals, history
  <2>17. ASSUME NEW p \in Procs, PromoteDelete(p)
         PROVE  FlightInv'
    BY <2>17 DEF PromoteDelete, Goto, FlightInv, LocalsOK, PromoteFlightPCs, RestoreFlightPCs,
           PromoteLeaderPCs, shared, flights, locals, history
  <2>18. ASSUME NEW p \in Procs, PromoteReturn(p)
         PROVE  FlightInv'
    BY <2>18 DEF PromoteReturn, Return, Goto, FlightInv, LocalsOK, PromoteFlightPCs,
       RestoreFlightPCs, PromoteLeaderPCs, shared, flights, locals, history
  <2>19. ASSUME NEW p \in Procs, ReadCache(p)
         PROVE  FlightInv'
    BY <2>19 DEF ReadCache, Return, Goto, CacheMiss, CacheDrop, Present, FlightInv,
       LocalsOK, PromoteFlightPCs, RestoreFlightPCs, PromoteLeaderPCs, shared, flights,
       locals, history
  <2>20. ASSUME NEW p \in Procs, ReadJoin(p)
         PROVE  FlightInv'
    <3> DEFINE call == restoring[Home[p]][blob[p]]
    <3>1. CASE call = NoCall
      <4>1. /\ restoring' = [restoring EXCEPT ![Home[p]][blob[p]] =
                              [leader |-> p, done |-> FALSE, err |-> FALSE]]
            /\ pc' = [pc EXCEPT ![p] = "r_l2"]
            /\ UNCHANGED <<blob, promoting>>
        BY <2>20, <3>1 DEF ReadJoin, Goto, locals
      <4>2. call.leader \notin Procs
        BY <3>1, PipelineAssumption DEF NoCall
      <4>3. Home[p] \in Replicas /\ blob[p] \in Blobs
        BY PipelineAssumption DEF LocalsOK
      <4>4. restoring'[Home[p]][blob[p]].leader = p
        BY <4>1, <4>3 DEF FlightsOK
      <4> QED
        BY <4>1, <4>2, <4>3, <4>4
           DEF FlightInv, FlightsOK, LocalsOK, PromoteFlightPCs, RestoreFlightPCs, PromoteLeaderPCs
    <3>2. CASE call # NoCall
      BY <2>20, <3>2
         DEF ReadJoin, Goto, Settle, FlightInv, LocalsOK, PromoteFlightPCs, RestoreFlightPCs,
           PromoteLeaderPCs, shared, flights, locals, history
    <3> QED
      BY <3>1, <3>2
  <2>21. ASSUME NEW p \in Procs, RestoreGet(p)
         PROVE  FlightInv'
    BY <2>21 DEF RestoreGet, Goto, Settle, FlightInv, LocalsOK, PromoteFlightPCs,
       RestoreFlightPCs, PromoteLeaderPCs, shared, flights, locals, history
  <2>22. ASSUME NEW p \in Procs, RestoreClose(p)
         PROVE  FlightInv'
    BY <2>22 DEF RestoreClose, FlightInv, LocalsOK, PromoteFlightPCs, RestoreFlightPCs,
           PromoteLeaderPCs, shared, flights, locals, history
  <2>23. ASSUME NEW p \in Procs, RestoreDelete(p)
         PROVE  FlightInv'
    BY <2>23 DEF RestoreDelete, Goto, FlightInv, LocalsOK, PromoteFlightPCs, RestoreFlightPCs,
           PromoteLeaderPCs, shared, flights, locals, history
  <2>24. ASSUME NEW p \in Procs, ReadReturn(p)
         PROVE  FlightInv'
    BY <2>24 DEF ReadReturn, Return, Goto, FlightInv, LocalsOK, PromoteFlightPCs,
       RestoreFlightPCs, PromoteLeaderPCs, shared, flights, locals, history
  <2>25. ASSUME NEW p \in Procs, FillPut(p)
         PROVE  FlightInv'
    BY <2>25 DEF FillPut, Return, Goto, CachePut, CachePutFails, EvictableOthers, EntryFor,
       FlightInv, LocalsOK, PromoteFlightPCs, RestoreFlightPCs, PromoteLeaderPCs, shared,
       flights, locals, history
  <2>26. ASSUME NEW p \in Procs, FillStatus(p)
         PROVE  FlightInv'
    BY <2>26 DEF FillStatus, Return, Goto, MarkDurable, FlightInv, LocalsOK,
       PromoteFlightPCs, RestoreFlightPCs, PromoteLeaderPCs, shared, flights, locals,
       history
  <2>27. ASSUME NEW p \in Procs, EvictCheck(p)
         PROVE  FlightInv'
    BY <2>27 DEF EvictCheck, Return, Goto, FlightInv, LocalsOK, PromoteFlightPCs,
       RestoreFlightPCs, PromoteLeaderPCs, shared, flights, locals, history
  <2>28. ASSUME NEW p \in Procs, EvictDrop(p)
         PROVE  FlightInv'
    BY <2>28 DEF EvictDrop, Return, Goto, CacheDrop, FlightInv, LocalsOK, PromoteFlightPCs,
       RestoreFlightPCs, PromoteLeaderPCs, shared, flights, locals, history
  <2>29. ASSUME NEW p \in Procs, CancelWait(p)
         PROVE  FlightInv'
    BY <2>29 DEF CancelWait, Return, Goto, FlightInv, LocalsOK, PromoteFlightPCs,
       RestoreFlightPCs, PromoteLeaderPCs, shared, flights, locals, history
  <2>30. ASSUME NEW p \in Procs, Panic(p)
         PROVE  FlightInv'
    BY <2>30 DEF Panic, Goto, Settle, FlightInv, LocalsOK, PromoteFlightPCs, RestoreFlightPCs,
           PromoteLeaderPCs, shared, flights, locals, history
  <2>31. ASSUME NEW r \in Replicas, Close(r)
         PROVE  FlightInv'
    BY <2>31 DEF Close, FlightInv, LocalsOK, PromoteFlightPCs, RestoreFlightPCs,
           PromoteLeaderPCs, shared, flights, locals, history
  <2>32. ASSUME NEW r \in Replicas, Crash(r)
         PROVE  FlightInv'
    BY <2>32 DEF Crash, At, FlightInv, LocalsOK, PromoteFlightPCs, RestoreFlightPCs,
           PromoteLeaderPCs, shared, flights, locals, history
  <2>33. CASE UNCHANGED vars
    BY <2>33 DEF vars, FlightInv, LocalsOK, PromoteFlightPCs, RestoreFlightPCs,
           PromoteLeaderPCs, shared, flights, locals, history
  <2> QED
    BY <2>1, <2>2, <2>3, <2>4, <2>5, <2>6, <2>7, <2>8, <2>9, <2>10, <2>11, <2>12, <2>13,
       <2>14, <2>15, <2>16, <2>17, <2>18, <2>19, <2>20, <2>21, <2>22, <2>23, <2>24, <2>25,
       <2>26, <2>27, <2>28, <2>29, <2>30, <2>31, <2>32, <2>33 DEF Next, Begin, Step, Write,
       Promote, Read, Evict
<1>3. FlightInv => SingleFlight
  BY DEF FlightInv, SingleFlight, PromoteFlightPCs, RestoreFlightPCs
<1> QED
  BY <1>1, <1>2, <1>3, TypeCorrect, PTL DEF Spec

=============================================================================
