---------------------------- MODULE WorkerProofs ----------------------------
(* Proofs about CircuitBreaker, for any number of goroutines, any threshold *)
(* and any outcomes of the requests; about KeyDomains, for any number of    *)
(* concurrent rotations and any bound on the generations; and about         *)
(* WorkerJobs, for any batch, pool and set of jobs.                         *)
EXTENDS CircuitBreaker, KeyDomains, WorkerJobs, TLAPS

-----------------------------------------------------------------------------
(* The breaker.                                                            *)

\* Every variable keeps its type.
THEOREM TypeCorrect == Spec => []TypeOK
<1>1. Init => TypeOK
  <2> SUFFICES ASSUME Init
               PROVE  TypeOK
    OBVIOUS
  <2>1. pc \in [Procs -> PCs]
    BY DEF Init, PCs
  <2>2. elapsed \in BOOLEAN /\ probeInFlight \in BOOLEAN
    BY Zenon DEF Init
  <2> QED
    BY <2>1, <2>2 DEF Init, TypeOK, States
<1>2. TypeOK /\ [Next]_vars => TypeOK'
  <2> SUFFICES ASSUME TypeOK, [Next]_vars
               PROVE  TypeOK'
    OBVIOUS
  <2> USE DEF TypeOK, States, PCs, InMutex, WaitsForMutex, Goto
  <2>1. ASSUME NEW p \in Procs, Allow(p)
         PROVE  TypeOK'
    BY <2>1, BreakerAssumption DEF Allow
  <2>2. ASSUME NEW p \in Procs, AllowTime(p)
         PROVE  TypeOK'
    BY <2>2, BreakerAssumption DEF AllowTime
  <2>3. ASSUME NEW p \in Procs, AllowLock(p)
         PROVE  TypeOK'
    BY <2>3, BreakerAssumption, Zenon DEF AllowLock
  <2>4. ASSUME NEW p \in Procs, AllowHalf(p)
         PROVE  TypeOK'
    BY <2>4, BreakerAssumption DEF AllowHalf
  <2>5. ASSUME NEW p \in Procs, AllowProbe(p)
         PROVE  TypeOK'
    BY <2>5, BreakerAssumption DEF AllowProbe
  <2>6. ASSUME NEW p \in Procs, AllowLockHalf(p)
         PROVE  TypeOK'
    BY <2>6, BreakerAssumption, Zenon DEF AllowLockHalf
  <2>7. ASSUME NEW p \in Procs, SuccessState(p)
         PROVE  TypeOK'
    BY <2>7, BreakerAssumption DEF SuccessState
  <2>8. ASSUME NEW p \in Procs, SuccessLock(p)
         PROVE  TypeOK'
    BY <2>8, BreakerAssumption DEF SuccessLock
  <2>9. ASSUME NEW p \in Procs, SuccessZero(p)
         PROVE  TypeOK'
    BY <2>9, BreakerAssumption DEF SuccessZero
  <2>10. ASSUME NEW p \in Procs, ClearProbe(p)
         PROVE  TypeOK'
    BY <2>10, BreakerAssumption, Zenon DEF ClearProbe
  <2>11. ASSUME NEW p \in Procs, FailureState(p)
         PROVE  TypeOK'
    BY <2>11, BreakerAssumption DEF FailureState
  <2>12. ASSUME NEW p \in Procs, FailureLock(p)
         PROVE  TypeOK'
    BY <2>12, BreakerAssumption DEF FailureLock
  <2>13. ASSUME NEW p \in Procs, FailureAdd(p)
         PROVE  TypeOK'
    BY <2>13, BreakerAssumption DEF FailureAdd
  <2>14. ASSUME NEW p \in Procs, FailureTrip(p)
         PROVE  TypeOK'
    BY <2>14, BreakerAssumption DEF FailureTrip
  <2>15. ASSUME NEW p \in Procs, OpenedAt(p)
         PROVE  TypeOK'
    BY <2>15, BreakerAssumption, Zenon DEF OpenedAt
  <2>16. ASSUME NEW p \in Procs, NEW outcome \in Outcomes, CallReturns(p, outcome)
         PROVE  TypeOK'
    BY <2>16 DEF CallReturns
  <2>17. CASE TimePasses \/ UNCHANGED vars
    BY <2>17, Zenon DEF TimePasses, vars
  <2> QED
    BY <2>1, <2>2, <2>3, <2>4, <2>5, <2>6, <2>7, <2>8, <2>9, <2>10, <2>11, <2>12, <2>13, <2>14, <2>15, <2>16, <2>17 DEF Next, Locks, Runs
<1> QED
  BY <1>1, <1>2, PTL DEF Spec

\* What the goroutine inside mu has stored so far.
MutexInv ==
    \A p \in Procs :
        /\ pc[p] \in InMutex => mu = p
        /\ pc[p] = "a_half" => probeInFlight
        /\ pc[p] \in {"s_zero", "s_clear"} => state = "Closed"
        /\ pc[p] \in {"f_time", "f_clear", "f_trip_time"} => state = "Open"

\* A half-open breaker always has its probe slot taken, in every interleaving
\* of the loads and stores of Allow, RecordSuccess and RecordFailure.  The slot
\* is taken before HalfOpen is stored and freed after HalfOpen is left, and
\* MutexInv keeps both pairs of stores together.
THEOREM HalfOpenIsProbingHolds == Spec => []HalfOpenIsProbing
<1> DEFINE IInv == HalfOpenIsProbing /\ MutexInv
<1>1. Init => IInv
  BY DEF Init, HalfOpenIsProbing, MutexInv, InMutex
<1>2. TypeOK /\ IInv /\ [Next]_vars => IInv'
  <2> SUFFICES ASSUME TypeOK, IInv, [Next]_vars
               PROVE  IInv'
    OBVIOUS
  <2> USE DEF TypeOK, HalfOpenIsProbing, MutexInv, InMutex, Goto
  <2>1. ASSUME NEW p \in Procs, Allow(p)
         PROVE  IInv'
    BY <2>1, BreakerAssumption DEF Allow
  <2>2. ASSUME NEW p \in Procs, AllowTime(p)
         PROVE  IInv'
    BY <2>2, BreakerAssumption DEF AllowTime
  <2>3. ASSUME NEW p \in Procs, AllowLock(p)
         PROVE  IInv'
    BY <2>3, BreakerAssumption DEF AllowLock
  <2>4. ASSUME NEW p \in Procs, AllowHalf(p)
         PROVE  IInv'
    BY <2>4, BreakerAssumption DEF AllowHalf
  <2>5. ASSUME NEW p \in Procs, AllowProbe(p)
         PROVE  IInv'
    BY <2>5, BreakerAssumption DEF AllowProbe
  <2>6. ASSUME NEW p \in Procs, AllowLockHalf(p)
         PROVE  IInv'
    BY <2>6, BreakerAssumption DEF AllowLockHalf
  <2>7. ASSUME NEW p \in Procs, SuccessState(p)
         PROVE  IInv'
    BY <2>7, BreakerAssumption DEF SuccessState
  <2>8. ASSUME NEW p \in Procs, SuccessLock(p)
         PROVE  IInv'
    BY <2>8, BreakerAssumption DEF SuccessLock
  <2>9. ASSUME NEW p \in Procs, SuccessZero(p)
         PROVE  IInv'
    BY <2>9, BreakerAssumption DEF SuccessZero
  <2>10. ASSUME NEW p \in Procs, ClearProbe(p)
         PROVE  IInv'
    BY <2>10, BreakerAssumption DEF ClearProbe
  <2>11. ASSUME NEW p \in Procs, FailureState(p)
         PROVE  IInv'
    BY <2>11, BreakerAssumption DEF FailureState
  <2>12. ASSUME NEW p \in Procs, FailureLock(p)
         PROVE  IInv'
    BY <2>12, BreakerAssumption DEF FailureLock
  <2>13. ASSUME NEW p \in Procs, FailureAdd(p)
         PROVE  IInv'
    BY <2>13, BreakerAssumption DEF FailureAdd
  <2>14. ASSUME NEW p \in Procs, FailureTrip(p)
         PROVE  IInv'
    BY <2>14, BreakerAssumption DEF FailureTrip
  <2>15. ASSUME NEW p \in Procs, OpenedAt(p)
         PROVE  IInv'
    BY <2>15, BreakerAssumption DEF OpenedAt
  <2>16. ASSUME NEW p \in Procs, NEW outcome \in Outcomes, CallReturns(p, outcome)
         PROVE  IInv'
    BY <2>16 DEF CallReturns
  <2>17. CASE TimePasses \/ UNCHANGED vars
    BY <2>17 DEF TimePasses, vars
  <2> QED
    BY <2>1, <2>2, <2>3, <2>4, <2>5, <2>6, <2>7, <2>8, <2>9, <2>10, <2>11, <2>12, <2>13, <2>14, <2>15, <2>16, <2>17 DEF Next, Locks, Runs
<1>3. IInv => HalfOpenIsProbing
  OBVIOUS
<1> QED
  BY <1>1, <1>2, <1>3, TypeCorrect, PTL DEF Spec

-----------------------------------------------------------------------------
(* One goroutine: the refinement of BreakerContract.                       *)

\* What a single goroutine knows at each step of a call: nobody else moves the
\* state, so it is the one it last read or stored.
SequentialInv(q) ==
    /\ pc[q] \in {"a_time", "a_lock", "a_half", "f_time", "f_clear", "f_trip_time"} => state = "Open"
    /\ pc[q] \in {"a_probe", "a_lock_half", "s_lock", "f_lock"} => state = "HalfOpen"
    /\ pc[q] \in {"s_reset", "s_zero", "s_clear", "f_add", "f_trip"} => state = "Closed"
    /\ pc[q] \in {"call", "s_state", "f_state"} => state # "Open"
    /\ pc[q] \in {"a_lock", "a_half"} => elapsed
    /\ pc[q] = "f_trip" => failures >= Threshold

\* A single goroutine starts outside of any call.
LEMMA SequentialInit == ASSUME NEW q, Procs = {q} PROVE Init => SequentialInv(q)
BY DEF Init, SequentialInv

\* Every step of a single goroutine keeps what it knows.
LEMMA SequentialStep ==
    ASSUME NEW q, Procs = {q} PROVE TypeOK /\ SequentialInv(q) /\ [Next]_vars => SequentialInv(q)'
<1> SUFFICES ASSUME TypeOK, SequentialInv(q), [Next]_vars PROVE SequentialInv(q)'
    OBVIOUS
<1> USE DEF TypeOK, States, SequentialInv, Goto
<1>1. CASE Allow(q) \/ AllowTime(q) \/ AllowLock(q) \/ AllowHalf(q) \/ AllowProbe(q) \/ AllowLockHalf(q)
    BY <1>1 DEF Allow, AllowTime, AllowLock, AllowHalf, AllowProbe, AllowLockHalf
<1>2. CASE SuccessState(q) \/ SuccessLock(q) \/ SuccessZero(q) \/ ClearProbe(q)
    BY <1>2 DEF SuccessState, SuccessLock, SuccessZero, ClearProbe
<1>3. CASE FailureState(q) \/ FailureLock(q) \/ FailureAdd(q) \/ FailureTrip(q) \/ OpenedAt(q)
    BY <1>3 DEF FailureState, FailureLock, FailureAdd, FailureTrip, OpenedAt
<1>4. ASSUME NEW outcome \in Outcomes, CallReturns(q, outcome) PROVE SequentialInv(q)'
    BY <1>4 DEF CallReturns
<1>5. CASE TimePasses \/ UNCHANGED vars
    BY <1>5 DEF TimePasses, vars
<1> QED
    BY <1>1, <1>2, <1>3, <1>4, <1>5 DEF Next, Locks, Runs

\* Every step of a single goroutine is one of BreakerContract or none.
LEMMA RefinementStep ==
    ASSUME NEW q, Procs = {q}, TypeOK, SequentialInv(q), [Next]_vars
    PROVE  [Contract!Next]_(Contract!vars)
<1> DEFINE count == IF At({"s_zero"}) THEN 0 ELSE IF At({"f_trip"}) THEN failures - 1 ELSE failures
           opened == elapsed /\ ~At({"f_time", "f_trip_time"})
           Stutters == state' = state /\ count' = count /\ opened' = opened
<1>at. /\ \A s : At(s) <=> pc[q] \in s
       /\ \A s : At(s)' <=> pc'[q] \in s
    BY DEF At
<1>s. Stutters => UNCHANGED Contract!vars
    BY DEF Contract!vars
<1> USE DEF TypeOK, States, SequentialInv, Goto
<1>1. CASE AllowHalf(q)
  <2>1. Contract!ProbeStarts
      BY <1>1, <1>at DEF AllowHalf, Contract!ProbeStarts
  <2> QED
      BY <2>1 DEF Contract!Next
<1>2. CASE SuccessLock(q)
  <2>1. Contract!ProbeSucceeds
      BY <1>2, <1>at DEF SuccessLock, Contract!ProbeSucceeds
  <2> QED
      BY <2>1 DEF Contract!Next
<1>3. CASE FailureLock(q)
  <2>1. Contract!ProbeFails
      BY <1>3, <1>at DEF FailureLock, Contract!ProbeFails
  <2> QED
      BY <2>1 DEF Contract!Next
<1>4. CASE FailureTrip(q)
  <2>1. Contract!Failure
      BY <1>4, <1>at, BreakerAssumption DEF FailureTrip, Contract!Failure
  <2> QED
      BY <2>1 DEF Contract!Next
<1>5. CASE FailureAdd(q)
  <2>1. Stutters \/ Contract!Failure
      BY <1>5, <1>at, BreakerAssumption DEF FailureAdd, Contract!Failure
  <2> QED
      BY <1>s, <2>1 DEF Contract!Next
<1>6. CASE SuccessZero(q)
  <2>1. Stutters \/ Contract!Success
      BY <1>6, <1>at DEF SuccessZero, Contract!Success
  <2> QED
      BY <1>s, <2>1 DEF Contract!Next
<1>7. CASE TimePasses
  <2>1. Stutters \/ Contract!TimePasses
      BY <1>7, <1>at DEF TimePasses, Contract!TimePasses
  <2> QED
      BY <1>s, <2>1 DEF Contract!Next
<1>8. CASE Allow(q) \/ AllowTime(q) \/ AllowLock(q) \/ AllowProbe(q) \/ AllowLockHalf(q)
  <2>1. Stutters
      BY <1>8, <1>at DEF Allow, AllowTime, AllowLock, AllowProbe, AllowLockHalf
  <2> QED
      BY <1>s, <2>1
<1>9. CASE SuccessState(q) \/ ClearProbe(q) \/ FailureState(q) \/ OpenedAt(q)
  <2>1. Stutters
      BY <1>9, <1>at DEF SuccessState, ClearProbe, FailureState, OpenedAt
  <2> QED
      BY <1>s, <2>1
<1>10. ASSUME NEW outcome \in Outcomes, CallReturns(q, outcome) PROVE Stutters
    BY <1>10, <1>at DEF CallReturns
<1>11. CASE UNCHANGED vars
  <2>1. Stutters
      BY <1>11, <1>at DEF vars
  <2> QED
      BY <1>s, <2>1
<1> QED
    BY <1>1, <1>2, <1>3, <1>4, <1>5, <1>6, <1>7, <1>8, <1>9, <1>10, <1>11, <1>s DEF Next, Locks, Runs

\* A breaker whose calls are made one at a time implements BreakerContract: it
\* opens at the threshold, lets one probe through after the timeout, and closes
\* on its success, for every threshold and any outcomes.
THEOREM KeepsContractHolds == ASSUME NEW q, Procs = {q} PROVE Spec => KeepsContract
<1>1. Init => Contract!Init
    BY DEF Init, Contract!Init, At
<1>2. TypeOK /\ SequentialInv(q) /\ [Next]_vars => [Contract!Next]_(Contract!vars)
    BY RefinementStep
<1>3. Init => SequentialInv(q)
    BY SequentialInit
<1>4. TypeOK /\ SequentialInv(q) /\ [Next]_vars => SequentialInv(q)'
    BY SequentialStep
<1> QED
    BY <1>1, <1>2, <1>3, <1>4, TypeCorrect, PTL DEF Spec, KeepsContract, Contract!Spec

-----------------------------------------------------------------------------
(* Key rotation.                                                           *)

Steps == {"idle", "select", "update", "get", "answered"}

Requests == [at : Steps, read : Nat, own : Nat, answer : Nat]

Typed ==
    /\ domain \in [generation : Nat, prev : Nat, envelope : Nat]
    /\ domain.generation \in 1..MaxGeneration
    /\ locked \in BOOLEAN
    /\ caller \in [Callers -> Requests]
    /\ made \in [1..MaxGeneration -> Nat]

\* Whoever is between SELECT ... FOR UPDATE and COMMIT holds the row's lock
\* alone, so the generation it has read is still the row's.
RowLock ==
    /\ \A c \in Callers : caller[c].at = "update" =>
        /\ locked
        /\ caller[c].own = domain.generation + 1
        /\ caller[c].own <= MaxGeneration
    /\ \A c, d \in Callers : caller[c].at = "update" /\ caller[d].at = "update" => c = d

\* A caller past its COMMIT made a generation the row has reached.
Committed == \A c \in Callers : caller[c].at = "get" => caller[c].own <= domain.generation

RotationInv == Typed /\ RowLock /\ Committed /\ GenerationsUnbroken /\ AnswerNotBehind

\* A step that sets one request's locals leaves the others' alone.
LEMMA OneRequest ==
    ASSUME caller \in [Callers -> Requests], NEW c \in Callers, NEW r \in Requests,
           caller' = [caller EXCEPT ![c] = r]
    PROVE  /\ caller' \in [Callers -> Requests]
           /\ caller'[c] = r
           /\ \A d \in Callers : d # c => caller'[d] = caller[d]
OBVIOUS

\* The fields of a request and of the idle one.
LEMMA Fields ==
    /\ Idle \in Requests /\ Idle.at = "idle"
    /\ \A r \in Requests : r.at \in Steps /\ r.own \in Nat /\ r.answer \in Nat
BY DEF Idle, Requests, Steps

\* The next generation is within the bound when it does not exceed it.
LEMMA Successor ==
    ASSUME MaxGeneration \in Nat \ {0}, NEW g \in 1..MaxGeneration, NEW h,
           h = g + 1, h <= MaxGeneration
    PROVE  h \in 1..MaxGeneration
OBVIOUS

\* The row keeps its type and the bookkeeping follows it when a rotation
\* commits the next generation.
LEMMA NextGeneration ==
    ASSUME MaxGeneration \in Nat \ {0}, Typed, GenerationsUnbroken,
           NEW own \in Nat, own = domain.generation + 1, own <= MaxGeneration, NEW read \in Nat,
           domain' = [generation |-> own, prev |-> own - 1, envelope |-> read],
           made' = [made EXCEPT ![own] = @ + 1]
    PROVE  /\ domain' \in [generation : Nat, prev : Nat, envelope : Nat]
           /\ domain'.generation = own
           /\ made' \in [1..MaxGeneration -> Nat]
           /\ GenerationsUnbroken'
<1>1. domain.generation \in Nat /\ domain.generation >= 1 /\ own - 1 = domain.generation
  BY DEF Typed
<1>2. /\ domain' \in [generation : Nat, prev : Nat, envelope : Nat]
      /\ domain'.generation = own /\ domain'.prev = own - 1
  BY <1>1
<1>3. made \in [1..MaxGeneration -> Nat] /\ own \in 1..MaxGeneration
  BY <1>1 DEF Typed
<1>4. /\ made' \in [1..MaxGeneration -> Nat] /\ made'[own] = made[own] + 1
      /\ \A g \in 1..MaxGeneration : g # own => made'[g] = made[g]
  BY <1>3
<1>5. made[own] = 0
  BY <1>1, <1>3 DEF GenerationsUnbroken
<1>6. ASSUME NEW g \in 1..MaxGeneration
      PROVE  made'[g] = (IF g \in 2..domain'.generation THEN 1 ELSE 0)
  <2>1. CASE g = own
    BY <2>1, <1>1, <1>2, <1>4, <1>5
  <2>2. CASE g # own
    <3>1. made'[g] = (IF g \in 2..domain.generation THEN 1 ELSE 0)
      BY <2>2, <1>4 DEF GenerationsUnbroken
    <3>2. g \in 2..domain.generation <=> g \in 2..domain'.generation
      BY <2>2, <1>1, <1>2
    <3> QED
      BY <3>1, <3>2
  <2> QED
    BY <2>1, <2>2
<1> QED
  BY <1>2, <1>4, <1>6 DEF GenerationsUnbroken

\* The three facts about a rotation hold together in every reachable state:
\* neither a race, nor a lost COMMIT, nor a crash makes a generation twice.
THEOREM RotationInvHolds ==
    ASSUME MaxGeneration \in Nat \ {0}
    PROVE  RotationSpec => []RotationInv
<1>1. RotationInit => RotationInv
  <2> SUFFICES ASSUME RotationInit
               PROVE  RotationInv
    OBVIOUS
  <2>1. /\ domain \in [generation : Nat, prev : Nat, envelope : Nat]
        /\ domain.generation = 1 /\ domain.prev = 0
    BY DEF RotationInit
  <2>2. /\ caller \in [Callers -> Requests]
        /\ \A c \in Callers : caller[c].at = "idle"
    BY Fields DEF RotationInit
  <2>3. Typed
    <3>1. locked \in BOOLEAN /\ made \in [1..MaxGeneration -> Nat]
      BY Zenon DEF RotationInit
    <3>2. domain.generation \in 1..MaxGeneration
      BY <2>1
    <3> QED
      BY <2>1, <2>2, <3>1, <3>2 DEF Typed
  <2>4. GenerationsUnbroken
    BY <2>1 DEF RotationInit, GenerationsUnbroken
  <2> QED
    BY <2>2, <2>3, <2>4 DEF RotationInv, RowLock, Committed, AnswerNotBehind
<1>2. RotationInv /\ [RotationNext]_rotationVars => RotationInv'
  <2> SUFFICES ASSUME RotationInv, [RotationNext]_rotationVars
               PROVE  RotationInv'
    OBVIOUS
  <2> USE DEF RotationInv
  <2>0. /\ caller \in [Callers -> Requests]
        /\ domain.generation \in Nat
        /\ \A c \in Callers : caller[c].own \in Nat /\ caller[c].read \in Nat
    BY DEF Typed, Requests
  <2>1. ASSUME NEW c \in Callers, GetDomain(c)
        PROVE  RotationInv'
    <3> DEFINE r == [Idle EXCEPT !.at = "select", !.read = domain.generation]
    <3>1. r \in Requests /\ r.at = "select"
      BY <2>0, Zenon DEF Idle, Requests, Steps
    <3>2. caller' = [caller EXCEPT ![c] = r] /\ UNCHANGED <<domain, locked, made>>
      BY <2>1 DEF GetDomain
    <3> HIDE DEF r
    <3>3. /\ caller' \in [Callers -> Requests] /\ caller'[c].at = "select"
          /\ \A d \in Callers : d # c => caller'[d] = caller[d]
      BY <3>1, <3>2, <2>0, OneRequest
    <3> QED
      BY <3>2, <3>3 DEF Typed, RowLock, Committed, GenerationsUnbroken, AnswerNotBehind
  <2>2. ASSUME NEW c \in Callers, SelectForUpdate(c)
        PROVE  RotationInv'
    <3> DEFINE r == [caller[c] EXCEPT !.at = "update", !.own = domain.generation + 1]
    <3>1. r \in Requests /\ r.at = "update" /\ r.own = domain.generation + 1
      <4>1. domain.generation + 1 \in Nat /\ caller[c] \in Requests
        BY <2>0
      <4> QED
        BY <4>1, Zenon DEF Requests, Steps
    <3>2. /\ caller' = [caller EXCEPT ![c] = r] /\ UNCHANGED <<domain, made>>
          /\ ~locked /\ locked' = TRUE /\ domain.generation < MaxGeneration
      BY <2>2 DEF SelectForUpdate
    <3> HIDE DEF r
    <3>3. /\ caller' \in [Callers -> Requests] /\ caller'[c] = r
          /\ \A d \in Callers : d # c => caller'[d] = caller[d]
      BY <3>1, <3>2, <2>0, OneRequest
    <3>4. Typed'
      BY <3>2, <3>3 DEF Typed
    <3>5. RowLock'
      <4>1. \A d \in Callers : caller[d].at # "update"
        BY <3>2 DEF RowLock
      <4>2. r.own <= MaxGeneration
        BY <3>1, <3>2, <2>0
      <4> QED
        BY <4>1, <4>2, <3>1, <3>2, <3>3 DEF RowLock
    <3> QED
      BY <3>1, <3>2, <3>3, <3>4, <3>5 DEF Committed, GenerationsUnbroken, AnswerNotBehind
  <2>3. ASSUME NEW c \in Callers, UpdateCommit(c)
        PROVE  RotationInv'
    <3> DEFINE own == caller[c].own
               r == [caller[c] EXCEPT !.at = "get"]
               commit == /\ domain' = [generation |-> own, prev |-> own - 1, envelope |-> caller[c].read]
                         /\ made' = [made EXCEPT ![own] = @ + 1]
    <3>1. /\ own = domain.generation + 1 /\ own <= MaxGeneration
          /\ \A d \in Callers : caller[d].at = "update" => d = c
      BY <2>3 DEF UpdateCommit, RowLock
    <3>2. r \in Requests /\ r.at = "get" /\ r.own = own
      BY <2>0 DEF Requests, Steps
    <3>3. /\ locked' = FALSE
          /\ \/ commit /\ caller' = [caller EXCEPT ![c] = r]
             \/ /\ commit \/ UNCHANGED <<domain, made>>
                /\ caller' = [caller EXCEPT ![c] = Idle]
      BY <2>3 DEF UpdateCommit
    <3>4. commit => /\ domain' \in [generation : Nat, prev : Nat, envelope : Nat]
                    /\ domain'.generation = own
                    /\ made' \in [1..MaxGeneration -> Nat]
                    /\ GenerationsUnbroken'
      BY <3>1, <2>0, NextGeneration, Zenon
    <3> HIDE DEF r, commit
    <3>5. /\ domain' \in [generation : Nat, prev : Nat, envelope : Nat]
          /\ domain'.generation \in {domain.generation, own}
          /\ made' \in [1..MaxGeneration -> Nat]
          /\ GenerationsUnbroken'
      <4>1. CASE commit
        BY <4>1, <3>4
      <4>2. CASE UNCHANGED <<domain, made>>
        BY <4>2 DEF Typed, GenerationsUnbroken
      <4> QED
        BY <4>1, <4>2, <3>3
    <3>6. /\ caller' \in [Callers -> Requests]
          /\ \A d \in Callers : d # c => caller'[d] = caller[d]
          /\ \/ caller'[c].at = "idle"
             \/ caller'[c].at = "get" /\ caller'[c].own = own /\ domain'.generation = own
      <4>1. CASE commit /\ caller' = [caller EXCEPT ![c] = r]
        BY <4>1, <3>2, <3>4, <2>0, OneRequest
      <4>2. CASE caller' = [caller EXCEPT ![c] = Idle]
        BY <4>2, <2>0, OneRequest, Fields
      <4> QED
        BY <4>1, <4>2, <3>3
    <3>7. Typed'
      <4>0. domain.generation \in 1..MaxGeneration
        BY DEF Typed
      <4>1. own \in 1..MaxGeneration
        BY <4>0, <3>1, Successor
      <4>2. domain'.generation \in 1..MaxGeneration
        BY <4>0, <4>1, <3>5
      <4> QED
        BY <3>3, <3>5, <3>6, <4>2, Zenon DEF Typed
    <3>8. RowLock'
      BY <3>1, <3>6 DEF RowLock
    <3>9. Committed' /\ AnswerNotBehind'
      <4>1. domain'.generation \in Nat /\ domain'.generation >= domain.generation
        BY <3>1, <3>5, <2>0
      <4>2. ASSUME NEW d \in Callers, caller'[d].at = "get"
            PROVE  caller'[d].own <= domain'.generation
        <5>1. CASE d = c
          BY <5>1, <4>1, <4>2, <3>6
        <5>2. CASE d # c
          BY <5>2, <4>1, <4>2, <3>6, <2>0 DEF Committed
        <5> QED
          BY <5>1, <5>2
      <4> QED
        BY <4>2, <3>6 DEF Committed, AnswerNotBehind
    <3> QED
      BY <3>5, <3>7, <3>8, <3>9
  <2>4. ASSUME NEW c \in Callers, Answer(c)
        PROVE  RotationInv'
    <3> DEFINE r == [caller[c] EXCEPT !.at = "answered", !.answer = domain.generation]
    <3>1. r \in Requests /\ r.at = "answered" /\ r.own = caller[c].own /\ r.answer = domain.generation
      BY <2>0, Zenon DEF Requests, Steps
    <3>2. /\ \/ caller' = [caller EXCEPT ![c] = r]
             \/ caller' = [caller EXCEPT ![c] = Idle]
          /\ caller[c].at = "get" /\ UNCHANGED <<domain, locked, made>>
      BY <2>4 DEF Answer
    <3> HIDE DEF r
    <3>3. /\ caller' \in [Callers -> Requests] /\ caller'[c] \in {r, Idle}
          /\ \A d \in Callers : d # c => caller'[d] = caller[d]
      BY <3>1, <3>2, <2>0, OneRequest, Fields
    <3>4. caller[c].own <= domain.generation
      BY <3>2 DEF Committed
    <3>5. Typed' /\ GenerationsUnbroken'
      BY <3>2, <3>3 DEF Typed, GenerationsUnbroken
    <3>6. caller'[c].at \in {"answered", "idle"}
      BY <3>1, <3>3, Fields
    <3>7. RowLock' /\ Committed'
      BY <3>2, <3>3, <3>6 DEF RowLock, Committed
    <3>8. caller'[c].at = "answered" => caller'[c].answer >= caller'[c].own
      BY <3>1, <3>3, <3>4, <2>0, Fields
    <3> QED
      BY <3>3, <3>5, <3>7, <3>8 DEF AnswerNotBehind
  <2>5. ASSUME Crash
        PROVE  RotationInv'
    <3>1. /\ caller' \in [Callers -> Requests]
          /\ \A c \in Callers : caller'[c].at = "idle"
          /\ locked' = FALSE /\ UNCHANGED <<domain, made>>
      BY <2>5, Fields DEF Crash
    <3> QED
      BY <3>1, Zenon DEF Typed, RowLock, Committed, GenerationsUnbroken, AnswerNotBehind
  <2>6. CASE UNCHANGED rotationVars
    BY <2>6 DEF rotationVars, Typed, RowLock, Committed, GenerationsUnbroken, AnswerNotBehind
  <2> QED
    BY <2>1, <2>2, <2>3, <2>4, <2>5, <2>6 DEF RotationNext
<1> QED
  BY <1>1, <1>2, PTL DEF RotationSpec

\* RotateEncryptionDomain makes each generation once and in order.
THEOREM GenerationsUnbrokenHolds ==
    ASSUME MaxGeneration \in Nat \ {0}
    PROVE  RotationSpec => []GenerationsUnbroken
<1>1. RotationInv => GenerationsUnbroken
  BY DEF RotationInv
<1> QED
  BY <1>1, RotationInvHolds, PTL

\* The generation handleDomain reports is the caller's own or a later one.
THEOREM AnswerNotBehindHolds ==
    ASSUME MaxGeneration \in Nat \ {0}
    PROVE  RotationSpec => []AnswerNotBehind
<1>1. RotationInv => AnswerNotBehind
  BY DEF RotationInv
<1> QED
  BY <1>1, RotationInvHolds, PTL

-----------------------------------------------------------------------------
(* The worker's jobs.                                                      *)

\* Between two batches the pool has nothing, and once Stop has returned nil all
\* jobs have ended.
JobsInv ==
    /\ DOMAIN hand = Pool /\ DOMAIN sweeper = Sweepers
    /\ job # "pool" => work = {} /\ \A g \in Pool : hand[g] = 0
    /\ life \in {"stopped", "closed"} => AllEnded

\* The invariant holds initially.
LEMMA JobsInvInit == JobsInit => JobsInv
BY DEF JobsInit, JobsInv

\* The promotion job and its pool keep the invariant.
LEMMA PromotionStep == JobsInv /\ Promotion => JobsInv'
<1> SUFFICES ASSUME JobsInv, Promotion PROVE JobsInv'
    OBVIOUS
<1> USE DEF JobsInv, AllEnded
<1>1. CASE RunOnce
    BY <1>1 DEF RunOnce, sweeps
<1>2. ASSUME NEW g \in Pool, Take(g) PROVE JobsInv'
    BY <1>2 DEF Take, sweeps
<1>3. ASSUME NEW g \in Pool, Promote(g) PROVE JobsInv'
    BY <1>3 DEF Promote, sweeps
<1>4. CASE Collect
    BY <1>4 DEF Collect, sweeps
<1>5. CASE Tick
    BY <1>5 DEF Tick, sweeps
<1> QED
    BY <1>1, <1>2, <1>3, <1>4, <1>5 DEF Promotion

\* Every step keeps the invariant.
LEMMA JobsInvStep == JobsInv /\ [JobsNext]_jobsVars => JobsInv'
<1> SUFFICES ASSUME JobsInv, [JobsNext]_jobsVars PROVE JobsInv'
    OBVIOUS
<1> USE DEF JobsInv, AllEnded
<1>1. ASSUME NEW b \in Blobs, Write(b) PROVE JobsInv'
    BY <1>1 DEF Write, pool, sweeps
<1>2. CASE Promotion
    BY <1>2, PromotionStep
<1>3. ASSUME NEW s \in Sweepers, Sweeping(s) PROVE JobsInv'
    BY <1>3 DEF Sweeping, StartSweep, Sweep, pool
<1>4. CASE Stop \/ StopReturns \/ Close
    BY <1>4 DEF Stop, StopReturns, Close, pool, sweeps
<1>5. CASE UNCHANGED jobsVars
    BY <1>5 DEF jobsVars, pool, sweeps
<1> QED
    BY <1>1, <1>2, <1>3, <1>4, <1>5 DEF JobsNext

\* Once Stop has returned nil and the worker has closed its pipeline, no job
\* is in the middle of a promotion or a sweep, for any batch and any pool.
THEOREM ClosedIsQuietHolds == JobsSpec => []ClosedIsQuiet
<1>1. JobsInv => ClosedIsQuiet
    BY DEF JobsInv, ClosedIsQuiet, AllEnded
<1> QED
    BY <1>1, JobsInvInit, JobsInvStep, PTL DEF JobsSpec

=============================================================================
