--------------------------- MODULE CircuitBreaker ---------------------------
(***************************************************************************)
(* The circuit breaker of pkg/blobstore/s3/circuit_breaker.go and the way  *)
(* the guarded S3 calls use it: Allow, the request, then RecordSuccess,    *)
(* RecordFailure or, after a client error, nothing.                        *)
(*                                                                         *)
(* One action is one atomic load or store.  state, probeInFlight and       *)
(* openedAt are written only under mu, so a load made under mu is merged   *)
(* with taking it, and a release with the last store; the loads made       *)
(* without mu see every intermediate value.                                *)
(***************************************************************************)
EXTENDS Naturals, FiniteSets

CONSTANTS
    Procs,      \* goroutines that issue S3 requests
    Threshold,  \* consecutive failures that open the breaker
    Outcomes    \* what a request may end with

ASSUME BreakerAssumption ==
    /\ "none" \notin Procs
    /\ Threshold \in Nat \ {0}
    /\ Outcomes \subseteq {"ok", "fail", "silent"}

VARIABLES
    state,          \* CircuitState
    failures,
    elapsed,        \* has the reset timeout passed since openedAt?
    probeInFlight,
    mu,             \* the goroutine inside the mutex, or "none"
    pc,             \* per goroutine
    probing         \* goroutines that run a request as the probe

vars == <<state, failures, elapsed, probeInFlight, mu, pc, probing>>

States == {"Closed", "Open", "HalfOpen"}
InMutex == {"a_half", "s_zero", "s_clear", "f_time", "f_clear", "f_trip_time"}
WaitsForMutex == {"a_lock", "a_lock_half", "s_lock", "f_lock", "f_trip"}
PCs == {"idle", "a_time", "a_probe", "call", "s_state", "s_reset", "f_state", "f_add"}
       \cup InMutex \cup WaitsForMutex

TypeOK ==
    /\ state \in States
    /\ failures \in Nat
    /\ elapsed \in BOOLEAN
    /\ probeInFlight \in BOOLEAN
    /\ mu \in Procs \cup {"none"}
    /\ pc \in [Procs -> PCs]
    /\ probing \subseteq Procs

\* openedAt is zero: the reset timeout counts as elapsed.
Init ==
    /\ state = "Closed"
    /\ failures = 0
    /\ elapsed = TRUE
    /\ probeInFlight = FALSE
    /\ mu = "none"
    /\ pc = [p \in Procs |-> "idle"]
    /\ probing = {}

Goto(p, s) == pc' = [pc EXCEPT ![p] = s]

-----------------------------------------------------------------------------
(* Allow.                                                                  *)

Allow(p) ==
    /\ pc[p] = "idle"
    /\ \/ state = "Closed" /\ Goto(p, "call")
       \/ state = "Open" /\ Goto(p, "a_time")
       \/ state = "HalfOpen" /\ Goto(p, "a_probe")
    /\ UNCHANGED <<state, failures, elapsed, probeInFlight, mu, probing>>

\* Open: refuse until the reset timeout has passed.
AllowTime(p) ==
    /\ pc[p] = "a_time"
    /\ Goto(p, IF elapsed THEN "a_lock" ELSE "idle")
    /\ UNCHANGED <<state, failures, elapsed, probeInFlight, mu, probing>>

AllowLock_Again(p) ==
    /\ pc[p] = "a_lock"
    /\ mu = "none"
    /\ IF state = "Open" /\ ~probeInFlight
       THEN /\ probeInFlight' = TRUE /\ probing' = probing \cup {p}
            /\ mu' = p /\ Goto(p, "a_half")
       ELSE /\ Goto(p, IF state = "Closed" THEN "call" ELSE "a_time")
            /\ UNCHANGED <<probeInFlight, mu, probing>>
    /\ UNCHANGED <<state, failures, elapsed>>

\* The state again, under mu: admit, refuse, or take the probe slot.
AllowLock(p) ==
    /\ pc[p] = "a_lock"
    /\ mu = "none"
    /\ \/ /\ state = "Closed"
          /\ Goto(p, "call")
          /\ UNCHANGED <<probeInFlight, mu, probing>>
       \/ /\ state # "Closed" /\ probeInFlight
          /\ Goto(p, "idle")
          /\ UNCHANGED <<probeInFlight, mu, probing>>
       \/ /\ state # "Closed" /\ ~probeInFlight
          /\ probeInFlight' = TRUE
          /\ probing' = probing \cup {p}
          /\ IF state = "Open" THEN mu' = p /\ Goto(p, "a_half")
                               ELSE mu' = mu /\ Goto(p, "call")
    /\ UNCHANGED <<state, failures, elapsed>>

AllowHalf_Misspelt(p) ==
    /\ pc[p] = "a_half"
    /\ state' = "Half"
    /\ mu' = "none"
    /\ Goto(p, "call")
    /\ UNCHANGED <<failures, elapsed, probeInFlight, probing>>
AllowHalf(p) ==
    /\ pc[p] = "a_half"
    /\ state' = "HalfOpen"
    /\ mu' = "none"
    /\ Goto(p, "call")
    /\ UNCHANGED <<failures, elapsed, probeInFlight, probing>>

\* HalfOpen: refuse while a probe is in flight.
AllowProbe(p) ==
    /\ pc[p] = "a_probe"
    /\ Goto(p, IF probeInFlight THEN "idle" ELSE "a_lock_half")
    /\ UNCHANGED <<state, failures, elapsed, probeInFlight, mu, probing>>

\* The slot again, under mu; the state is not read again.
AllowLockHalf(p) ==
    /\ pc[p] = "a_lock_half"
    /\ mu = "none"
    /\ \/ /\ probeInFlight
          /\ Goto(p, "idle")
          /\ UNCHANGED <<probeInFlight, probing>>
       \/ /\ ~probeInFlight
          /\ probeInFlight' = TRUE
          /\ probing' = probing \cup {p}
          /\ Goto(p, "call")
    /\ UNCHANGED <<state, failures, elapsed, mu>>

-----------------------------------------------------------------------------
(* The request.  A client error, or an early return after Allow, records   *)
(* nothing.                                                                *)

CallReturns(p, outcome) ==
    /\ pc[p] = "call"
    /\ outcome \in Outcomes
    /\ probing' = probing \ {p}
    /\ \/ outcome = "ok" /\ Goto(p, "s_state")
       \/ outcome = "fail" /\ Goto(p, "f_state")
       \/ outcome = "silent" /\ Goto(p, "idle")
    /\ UNCHANGED <<state, failures, elapsed, probeInFlight, mu>>

-----------------------------------------------------------------------------
(* RecordSuccess.                                                          *)

SuccessState(p) ==
    /\ pc[p] = "s_state"
    /\ Goto(p, IF state = "HalfOpen" THEN "s_lock" ELSE "s_reset")
    /\ UNCHANGED <<state, failures, elapsed, probeInFlight, mu, probing>>

SuccessLock_NoStore(p) ==
    /\ pc[p] = "s_lock"
    /\ mu = "none"
    /\ mu' = p
    /\ Goto(p, "s_zero")
    /\ UNCHANGED <<state, failures, elapsed, probeInFlight, probing>>
SuccessLock(p) ==
    /\ pc[p] = "s_lock"
    /\ mu = "none"
    /\ mu' = p
    /\ state' = "Closed"
    /\ Goto(p, "s_zero")
    /\ UNCHANGED <<failures, elapsed, probeInFlight, probing>>

SuccessZero(p) ==
    /\ pc[p] \in {"s_zero", "s_reset"}
    /\ failures' = 0
    /\ Goto(p, IF pc[p] = "s_zero" THEN "s_clear" ELSE "idle")
    /\ UNCHANGED <<state, elapsed, probeInFlight, mu, probing>>

ClearProbe_OnSuccessOnly(p) ==
    /\ pc[p] \in {"s_clear", "f_clear"}
    /\ probeInFlight' = (pc[p] = "f_clear")
    /\ mu' = "none"
    /\ Goto(p, "idle")
    /\ UNCHANGED <<state, failures, elapsed, probing>>

\* The last store of a probe's result frees the slot.
ClearProbe(p) ==
    /\ pc[p] \in {"s_clear", "f_clear"}
    /\ probeInFlight' = FALSE
    /\ mu' = "none"
    /\ Goto(p, "idle")
    /\ UNCHANGED <<state, failures, elapsed, probing>>

-----------------------------------------------------------------------------
(* RecordFailure.                                                          *)

FailureState(p) ==
    /\ pc[p] = "f_state"
    /\ \/ state = "HalfOpen" /\ Goto(p, "f_lock")
       \/ state = "Closed" /\ Goto(p, "f_add")
       \/ state = "Open" /\ Goto(p, "idle")
    /\ UNCHANGED <<state, failures, elapsed, probeInFlight, mu, probing>>

FailureLock(p) ==
    /\ pc[p] = "f_lock"
    /\ mu = "none"
    /\ mu' = p
    /\ state' = "Open"
    /\ Goto(p, "f_time")
    /\ UNCHANGED <<failures, elapsed, probeInFlight, probing>>

FailureAdd_OffByOne(p) ==
    /\ pc[p] = "f_add"
    /\ failures' = failures + 1
    /\ Goto(p, IF failures' > Threshold THEN "f_trip" ELSE "idle")
    /\ UNCHANGED <<state, elapsed, probeInFlight, mu, probing>>
FailureAdd(p) ==
    /\ pc[p] = "f_add"
    /\ failures' = failures + 1
    /\ Goto(p, IF failures' >= Threshold THEN "f_trip" ELSE "idle")
    /\ UNCHANGED <<state, elapsed, probeInFlight, mu, probing>>

\* Under mu the breaker opens, unless it is not closed any more.
FailureTrip(p) ==
    /\ pc[p] = "f_trip"
    /\ mu = "none"
    /\ \/ state = "Closed" /\ state' = "Open" /\ mu' = p /\ Goto(p, "f_trip_time")
       \/ state # "Closed" /\ Goto(p, "idle") /\ UNCHANGED <<state, mu>>
    /\ UNCHANGED <<failures, elapsed, probeInFlight, probing>>

\* openedAt = now.
OpenedAt(p) ==
    /\ pc[p] \in {"f_time", "f_trip_time"}
    /\ elapsed' = FALSE
    /\ IF pc[p] = "f_time" THEN Goto(p, "f_clear") /\ mu' = mu
                           ELSE Goto(p, "idle") /\ mu' = "none"
    /\ UNCHANGED <<state, failures, probeInFlight, probing>>

-----------------------------------------------------------------------------
TimePasses ==
    /\ ~elapsed
    /\ elapsed' = TRUE
    /\ UNCHANGED <<state, failures, probeInFlight, mu, pc, probing>>

\* The steps of a call that has begun, up to the request and after it.
Locks(p) ==
    \/ AllowLock(p) \/ AllowLockHalf(p) \/ SuccessLock(p) \/ FailureLock(p) \/ FailureTrip(p)
Runs(p) ==
    \/ AllowTime(p) \/ AllowHalf(p) \/ AllowProbe(p)
    \/ SuccessState(p) \/ SuccessZero(p) \/ ClearProbe(p)
    \/ FailureState(p) \/ FailureAdd(p) \/ OpenedAt(p)

Next ==
    \/ \E p \in Procs : \/ Allow(p) \/ Locks(p) \/ Runs(p)
                        \/ \E outcome \in Outcomes : CallReturns(p, outcome)
    \/ TimePasses

Spec == Init /\ [][Next]_vars

\* Goroutines run on, a sync.Mutex starves nobody, requests return and keep
\* being issued, time passes, and a backend that is tried for ever succeeds.
Fairness ==
    /\ WF_vars(TimePasses)
    /\ \A p \in Procs :
          /\ WF_vars(Runs(p)) /\ SF_vars(Locks(p)) /\ WF_vars(Allow(p))
          /\ WF_vars(\E outcome \in Outcomes : CallReturns(p, outcome))
          /\ SF_vars(CallReturns(p, "ok"))

FairSpec == Spec /\ Fairness

-----------------------------------------------------------------------------
(* Properties.                                                             *)

\* The breaker is half-open only while the probe slot is taken: the order of
\* the stores in Allow, RecordSuccess and RecordFailure never lets a goroutine
\* that reads them without mu see a half-open breaker with a free slot.
HalfOpenIsProbing == state = "HalfOpen" => probeInFlight

\* Every Allow, RecordSuccess and RecordFailure returns: mu is released on
\* every path, early returns included.
CallsReturn ==
    \A p \in Procs : pc[p] \notin {"idle", "call"} ~> pc[p] \in {"idle", "call"}

\* A request that comes back with an answer lets an open breaker close again:
\* it is never open or half-open for ever.
Recovers == state # "Closed" ~> state = "Closed"

\* The refinement mapping: a failure counts once it is known whether it trips,
\* a reset with the store of the state it belongs to.
At(s) == \E p \in Procs : pc[p] \in s
Contract == INSTANCE BreakerContract WITH
    count <- IF At({"s_zero"}) THEN 0 ELSE IF At({"f_trip"}) THEN failures - 1 ELSE failures,
    elapsed <- elapsed /\ ~At({"f_time", "f_trip_time"})

\* With one goroutine the stores of Allow, RecordSuccess and RecordFailure
\* amount to the breaker the comments describe.
KeepsContract == Contract!Spec

=============================================================================
