-------------------------- MODULE BreakerContract ---------------------------
(***************************************************************************)
(* What the comments of pkg/blobstore/s3/circuit_breaker.go promise, with  *)
(* each request atomic: Threshold consecutive failures open the breaker, it*)
(* stays open for the reset timeout, then one probe decides.               *)
(***************************************************************************)
EXTENDS Naturals

CONSTANT Threshold

VARIABLES
    state,      \* Closed, Open or HalfOpen
    count,      \* consecutive failures
    elapsed     \* has the reset timeout passed?

vars == <<state, count, elapsed>>

Init == state = "Closed" /\ count = 0 /\ elapsed = TRUE

Success ==
    /\ state = "Closed"
    /\ count' = 0
    /\ UNCHANGED <<state, elapsed>>

Failure ==
    /\ state = "Closed"
    /\ count' = count + 1
    /\ IF count' >= Threshold THEN state' = "Open" /\ elapsed' = FALSE
                              ELSE UNCHANGED <<state, elapsed>>

TimePasses ==
    /\ elapsed' = TRUE
    /\ UNCHANGED <<state, count>>

ProbeStarts ==
    /\ state = "Open" /\ elapsed
    /\ state' = "HalfOpen"
    /\ UNCHANGED <<count, elapsed>>

ProbeSucceeds ==
    /\ state = "HalfOpen"
    /\ state' = "Closed" /\ count' = 0
    /\ UNCHANGED elapsed

ProbeFails ==
    /\ state = "HalfOpen"
    /\ state' = "Open" /\ elapsed' = FALSE
    /\ UNCHANGED count

Next == Success \/ Failure \/ TimePasses \/ ProbeStarts \/ ProbeSucceeds \/ ProbeFails

Spec == Init /\ [][Next]_vars

=============================================================================
