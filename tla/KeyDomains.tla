---------------------------- MODULE KeyDomains ----------------------------
(* Rotation of an encryption domain: POST /v1/domains/{id}/generations runs *)
(* RotateEncryptionDomain in a transaction, then reads the domain again to  *)
(* report its generation.  The caller made its envelope of the previous key *)
(* for the generation it had read before; the request does not say which.   *)
EXTENDS Naturals

CONSTANTS
    Callers,         \* concurrent requests of one tenant on one domain
    MaxGeneration,   \* bound
    Faults           \* subset of {"db", "crash"}

VARIABLES
    domain,          \* the row: generation, prev_generation, generation the envelope is for
    locked,          \* its row lock is taken
    caller,          \* per request, its step and its locals
    made             \* how often each generation was made by a committed rotation

rotationVars == <<domain, locked, caller, made>>

Idle == [at |-> "idle", read |-> 0, own |-> 0, answer |-> 0]

RotationInit ==
    /\ domain = [generation |-> 1, prev |-> 0, envelope |-> 0]
    /\ locked = FALSE
    /\ caller = [c \in Callers |-> Idle]
    /\ made = [g \in 1..MaxGeneration |-> 0]

\* GET /v1/domains/{id}: the generation the envelope is made for.
GetDomain(c) ==
    /\ caller[c].at \in {"idle", "answered"}
    /\ caller' = [caller EXCEPT ![c] = [Idle EXCEPT !.at = "select", !.read = domain.generation]]
    /\ UNCHANGED <<domain, locked, made>>

SelectForUpdate_NoLock(c) ==
    /\ caller[c].at = "select"
    /\ domain.generation < MaxGeneration
    /\ caller' = [caller EXCEPT ![c] = [@ EXCEPT !.at = "update", !.own = domain.generation + 1]]
    /\ UNCHANGED <<domain, locked, made>>
\* BEGIN, SELECT generation ... FOR UPDATE.
SelectForUpdate(c) ==
    /\ caller[c].at = "select"
    /\ ~locked
    /\ domain.generation < MaxGeneration
    /\ locked' = TRUE
    /\ caller' = [caller EXCEPT ![c] = [@ EXCEPT !.at = "update", !.own = domain.generation + 1]]
    /\ UNCHANGED <<domain, made>>

\* UPDATE and COMMIT; an error may hide a commit that took place.
UpdateCommit(c) ==
    LET own == caller[c].own
        commit == /\ domain' = [generation |-> own, prev |-> own - 1, envelope |-> caller[c].read]
                  /\ made' = [made EXCEPT ![own] = @ + 1]
    IN  /\ caller[c].at = "update"
        /\ locked' = FALSE
        /\ \/ commit /\ caller' = [caller EXCEPT ![c].at = "get"]
           \/ /\ "db" \in Faults
              /\ commit \/ UNCHANGED <<domain, made>>
              /\ caller' = [caller EXCEPT ![c] = Idle]

Answer_Stale(c) ==
    /\ caller[c].at = "get"
    /\ caller' = [caller EXCEPT ![c] = [@ EXCEPT !.at = "answered", !.answer = caller[c].read]]
    /\ UNCHANGED <<domain, locked, made>>
\* GetEncryptionDomain, whose error is ignored: the handler panics on the nil
\* domain and the caller sees no answer.
Answer(c) ==
    /\ caller[c].at = "get"
    /\ \/ caller' = [caller EXCEPT ![c] = [@ EXCEPT !.at = "answered", !.answer = domain.generation]]
       \/ "db" \in Faults /\ caller' = [caller EXCEPT ![c] = Idle]
    /\ UNCHANGED <<domain, locked, made>>

\* The gateway dies; the transaction rolls back.
Crash ==
    /\ "crash" \in Faults
    /\ caller' = [c \in Callers |-> Idle]
    /\ locked' = FALSE
    /\ UNCHANGED <<domain, made>>

RotationNext ==
    \/ \E c \in Callers : GetDomain(c) \/ SelectForUpdate(c) \/ UpdateCommit(c) \/ Answer(c)
    \/ Crash

RotationSpec == RotationInit /\ [][RotationNext]_rotationVars

-----------------------------------------------------------------------------
(* Properties.                                                             *)

\* Each generation is made by exactly one committed rotation and the row names
\* the one before it, whatever fails or runs at the same time.
GenerationsUnbroken ==
    /\ \A g \in 1..MaxGeneration :
        made[g] = (IF g \in 2..domain.generation THEN 1 ELSE 0)
    /\ domain.prev = domain.generation - 1

\* The generation a rotation reports is its own or a later one.
AnswerNotBehind == \A c \in Callers : caller[c].at = "answered" => caller[c].answer >= caller[c].own

=============================================================================
