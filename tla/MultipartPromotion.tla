------------------------ MODULE MultipartPromotion ------------------------
(* Pipeline.promoteMultipart: a reader cuts the cached body into parts, a   *)
(* pool of workers uploads them, and the promoter collects the results and  *)
(* completes or aborts the upload.  The three meet at two bounded channels  *)
(* and at a context that is cancelled by the caller or when the promoter    *)
(* returns.  A part is its number; a body is its parts and whether what was *)
(* read has the recorded checksum.                                          *)
EXTENDS Naturals, Sequences, FiniteSetsExt

CONSTANTS
    NParts,          \* parts of the body, by its recorded size
    Workers,         \* the upload workers: multipartParallelism of them
    MultipartFaults  \* the failures of a run, a subset of PartFaults

\* A size is not negative, and there is at least one worker.
ASSUME MultipartAssumption ==
    /\ NParts \in Nat
    /\ IsFiniteSet(Workers) /\ Workers # {}

(* create, part, complete, abort - the store refuses the call, or does it   *)
(*                                 and the answer is lost                   *)
(* read   - reading the cached body fails                                   *)
(* rot    - the cached body is shorter than recorded, or was altered        *)
(* cancel - the caller's context is cancelled                               *)
PartFaults == {"create", "part", "complete", "abort", "read", "rot", "cancel"}

VARIABLES
    promoter,         \* the promoter: the call it makes next
    outcome,          \* what it returns
    ctxDone,          \* multipartCtx.Err() # nil
    reader,           \* the reader's next step
    partNum,          \* the part the reader works on
    last,             \* the part in hand ended with EOF
    intact,           \* the hash so far is that of the recorded content
    readErr,
    partCh,           \* jobs waiting for a worker
    resultCh,         \* results waiting for the promoter
    worker,           \* each worker's next step
    inHand,           \* the part each worker works on
    collected,        \* the keys of the results map
    multipartUpload,  \* the multipart upload, as the store knows it
    uploaded,         \* the parts the store holds for it
    object,           \* the parts of the completed object
    lost              \* an answer of the store was lost, or it refused to abort

local == <<promoter, outcome, collected>>
reading == <<reader, partNum, last, intact, readErr>>
pool == <<partCh, resultCh, worker, inHand>>
remote == <<multipartUpload, uploaded, object, lost>>
multipartVars == <<local, ctxDone, reading, pool, remote>>

Parallelism == Cardinality(Workers)
Parts == 1..NParts
NoPart == 0

MultipartInit ==
    /\ promoter = "create" /\ outcome = "none" /\ collected = {}
    /\ ctxDone = FALSE
    /\ reader = "off" /\ partNum = 1 /\ last = FALSE /\ intact = TRUE /\ readErr = FALSE
    /\ partCh = <<>> /\ resultCh = <<>>
    /\ worker = [w \in Workers |-> "off"]
    /\ inHand = [w \in Workers |-> NoPart]
    /\ multipartUpload = "none" /\ uploaded = {} /\ object = {} /\ lost = FALSE

-----------------------------------------------------------------------------
(* The promoter.                                                           *)

\* return err, once the deferred abort is registered.
Fail == promoter' = "abort" /\ outcome' = "err"

\* CreateMultipart; on success the workers, the reader and the collector start.
StartUpload ==
    /\ promoter = "create"
    /\ \/ /\ multipartUpload' = "open"
          /\ promoter' = "collect"
          /\ reader' = "check"
          /\ worker' = [w \in Workers |-> "receive"]
          /\ UNCHANGED <<outcome, lost>>
       \/ /\ "create" \in MultipartFaults \/ ctxDone
          /\ multipartUpload' \in {"none", "open"}
          /\ lost' = (multipartUpload' = "open")
          /\ promoter' = "cancel" /\ outcome' = "err"
          /\ UNCHANGED <<reader, worker>>
    /\ UNCHANGED <<collected, ctxDone, partNum, last, intact, readErr,
                   partCh, resultCh, inHand, uploaded, object>>

\* case res := <-resultCh
Collect ==
    /\ promoter = "collect"
    /\ resultCh # <<>>
    /\ resultCh' = Tail(resultCh)
    /\ collected' = collected \cup {Head(resultCh).part}
    /\ IF Head(resultCh).ok THEN UNCHANGED <<promoter, outcome>> ELSE Fail
    /\ UNCHANGED <<ctxDone, reading, partCh, worker, inHand, remote>>

\* Every part up to the last one collected has a result.
NoneMissing(parts) == parts = {} \/ parts = 1..Max(parts)

Drain_NoReadErr ==
    /\ promoter = "collect"
    /\ \A w \in Workers : worker[w] = "exit"
    /\ resultCh' = <<>>
    /\ collected' = collected \cup {res.part : res \in Range(resultCh)}
    /\ IF /\ \A res \in Range(resultCh) : res.ok
          /\ NoneMissing(collected')
       THEN promoter' = "complete" /\ UNCHANGED outcome
       ELSE Fail
    /\ UNCHANGED <<ctxDone, reading, partCh, worker, inHand, remote>>
\* case <-workersDone: nothing runs beside the promoter any more.  It drains
\* resultCh and checks the read error, the part list and the checksum.
Drain ==
    /\ promoter = "collect"
    /\ \A w \in Workers : worker[w] = "exit"
    /\ resultCh' = <<>>
    /\ collected' = collected \cup {res.part : res \in Range(resultCh)}
    /\ IF /\ \A res \in Range(resultCh) : res.ok
          /\ ~readErr
          /\ NoneMissing(collected')
          /\ intact /\ (partNum = NParts + 1)
       THEN promoter' = "complete" /\ UNCHANGED outcome
       ELSE Fail
    /\ UNCHANGED <<ctxDone, reading, partCh, worker, inHand, remote>>

\* case <-multipartCtx.Done()
CollectCancelled ==
    /\ promoter = "collect"
    /\ ctxDone
    /\ Fail
    /\ UNCHANGED <<collected, ctxDone, reading, pool, remote>>

\* CompleteMultipart assembles the listed parts, all of which must be there.
CompleteUpload ==
    /\ promoter = "complete"
    /\ \/ /\ collected \subseteq uploaded /\ multipartUpload = "open"
          /\ multipartUpload' = "completed" /\ object' = collected
          /\ \/ promoter' = "cancel" /\ outcome' = "ok" /\ UNCHANGED lost
             \/ /\ "complete" \in MultipartFaults \/ ctxDone
                /\ Fail /\ lost' = TRUE
       \/ /\ "complete" \in MultipartFaults \/ ctxDone \/ ~(collected \subseteq uploaded)
          /\ Fail
          /\ UNCHANGED <<multipartUpload, object, lost>>
    /\ UNCHANGED <<collected, ctxDone, reading, pool, uploaded>>

AbortUpload_Skipped ==
    /\ promoter = "abort"
    /\ promoter' = "cancel"
    /\ UNCHANGED <<outcome, collected, ctxDone, reading, pool, remote>>
\* The deferred abort, with a context of its own.  It runs before the deferred
\* cancel, so parts may still be on their way.
AbortUpload ==
    /\ promoter = "abort"
    /\ promoter' = "cancel"
    /\ \/ /\ multipartUpload' = (IF multipartUpload = "open" THEN "aborted" ELSE multipartUpload)
          /\ uploaded' = {}
          /\ UNCHANGED lost
       \/ "abort" \in MultipartFaults /\ lost' = TRUE /\ UNCHANGED <<multipartUpload, uploaded>>
    /\ UNCHANGED <<outcome, collected, ctxDone, reading, pool, object>>

\* The deferred cancel of multipartCtx.
Cancel ==
    /\ promoter = "cancel"
    /\ promoter' = "done"
    /\ ctxDone' = TRUE
    /\ UNCHANGED <<outcome, collected, reading, pool, remote>>

-----------------------------------------------------------------------------
(* The reader.  It holds a pooled buffer while it reads and sends.         *)

ReaderExits(err) == reader' = "exit" /\ readErr' = err

\* The context is looked at before each part.
CheckContext ==
    /\ reader = "check"
    /\ IF ctxDone THEN ReaderExits(TRUE) ELSE reader' = "read" /\ UNCHANGED readErr
    /\ UNCHANGED <<local, ctxDone, partNum, last, intact, pool, remote>>

\* io.ReadFull: a part, which is the last one when it is short; nothing, after
\* a body that is a multiple of the part size; or an error.
ReadPart ==
    /\ reader = "read"
    /\ \/ partNum <= NParts /\ reader' = "send"
          /\ last' \in {FALSE, partNum = NParts}
          /\ intact' \in (IF "rot" \in MultipartFaults THEN {intact, FALSE} ELSE {intact})
          /\ UNCHANGED readErr
       \/ /\ partNum > NParts \/ "rot" \in MultipartFaults
          /\ ReaderExits(FALSE) /\ UNCHANGED <<last, intact>>
       \/ /\ "read" \in MultipartFaults \/ ctxDone
          /\ ReaderExits(TRUE) /\ UNCHANGED <<last, intact>>
    /\ UNCHANGED <<local, ctxDone, partNum, pool, remote>>

SendPart_Unbounded ==
    /\ reader = "send"
    /\ partCh' = Append(partCh, partNum)
    /\ partNum' = partNum + 1
    /\ IF last THEN ReaderExits(FALSE) ELSE reader' = "check" /\ UNCHANGED readErr
    /\ UNCHANGED <<local, ctxDone, last, intact, resultCh, worker, inHand, remote>>
SendPart_NoSelect ==
    /\ reader = "send"
    /\ Len(partCh) < Parallelism
    /\ partCh' = Append(partCh, partNum)
    /\ partNum' = partNum + 1
    /\ IF last THEN ReaderExits(FALSE) ELSE reader' = "check" /\ UNCHANGED readErr
    /\ UNCHANGED <<local, ctxDone, last, intact, resultCh, worker, inHand, remote>>
\* select: the job goes to partCh, or the context is done.
SendPart ==
    /\ reader = "send"
    /\ \/ /\ Len(partCh) < Parallelism
          /\ partCh' = Append(partCh, partNum)
          /\ partNum' = partNum + 1
          /\ IF last THEN ReaderExits(FALSE) ELSE reader' = "check" /\ UNCHANGED readErr
       \/ ctxDone /\ ReaderExits(TRUE) /\ UNCHANGED <<partCh, partNum>>
    /\ UNCHANGED <<local, ctxDone, last, intact, resultCh, worker, inHand, remote>>

-----------------------------------------------------------------------------
(* A worker.  It holds a job's buffer until the upload has returned.       *)

Receive_NotClosed(w) ==
    /\ worker[w] = "receive"
    /\ \/ /\ partCh # <<>>
          /\ partCh' = Tail(partCh)
          /\ inHand' = [inHand EXCEPT ![w] = Head(partCh)]
          /\ worker' = [worker EXCEPT ![w] = IF ctxDone THEN "sendErr" ELSE "upload"]
       \/ /\ partCh = <<>> /\ reader = "exit" /\ ~readErr
          /\ worker' = [worker EXCEPT ![w] = "exit"]
          /\ UNCHANGED <<partCh, inHand>>
    /\ UNCHANGED <<local, ctxDone, reading, resultCh, remote>>
\* range partCh: a job, unless the context is done; the end, once it is closed.
Receive(w) ==
    /\ worker[w] = "receive"
    /\ \/ /\ partCh # <<>>
          /\ partCh' = Tail(partCh)
          /\ inHand' = [inHand EXCEPT ![w] = Head(partCh)]
          /\ worker' = [worker EXCEPT ![w] = IF ctxDone THEN "sendErr" ELSE "upload"]
       \/ /\ partCh = <<>> /\ reader = "exit"
          /\ worker' = [worker EXCEPT ![w] = "exit"]
          /\ UNCHANGED <<partCh, inHand>>
    /\ UNCHANGED <<local, ctxDone, reading, resultCh, remote>>

\* UploadPart, with or without effect when it fails.
UploadJob(w) ==
    /\ worker[w] = "upload"
    /\ \/ /\ multipartUpload = "open"
          /\ uploaded' = uploaded \cup {inHand[w]}
          /\ worker' = [worker EXCEPT ![w] = "sendOk"]
       \/ /\ "part" \in MultipartFaults \/ ctxDone \/ multipartUpload # "open"
          /\ worker' = [worker EXCEPT ![w] = "sendErr"]
          /\ \/ UNCHANGED uploaded
             \/ multipartUpload = "open" /\ uploaded' = uploaded \cup {inHand[w]}
    /\ UNCHANGED <<local, ctxDone, reading, partCh, resultCh, inHand, multipartUpload, object, lost>>

\* resultCh <- partResult{...}, with no select on the context.
SendResult(w) ==
    /\ worker[w] \in {"sendOk", "sendErr"}
    /\ Len(resultCh) < Parallelism
    /\ resultCh' = Append(resultCh, [part |-> inHand[w], ok |-> worker[w] = "sendOk"])
    /\ worker' = [worker EXCEPT ![w] = "receive"]
    /\ inHand' = [inHand EXCEPT ![w] = NoPart]
    /\ UNCHANGED <<local, ctxDone, reading, partCh, remote>>

-----------------------------------------------------------------------------
\* The caller gives up.
CallerCancels ==
    /\ "cancel" \in MultipartFaults
    /\ promoter # "done" /\ ~ctxDone
    /\ ctxDone' = TRUE
    /\ UNCHANGED <<local, reading, pool, remote>>

Promoter ==
    \/ StartUpload \/ Collect \/ Drain \/ CollectCancelled
    \/ CompleteUpload \/ AbortUpload \/ Cancel
Reader == CheckContext \/ ReadPart \/ SendPart
Worker(w) == Receive(w) \/ UploadJob(w) \/ SendResult(w)

MultipartNext == Promoter \/ Reader \/ (\E w \in Workers : Worker(w)) \/ CallerCancels

MultipartSpec == MultipartInit /\ [][MultipartNext]_multipartVars

\* Goroutines that can run do, and every call on the store returns: requests
\* carry a context and the HTTP client has a timeout.
MultipartFairness ==
    /\ WF_multipartVars(Promoter)
    /\ WF_multipartVars(Reader)
    /\ \A w \in Workers : WF_multipartVars(Worker(w))

MultipartFairSpec == MultipartSpec /\ MultipartFairness

-----------------------------------------------------------------------------
(* Properties.                                                             *)

\* An object becomes visible only with every part of the recorded content, and
\* promoteMultipart reports success only for such an object: neither a part
\* that failed, nor a body that ended early, nor a cancelled reader is missed.
WholeObject ==
    /\ object # {} => object = Parts /\ intact
    /\ outcome = "ok" => object = Parts /\ multipartUpload = "completed"

\* When promoteMultipart has returned, the store keeps no unfinished upload,
\* unless an answer of the store was lost or it refused to abort: every error
\* path after CreateMultipart reaches the deferred abort.
UploadSettled == promoter = "done" => multipartUpload # "open" \/ lost

\* Pooled part buffers in use: one per queued job, one per upload under way,
\* one in the reader's hand, however many parts the body has.
BuffersBounded ==
    Len(partCh) + Cardinality({w \in Workers : worker[w] = "upload"})
        + Cardinality({reader} \cap {"read", "send"}) <= 2 * Parallelism + 1

\* promoteMultipart returns: no cycle of full channels blocks the promoter.
PromoteReturns == <>(promoter = "done")

\* The reader goroutine ends after promoteMultipart has returned, although
\* nobody takes its jobs any more.
ReaderStops == (promoter = "done") ~> (reader \in {"off", "exit"})

\* After promoteMultipart has returned, every upload worker ends.
WorkersStop == (promoter = "done") ~> (\A w \in Workers : worker[w] \in {"off", "exit"})

=============================================================================
