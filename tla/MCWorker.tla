------------------------------ MODULE MCWorker ------------------------------
(* What has to come to an end, for TLC: the upload of a large blob, the     *)
(* worker's jobs and its shutdown, a purge, and the breaker of a store; and *)
(* the rotation of a key and the two hot caches.  As in MCComponents a      *)
(* behaviour picks one part and runs it alone.                              *)
EXTENDS CircuitBreaker, KeyDomains, WorkerJobs, MemoryCache, DiskCache

VARIABLES
    part,
    promoter, outcome, ctxDone, reader, partNum, last, intact, readErr,
    partCh, resultCh, worker, inHand, collected, multipartUpload, uploaded, object, lost,
    bucket, newest, call, answer

multipart == <<promoter, outcome, ctxDone, reader, partNum, last, intact, readErr,
               partCh, resultCh, worker, inHand, collected, multipartUpload, uploaded, object, lost>>
s3 == <<bucket, newest, call, answer>>
caches == <<memVars, diskVars>>
parts == <<part, vars, rotationVars, jobsVars, multipart, s3, caches>>

-----------------------------------------------------------------------------
\* One upload worker and more parts than buffers.
Multipart == INSTANCE MultipartPromotion WITH
    NParts <- 4, Workers <- {"w1"},
    MultipartFaults <- {"create", "part", "complete", "abort", "read", "rot", "cancel"}

\* Pages of one version.
S3 == INSTANCE S3Store WITH
    ObjectKeys <- {1, 2}, MaxObjects <- 2, MaxKeys <- 1, Callers <- {"c1", "c2"},
    RequestFaults <- {"request", "head"}

\* Three blobs, two of them as large as the third.
BlobSizes == <<1, 1, 2>>

-----------------------------------------------------------------------------
PartsInit ==
    /\ part \in {"multipart", "jobs", "s3", "breaker", "domains", "memory", "disk"}
    /\ Multipart!MultipartInit /\ JobsInit /\ S3!S3Init /\ Init /\ RotationInit
    /\ MemInit /\ DiskInit

NextEnding ==
    \/ part = "multipart" /\ Multipart!MultipartNext /\ UNCHANGED <<jobsVars, s3, vars>>
    \/ part = "jobs" /\ JobsNext /\ UNCHANGED <<multipart, s3, vars>>
    \/ part = "s3" /\ S3!S3Next /\ UNCHANGED <<multipart, jobsVars, vars>>
    \/ part = "breaker" /\ Next /\ UNCHANGED <<multipart, jobsVars, s3>>

NextSafe ==
    \/ part = "domains" /\ RotationNext /\ UNCHANGED <<memVars, diskVars>>
    \/ part = "memory" /\ MemNext /\ UNCHANGED <<rotationVars, diskVars>>
    \/ part = "disk" /\ DiskNext /\ UNCHANGED <<rotationVars, memVars>>

PartsNext ==
    /\ UNCHANGED part
    /\ \/ NextEnding /\ UNCHANGED <<rotationVars, caches>>
       \/ NextSafe /\ UNCHANGED <<multipart, jobsVars, s3, vars>>

\* The fairness of each part while it runs.
FairMultipart ==
    /\ WF_multipart(part = "multipart" /\ Multipart!Promoter)
    /\ WF_multipart(part = "multipart" /\ Multipart!Reader)
    /\ WF_multipart(part = "multipart" /\ Multipart!Worker("w1"))

FairJobs ==
    /\ WF_jobsVars(part = "jobs" /\ RunOnce)
    /\ SF_jobsVars(part = "jobs" /\ RunOnce /\ job' = "pool")
    /\ WF_jobsVars(part = "jobs" /\ Collect)
    /\ WF_jobsVars(part = "jobs" /\ Tick)
    /\ SF_jobsVars(part = "jobs" /\ Tick /\ job' = "ended")
    /\ \A g \in Pool :
        /\ WF_jobsVars(part = "jobs" /\ Take(g))
        /\ WF_jobsVars(part = "jobs" /\ Promote(g))
    /\ \A b \in Blobs \ Lost :
        SF_jobsVars(/\ part = "jobs"
                    /\ \E g \in Pool : Promote(g) /\ hand[g] = b /\ row'[b] = "DURABLE")
    /\ \A s \in Sweepers :
        /\ WF_jobsVars(part = "jobs" /\ Sweeping(s))
        /\ SF_jobsVars(part = "jobs" /\ StartSweep(s) /\ sweeper'[s] = "ended")
    /\ WF_jobsVars(part = "jobs" /\ StopReturns /\ life' = "stopped")
    /\ WF_jobsVars(part = "jobs" /\ Close)

\* With one caller the mutex is never contended.
FairBreaker ==
    /\ WF_vars(part = "breaker" /\ TimePasses)
    /\ \A p \in Procs :
        /\ WF_vars(part = "breaker" /\ Runs(p))
        /\ WF_vars(part = "breaker" /\ Allow(p))
        /\ WF_vars(part = "breaker" /\ Locks(p))
        /\ WF_vars(part = "breaker" /\ \E o \in Outcomes : CallReturns(p, o))
        /\ SF_vars(part = "breaker" /\ CallReturns(p, "ok"))

PartsFairness ==
    /\ FairMultipart /\ FairJobs /\ FairBreaker
    /\ \A c \in {"c1", "c2"} : WF_s3(part = "s3" /\ S3!Purging(c))

PartsSpec == PartsInit /\ [][PartsNext]_parts /\ PartsFairness

-----------------------------------------------------------------------------
(* The properties are those of the modules; these are about instances.     *)

\* MultipartPromotion: promoteMultipart returns.
PromoteReturns == part = "multipart" ~> promoter = "done"

\* MultipartPromotion: its reader ends when nobody takes its jobs any more.
ReaderStops == Multipart!ReaderStops

\* S3Store: a purge ends although others keep writing.
PurgeEnds == S3!PurgeEnds

=============================================================================
