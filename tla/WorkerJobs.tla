---------------------------- MODULE WorkerJobs ----------------------------
(* The background worker: the promotion job with its batches and its pool,  *)
(* the other jobs as loops that look at the context between two items, and  *)
(* Start, Stop and Close around them.  Blobs are numbered in the order of   *)
(* cached_at.  One Promote is a step that makes the row durable or fails;   *)
(* what it does in between is the subject of BlobPipeline.                  *)
EXTENDS Naturals, FiniteSetsExt

CONSTANTS
    Blobs,         \* 1..n, oldest first
    Batch,         \* batchSize
    Pool,          \* the pool's goroutines: parallelism of them
    Lost,          \* blobs that every Promote fails on
    MaxRewrites,   \* bound: writes that make a durable row CACHED again
    Sweepers,      \* the other jobs: repair, purge, backup, guardrail_rollup
    Items,         \* bound: samples or pages of one sweep of theirs
    JobFaults      \* subset of {"list", "promote", "timeout"}

VARIABLES
    row,           \* per blob: "none", "CACHED" or "DURABLE"
    rewrites,
    job,           \* the promotion job: "list", "pool", "wait" or "ended"
    work,          \* workCh: what no goroutine has taken yet; it hands out the oldest
    hand,          \* what each goroutine of the pool promotes; 0: nothing
    results,       \* results in resultCh and already collected
    size,          \* len(placements)
    left,          \* per sweeper, the items of its sweep; "wait", "ended" aside
    sweeper,
    cancelled,     \* the context of the jobs
    life           \* of the worker: "started", "stopping", "stopped", "timedOut", "closed"

rows == <<row, rewrites>>
pool == <<job, work, hand, results, size>>
sweeps == <<left, sweeper>>
jobsVars == <<rows, pool, sweeps, cancelled, life>>

JobsInit ==
    /\ row = [b \in Blobs |-> "none"] /\ rewrites = 0
    /\ job = "list" /\ work = {} /\ hand = [g \in Pool |-> 0] /\ results = 0 /\ size = 0
    /\ left = [s \in Sweepers |-> 0] /\ sweeper = [s \in Sweepers |-> "wait"]
    /\ cancelled = FALSE /\ life = "started"

-----------------------------------------------------------------------------
\* A gateway acknowledges a write: a new row, or an old one CACHED again.  The
\* upsert leaves cached_at alone, so the row keeps its place in the order.
Write(b) ==
    /\ row[b] # "CACHED"
    /\ \A older \in Blobs : older < b => row[older] # "none"
    /\ IF row[b] = "none" THEN UNCHANGED rewrites
       ELSE rewrites < MaxRewrites /\ rewrites' = rewrites + 1
    /\ row' = [row EXCEPT ![b] = "CACHED"]
    /\ UNCHANGED <<pool, sweeps, cancelled, life>>

Cached == {b \in Blobs : row[b] = "CACHED"}

ListCachedPlacements_Short ==
    {b \in Cached : Cardinality({older \in Cached : older < b}) < Batch - 1}
\* ORDER BY cached_at LIMIT batchSize.
ListCachedPlacements ==
    {b \in Cached : Cardinality({older \in Cached : older < b}) < Batch}

\* runOnce lists the batch and starts the pool, unless there is nothing to do
\* or the query fails.
RunOnce ==
    /\ job = "list"
    /\ LET batch == ListCachedPlacements
       IN  \/ /\ batch # {}
              /\ job' = "pool" /\ work' = batch /\ size' = Cardinality(batch)
           \/ /\ batch = {} \/ "list" \in JobFaults \/ cancelled
              /\ job' = "wait" /\ UNCHANGED <<work, size>>
    /\ results' = 0
    /\ UNCHANGED <<rows, hand, sweeps, cancelled, life>>

\* A goroutine of the pool takes a placement; after a cancellation it only
\* reports it.
Take(g) ==
    /\ job = "pool" /\ hand[g] = 0 /\ work # {}
    /\ work' = work \ {Min(work)}
    /\ IF cancelled
       THEN results' = results + 1 /\ UNCHANGED hand
       ELSE hand' = [hand EXCEPT ![g] = Min(work)] /\ UNCHANGED results
    /\ UNCHANGED <<rows, job, size, sweeps, cancelled, life>>

\* Promote returns and its result is sent; resultCh has room for all.
Promote(g) ==
    /\ hand[g] # 0
    /\ \/ hand[g] \notin Lost /\ row' = [row EXCEPT ![hand[g]] = "DURABLE"]
       \/ hand[g] \in Lost \cup (IF "promote" \in JobFaults \/ cancelled THEN Blobs ELSE {})
          /\ UNCHANGED row
    /\ hand' = [hand EXCEPT ![g] = 0]
    /\ results' = results + 1
    /\ UNCHANGED <<rewrites, job, work, size, sweeps, cancelled, life>>

\* resultCh is closed and drained: the batch is complete.
Collect ==
    /\ job = "pool"
    /\ work = {} /\ \A g \in Pool : hand[g] = 0
    /\ job' = "wait"
    /\ UNCHANGED <<rows, work, hand, results, size, sweeps, cancelled, life>>

Tick_NoContext ==
    /\ job = "wait"
    /\ job' = "list"
    /\ UNCHANGED <<rows, work, hand, results, size, sweeps, cancelled, life>>
\* Run's select: the ticker, or the end of the context.
Tick ==
    /\ job = "wait"
    /\ \/ job' = "list"
       \/ cancelled /\ job' = "ended"
    /\ UNCHANGED <<rows, work, hand, results, size, sweeps, cancelled, life>>

-----------------------------------------------------------------------------
\* The other jobs: a tick starts a sweep over a number of items, and the
\* context is looked at before each one.
StartSweep(s) ==
    /\ sweeper[s] = "wait"
    /\ \/ /\ \E n \in 0..Items : left' = [left EXCEPT ![s] = n]
          /\ sweeper' = [sweeper EXCEPT ![s] = "sweep"]
       \/ /\ cancelled
          /\ sweeper' = [sweeper EXCEPT ![s] = "ended"]
          /\ UNCHANGED left
    /\ UNCHANGED <<rows, pool, cancelled, life>>

Sweep(s) ==
    /\ sweeper[s] = "sweep"
    /\ IF left[s] = 0 \/ cancelled
       THEN sweeper' = [sweeper EXCEPT ![s] = "wait"] /\ left' = [left EXCEPT ![s] = 0]
       ELSE left' = [left EXCEPT ![s] = @ - 1] /\ UNCHANGED sweeper
    /\ UNCHANGED <<rows, pool, cancelled, life>>

-----------------------------------------------------------------------------
(* Stop and Close, as the main function calls them after a signal.         *)

AllEnded == job = "ended" /\ \A s \in Sweepers : sweeper[s] = "ended"

Stop ==
    /\ life = "started"
    /\ life' = "stopping"
    /\ cancelled' = TRUE
    /\ UNCHANGED <<rows, pool, sweeps>>

StopReturns_NoWait ==
    /\ life = "stopping"
    /\ life' = "stopped"
    /\ UNCHANGED <<rows, pool, sweeps, cancelled>>
\* wg.Wait is over, or the grace period.
StopReturns ==
    /\ life = "stopping"
    /\ \/ AllEnded /\ life' = "stopped"
       \/ "timeout" \in JobFaults /\ life' = "timedOut"
    /\ UNCHANGED <<rows, pool, sweeps, cancelled>>

\* Close of the pipeline, the cache and the database.  After a timeout the
\* process ends here, whatever still runs.
Close ==
    /\ life \in {"stopped", "timedOut"}
    /\ life' = IF life = "stopped" THEN "closed" ELSE "exited"
    /\ UNCHANGED <<rows, pool, sweeps, cancelled>>

Promotion == RunOnce \/ (\E g \in Pool : Take(g) \/ Promote(g)) \/ Collect \/ Tick
Sweeping(s) == StartSweep(s) \/ Sweep(s)

JobsNext ==
    \/ \E b \in Blobs : Write(b)
    \/ life # "exited" /\ (Promotion \/ \E s \in Sweepers : Sweeping(s))
    \/ Stop \/ StopReturns \/ Close

JobsSpec == JobsInit /\ [][JobsNext]_jobsVars

\* Tickers fire and calls return.  Promote is tried again by a later sweep, and
\* a store that can be reached does not refuse the same blob for ever.  When
\* both cases of the select are ready Go picks one at random, so the jobs do
\* not miss the end of the context for ever.  The grace period of Stop may be
\* as long as the jobs need.
JobsFairness ==
    /\ WF_jobsVars(RunOnce) /\ SF_jobsVars(RunOnce /\ job' = "pool")
    /\ WF_jobsVars(Collect) /\ WF_jobsVars(Tick) /\ SF_jobsVars(Tick /\ job' = "ended")
    /\ \A g \in Pool : WF_jobsVars(Take(g)) /\ WF_jobsVars(Promote(g))
    /\ \A b \in Blobs \ Lost :
        SF_jobsVars(\E g \in Pool : Promote(g) /\ hand[g] = b /\ row'[b] = "DURABLE")
    /\ \A s \in Sweepers :
        /\ WF_jobsVars(Sweeping(s)) /\ SF_jobsVars(StartSweep(s) /\ sweeper'[s] = "ended")
    /\ WF_jobsVars(StopReturns /\ life' = "stopped") /\ WF_jobsVars(Close)

JobsFairSpec == JobsSpec /\ JobsFairness

-----------------------------------------------------------------------------
(* Properties.                                                             *)

\* Every CACHED row that can be promoted becomes durable while the worker runs,
\* although batches are limited to the oldest rows, some of those fail every
\* time, uploads fail now and then and older rows come back; provided fewer
\* rows fail for ever than a batch holds.
NoStarvation ==
    \A b \in Blobs \ Lost :
        (row[b] = "CACHED" /\ ~cancelled) ~> (row[b] = "DURABLE" \/ cancelled)

\* Once Stop has returned nil and the pipeline is closed, no job is in the
\* middle of a promotion or of a sweep.
ClosedIsQuiet ==
    life = "closed" =>
        /\ \A g \in Pool : hand[g] = 0
        /\ work = {} /\ AllEnded

\* A shutdown comes to its end: no job blocks Stop, whatever it was doing.
StopEnds == (life = "stopping") ~> (life \in {"closed", "exited"})

=============================================================================
