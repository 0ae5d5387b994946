# A TLA+ verification of kdrive

kdrive stores encrypted blobs: a gateway acknowledges a blob once it is in its
L1 cache and in the `blob_placements` table, and a worker later promotes it to
an S3-compatible durable store (L2). This directory holds TLA+ models of that
code and of the services around it, the TLC runs that check them on small
instances, and TLAPS proofs of the properties that matter most. `PROJECT.json`
maps every definition to the lines it models and lists runs, findings, hazards
and theorems.

## The system

| Part | Source (under `src/`) | State | Operations | Modelled in |
|---|---|---|---|---|
| Data plane | `internal/blobio/pipeline.go` | two singleflight maps, lifecycle context | Write, Read and its fill, Promote, Evict, Close | `BlobPipeline` |
| Multipart upload | the same, `promoteMultipart` | two channels, a context, a pool | reader, workers, collector, abort | `MultipartPromotion` |
| Status stores | `internal/metadata/status_store.go`, `pipeline.go` | `blob_placements` rows | Get, Put, MarkDurable, ListCachedPlacements | `BlobPipeline`, `WorkerJobs` |
| Disk cache | `pkg/hotcache/disk_cache.go` | two LRU lists, index, counters, files | Get, Put, Evict, warm-up | `LRUIndex` and `DiskCache`, contract in `HotCache` |
| Memory cache | `pkg/hotcache/memory_cache.go` | the same without files | Get, Put, Evict | `LRUIndex` and `MemoryCache`, contract in `HotCache` |
| Circuit breaker | `pkg/blobstore/s3/circuit_breaker.go` | four atomics and a mutex | Allow, RecordSuccess, RecordFailure | `CircuitBreaker`, contract in `BreakerContract` |
| S3 provider | `pkg/blobstore/s3/s3.go` | the bucket (external) | writes with their HEAD, retention, deletes, purge | `S3Store` |
| Development store | `pkg/blobstore/local_fs_dev/local.go` | versions, locks, multipart uploads, as files | the `BlobStore` interface | `LocalStore`, contract in `VersionedStore` |
| Worker | `internal/worker/` | batches, a pool, the life of the process | promotion sweeps, the other jobs' loops, Start, Stop, Close | `WorkerJobs` |
| Deduplication | `internal/metadata/content_store.go`, `internal/server/drive_dedup_api.go` | content entries and chunks | check, register, upload, commit | `ContentDedup` |
| Upload sessions | `internal/metadata/upload_session_store.go`, `internal/server/drive_api.go` | sessions with chunk lists | initiate, register a chunk | `UploadSessions` |
| Encryption domains | `internal/metadata/drive_store.go`, `internal/server/drive_api.go` | generation and envelope of a domain | read, rotate | `KeyDomains` |
| The rest | see "Not modelled" | | | no |

A gateway's `Write` puts the body in L1 as NonEvictable, inserts the row as
CACHED and returns (or, in synchronous mode, promotes first). The worker's
promotion job lists CACHED rows and calls `Promote` on a pipeline of its own:
HEAD, upload from its L1, `MarkDurable`, and a re-put of the entry as evictable.
`Read` serves L1, or restores from L2 under singleflight and fills L1 and the
row in the background. Every S3 request passes the circuit breaker.

What is hard here: goroutines, replicas and the worker act on one blob with no
common lock; every call may fail after it took effect; a process may die between
any two calls; a panic under singleflight is recovered; the cache evicts under
pressure while it holds only copies; the breaker reads its state without its
mutex; an upload's goroutines meet at bounded channels; registrations and
rotations read, compute and write back rows other requests change.

## Modules

**`BlobPipeline`**. One action is one call on a cache, the status store, the
durable store or a singleflight map, with the control flow up to the next call.
A goroutine's `pc` names the call it makes next: `w_` Write, `p_` Promote and
promoteLocked, `r_` Read and restoreFromL2, `f_` the fill, `e_` Evict. `sync`
marks a Write that promotes; `body` and `result` are the locals the code carries
from one call to the next. `promoting` and `restoring` are the `sync.Map`s, with
the three steps of a leader (its result, `close(done)`, `Delete`) apart, because
another caller may arrive between them. `acked` and `confirmed` are history
variables: what callers were told. Blob IDs are immutable, so all copies of a
blob are interchangeable and a body is its content, or the empty body a
recovered panic leaves. `Faults` chooses the failures of a run: store calls
(with or without effect), status calls (likewise), cache puts, unreadable
bodies, cancelled waiters, panics, crashes, Close. The upload is one step that
verifies what it stored; `WholeObject` of `MultipartPromotion` is what justifies
that for large blobs. `Sweep` is one row's promotion by the worker.
`PipelineConstants` declares the constants and their assumption, so that several
instances can be composed without repeating them.

**`MultipartPromotion`** is `promoteMultipart`: the reader that cuts the body
into parts, the pool that uploads them, and the promoter that collects results
and completes or aborts. Each channel operation is an action with its blocking
condition; `ctxDone` is the sub-context. A part is its number.

**`HotCache`** states what the cache promises the pipeline: while it makes room,
or trims itself after a restart, it gives up evictable entries of other blobs
only, and a Put endangers the entry it replaces and no other. The cache actions
of `BlobPipeline` are this contract seen from outside a call.

**`DiskCache`** and **`MemoryCache`** are the implementations. The statements
both caches have in common, on the index, the main and the hot list and the byte
counters, are the operators of **`LRUIndex`** on a record of these: `removed` is
removeLocked, `added` the end of a Put, `touched` a hit, `Full` and `Victims`
the eviction loops. A mutex serialises operations, so a Get or an Evict is one
action; a Put is cut into its eviction rounds and, on disk, where the process
may die with other files: after the rename of the body and after the metadata.
`DiskRestart` is the death of the process, readShards and the loading of
entries; the trim that ends warm is the same loop as in Put. On disk, files are
removed without fail; StoredAt values differ; a crash is that of the process,
not of the operating system; entries do not expire, since no caller sets a TTL.
In memory they may.

**`CircuitBreaker`** takes one action per atomic access. Loads under `mu` of
variables written only under `mu` are merged with the lock. `elapsed` stands for
the comparison of `openedAt` with the clock. `CallReturns` is an S3 request:
success, failure, or a client error, after which nothing is recorded.
**`BreakerContract`** is the breaker of the comments, one request at a time.

**`VersionedStore`** is the `BlobStore` interface as its documentation states
it: a set of immutable versions and delete markers, for each key the one with
the highest ID on top, versions that leave one at a time, retention that only grows but for an explicit clear that
compliance mode refuses. **`LocalStore`** is the development store over files: a
version is a body file and a sidecar, and every operation but `UploadPart` holds
one mutex, so an operation is cut only where a crash leaves other files. `op` is
the operation that holds the mutex, `listVersions` what the files stand for in
`VersionedStore`. A paged listing runs beside it: a page is the set of the first
`PageSize` keys after the cursor, and the next cursor is its greatest key.

**`S3Store`** is the provider over an external bucket, a set of versions each
request reads or changes atomically, possibly without the caller learning of it.
CompleteMultipart and CopyWithinProvider are followed by the HEAD that fills in
their result; `PurgeAllVersions` is one action per page listed and per
batch deleted, with the markers it passes. Keys are numbers such that k is a
prefix of every key from k on, the worst case for a listing by prefix. The
`refused` and `start` fields of a call are bookkeeping for the properties.

**`WorkerJobs`** has the promotion job (the batch of the oldest rows, from which
the pool takes the oldest first, and the results), the other jobs as loops that look at the context between two
items, and Start, Stop with its grace period, and Close around them. One
`Promote` is one step.

**`ContentDedup`**, **`UploadSessions`** and **`KeyDomains`** are request
handlers, cut where a request makes its next call on the database or on the
blob store. A transaction is a SELECT ... FOR UPDATE that waits for the row and
a COMMIT that releases it; a failed COMMIT may have taken effect. The first two
also run on the development maps (`Postgres`, `InDatabase` false), which a
restart loses. The
clients of `ContentDedup` belong to one tenant: content IDs are keyed by tenant,
so tenants are separate instances.

The MC modules give TLC its instances. `MCPipelines` and `MCPipelineLive` run
several instances of the pipeline, `MCComponents` and `MCWorker` several
components: a variable (`setting`, `part`) is chosen in the initial state and
says which one the behaviour belongs to, the others keep their initial state, and
a property says which parts it is about. The parts share no state, so this is
the sum of their state spaces and shows what separate runs would. A component
with a proof is extended, not instantiated, so that the property TLC checks is
the one the theorem names: `BlobPipeline` by the pipeline's MC modules,
`UploadSessions`, `ContentDedup`, `MultipartPromotion`, `LocalStore` and `S3Store`
by `MCComponents`, `CircuitBreaker`, `KeyDomains`, `WorkerJobs` and the caches by
`MCWorker`.
For this their `Init`, `Next` and `vars` have distinct names (`LocalInit`,
`S3Next`, ...).

Operators named `X_Y` beside an `X` are faulty variants of `X`, kept to show that
each property can fail; no specification uses them.

## Runs that pass

| Run | Part | Properties | Instance |
|---|---|---|---|
| `PipelineSafety` | crashing | `TypeOK`, `DurableIsStored`, `BodiesIntact`, `AckedNotLost`, `SingleFlight` | 2 blobs (one too large to restore and used by one goroutine at a time), 2 goroutines, crashes, disk, status and store failures |
| | replicated | the same | 3 goroutines, two of them on one replica and a writer on the other, rewrites, store and status failures |
| | closing | the same | 2 goroutines, rewrites, cancelled callers, Close, store and status failures |
| `PipelineLive` | panicking | `WaitersWake` | 2 goroutines that also evict, in-memory status, store failures, unreadable bodies, panics |
| | promoting | `WaitersWake`, `CachedGetsDurable` | 2 clients and a sweeper on one gateway |
| `BreakerConcurrent` | | `TypeOK`, `HalfOpenIsProbing`, `CallsReturn` | 3 goroutines, threshold 2 |
| `Components` | files, staged, locks | `BodyBehindSidecar`, `PartsWhole`, `ListingComplete`, `FilesKeepVersions` (refines `VersionedStore`) | 2 keys of 3 versions and a listing; 1 upload of 2 parts; 1 key under retention |
| | s3 | `ResultNamesItsVersion`, `PurgeComplete`, `PurgeKeepsOthers` | 2 clients, 2 keys, 3 versions, pages of 2 |
| | dedupPg, dedupMem | `CommitsStored`, `RowsAllOrNone` | 2 clients, 2 contents with a chunk in common, map limit 1 |
| | sessionsPg, sessionsMem | `AckedListed`, `ListedStored` | 3 requests, 1 session, 2 chunks |
| | multipart | `WholeObject`, `UploadSettled`, `BuffersBounded` | 5 parts, 2 workers, every failure |
| `Worker` | multipart | `PromoteReturns`, `ReaderStops` | 4 parts, 1 worker, every failure |
| | domains | `GenerationsUnbroken`, `AnswerNotBehind` | 3 callers, 4 generations |
| | jobs | `ClosedIsQuiet`, `NoStarvation`, `StopEnds` | 3 blobs of which 1 is lost, batches of 2, a pool of 2, 1 sweeper |
| | s3 | `PurgeEnds` | 2 clients, 2 keys, 2 versions, pages of 1 |
| | memory | `MemoryAccounting`, `MemoryKeepsPromise` (refines `HotCache`) | 3 blobs of sizes 1, 1 and 2 in 2 bytes, a hot region of 1, entries that expire |
| | disk | `Accounting`, `FilesMatchIndex`, `OverBudgetIsProtected`, `KeepsPromise` (refines `HotCache`) | the same without expiry; failures of the publish, the metadata and the open, crashes |
| | breaker | `KeepsContract` (refines `BreakerContract`), `Recovers` | 1 goroutine, threshold 16 |

The bounds. Blobs interact in the pipeline only through eviction, so one blob
covers singleflight and the row, and two cover pressure. Two goroutines give a
leader and a waiter; the third gives a caller that arrives between `close` and
`Delete`. Three blobs of sizes 1, 1 and 2 in two bytes make a Put evict more than
once and leave the cache over budget. The breaker's `failures` needs no bound: it
grows only while goroutines are between two accesses. Four parts fill both
channels of a pool of one (capacity 1 each, with one job in the worker's hand and
one in the reader's). Five make a pool of two reach its bound on buffers, since a
reader takes a buffer again to find that nothing is left, and leave a missing
part in the middle.
Three versions of two keys make a listing pass over a key that changes, and a
purge end in the middle of a key. Two contents with a chunk in common make one
upload reuse the other's blob; a map of one entry makes it evict. A batch of two
with one row that always fails leaves one place for which two rows compete.

In `PipelineSafety` nobody evicts, bodies can be opened, and rewrites do not meet
crashes, because `AckedNotLost` does not hold otherwise (see below). That
`DurableIsStored`, `BodiesIntact` and `SingleFlight` do hold there too is what
the proofs show.

Deadlock is not checked in `Components` and `Worker`, where calls are bounded
and an upload or a shutdown ends.

Fairness. Goroutines that can run do (weak fairness of `Step`, `Runs`,
`Promoter`, `Reader`, `Worker`, `Take`, `Collect`, `Purging`); every call on the
store returns, since requests carry a context. Go's mutex starves nobody (strong
fairness of `Locks` in `CircuitBreaker`). The ticker of `PromotionJob.Run`
recurs for as long as the worker lives (strong fairness of `Sweep`, weak
fairness of `Tick`), and when two cases of a `select` are ready Go chooses at
random, so a job does not miss the end of its context for ever (strong fairness
of the step that ends it). An upload, a listing or a request that is tried for
ever succeeds at some time (strong fairness of `PromotePut` reaching `p_mark`,
of `RunOnce` with a batch, of `Promote` per blob that is not lost, of
`CallReturns` with "ok"): without it an outage that never ends refutes every
progress property. `StopEnds` lets the grace period last as long as the jobs
need, and also allows it to run out.

## Runs that find a disagreement

Each checks one property that a comment or a document states; TLC finds a
behaviour of the code that violates it.

| Run | The statement | What the code does |
|---|---|---|
| `EvictRace` | Evict is a no-op on a blob that is not durable | it acts on a row it read earlier; a Write acknowledged in between loses its only copy |
| `SkipPinned` | promoted entries are re-put as evictable | not when the HEAD finds the object |
| `WorkerCache` | the next sweep promotes a CACHED row | the worker's own memory cache never holds the body |
| `BreakerSilent` | the probe closes or re-opens the breaker | a probe that ends in a client error does neither and keeps the slot for ever |
| `WorkerLeak` | no goroutine leaks when the collector returns early | a worker sends its result with no look at the context and blocks once `resultCh` is full |
| `PurgePages` | PurgeAllVersions deletes every version | the next page starts after the whole key, so a key with more versions than a page keeps the rest, and the purge returns nil |
| `TornRegister` | registering again is idempotent | entry and chunks are two transactions; after a failure of the second, a retry is answered as registered with no chunk rows |

The models also contain these behaviours, which no run isolates; the properties
above are stated so as not to promise otherwise:

- Evict ignores a failed status read (`EvictCheck`), so `AckedNotLost` is checked
  and proved only where nobody evicts; in the repository nobody does.
- After a recovered panic Promote returns nil to its leader, and a synchronous
  Write reports COMMITTED_DURABLE (`PromoteReturn`).
- On Postgres the fill's upsert is rejected, for want of `cached_at`
  (`FillStatus`).
- A Get that cannot open a body deletes the entry, NonEvictable or not
  (`DiskUnreadable`, `CacheMiss`).
- The hot list is not scanned while the main list has entries, so a cache may
  stay over budget beside an evictable hot entry (`Scanned`). The
  pipeline never pins.
- Hits never move an entry to the hot region (`touched`), which ARCHITECTURE.md
  says they do.
- With concurrent callers the breaker may admit two probes, leave Open before
  the reset timeout (`state` is stored before `openedAt`), and leave the slot
  taken by a request that was not a probe any more (`AllowLockHalf`).
- A multipart upload holds up to 2P + 1 part buffers for a parallelism of P
  (`BuffersBounded`): the reader has one in hand beside those of the queue and
  the pool.
- When as many rows fail for ever as a batch holds, newer rows are never listed
  (`ListCachedPlacements`); `NoStarvation` assumes fewer.
- When Stop's grace period runs out, the process exits under running jobs
  (`StopReturns`); `ClosedIsQuiet` is about a Stop that returned nil.
- A purge does not look at the refusals DeleteObjects reports (`Refused`), so
  `PurgeComplete` leaves out locked versions. It also requires that the key's
  versions fit in a page, which is what `PurgePages` is about.
- The HEAD after a copy names no version (`CopyWithinProvider`);
  `ResultNamesItsVersion` is about CompleteMultipart.
- Clearing a retention in the development store also drops a legal hold
  (`Updated`, admitted by `Clears`).
- Commit looks up only the blobs the client says it uploaded; blobs a client
  reuses are taken from the registration. `CommitsStored` therefore has clients
  that upload before they register (`UploadFirst`).
- A rotation does not say for which generation its envelope was made, so of two
  callers that read one generation the second stores an envelope of another key
  (`envelope` in `KeyDomains`). After a committed rotation, a failed read of the
  domain is ignored and the handler stops on the nil result (`Answer`).

## Proofs

The theorems hold for every set of blobs, replicas, goroutines, keys, sessions
and requests, every number of parts, versions and workers, every page size and
threshold, and every choice of failures. They rest on the named assumption of
each module and on what a theorem states beside it:

| Assumption | Says |
|---|---|
| `PipelineAssumption` | there is a blob; every goroutine has a replica and a set of operations; the other constants have their types |
| `BreakerAssumption` | the threshold is a positive number; a request succeeds, fails or ends in a client error |
| `MultipartAssumption` | the number of parts is a number, the pool finite and not empty |
| `DedupAssumption` | every content has a number of chunks; the two modes are Booleans |
| `LocalAssumption` | keys are positive numbers, finitely many; the locks given are retentions; the bounds are numbers |
| `S3Assumption` | keys are positive numbers; the bounds are numbers |
| `PolicyAssumption` | every blob has a size; the limits of a cache are numbers, 0 for none |

The pipeline:

- `TypeCorrect` and `SingleFlightHolds` (`BlobPipelineTypeProofs`). The type
  invariant is inductive as it stands; it is split into the cache, the flights,
  the locals and the rest, so that each action shows only what it disturbs.
  `SingleFlight` says nothing of who owns a call, so a Delete could remove
  another's. `FlightInv` adds that whoever is between LoadOrStore and Delete is
  the leader the map names; then two leaders of one blob are the same goroutine.
- `DurableIsStoredHolds` and `BodiesIntactHolds` (`BlobPipelineSafetyProofs`),
  without panics. `StoredInv` carries the knowledge that an object is stored
  along every path to a status update: at the program counters past an upload, a
  HEAD or a restore (`ReachedStored`), in a leader's or a waiter's result
  (`OutcomeStored`), and in the finished calls of the two maps (`CallsStored`).
  The assumption is needed: see the panic above.
- `AckedNotLostHolds` (the same module), under `LossFree`: nobody calls
  Evict (in the repository nobody does), bodies can be opened, no panics,
  rewrites only without crashes and disk failures, and a cache that crashes is a
  disk cache. `NoLossInv` adds that a Write past its cache.Put still has its
  entry (`WriteHeld`) and that, without rewrites, the entry it replaces is
  nobody's only copy (`WriterAlone`). It uses `StoredInv`: a re-put or a fill
  makes evictable only what is stored. Most steps are `Quiet` (nobody starts or
  resumes a Write), and `QuietStep` leaves them only the cache to account for.
  `EvictRace` shows what happens otherwise; a retried Write whose cache.Put
  fails after removing the entry is the remaining excluded loss.
- `WholeObjectHolds`, `UploadSettledHolds` and `BuffersBoundedHolds`
  (`S3Proofs`). That the completed object has every part is known
  only at the end, from a count of results and from `readErr`. `MultipartInv`
  says why they suffice: the parts the reader has sent are those in the queue, in
  a worker's hand, in `resultCh` and collected (`NoneDropped`); nothing has
  happened before the upload exists (`NotStarted`); a worker exits only after the
  reader and with the queue empty (`WorkersLast`); so a promoter past its checks
  has every part, and no reader runs that could find the body altered
  (`CheckedWhole`). `Ending` says what is known of the upload on the way out.

The stores:

- `BodyBehindSidecarHolds`, `PartsWholeHolds` and `ListingCompleteHolds`
  (`LocalStoreProofs`), over crashes at every cut. `LocalInv` relates the files
  to the operation that holds the mutex (`OpInv`): a version being published has
  its body in place and no sidecar yet, one being deleted has lost its sidecar
  before its body is unlinked. `AckedWhole` says that a part whose UploadPart has
  returned is not being written and is on disk as long as its upload is. For the listing, `ScanInv` says that of the keys listable since the
  listing began, those up to the cursor were seen, and that nothing beyond it
  was. That a page has a greatest key needs finiteness without induction: `Ranks`
  maps a set of numbers injectively to its ranks, and `FiniteMax` follows.
- `FilesKeepVersionsHolds` (`LocalStoreProofs`): the files implement
  `VersionedStore`. What the refinement needs beside `LocalInv` is `VersionInv`:
  while a version is being published no other ID is handed out, so that it comes
  on top, and no body has the content of a delete marker. Only the sidecar steps
  show in `listVersions`; every other step is a stutter (`FilesAlone`), and
  `PushKept`, `DropKept` and `RetainKept` turn a change of one sidecar into a step
  of `VersionedStore`.
- `ResultNamesItsVersionHolds`, `PurgeKeepsOthersHolds` and `PurgeCompleteHolds`
  (`S3Proofs`). `S3Inv` says that an ID names one version and none is newer than
  `newest` (`BucketInv`), and what a purge may rely on while others write
  (`PurgeInv`): past its first page, a version it began with and that is still
  there is listed for deletion or was refused, and what it lists is of its own
  key. `FirstPage` shows, by cardinality, that a page at least as large as
  the key's versions holds them all.
- `TypeCorrect` and `HalfOpenIsProbingHolds` for the breaker (`WorkerProofs`).
  `MutexInv` adds that whoever is inside the mutex is its holder and what it has
  stored so far, so that the store of the state and the store of the slot are not
  separated by another transition.
- `KeepsContractHolds` (`WorkerProofs`): with one caller (`Procs = {q}`) the breaker
  of atomics implements `BreakerContract`. `SequentialInv(q)` says what the
  caller knows at each access, so that the stores between the decisive one and
  the unlock are stutters; `RefinementStep` has one case per action. With more
  callers the refinement is false: see the races listed above.

The hot caches (`HotCacheProofs`, `DiskCacheProofs`), for any blobs, sizes,
limits, pins and faults:

- `MemoryAccountingHolds` and `AccountingHolds`. The properties say that the
  counters are `Bytes` of what is indexed. `Bytes` counts pairs of a blob and the
  number of a byte instead of summing sizes, so that adding or removing a blob is
  a fact about cardinalities (`BytesAdd`, `BytesRemove`) and needs no induction
  over a list. `RemovedBalanced`, `AddedBalanced` and `TouchedBalanced` are the
  three changes both caches make. `MemInv` and `DiskInv` add that the blob of a
  running Put has left the index, or adding its entry would count it twice.
- `FilesMatchIndexHolds` and `OverBudgetIsProtectedHolds`. `DiskInv` says, for
  each place a Put has reached, which files are ahead of the index (`BodyAhead`)
  and that from the end of the eviction loop to the new entry there is room or
  nothing evictable in the main list (`RoomMade`). `DiskRestarted` shows that
  every one of these cuts is a state from which the warm-up makes a balanced
  cache with matching files.
- `MemoryPromiseHolds` and `DiskPromiseHolds`: both caches implement `HotCache`.
  Under the mapping a replaced entry is there until its Put returns
  (`HeldFor`), so the rounds of the loops are `MakeRoom` and the steps on files
  stutter. A restart of the disk cache ends a Put with the new entry if the
  metadata was written and without one if not (`DiskRestarts`).

The request handlers (`GatewayProofs`) and the worker
(`WorkerProofs`):

- `RowsAllOrNoneHolds`, and `CommitsStoredHolds` for clients that upload before
  they register (`UploadFirst`); over Postgres and over the maps. `RowsInv` adds
  that a registration carries a key per chunk and that its entry, once made,
  stays (`Registering`); `PlansStored` that what the tables name is stored, and
  what a client plans to use but for what it has still to upload. Without `UploadFirst` the second does not hold: see Commit above.
- `AckedListedHolds` and `ListedStoredHolds`, with and without Postgres and under
  every fault. Neither property says that the list a transaction writes back is
  the current one with a chunk appended. `SessionInv` adds that it is (`RowLock`:
  between SELECT ... FOR UPDATE and COMMIT a request holds the row alone and what
  it read is what is there), that a request past store.Put has its ciphertext
  stored (`PutDone`), that one about to answer 200 is listed (`Appended`), and
  that a session without a row has an empty list (`NoRowNoList`), so that
  creating it loses nothing.
- `GenerationsUnbrokenHolds` and `AnswerNotBehindHolds`, for any number of
  concurrent rotations, failures and crashes. `RotationInv` adds that a rotation
  between its SELECT and its COMMIT is the only one and is about to make the
  generation after the row's, and that one past its COMMIT made a generation the
  row has reached (`Committed`). The bound on generations is any positive number.
- `ClosedIsQuietHolds`: for every pool, batch and number of sweepers. `JobsInv`
  adds that between two batches the pool has no work and nothing in hand, so that
  the end of the loops is the end of the pool.

Only model-checked: the liveness properties, which need fairness and so are out
of the prover's reach: `WaitersWake`, `CachedGetsDurable`, `CallsReturn`,
`PromoteReturns`, `ReaderStops`, `NoStarvation`, `StopEnds`, `PurgeEnds`,
`Recovers`. Every other property of the passing runs is a theorem.

## Not modelled

- File versions, outbox, erasure ledger and write intents of
  `internal/metadata/store.go`: no process calls these functions, so there is no
  order of calls to model.
- Folders, nodes, members and shares: each request inserts, revokes or reads
  single rows under fresh identifiers and none is deleted, so two requests have
  nothing to disagree about.
- The inside of the repair, purge, backup and guardrail jobs, which read, count
  and log, or run an external command; only their loops are in `WorkerJobs`.
- Storage guardrails: pure comparisons that no other package calls.
- The chat API (stateless over the blob store), the gateway's wiring, health and
  metrics, configuration, migrations, command lines.
- Within the modelled parts: TTL expiry on disk, statistics, HTTP and JSON,
  hashing and encryption; the data race on the pointer `MemoryStatusStore.Get`
  returns; the bucket, the database and the file system beyond what the code
  relies on.
