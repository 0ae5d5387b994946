---------------------------- MODULE MCComponents ----------------------------
(* The safety of the stores, the request handlers of the gateway and the    *)
(* upload of a large blob, for TLC.  They share no state, so a behaviour    *)
(* picks one part and runs it alone: the state space is the sum of theirs.  *)
(* Instances of one module use the same variables.                          *)
EXTENDS UploadSessions, ContentDedup, MultipartPromotion, LocalStore, S3Store, TLC

VARIABLE part

stores == <<localVars, s3Vars>>
services == <<dedupVars, multipartVars, vars>>
parts == <<part, stores, services>>

-----------------------------------------------------------------------------
(* LocalStore with two keys of up to three versions and a reconciler that   *)
(* lists them; with one key and an upload of up to two parts; and with one  *)
(* key under retention.  The properties are those of the whole store.       *)
Files == INSTANCE LocalStore WITH
    Uploads <- {}, MaxParts <- 0, Specs <- {NoLock}, MaxDate <- 0
Staged == INSTANCE LocalStore WITH
    Keys <- {1}, Specs <- {NoLock}, MaxDate <- 0, PageSize <- 0

Governed == [mode |-> "GOVERNANCE", until |-> 1, hold |-> TRUE]
Compliant == [mode |-> "COMPLIANCE", until |-> 2, hold |-> FALSE]
RetentionSpecs == {NoLock, Governed, Compliant}
Locks == INSTANCE LocalStore WITH
    Keys <- {1}, MaxVersions <- 2, Uploads <- {}, MaxParts <- 0,
    PageSize <- 0, FileFaults <- {"sidecar"}

\* Two contents with a chunk in common, over Postgres or over the maps.
Hashes == <<<<1, 2>>, <<1, 3>>>>
DedupMap == INSTANCE ContentDedup WITH InDatabase <- FALSE

\* The sessions of UploadSessions are over Postgres, these over the map.
SessionMap == INSTANCE UploadSessions WITH Postgres <- FALSE

-----------------------------------------------------------------------------
PartsInit ==
    /\ part \in {"files", "staged", "locks", "s3", "dedupPg", "dedupMem",
                "sessionsPg", "sessionsMem", "multipart"}
    /\ IF part = "staged" THEN Staged!LocalInit ELSE Files!LocalInit
    /\ S3Init
    /\ DedupInit /\ MultipartInit /\ Init

NextStores ==
    \/ /\ \/ part = "files" /\ Files!LocalNext
          \/ part = "staged" /\ Staged!LocalNext
          \/ part = "locks" /\ Locks!LocalNext
       /\ UNCHANGED s3Vars
    \/ part = "s3" /\ S3Next /\ UNCHANGED localVars

NextServices ==
    \/ /\ \/ part = "dedupPg" /\ DedupNext
          \/ part = "dedupMem" /\ DedupMap!DedupNext
       /\ UNCHANGED <<multipartVars, vars>>
    \/ /\ \/ part = "sessionsPg" /\ Next
          \/ part = "sessionsMem" /\ SessionMap!Next
       /\ UNCHANGED <<dedupVars, multipartVars>>
    \/ part = "multipart" /\ MultipartNext /\ UNCHANGED <<dedupVars, vars>>

PartsNext ==
    /\ UNCHANGED part
    /\ \/ NextStores /\ UNCHANGED services
       \/ NextServices /\ UNCHANGED stores

\* The callers of the S3 provider and the workers of an upload are the same two
\* goroutines: no behaviour has both.
Symmetry == Permutations(Callers)

PartsSpec == PartsInit /\ [][PartsNext]_parts

=============================================================================
