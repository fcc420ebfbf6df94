------------------------------- MODULE Bucket -------------------------------
(***************************************************************************)
(* Bucket.Remove: the calling goroutine pages through every object version *)
(* and hands each to a pool of workers over one channel; the workers       *)
(* delete them and report their errors over another, which is read only    *)
(* when all of them are done; then the bucket itself is deleted.           *)
(* The order of a channel does not matter here, so each is what it holds.  *)
(***************************************************************************)
EXTENDS Integers, FiniteSets

CONSTANTS
  Worker,       \* the goroutines of the pool
  Version,      \* the object versions, delete markers included, in the bucket
  Capacity,     \* of both channels
  PageSize,     \* of ListObjectVersions
  MaxFailures   \* bound: DeleteObject calls that fail

ASSUME BucketAssumption ==
  /\ IsFiniteSet(Worker) /\ Worker # {}
  /\ IsFiniteSet(Version)
  /\ Capacity \in Nat \ {0}
  /\ PageSize \in Nat \ {0}
  /\ MaxFailures \in Nat

VARIABLES
  stored,       \* versions the service has
  unlisted,     \* versions of the pages still to come
  batch,        \* versions of this page not sent yet
  items,        \* the items channel
  closed,       \* close(items) was called
  errs,         \* how many errors the errs channel holds
  wpc,          \* worker -> "range", "delete", "report" or "done"
  held,         \* worker -> the version it took, as a set of at most one
  pc,           \* the caller: "list", "send", "wait", "check", "delete", "returned"
  listErr,      \* listErr # nil
  result,       \* what Remove returned
  failures      \* DeleteObject calls that failed so far

pool == <<errs, wpc, held, stored, failures>>
caller == <<unlisted, batch, closed, pc, listErr, result>>
vars == <<pool, caller, items>>

TypeOK ==
  /\ stored \subseteq Version
  /\ unlisted \subseteq Version
  /\ batch \subseteq Version
  /\ items \subseteq Version
  /\ closed \in BOOLEAN
  /\ errs \in 0..Capacity
  /\ wpc \in [Worker -> {"range", "delete", "report", "done"}]
  /\ held \in [Worker -> SUBSET Version]
  /\ pc \in {"list", "send", "wait", "check", "delete", "returned"}
  /\ listErr \in BOOLEAN
  /\ result \in {"none", "listError", "deleteError", "bucketError", "deleted"}
  /\ failures \in 0..MaxFailures

Init ==
  /\ stored = Version
  /\ unlisted = Version
  /\ batch = {}
  /\ items = {}
  /\ closed = FALSE
  /\ errs = 0
  /\ wpc = [w \in Worker |-> "range"]
  /\ held = [w \in Worker |-> {}]
  /\ pc = "list"
  /\ listErr = FALSE
  /\ result = "none"
  /\ failures = 0

-----------------------------------------------------------------------------
(* The caller. *)

ListPage ==
  /\ pc = "list"
  /\ \E page \in SUBSET unlisted :
       /\ Cardinality(page) <= PageSize
       /\ Cardinality(page) = PageSize \/ page = unlisted
       /\ batch' = page
       /\ unlisted' = unlisted \ page
  /\ pc' = "send"
  /\ UNCHANGED <<closed, listErr, result, pool, items>>

\* Mutant: the break skips close(items).
ListFailsOpen ==
  /\ pc = "list"
  /\ listErr' = TRUE
  /\ pc' = "wait"
  /\ UNCHANGED <<unlisted, batch, closed, result, pool, items>>

ListFails ==
  /\ pc = "list"
  /\ listErr' = TRUE
  /\ closed' = TRUE
  /\ pc' = "wait"
  /\ UNCHANGED <<unlisted, batch, result, pool, items>>

\* Mutant: the loop hands the same version out again.
SendAgain ==
  /\ pc = "send"
  /\ Cardinality(items) < Capacity
  /\ \E v \in batch :
       /\ batch' \in {batch, batch \ {v}}
       /\ items' = items \cup {v}
  /\ UNCHANGED <<unlisted, closed, pc, listErr, result, pool>>

\* items <- item: waits while the channel is full.
Send ==
  /\ pc = "send"
  /\ Cardinality(items) < Capacity
  /\ \E v \in batch :
       /\ batch' = batch \ {v}
       /\ items' = items \cup {v}
  /\ UNCHANGED <<unlisted, closed, pc, listErr, result, pool>>

PageDone ==
  /\ pc = "send" /\ batch = {}
  /\ \/ unlisted # {} /\ pc' = "list" /\ UNCHANGED closed
     \/ unlisted = {} /\ pc' = "wait" /\ closed' = TRUE
  /\ UNCHANGED <<unlisted, batch, listErr, result, pool, items>>

\* Mutant: the caller does not wait for the pool.
NoWait ==
  /\ pc = "wait"
  /\ pc' = "check"
  /\ UNCHANGED <<unlisted, batch, closed, listErr, result, pool, items>>

\* wg.Wait(), close(errs).
WaitDone ==
  /\ pc = "wait"
  /\ \A w \in Worker : wpc[w] = "done"
  /\ pc' = "check"
  /\ UNCHANGED <<unlisted, batch, closed, listErr, result, pool, items>>

Return(r) ==
  /\ pc' = "returned"
  /\ result' = r

Check ==
  /\ pc = "check"
  /\ \/ listErr /\ Return("listError")
     \/ ~listErr /\ errs > 0 /\ Return("deleteError")
     \/ ~listErr /\ errs = 0 /\ pc' = "delete" /\ UNCHANGED result
  /\ UNCHANGED <<unlisted, batch, closed, listErr, pool, items>>

\* The service refuses a bucket that is not empty, and may fail for reasons of its own.
DeleteBucket ==
  /\ pc = "delete"
  /\ \/ stored = {} /\ Return("deleted")
     \/ Return("bucketError")
  /\ UNCHANGED <<unlisted, batch, closed, listErr, pool, items>>

-----------------------------------------------------------------------------
(* A worker. *)

Take(w) ==
  /\ wpc[w] = "range"
  /\ \E v \in items :
       /\ items' = items \ {v}
       /\ held' = [held EXCEPT ![w] = {v}]
  /\ wpc' = [wpc EXCEPT ![w] = "delete"]
  /\ UNCHANGED <<caller, errs, stored, failures>>

Exit(w) ==
  /\ wpc[w] = "range"
  /\ closed /\ items = {}
  /\ wpc' = [wpc EXCEPT ![w] = "done"]
  /\ UNCHANGED <<caller, items, errs, held, stored, failures>>

DeleteObject(w) ==
  /\ wpc[w] = "delete"
  /\ stored' = stored \ held[w]
  /\ held' = [held EXCEPT ![w] = {}]
  /\ wpc' = [wpc EXCEPT ![w] = "range"]
  /\ UNCHANGED <<caller, items, errs, failures>>

DeleteFails(w) ==
  /\ wpc[w] = "delete"
  /\ failures < MaxFailures
  /\ failures' = failures + 1
  /\ wpc' = [wpc EXCEPT ![w] = "report"]
  /\ UNCHANGED <<caller, items, errs, held, stored>>

\* Mutant: the channel has no bound.
ReportUnbounded(w) ==
  /\ wpc[w] = "report"
  /\ errs' = errs + 1
  /\ held' = [held EXCEPT ![w] = {}]
  /\ wpc' = [wpc EXCEPT ![w] = "range"]
  /\ UNCHANGED <<caller, items, stored, failures>>

\* errs <- err: waits while the channel is full, and nobody reads it yet.
Report(w) ==
  /\ wpc[w] = "report"
  /\ errs < Capacity
  /\ errs' = errs + 1
  /\ held' = [held EXCEPT ![w] = {}]
  /\ wpc' = [wpc EXCEPT ![w] = "range"]
  /\ UNCHANGED <<caller, items, stored, failures>>

Main == ListPage \/ ListFails \/ Send \/ PageDone \/ WaitDone \/ Check \/ DeleteBucket

Work(w) == Take(w) \/ Exit(w) \/ DeleteObject(w) \/ DeleteFails(w) \/ Report(w)

Returned == pc = "returned"

Next == Main \/ (\E w \in Worker : Work(w)) \/ (Returned /\ UNCHANGED vars)

Spec == Init /\ [][Next]_vars

\* The Go scheduler runs every goroutine that can run, and every API call returns.
FairSpec ==
  /\ Spec
  /\ WF_vars(Main)
  /\ \A w \in Worker : WF_vars(Work(w))

-----------------------------------------------------------------------------
(* Properties. *)

\* DeleteBucket is only called once every version the bucket had is deleted: a page that
\* was not listed, a version still queued or in a worker's hands, or a delete that failed
\* is never mistaken for an empty bucket.
DeletesOnlyEmptied == pc = "delete" => stored = {}

\* No version is handed out twice.
HeldOnce ==
  /\ \A w \in Worker : held[w] \cap (items \cup batch \cup unlisted) = {}
  /\ \A u, w \in Worker : u # w => held[u] \cap held[w] = {}

Finished == Returned /\ \A w \in Worker : wpc[w] = "done"

\* Remove returns, and with its workers gone, unless more deletes fail than the errs channel,
\* which nobody reads meanwhile, has room for.
RemoveReturns == <>(Finished \/ failures > Capacity)

\* HandleRemove counts on it: "it will remove the resource and set the state of the resource
\* to pending if it was successful or failed if it was not".
AlwaysReturns == <>Finished
=============================================================================
