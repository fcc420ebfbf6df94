------------------------------ MODULE Scanner ------------------------------
(***************************************************************************)
(* Scanner.Run: one goroutine per resource type, as many at a time as the  *)
(* semaphore has permits, each listing its type and sending what it found  *)
(* over one channel that nobody reads before Run has closed it.            *)
(***************************************************************************)
EXTENDS Integers, FiniteSets

CONSTANTS
  ResourceType,    \* the types this scanner was given
  ParallelQueries,
  QueueSize,
  MaxListed        \* bound: resources one lister returns

ASSUME ScannerAssumption ==
  /\ IsFiniteSet(ResourceType)
  /\ ParallelQueries \in Nat \ {0}
  /\ QueueSize \in Nat \ {0}
  /\ MaxListed \in Nat

VARIABLES
  toStart,    \* types the loop has still to start; their order is a map's
  permits,    \* what the semaphore has left
  task,       \* type -> its goroutine: "idle", "listing", "sending", "done"
  rest,       \* type -> listed resources not yet sent
  queued,     \* len(s.Items)
  closed,     \* close(s.Items) was called: Run returned
  crashed     \* the process died of a panic

\* Observed: how many resources each lister returned, and how many of them were sent.
VARIABLES listed, sent

seen == <<listed, sent>>
vars == <<toStart, permits, task, rest, queued, closed, crashed, seen>>

TypeOK ==
  /\ toStart \subseteq ResourceType
  /\ permits \in 0..ParallelQueries
  /\ task \in [ResourceType -> {"idle", "listing", "sending", "done"}]
  /\ rest \in [ResourceType -> 0..MaxListed]
  /\ queued \in 0..QueueSize
  /\ closed \in BOOLEAN /\ crashed \in BOOLEAN
  /\ listed \in [ResourceType -> 0..MaxListed]
  /\ sent \in [ResourceType -> 0..MaxListed]

Init ==
  /\ toStart = ResourceType
  /\ permits = ParallelQueries
  /\ task = [t \in ResourceType |-> "idle"]
  /\ rest = [t \in ResourceType |-> 0]
  /\ queued = 0
  /\ closed = FALSE
  /\ crashed = FALSE
  /\ listed = [t \in ResourceType |-> 0]
  /\ sent = [t \in ResourceType |-> 0]

-----------------------------------------------------------------------------
(* Run. *)

\* Mutant: the goroutine acquires its permit itself, after it was started.
StartUnchecked(t) ==
  /\ t \in toStart
  /\ toStart' = toStart \ {t}
  /\ permits' = IF permits > 0 THEN permits - 1 ELSE permits
  /\ task' = [task EXCEPT ![t] = "listing"]
  /\ UNCHANGED <<rest, queued, closed, crashed, seen>>

\* Acquire(ctx, 1), then go s.list.
Start(t) ==
  /\ t \in toStart /\ permits > 0
  /\ toStart' = toStart \ {t}
  /\ permits' = permits - 1
  /\ task' = [task EXCEPT ![t] = "listing"]
  /\ UNCHANGED <<rest, queued, closed, crashed, seen>>

\* Mutant: Run waits for one goroutine, not for all.
CloseEarly ==
  /\ toStart = {} /\ ~closed
  /\ permits > 0
  /\ permits' = permits - 1
  /\ closed' = TRUE
  /\ UNCHANGED <<toStart, task, rest, queued, crashed, seen>>

\* Acquire(ctx, s.parallelQueries), then close(s.Items).
Close ==
  /\ toStart = {} /\ ~closed
  /\ permits = ParallelQueries
  /\ permits' = 0
  /\ closed' = TRUE
  /\ UNCHANGED <<toStart, task, rest, queued, crashed, seen>>

-----------------------------------------------------------------------------
(* list. *)

ListReturns(t) ==
  /\ task[t] = "listing"
  /\ \E n \in 0..MaxListed :
       /\ rest' = [rest EXCEPT ![t] = n]
       /\ listed' = [listed EXCEPT ![t] = n]
  /\ task' = [task EXCEPT ![t] = "sending"]
  /\ UNCHANGED <<toStart, permits, queued, closed, crashed, sent>>

\* Mutant: an early return keeps its permit.
FailHolding(t) ==
  /\ task[t] = "listing"
  /\ task' = [task EXCEPT ![t] = "done"]
  /\ UNCHANGED <<toStart, permits, rest, queued, closed, crashed, seen>>

\* Mutant: an early return gives its permit back, and so does the deferred call.
FailReleasingTwice(t) ==
  /\ task[t] = "listing"
  /\ task' = [task EXCEPT ![t] = "done"]
  /\ permits' = permits + 2
  /\ UNCHANGED <<toStart, rest, queued, closed, crashed, seen>>

\* The lister is missing, fails, asks to be skipped, or panics with an error: that is logged,
\* and the scan goes on without the type.
ListFails(t) ==
  /\ task[t] = "listing"
  /\ task' = [task EXCEPT ![t] = "done"]
  /\ permits' = permits + 1
  /\ UNCHANGED <<toStart, rest, queued, closed, crashed, seen>>

\* It panics with something else: r.(error) in the deferred function panics again.
ListPanics(t) ==
  /\ task[t] = "listing"
  /\ crashed' = TRUE
  /\ UNCHANGED <<toStart, permits, task, rest, queued, closed, seen>>

Enqueue(t) ==
  /\ task[t] = "sending" /\ rest[t] > 0
  /\ queued < QueueSize
  /\ queued' = queued + 1
  /\ rest' = [rest EXCEPT ![t] = @ - 1]
  /\ sent' = [sent EXCEPT ![t] = @ + 1]
  /\ UNCHANGED <<toStart, permits, task, closed, crashed, listed>>

\* Mutant: the last place of the channel is not used.
DropEarly(t) ==
  /\ task[t] = "sending" /\ rest[t] > 0
  /\ queued >= QueueSize - 1
  /\ rest' = [rest EXCEPT ![t] = 0]
  /\ UNCHANGED <<toStart, permits, task, queued, closed, crashed, seen>>

\* The channel is full: the rest of the type is dropped with one warning.
Drop(t) ==
  /\ task[t] = "sending" /\ rest[t] > 0
  /\ queued = QueueSize
  /\ rest' = [rest EXCEPT ![t] = 0]
  /\ UNCHANGED <<toStart, permits, task, queued, closed, crashed, seen>>

Finish(t) ==
  /\ task[t] = "sending" /\ rest[t] = 0
  /\ task' = [task EXCEPT ![t] = "done"]
  /\ permits' = permits + 1
  /\ UNCHANGED <<toStart, rest, queued, closed, crashed, seen>>

List(t) ==
  ListReturns(t) \/ ListFails(t) \/ ListPanics(t) \/ Enqueue(t) \/ Drop(t) \/ Finish(t)

Run == Close \/ \E t \in ResourceType : Start(t)

Next ==
  \/ ~crashed /\ (Run \/ \E t \in ResourceType : List(t))
  \/ (closed \/ crashed) /\ UNCHANGED vars

Spec == Init /\ [][Next]_vars

\* The Go scheduler runs every goroutine that can run, and every listing returns.
FairSpec ==
  /\ Spec
  /\ WF_vars(~crashed /\ Run)
  /\ \A t \in ResourceType : WF_vars(~crashed /\ List(t))

-----------------------------------------------------------------------------
(* Properties. *)

Working == {t \in ResourceType : task[t] \in {"listing", "sending"}}

\* "The number of parallel queries to run at any given time" is never exceeded.
AtMostParallelQueries == Cardinality(Working) <= ParallelQueries

\* The channel is closed under nobody's feet: no goroutine is left that could still send on
\* it, which would panic, or whose resources the plan would miss.
ClosedAfterAll == closed => Working = {} /\ toStart = {}

\* What a lister returned reaches the queue, all of it, unless the channel is full to the
\* last place.
DroppedOnlyWhenFull ==
  closed => queued = QueueSize \/ \A t \in ResourceType : sent[t] = listed[t]

\* The scan comes to an end although nobody reads the channel meanwhile.
RunReturns == <>(closed \/ crashed)
=============================================================================
