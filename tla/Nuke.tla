-------------------------------- MODULE Nuke --------------------------------
(***************************************************************************)
(* One nuke run over a planned queue: Run after the scan, the pass of      *)
(* HandleQueue over the items, HandleRemove, HandleWaitDependency and      *)
(* HandleWait on each, and the three checks that end a pass.  The engine   *)
(* is one goroutine; the cloud it talks to deletes in its own time, so     *)
(* each API call is a step of its own and the cloud moves between them.    *)
(***************************************************************************)
EXTENDS Queue

CONSTANTS
  Owner,           \* item -> the Owner of the scanner that queued it: the region
  Name,            \* item -> what String() shows, all Equals compares
  HookTypes,       \* types with a HandleWait of their own (OKE)
  HoldTypes,       \* types whose Remove may answer ErrHoldResource
  DeferTypes,      \* types with a Defer, whose Remove also turns a refusal into a deferral
  ScheduledTypes,  \* types the cloud only deletes days after the run
  ImmediateTypes,  \* types gone when Remove returns: the service or Remove itself waits
  LingeringTypes,  \* types the listing still shows for a time after Remove
  Holders,         \* item -> the items that make the cloud refuse its removal
  MaxWaitRetries,  \* 0 waits for ever
  MaxFaults,       \* bound: how far failures without a reason in the queue are counted
  FaultsRecur      \* whether calls can go on failing after that many

ASSUME NukeAssumption ==
  /\ Owner \in [Item -> STRING]
  /\ Name \in [Item -> STRING]
  /\ HookTypes \cup HoldTypes \cup DeferTypes \subseteq Type
  /\ ScheduledTypes \cup ImmediateTypes \cup LingeringTypes \subseteq Type
  /\ Holders \in [Item -> SUBSET Item]
  /\ MaxWaitRetries \in Nat
  /\ MaxFaults \in Nat
  /\ FaultsRecur \in BOOLEAN
  /\ FaultsRecur => MaxFaults > 1

VARIABLES
  state,         \* item -> Item.State
  pc,            \* where the goroutine is
  pos,           \* the item HandleQueue is at
  entered,       \* the state HandleQueue dispatched that item in
  cached,        \* keys of this pass's listCache
  left,          \* its lists
  failedCount,
  waitingCount,
  outcome        \* what Run returned

VARIABLES
  cloud,         \* item -> what the cloud has of it
  faults         \* unprovoked API failures so far; starts over at 1 if they recur

\* Observed by the properties, never read by an action.
VARIABLES
  attempts,      \* item -> calls of its Remove, counted up to AttemptCap
  everFailed     \* items that were in the failed state at some time

engine == <<state, pc, pos, entered, cached, left, failedCount, waitingCount, outcome>>
vars == <<engine, cloud, faults, attempts, everFailed>>

AttemptCap == 3
CloudState == {"present", "deleting", "gone"}
Key(i) == <<Owner[i], TypeOf[i]>>
Keys == {Key(i) : i \in Item}

\* The states the three end-of-pass checks count.
NewStates == {"new", "newDependency"}
WaitStates == {"waiting", "pending", "pendingDependency", "hold"}
ProcessingStates == NewStates \cup WaitStates
\* Mutant: the loop leaves once nothing is left but failures.
UnfinishedButFailed == ProcessingStates

UnfinishedStates == ProcessingStates \cup {"failed"}

TypeOK ==
  /\ state \in [Item -> ItemState]
  /\ pc \in {"scanned", "dispatch", "hook", "list", "failure", "wait", "loop", "done"}
  /\ pos \in Item
  /\ entered \in {"none", "failed", "pending", "waiting"}
  /\ cached \subseteq Keys
  /\ left \in [Keys -> SUBSET Item]
  /\ failedCount \in 0..2
  /\ waitingCount \in 0..MaxWaitRetries
  /\ outcome \in {"running", "nothing", "dryRun", "declined", "ok", "failed", "timeout"}
  /\ cloud \in [Item -> CloudState]
  /\ faults \in 0..MaxFaults
  /\ attempts \in [Item -> 0..AttemptCap]
  /\ everFailed \subseteq Item

(***************************************************************************)
(* The queue as the scan leaves it: every item filtered, deferred or       *)
(* planned, closed under planDependents.  A lister that still returns what *)
(* is being deleted can queue an item an earlier run already removed.      *)
(***************************************************************************)
Init ==
  /\ state \in [Item -> ItemState]
  /\ IsPlan(state, DeferTypes)
  /\ cloud \in [Item -> {"present", "deleting"}]
  /\ \A i \in Item : cloud[i] = "deleting" => TypeOf[i] \in LingeringTypes
  /\ pc = "scanned"
  /\ pos = 1
  /\ entered = "none"
  /\ cached = {}
  /\ left = [k \in Keys |-> {}]
  /\ failedCount = 0
  /\ waitingCount = 0
  /\ outcome = "running"
  /\ faults = 0
  /\ attempts = [i \in Item |-> 0]
  /\ everFailed = {}

-----------------------------------------------------------------------------
(* Steps shared by the handlers. *)

SetState(i, s) ==
  /\ state' = [state EXCEPT ![i] = s]
  /\ everFailed' = IF s = "failed" THEN everFailed \cup {i} ELSE everFailed

SetCloud(i, c) == cloud' = [cloud EXCEPT ![i] = c]

\* A call fails for a reason of its own: a timeout, throttling, a 5xx.  Each one changes
\* the count, so that a run with no end of them can be told from one they leave in peace.
Fault ==
  \/ faults < MaxFaults /\ faults' = faults + 1
  \/ faults = MaxFaults /\ FaultsRecur /\ faults' = 1

\* On to the next item of the pass, or to the checks that end it.
Advance ==
  /\ entered' = "none"
  /\ IF pos < N THEN pos' = pos + 1 /\ pc' = "dispatch"
                ELSE pos' = 1 /\ pc' = "failure"

End(result) ==
  /\ pc' = "done"
  /\ outcome' = result

-----------------------------------------------------------------------------
(* HandleRemove: one call of Remove, and what came of it. *)

AfterRemove(i) == IF TypeOf[i] \in ImmediateTypes THEN "gone" ELSE "deleting"

Held(i) == \E h \in Holders[i] : cloud[h] # "gone"

Accepted(i) ==
  /\ cloud[i] = "present" /\ ~Held(i)
  /\ SetState(i, "pending")
  /\ SetCloud(i, AfterRemove(i))
  /\ UNCHANGED faults

Refused(i) ==
  /\ cloud[i] = "present" /\ Held(i)
  /\ SetState(i, IF TypeOf[i] \in DeferTypes THEN "deferred" ELSE "failed")
  /\ UNCHANGED <<cloud, faults>>

\* Services differ on a resource already deleted: some accept, some answer 404 or 409.
AlreadyGoing(i) ==
  /\ cloud[i] # "present"
  /\ \E s \in {"pending", "failed"} : SetState(i, s)
  /\ UNCHANGED <<cloud, faults>>

\* Mutant: an error of Remove passes for its acceptance.
RemoveErrorIgnored(i) ==
  /\ Fault
  /\ SetState(i, "pending")
  /\ UNCHANGED cloud

RemoveFails(i) ==
  /\ Fault
  /\ SetState(i, "failed")
  /\ UNCHANGED cloud

\* The cloud took the request and the answer was lost.
AnswerLost(i) ==
  /\ Fault
  /\ cloud[i] = "present" /\ ~Held(i)
  /\ SetState(i, "failed")
  /\ SetCloud(i, AfterRemove(i))

RemoveHolds(i) ==
  /\ TypeOf[i] \in HoldTypes
  /\ Fault
  /\ SetState(i, "hold")
  /\ UNCHANGED cloud

HandleRemove(i) ==
  /\ attempts' = [attempts EXCEPT ![i] = IF @ < AttemptCap THEN @ + 1 ELSE @]
  /\ \/ Accepted(i)
     \/ Refused(i)
     \/ AlreadyGoing(i)
     \/ RemoveFails(i)
     \/ AnswerLost(i)
     \/ RemoveHolds(i)

-----------------------------------------------------------------------------
(* HandleWaitDependency. *)

\* Mutants: the count forgets items already waiting; the count takes deferred items in.
WaitingForgotten(i) ==
  \E d \in DependenciesOf(i) : state[d] \in ProcessingStates \ {"waiting"}
DeferredCounted(i) ==
  \E d \in DependenciesOf(i) : state[d] \in ProcessingStates \cup {"deferred"}

DependenciesLeft(i) == \E d \in DependenciesOf(i) : state[d] \in ProcessingStates

\* Mutant: a deferred blocker is overlooked.
DeferredOverlooked(i) ==
  \/ /\ DependenciesLeft(i)
     /\ SetState(i, "pendingDependency")
     /\ UNCHANGED <<cloud, faults, attempts>>
  \/ /\ ~DependenciesLeft(i)
     /\ HandleRemove(i)

HandleWaitDependency(i) ==
  \/ /\ DependenciesLeft(i)
     /\ SetState(i, "pendingDependency")
     /\ UNCHANGED <<cloud, faults, attempts>>
  \/ /\ ~DependenciesLeft(i)
     /\ BlockersIn(state, i, "deferred", TRUE) # {}
     /\ SetState(i, "deferred")
     /\ UNCHANGED <<cloud, faults, attempts>>
  \/ /\ ~DependenciesLeft(i)
     /\ BlockersIn(state, i, "deferred", TRUE) = {}
     /\ HandleRemove(i)

-----------------------------------------------------------------------------
(* HandleQueue's switch on the state of the item it is at. *)

InPass == UNCHANGED <<cached, left, failedCount, waitingCount, outcome>>

\* Mutant: the hook is never asked.
HookIgnored(i, from) ==
  /\ pc' = "list"
  /\ entered' = from
  /\ UNCHANGED pos

\* HandleWait starts with the resource's own hook, if it has one.
EnterWait(i, from) ==
  /\ pc' = IF TypeOf[i] \in HookTypes THEN "hook" ELSE "list"
  /\ entered' = from
  /\ UNCHANGED pos

\* Mutant: filtered items fall into the first case of the switch.
DispatchRemoveFiltered(i) ==
  /\ state[i] \in {"new", "hold", "filtered"}
  /\ HandleRemove(i)
  /\ Advance

DispatchRemove(i) ==
  /\ state[i] \in {"new", "hold"}
  /\ HandleRemove(i)
  /\ Advance

DispatchDependent(i) ==
  /\ state[i] \in {"newDependency", "pendingDependency"}
  /\ HandleWaitDependency(i)
  /\ Advance

DispatchFailed(i) ==
  /\ state[i] = "failed"
  /\ HandleRemove(i)
  /\ EnterWait(i, "failed")

DispatchWait(i) ==
  /\ state[i] \in {"pending", "waiting"}
  /\ EnterWait(i, state[i])
  /\ UNCHANGED <<state, cloud, faults, attempts, everFailed>>

DispatchSettled(i) ==
  /\ state[i] \in {"filtered", "finished", "deferred"}
  /\ Advance
  /\ UNCHANGED <<state, cloud, faults, attempts, everFailed>>

Dispatch ==
  /\ pc = "dispatch"
  /\ \/ DispatchRemove(pos)
     \/ DispatchDependent(pos)
     \/ DispatchFailed(pos)
     \/ DispatchWait(pos)
     \/ DispatchSettled(pos)
  /\ InPass

-----------------------------------------------------------------------------
(* HandleWait.  Whatever it made of a pending item, HandleQueue then calls  *)
(* it waiting.                                                              *)

WaitReturns(i, s) ==
  /\ SetState(i, IF entered = "pending" THEN "waiting" ELSE s)
  /\ Advance

HookWaits(i) ==
  /\ cloud[i] # "gone"
  /\ WaitReturns(i, "waiting")
  /\ UNCHANGED faults

HookFails(i) ==
  /\ Fault
  /\ WaitReturns(i, "failed")

HookPasses(i) ==
  /\ cloud[i] = "gone"
  /\ pc' = "list"
  /\ UNCHANGED <<state, pos, entered, faults, everFailed>>

Hook ==
  /\ pc = "hook"
  /\ HookWaits(pos) \/ HookFails(pos) \/ HookPasses(pos)
  /\ InPass
  /\ UNCHANGED <<cloud, attempts>>

\* What the lister of the item's type returns for its compartment now.
Visible(j) ==
  \/ cloud[j] = "present"
  \/ cloud[j] = "deleting" /\ TypeOf[j] \in LingeringTypes

Listing(k) == {j \in Item : Key(j) = k /\ Visible(j)}

\* Equals compares what String() shows.
StillListed(i, list) == \E j \in list : Name[j] = Name[i]

Judge(i, list) ==
  WaitReturns(i, IF StillListed(i, list) THEN state[i] ELSE "finished")

ListCached(i) ==
  /\ Key(i) \in cached
  /\ Judge(i, left[Key(i)])
  /\ UNCHANGED <<cached, left, faults>>

ListFresh(i) ==
  /\ Key(i) \notin cached
  /\ cached' = cached \cup {Key(i)}
  /\ left' = [left EXCEPT ![Key(i)] = Listing(Key(i))]
  /\ Judge(i, Listing(Key(i)))
  /\ UNCHANGED faults

\* Mutant: a listing that fails passes for an empty one.
ListErrorIsEmpty(i) ==
  /\ Key(i) \notin cached
  /\ Fault
  /\ WaitReturns(i, "finished")
  /\ UNCHANGED <<cached, left>>

ListFails(i) ==
  /\ Key(i) \notin cached
  /\ Fault
  /\ WaitReturns(i, "failed")
  /\ UNCHANGED <<cached, left>>

List ==
  /\ pc = "list"
  /\ ListCached(pos) \/ ListFresh(pos) \/ ListFails(pos)
  /\ UNCHANGED <<failedCount, waitingCount, outcome, cloud, attempts>>

-----------------------------------------------------------------------------
(* The end of a pass: handleFailure, handleWaiting, and the loop of run.   *)

NoneButFailed == ~AnyIn(state, ProcessingStates) /\ AnyIn(state, {"failed"})

GivesUpAt(limit) ==
  /\ pc = "failure"
  /\ \/ /\ NoneButFailed /\ failedCount >= limit
        /\ End("failed")
        /\ UNCHANGED failedCount
     \/ /\ NoneButFailed /\ failedCount < limit
        /\ failedCount' = failedCount + 1
        /\ pc' = "wait" /\ UNCHANGED outcome
     \/ /\ ~NoneButFailed
        /\ failedCount' = 0
        /\ pc' = "wait" /\ UNCHANGED outcome
  /\ UNCHANGED <<state, pos, entered, cached, left, waitingCount>>

\* Mutants: one pass late, one pass early.
GivesUpLate == GivesUpAt(3)
GivesUpEarly == GivesUpAt(1)

HandleFailure == GivesUpAt(2)

\* Mutant: the count looks only at the states before the wait.
OnlyPending ==
  AnyIn(state, WaitStates \ {"waiting"}) /\ ~AnyIn(state, NewStates)

OnlyWaiting == AnyIn(state, WaitStates) /\ ~AnyIn(state, NewStates)

HandleWaiting ==
  /\ pc = "wait"
  /\ \/ /\ MaxWaitRetries # 0 /\ OnlyWaiting /\ waitingCount >= MaxWaitRetries
        /\ End("timeout")
        /\ UNCHANGED waitingCount
     \/ /\ MaxWaitRetries # 0 /\ OnlyWaiting /\ waitingCount < MaxWaitRetries
        /\ waitingCount' = waitingCount + 1
        /\ pc' = "loop" /\ UNCHANGED outcome
     \/ /\ MaxWaitRetries # 0 /\ ~OnlyWaiting
        /\ waitingCount' = 0
        /\ pc' = "loop" /\ UNCHANGED outcome
     \/ /\ MaxWaitRetries = 0
        /\ pc' = "loop" /\ UNCHANGED <<waitingCount, outcome>>
  /\ UNCHANGED <<state, pos, entered, cached, left, failedCount>>

\* Mutant: one listing cache serves every pass.
StartPassCached ==
  /\ pc' = "dispatch"
  /\ UNCHANGED <<cached, left, outcome>>

StartPass ==
  /\ cached' = {}
  /\ left' = [k \in Keys |-> {}]
  /\ pc' = "dispatch"
  /\ UNCHANGED outcome

Loop ==
  /\ pc = "loop"
  /\ \/ AnyIn(state, UnfinishedStates) /\ StartPass
     \/ ~AnyIn(state, UnfinishedStates) /\ End("ok") /\ UNCHANGED <<cached, left>>
  /\ UNCHANGED <<state, pos, entered, failedCount, waitingCount>>

\* Run, between the scan and the loop: without --no-dry-run it stops at the plan, and
\* the second prompt may be declined.
Confirm ==
  /\ pc = "scanned"
  /\ \/ /\ ~AnyIn(state, NewStates)
        /\ End("nothing")
        /\ UNCHANGED <<cached, left>>
     \/ /\ AnyIn(state, NewStates)
        /\ \E refusal \in {"dryRun", "declined"} : End(refusal)
        /\ UNCHANGED <<cached, left>>
     \/ /\ AnyIn(state, NewStates)
        /\ StartPass
  /\ UNCHANGED <<state, pos, entered, failedCount, waitingCount>>

Checks ==
  /\ Confirm \/ HandleFailure \/ HandleWaiting \/ Loop
  /\ UNCHANGED <<cloud, faults, attempts, everFailed>>

Engine == Dispatch \/ Hook \/ List \/ Checks

-----------------------------------------------------------------------------
(* The cloud. *)

DeletionCompletes(i) ==
  /\ cloud[i] = "deleting"
  /\ TypeOf[i] \notin ScheduledTypes
  /\ SetCloud(i, "gone")
  /\ UNCHANGED <<engine, faults, attempts, everFailed>>

\* Somebody else, or the cloud itself, removes it meanwhile.
Vanishes(i) ==
  /\ cloud[i] = "present"
  /\ Fault
  /\ SetCloud(i, "gone")
  /\ UNCHANGED <<engine, attempts, everFailed>>

Running == outcome = "running"

Cloud == Running /\ \E i \in Item : DeletionCompletes(i) \/ Vanishes(i)

Done == ~Running /\ UNCHANGED vars

Next == Engine \/ Cloud \/ Done

Spec == Init /\ [][Next]_vars

\* One goroutine that only waits for calls that return.
EngineFairness == WF_vars(Engine)

\* The services finish every deletion they accepted, sooner or later.
CloudFairness == \A i \in Item : WF_vars(Running /\ DeletionCompletes(i))

\* Calls do not go on failing for ever, however often they have failed before.
FaultsCease == <>[][UNCHANGED faults]_vars

FairSpec == Spec /\ EngineFairness /\ FaultsCease
LiveSpec == FairSpec /\ CloudFairness

-----------------------------------------------------------------------------
(* Safety. *)

\* HandleWaitDependency's promise: an item that depends on other types is only ever asked
\* to go once every item of those types is out of its way - finished, kept by a filter,
\* deferred without blocking it - or has failed at least once ("removed or failed").
DependencyOrder ==
  \A i \in Item : attempts[i] > 0 =>
    \A d \in DependenciesOf(i) :
      \/ d \in everFailed
      \/ state[d] \in {"finished", "filtered"}
      \/ state[d] = "deferred" /\ ~InTheWay(d, i, TRUE)

\* HandleWait reports a resource finished only when the cloud no longer keeps it, whatever
\* failed, was lost, was retried or was read from the pass's cache on the way there.
FinishedIsGone ==
  \A i \in Item : state[i] = "finished" => cloud[i] # "present"

\* A run that ends without an error has left standing only what the plan excluded or
\* deferred.
SuccessMeansSwept ==
  outcome = "ok" =>
    \A i \in Item : cloud[i] = "present" => state[i] \in {"filtered", "deferred"}

\* handleFailure gives up on nothing early: when the run ends as failed, every item it
\* reports has been asked to go at least three times.
FailsAfterThreeAttempts ==
  outcome = "failed" =>
    \A i \in Item : state[i] = "failed" => attempts[i] >= AttemptCap

\* HandleWait of a cluster or node pool keeps what it stands on from being removed while it
\* still exists: an attempted dependent finds it gone, unless it failed or was left out.
HookKeepsDependentsBack ==
  \A i \in Item : attempts[i] > 0 =>
    \A d \in DependenciesOf(i) :
      TypeOf[d] \in HookTypes =>
        d \in everFailed \/ state[d] \in {"filtered", "deferred"} \/ cloud[d] = "gone"

Going(i) == state[i] \in {"pending", "waiting"} => cloud[i] # "present"

\* The run waits only for what is going: an item without a hook is pending or waiting after
\* the cloud took its removal, never while its removal has yet to be accepted.
WaitsOnlyForTheGoing == \A i \in Item : TypeOf[i] \notin HookTypes => Going(i)

\* And so does a cluster's or a node pool's own HandleWait, which "keeps the cluster waiting
\* until it is gone" once DeleteCluster accepted the request.
HookWaitsForTheGoing == \A i \in Item : TypeOf[i] \in HookTypes => Going(i)

\* A deferred item is done with for this run: it is not tried again and does not fail.
DeferredStays ==
  [][\A i \in Item : state[i] = "deferred" => state'[i] = "deferred"]_vars

LeftAlone(i) ==
  /\ state[i] = "filtered" => state'[i] = "filtered"
  /\ state[i] = "filtered" \/ outcome' \in {"nothing", "dryRun", "declined"}
       => attempts'[i] = 0

KeepsFiltered == \A i \in Item : LeftAlone(i)

\* What the plan keeps stays kept and is never asked to go; nor is anything in a run that
\* ends at the plan or at the second prompt.
KeptUntouched == [][KeepsFiltered]_vars

-----------------------------------------------------------------------------
(* The run implements Teardown.                                            *)

FateOf(i) ==
  CASE state[i] = "filtered" -> "kept"
    [] state[i] = "finished" -> "done"
    [] state[i] = "deferred" -> IF attempts[i] > 0 THEN "putOff" ELSE "deferred"
    [] OTHER -> IF i \in everFailed THEN "troubled"
                ELSE IF attempts[i] > 0 THEN "asked" ELSE "planned"

Abstract == INSTANCE Teardown WITH
  fate <- [i \in Item |-> FateOf(i)],
  there <- {i \in Item : cloud[i] = "present"},
  verdict <- outcome

\* Every step of the run is a step of the teardown it promises, or none: in particular
\* whatever stands on a resource is out of its way at the moment it is first asked to go.
ImplementsTeardown == Abstract!Spec

-----------------------------------------------------------------------------
(* Liveness. *)

\* Once calls stop failing every run ends, whatever they left behind and though the cloud may
\* never finish a deletion: handleFailure and handleWaiting each reset their counter in the
\* other's case, and what no failure turns back is in one of the two cases for good.  Without
\* FaultsCease it is not so: a failed listing makes a waiting item failed, which resets
\* waitingCount, and the Remove that is then accepted makes it waiting, which resets failedCount.
Terminates == <>(outcome # "running")

\* A waiting item whose resource is gone is noticed to be finished in the end.
GoneIsNoticed ==
  \A i \in Item : state[i] = "waiting" /\ cloud[i] = "gone" ~> state[i] = "finished"

\* When no call fails and no filter keeps anything back, a confirmed run ends without an
\* error, even if it waits without a limit: no item waits for one that is not going.
SweepsAll ==
  /\ pc = "scanned"
  /\ \A i \in Item : cloud[i] = "present" /\ state[i] # "filtered"
  ~> outcome \in {"ok", "nothing", "dryRun", "declined"} \/ faults > 0
=============================================================================
