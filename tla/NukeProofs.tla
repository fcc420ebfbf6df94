----------------------------- MODULE NukeProofs -----------------------------
(***************************************************************************)
(* What a nuke run does to any queue, over any catalogue, with any number  *)
(* of failing calls: the types of its state, the order of removals, what   *)
(* it never touches, what it waits for, when it gives up, and what a       *)
(* finished item and a clean ending mean.                                  *)
(***************************************************************************)
EXTENDS Nuke, TLAPS

\* The cloud only ever moves one way.
CloudForward ==
  \A j \in Item :
    /\ cloud'[j] = "present" => cloud[j] = "present"
    /\ cloud[j] = "gone" => cloud'[j] = "gone"

FaultTypes == faults' \in 0..MaxFaults

LEMMA ItemFacts == /\ 1 \in Item
                   /\ N \in Nat /\ N >= 1
                   /\ \A i \in Item : PlannedState(i) \in {"new", "newDependency"}
                   /\ \A i \in Item : PlannedState(i) = "new" => DependenciesOf(i) = {}
BY QueueAssumption DEF Item, PlannedState, DependenciesOf

LEMMA FaultStep ==
  ASSUME TypeOK, Fault \/ UNCHANGED faults
  PROVE  FaultTypes
BY NukeAssumption DEF TypeOK, Fault, FaultTypes

LEMMA SetStateTypes ==
  ASSUME TypeOK, NEW i \in Item, NEW s \in ItemState, SetState(i, s)
  PROVE  /\ state' \in [Item -> ItemState]
         /\ everFailed' \subseteq Item
BY DEF TypeOK, SetState

LEMMA SetCloudTypes ==
  ASSUME TypeOK, NEW i \in Item, NEW c \in CloudState, SetCloud(i, c)
  PROVE  cloud' \in [Item -> CloudState]
BY DEF TypeOK, SetCloud

LEMMA AdvanceTypes ==
  ASSUME TypeOK, Advance
  PROVE  pos' \in Item /\ pc' \in {"dispatch", "failure"} /\ entered' = "none"
BY ItemFacts DEF TypeOK, Advance, Item

\* HandleRemove: the item ends in one of four states, the attempt is counted, and of the
\* cloud only this item may change, forward.
LEMMA RemoveEffects ==
  ASSUME TypeOK, NEW i \in Item, HandleRemove(i)
  PROVE  /\ \E s \in {"pending", "hold", "failed", "deferred"} : SetState(i, s)
         /\ attempts' = [attempts EXCEPT ![i] = IF @ < AttemptCap THEN @ + 1 ELSE @]
         /\ cloud' \in [Item -> CloudState]
         /\ CloudForward
         /\ FaultTypes
<1> USE DEF TypeOK, CloudState
<1>1. attempts' = [attempts EXCEPT ![i] = IF @ < AttemptCap THEN @ + 1 ELSE @]
  BY DEF HandleRemove
<1>2. AfterRemove(i) \in {"gone", "deleting"} BY DEF AfterRemove
<1>3. CASE Accepted(i)
  BY <1>1, <1>2, <1>3, FaultStep DEF Accepted, SetCloud, CloudForward
<1>4. CASE Refused(i) BY <1>1, <1>4, FaultStep DEF Refused, CloudForward
<1>5. CASE AlreadyGoing(i) BY <1>1, <1>5, FaultStep DEF AlreadyGoing, CloudForward
<1>6. CASE RemoveFails(i) BY <1>1, <1>6, FaultStep DEF RemoveFails, CloudForward
<1>7. CASE AnswerLost(i)
  BY <1>1, <1>2, <1>7, FaultStep DEF AnswerLost, SetCloud, CloudForward
<1>8. CASE RemoveHolds(i) BY <1>1, <1>8, FaultStep DEF RemoveHolds, CloudForward
<1> QED BY <1>3, <1>4, <1>5, <1>6, <1>7, <1>8 DEF HandleRemove

LEMMA RemoveTypes ==
  ASSUME TypeOK, NEW i \in Item, HandleRemove(i)
  PROVE  /\ state' \in [Item -> ItemState]
         /\ everFailed' \subseteq Item
         /\ attempts' \in [Item -> 0..AttemptCap]
<1>1. PICK s \in {"pending", "hold", "failed", "deferred"} : SetState(i, s)
  BY RemoveEffects
<1>2. s \in ItemState BY DEF ItemState
<1>3. attempts' \in [Item -> 0..AttemptCap] BY RemoveEffects DEF TypeOK, AttemptCap
<1> QED BY <1>1, <1>2, <1>3, SetStateTypes

\* HandleWait, the hook included, and what HandleQueue does to a pending item after it:
\* either the hook has passed, or the item is judged and the pass moves on.
LEMMA WaitEffects ==
  ASSUME TypeOK, Hook \/ List
  PROVE  /\ pc \in {"hook", "list"}
         /\ UNCHANGED <<failedCount, waitingCount, outcome, cloud, attempts>>
         /\ FaultTypes
         /\ \/ UNCHANGED <<state, pos, entered, everFailed>> /\ pc' = "list"
            \/ /\ \E s \in {"waiting", "failed", "finished", state[pos]} : SetState(pos, s)
               /\ Advance
<1>1. CASE Hook
  <2>1. pc = "hook" /\ UNCHANGED <<failedCount, waitingCount, outcome, cloud, attempts>>
    BY <1>1 DEF Hook, InPass
  <2>2. CASE HookWaits(pos) BY <2>1, <2>2, FaultStep DEF HookWaits, WaitReturns
  <2>3. CASE HookFails(pos) BY <2>1, <2>3, FaultStep DEF HookFails, WaitReturns
  <2>4. CASE HookPasses(pos) BY <2>1, <2>4, FaultStep DEF HookPasses
  <2> QED BY <1>1, <2>2, <2>3, <2>4 DEF Hook
<1>2. CASE List
  <2>1. pc = "list" /\ UNCHANGED <<failedCount, waitingCount, outcome, cloud, attempts>>
    BY <1>2 DEF List
  <2>2. CASE ListCached(pos)
    BY <2>1, <2>2, FaultStep DEF ListCached, Judge, WaitReturns
  <2>3. CASE ListFresh(pos) BY <2>1, <2>3, FaultStep DEF ListFresh, Judge, WaitReturns
  <2>4. CASE ListFails(pos) BY <2>1, <2>4, FaultStep DEF ListFails, WaitReturns
  <2> QED BY <1>2, <2>2, <2>3, <2>4 DEF List
<1> QED BY <1>1, <1>2

LEMMA CloudEffects ==
  ASSUME TypeOK, Cloud
  PROVE  /\ UNCHANGED <<engine, attempts, everFailed>>
         /\ cloud' \in [Item -> CloudState]
         /\ CloudForward
         /\ FaultTypes
<1>1. PICK i \in Item : DeletionCompletes(i) \/ Vanishes(i) BY DEF Cloud
<1>2. CASE DeletionCompletes(i)
  BY <1>2, FaultStep DEF DeletionCompletes, SetCloud, TypeOK, CloudState, CloudForward
<1>3. CASE Vanishes(i)
  BY <1>3, FaultStep DEF Vanishes, SetCloud, TypeOK, CloudState, CloudForward
<1> QED BY <1>1, <1>2, <1>3

-----------------------------------------------------------------------------
(* Types. *)

LEMMA InitTypes == Init => TypeOK
<1> SUFFICES ASSUME Init PROVE TypeOK
  OBVIOUS
<1>1. state \in [Item -> ItemState] /\ cloud \in [Item -> CloudState]
  BY DEF Init, CloudState
<1>2. pos \in Item BY ItemFacts DEF Init
<1>3. left \in [Keys -> SUBSET Item] /\ cached \subseteq Keys BY DEF Init
<1>4. waitingCount \in 0..MaxWaitRetries /\ failedCount \in 0..2 BY NukeAssumption DEF Init
<1>5. faults \in 0..MaxFaults BY NukeAssumption DEF Init
<1>6. attempts \in [Item -> 0..AttemptCap] /\ everFailed \subseteq Item
  BY DEF Init, AttemptCap
<1>7. pc = "scanned" /\ entered = "none" /\ outcome = "running" BY DEF Init
<1> QED BY <1>1, <1>2, <1>3, <1>4, <1>5, <1>6, <1>7 DEF TypeOK

LEMMA DispatchTypes ==
  ASSUME TypeOK, Dispatch
  PROVE  TypeOK'
<1>1. UNCHANGED <<cached, left, failedCount, waitingCount, outcome>>
  BY DEF Dispatch, InPass
<1>2. pos \in Item BY DEF TypeOK
<1>3. CASE HandleRemove(pos) /\ Advance
  BY <1>1, <1>2, <1>3, RemoveEffects, RemoveTypes, AdvanceTypes DEF TypeOK, FaultTypes
<1>4. CASE HandleRemove(pos) /\ EnterWait(pos, "failed")
  BY <1>1, <1>2, <1>4, RemoveEffects, RemoveTypes DEF TypeOK, FaultTypes, EnterWait
<1>5. CASE (\E s \in {"pendingDependency", "deferred"} : SetState(pos, s)) /\ Advance
           /\ UNCHANGED <<cloud, faults, attempts>>
  <2>1. PICK s \in ItemState : SetState(pos, s) BY <1>5 DEF ItemState
  <2> QED BY <1>1, <1>2, <1>5, <2>1, SetStateTypes, AdvanceTypes DEF TypeOK
<1>6. CASE DispatchWait(pos)
  <2>1. entered' \in {"pending", "waiting"} /\ pc' \in {"hook", "list"} /\ pos' = pos
    BY <1>6 DEF DispatchWait, EnterWait
  <2> QED BY <1>1, <1>6, <2>1 DEF TypeOK, DispatchWait
<1>7. CASE DispatchSettled(pos)
  BY <1>1, <1>2, <1>7, AdvanceTypes DEF TypeOK, DispatchSettled
<1> QED
  BY <1>3, <1>4, <1>5, <1>6, <1>7
     DEF Dispatch, DispatchRemove, DispatchDependent, DispatchFailed, HandleWaitDependency

LEMMA WaitTypes ==
  ASSUME TypeOK, Hook \/ List
  PROVE  TypeOK'
<1>1. UNCHANGED <<failedCount, waitingCount, outcome, cloud, attempts>> /\ FaultTypes
  BY WaitEffects
<1>2. pos \in Item /\ state[pos] \in ItemState BY DEF TypeOK
<1>3. cached' \subseteq Keys /\ left' \in [Keys -> SUBSET Item]
  <2>1. CASE UNCHANGED <<cached, left>> BY <2>1 DEF TypeOK
  <2>2. CASE ListFresh(pos)
    <3>1. Key(pos) \in Keys BY <1>2 DEF Keys
    <3>2. Listing(Key(pos)) \subseteq Item BY DEF Listing
    <3> QED BY <2>2, <3>1, <3>2 DEF TypeOK, ListFresh
  <2> QED BY <2>1, <2>2 DEF Hook, InPass, List, ListCached, ListFails
<1>4. state' \in [Item -> ItemState] /\ everFailed' \subseteq Item
      /\ pos' \in Item /\ pc' \in {"dispatch", "failure", "list"}
      /\ entered' \in {"none", entered}
  <2>1. CASE UNCHANGED <<state, pos, entered, everFailed>> /\ pc' = "list"
    BY <2>1 DEF TypeOK
  <2>2. CASE (\E s \in {"waiting", "failed", "finished", state[pos]} : SetState(pos, s))
             /\ Advance
    <3>1. PICK s \in ItemState : SetState(pos, s) BY <1>2, <2>2 DEF ItemState
    <3> QED BY <1>2, <2>2, <3>1, SetStateTypes, AdvanceTypes
  <2> QED BY <2>1, <2>2, WaitEffects
<1> QED BY <1>1, <1>3, <1>4 DEF TypeOK, FaultTypes

LEMMA ChecksTypes ==
  ASSUME TypeOK, Checks
  PROVE  TypeOK'
<1>1. UNCHANGED <<state, pos, entered, cloud, faults, attempts, everFailed>>
  BY DEF Checks, Confirm, HandleFailure, GivesUpAt, HandleWaiting, Loop
<1>2. CASE Confirm
  <2>1. pc' \in {"dispatch", "done"} /\ outcome' \in {outcome, "nothing", "dryRun", "declined"}
        /\ UNCHANGED <<failedCount, waitingCount>>
    BY <1>2 DEF Confirm, End, StartPass
  <2>2. cached' \subseteq Keys /\ left' \in [Keys -> SUBSET Item]
    BY <1>2 DEF Confirm, StartPass, TypeOK
  <2> QED BY <1>1, <2>1, <2>2 DEF TypeOK
<1>3. CASE HandleFailure
  <2>1. failedCount' \in 0..2 BY <1>3 DEF HandleFailure, GivesUpAt, TypeOK
  <2> QED BY <1>1, <1>3, <2>1 DEF TypeOK, HandleFailure, GivesUpAt, End
<1>4. CASE HandleWaiting
  <2>1. waitingCount' \in 0..MaxWaitRetries
    BY <1>4, NukeAssumption DEF HandleWaiting, TypeOK
  <2> QED BY <1>1, <1>4, <2>1 DEF TypeOK, HandleWaiting, End
<1>5. CASE Loop
  <2>1. pc' \in {"dispatch", "done"} /\ outcome' \in {outcome, "ok"}
        /\ UNCHANGED <<failedCount, waitingCount>>
    BY <1>5 DEF Loop, End, StartPass
  <2>2. cached' \subseteq Keys /\ left' \in [Keys -> SUBSET Item]
    BY <1>5 DEF Loop, StartPass, TypeOK
  <2> QED BY <1>1, <2>1, <2>2 DEF TypeOK
<1> QED BY <1>2, <1>3, <1>4, <1>5 DEF Checks

\* Every step of the run keeps every variable in its range.
THEOREM TypeCorrect == Spec => []TypeOK
<1>1. TypeOK /\ [Next]_vars => TypeOK'
  <2> SUFFICES ASSUME TypeOK, [Next]_vars PROVE TypeOK'
    OBVIOUS
  <2>1. CASE Dispatch BY <2>1, DispatchTypes
  <2>2. CASE Hook \/ List BY <2>2, WaitTypes
  <2>3. CASE Checks BY <2>3, ChecksTypes
  <2>4. CASE Cloud BY <2>4, CloudEffects DEF TypeOK, engine, FaultTypes
  <2>5. CASE UNCHANGED vars BY <2>5 DEF vars, engine, TypeOK
  <2> QED BY <2>1, <2>2, <2>3, <2>4, <2>5 DEF Next, Engine, Done
<1> QED BY <1>1, InitTypes, PTL DEF Spec

-----------------------------------------------------------------------------
(* The invariant behind the safety properties.                             *)

\* An item HandleWait looks at is on its way, or was in the failed state before.
WaitPhase ==
  pc \in {"hook", "list"} =>
    \/ state[pos] \in {"pending", "waiting"}
    \/ pos \in everFailed /\ state[pos] \in {"hold", "failed", "deferred"}

\* Whatever is in one of these states, or has failed, was asked to go.
Tried ==
  \A i \in Item :
    state[i] \in {"hold", "pending", "waiting", "failed"} \/ i \in everFailed => attempts[i] > 0

FailedSeen == \A i \in Item : state[i] = "failed" => i \in everFailed

NewIsFree == \A i \in Item : state[i] = "new" => DependenciesOf(i) = {}

FilteredUntried == \A i \in Item : state[i] = "filtered" => attempts[i] = 0

\* What the pass has cached of a listing shows everything the cloud has still not taken.
CacheShowsPresent ==
  \A k \in cached : \A i \in Item : Key(i) = k /\ cloud[i] = "present" => i \in left[k]

\* The listing is consulted only once the hook has seen the resource gone.
HookSawGone ==
  /\ pc = "list" /\ TypeOf[pos] \in HookTypes => cloud[pos] = "gone"
  /\ \A i \in Item : TypeOf[i] \in HookTypes /\ state[i] = "finished" => cloud[i] = "gone"

Stopped ==
  /\ outcome # "running" <=> pc = "done"
  /\ pc = "scanned" => \A i \in Item : state[i] \in NewStates \cup {"filtered", "deferred"}
  /\ pc = "scanned" \/ outcome \in {"nothing", "dryRun", "declined"}
       => \A i \in Item : attempts[i] = 0
  /\ outcome = "ok" => \A i \in Item : state[i] \in {"finished", "filtered", "deferred"}

\* d is out of the way of i, for good.
Cleared(d, i) ==
  \/ d \in everFailed
  \/ state[d] \in {"finished", "filtered"}
  \/ state[d] = "deferred" /\ ~InTheWay(d, i, TRUE)

ItemInv == WaitPhase /\ Tried /\ FailedSeen /\ NewIsFree /\ FilteredUntried
SeenInv == FinishedIsGone /\ CacheShowsPresent /\ HookSawGone
IInv == ItemInv /\ SeenInv /\ Stopped /\ DependencyOrder

LEMMA InitInv == Init => IInv
<1> SUFFICES ASSUME Init PROVE IInv
  OBVIOUS
<1>1. \A i \in Item : state[i] \in {"new", "newDependency", "filtered", "deferred"}
  BY ItemFacts DEF Init, IsPlan
<1>2. \A i \in Item : attempts[i] = 0 BY DEF Init
<1>3. pc = "scanned" /\ outcome = "running" /\ cached = {} /\ everFailed = {} BY DEF Init
<1>4. NewIsFree BY ItemFacts DEF Init, IsPlan, NewIsFree
<1>5. ItemInv
  BY <1>1, <1>2, <1>3, <1>4 DEF ItemInv, WaitPhase, Tried, FailedSeen, FilteredUntried
<1>6. SeenInv
  BY <1>1, <1>3 DEF SeenInv, FinishedIsGone, CacheShowsPresent, HookSawGone
<1>7. Stopped BY <1>1, <1>2, <1>3 DEF Stopped, NewStates
<1>8. DependencyOrder BY <1>2 DEF DependencyOrder
<1> QED BY <1>5, <1>6, <1>7, <1>8 DEF IInv

\* What is out of the way of an item stays so, whoever's state changes: a step leaves an item
\* in a settled state there, or the item has failed.
LEMMA ClearedForGood ==
  ASSUME NEW d \in Item, NEW i \in Item, Cleared(d, i),
         everFailed \subseteq everFailed',
         state'[d] = state[d] \/ d \in everFailed'
  PROVE  Cleared(d, i)'
BY DEF Cleared, InTheWay

\* Wherever HandleQueue calls HandleRemove, what the item depends on is out of its way.
LEMMA MayRemove ==
  ASSUME TypeOK, IInv, HandleRemove(pos),
         \/ state[pos] \in {"new", "hold", "failed"}
         \/ /\ state[pos] \in {"newDependency", "pendingDependency"}
            /\ ~DependenciesLeft(pos)
            /\ BlockersIn(state, pos, "deferred", TRUE) = {}
  PROVE  \A d \in DependenciesOf(pos) : Cleared(d, pos)
<1> pos \in Item BY DEF TypeOK
<1>1. CASE state[pos] = "new" BY <1>1 DEF IInv, ItemInv, NewIsFree
<1>2. CASE state[pos] \in {"hold", "failed"}
  <2>1. attempts[pos] > 0 BY <1>2 DEF IInv, ItemInv, Tried
  <2> QED BY <2>1 DEF IInv, DependencyOrder, Cleared
<1>3. CASE ~DependenciesLeft(pos) /\ BlockersIn(state, pos, "deferred", TRUE) = {}
  <2> SUFFICES ASSUME NEW d \in DependenciesOf(pos) PROVE Cleared(d, pos)
    OBVIOUS
  <2>1. d \in Item /\ state[d] \in ItemState BY DEF DependenciesOf, TypeOK
  <2>2. state[d] \in {"failed", "filtered", "finished", "deferred"}
    BY <1>3, <2>1 DEF DependenciesLeft, ProcessingStates, NewStates, WaitStates, ItemState
  <2>3. CASE state[d] = "failed" BY <2>1, <2>3 DEF IInv, ItemInv, FailedSeen, Cleared
  <2>4. CASE state[d] = "deferred" BY <1>3, <2>1, <2>4 DEF BlockersIn, Cleared
  <2> QED BY <2>2, <2>3, <2>4 DEF Cleared
<1> QED BY <1>1, <1>2, <1>3

\* A step of HandleRemove, wherever the pass goes on from there.
LEMMA RemoveInv ==
  ASSUME TypeOK, TypeOK', IInv, pc = "dispatch", HandleRemove(pos), InPass,
         state[pos] \in {"new", "hold", "failed", "newDependency", "pendingDependency"},
         \A d \in DependenciesOf(pos) : Cleared(d, pos),
         Advance \/ (state[pos] = "failed" /\ EnterWait(pos, "failed"))
  PROVE  IInv'
<1> pos \in Item BY DEF TypeOK
<1>1. PICK s \in {"pending", "hold", "failed", "deferred"} : SetState(pos, s)
  BY RemoveEffects
<1>0. state' = [state EXCEPT ![pos] = s] BY <1>1 DEF SetState
<1>x. attempts' = [attempts EXCEPT ![pos] = IF @ < AttemptCap THEN @ + 1 ELSE @]
  BY RemoveEffects
<1>2. \A j \in Item : j # pos => state'[j] = state[j] /\ attempts'[j] = attempts[j]
  BY <1>0, <1>x DEF TypeOK
<1>3. state'[pos] = s /\ attempts'[pos] > 0
  BY <1>0, <1>x DEF TypeOK, AttemptCap
<1>4. everFailed' = IF s = "failed" THEN everFailed \cup {pos} ELSE everFailed
  BY <1>1 DEF SetState
<1>5. pc' \in {"dispatch", "failure"} \/ (pc' \in {"hook", "list"} /\ pos' = pos /\ state[pos] = "failed")
  BY AdvanceTypes DEF EnterWait
<1>6. UNCHANGED <<cached, left, outcome>> BY DEF InPass
<1>7. outcome = "running" BY DEF IInv, Stopped
<1>8. ItemInv'
  <2>1. WaitPhase'
    <3>1. state[pos] = "failed" => pos \in everFailed BY DEF IInv, ItemInv, FailedSeen
    <3> QED BY <1>3, <1>4, <1>5, <3>1 DEF WaitPhase
  <2>2. (Tried /\ FailedSeen)'
    BY <1>2, <1>3, <1>4 DEF IInv, ItemInv, Tried, FailedSeen
  <2>3. (NewIsFree /\ FilteredUntried)'
    BY <1>2, <1>3 DEF IInv, ItemInv, NewIsFree, FilteredUntried
  <2> QED BY <2>1, <2>2, <2>3 DEF ItemInv
<1>9. SeenInv'
  <2>1. CloudForward BY RemoveEffects
  <2>2. FinishedIsGone' BY <1>2, <1>3, <2>1 DEF IInv, SeenInv, FinishedIsGone, CloudForward
  <2>3. CacheShowsPresent'
    BY <1>6, <2>1 DEF IInv, SeenInv, CacheShowsPresent, CloudForward
  <2>4. HookSawGone'
    <3>1. ~(pc' = "list" /\ TypeOf[pos'] \in HookTypes)
      BY AdvanceTypes DEF EnterWait
    <3> QED BY <1>2, <1>3, <2>1, <3>1 DEF IInv, SeenInv, HookSawGone, CloudForward
  <2> QED BY <2>2, <2>3, <2>4 DEF SeenInv
<1>10. Stopped' BY <1>5, <1>6, <1>7 DEF Stopped
<1>11. DependencyOrder'
  <2> SUFFICES ASSUME NEW i \in Item, attempts'[i] > 0, NEW d \in DependenciesOf(i)
               PROVE  Cleared(d, i)'
    BY DEF DependencyOrder, Cleared
  <2>1. d \in Item BY DEF DependenciesOf
  <2>2. Cleared(d, i) BY <1>2 DEF IInv, DependencyOrder, Cleared
  <2>3. everFailed \subseteq everFailed' BY <1>4
  <2>4. CASE d # pos BY <1>2, <2>1, <2>2, <2>3, <2>4, ClearedForGood
  <2>5. CASE d = pos
    <3>1. pos \in everFailed BY <2>2, <2>5 DEF Cleared
    <3> QED BY <2>3, <2>5, <3>1 DEF Cleared
  <2> QED BY <2>4, <2>5
<1> QED BY <1>8, <1>9, <1>10, <1>11 DEF IInv

\* HandleWaitDependency without a removal: the item goes on waiting for others, or is given up
\* for this run.
LEMMA HoldBackInv ==
  ASSUME TypeOK, TypeOK', IInv, pc = "dispatch", InPass, Advance,
         state[pos] \in {"newDependency", "pendingDependency"},
         NEW s \in {"pendingDependency", "deferred"}, SetState(pos, s),
         UNCHANGED <<cloud, faults, attempts>>
  PROVE  IInv'
<1> pos \in Item BY DEF TypeOK
<1>1. state' = [state EXCEPT ![pos] = s] /\ everFailed' = everFailed BY DEF SetState
<1>2. \A j \in Item : j # pos => state'[j] = state[j] BY <1>1 DEF TypeOK
<1>3. state'[pos] = s BY <1>1 DEF TypeOK
<1>4. pc' \in {"dispatch", "failure"} BY AdvanceTypes
<1>5. outcome = "running" /\ UNCHANGED <<cached, left, outcome>>
  BY DEF IInv, Stopped, InPass
<1>6. ItemInv'
  <2>1. WaitPhase' BY <1>4 DEF WaitPhase
  <2>2. (Tried /\ FailedSeen)' BY <1>1, <1>2, <1>3 DEF IInv, ItemInv, Tried, FailedSeen
  <2>3. (NewIsFree /\ FilteredUntried)'
    BY <1>2, <1>3 DEF IInv, ItemInv, NewIsFree, FilteredUntried
  <2> QED BY <2>1, <2>2, <2>3 DEF ItemInv
<1>7. SeenInv'
  <2>1. FinishedIsGone' BY <1>2, <1>3 DEF IInv, SeenInv, FinishedIsGone
  <2>2. CacheShowsPresent' BY <1>5 DEF IInv, SeenInv, CacheShowsPresent
  <2>3. HookSawGone' BY <1>2, <1>3, <1>4 DEF IInv, SeenInv, HookSawGone
  <2> QED BY <2>1, <2>2, <2>3 DEF SeenInv
<1>8. Stopped' BY <1>4, <1>5 DEF Stopped
<1>9. DependencyOrder'
  <2> SUFFICES ASSUME NEW i \in Item, attempts[i] > 0, NEW d \in DependenciesOf(i)
               PROVE  Cleared(d, i)'
    BY DEF DependencyOrder, Cleared
  <2>1. d \in Item BY DEF DependenciesOf
  <2>2. Cleared(d, i) BY DEF IInv, DependencyOrder, Cleared
  <2>3. state'[d] = state[d] \/ d \in everFailed' BY <1>1, <1>2, <2>1, <2>2 DEF Cleared
  <2> QED BY <1>1, <2>1, <2>2, <2>3, ClearedForGood
<1> QED BY <1>6, <1>7, <1>8, <1>9 DEF IInv

\* HandleQueue passes an item by, or only sets out to look at it.
LEMMA PassByInv ==
  ASSUME TypeOK, IInv, pc = "dispatch", InPass,
         DispatchWait(pos) \/ DispatchSettled(pos)
  PROVE  IInv'
<1> pos \in Item BY DEF TypeOK
<1>1. UNCHANGED <<state, cloud, faults, attempts, everFailed>>
  BY DEF DispatchWait, DispatchSettled
<1>2. UNCHANGED <<cached, left, outcome>> BY DEF InPass
<1>3. \/ pc' \in {"dispatch", "failure"}
      \/ /\ pc' \in {"hook", "list"} /\ pos' = pos /\ state[pos] \in {"pending", "waiting"}
         /\ pc' = "list" => TypeOf[pos] \notin HookTypes
  BY AdvanceTypes DEF DispatchWait, DispatchSettled, EnterWait
<1>4. ItemInv'
  BY <1>1, <1>3 DEF IInv, ItemInv, WaitPhase, Tried, FailedSeen, NewIsFree, FilteredUntried
<1>5. (FinishedIsGone /\ CacheShowsPresent)'
  BY <1>1, <1>2 DEF IInv, SeenInv, FinishedIsGone, CacheShowsPresent
<1>6. HookSawGone' BY <1>1, <1>3 DEF IInv, SeenInv, HookSawGone
<1>7. outcome = "running" BY DEF IInv, Stopped
<1>8. Stopped' BY <1>2, <1>3, <1>7 DEF Stopped
<1>9. DependencyOrder' BY <1>1 DEF IInv, DependencyOrder
<1> QED BY <1>4, <1>5, <1>6, <1>8, <1>9 DEF IInv, SeenInv

LEMMA DispatchInv ==
  ASSUME TypeOK, TypeOK', IInv, Dispatch
  PROVE  IInv'
<1>1. pc = "dispatch" /\ InPass BY DEF Dispatch
<1>2. CASE DispatchRemove(pos)
  <2>1. HandleRemove(pos) /\ Advance /\ state[pos] \in {"new", "hold"}
    BY <1>2 DEF DispatchRemove
  <2>2. \A d \in DependenciesOf(pos) : Cleared(d, pos) BY <2>1, MayRemove
  <2> QED BY <1>1, <2>1, <2>2, RemoveInv
<1>3. CASE DispatchDependent(pos)
  <2>1. Advance /\ state[pos] \in {"newDependency", "pendingDependency"}
    BY <1>3 DEF DispatchDependent
  <2>2. CASE ~DependenciesLeft(pos) /\ BlockersIn(state, pos, "deferred", TRUE) = {}
             /\ HandleRemove(pos)
    <3>1. \A d \in DependenciesOf(pos) : Cleared(d, pos) BY <2>1, <2>2, MayRemove
    <3> QED BY <1>1, <2>1, <2>2, <3>1, RemoveInv
  <2>3. CASE (\E s \in {"pendingDependency", "deferred"} : SetState(pos, s))
             /\ UNCHANGED <<cloud, faults, attempts>>
    BY <1>1, <2>1, <2>3, HoldBackInv
  <2> QED BY <1>3, <2>2, <2>3 DEF DispatchDependent, HandleWaitDependency
<1>4. CASE DispatchFailed(pos)
  <2>1. HandleRemove(pos) /\ EnterWait(pos, "failed") /\ state[pos] = "failed"
    BY <1>4 DEF DispatchFailed
  <2>2. \A d \in DependenciesOf(pos) : Cleared(d, pos) BY <2>1, MayRemove
  <2> QED BY <1>1, <2>1, <2>2, RemoveInv
<1>5. CASE DispatchWait(pos) \/ DispatchSettled(pos) BY <1>1, <1>5, PassByInv
<1> QED BY <1>2, <1>3, <1>4, <1>5 DEF Dispatch

\* A listing without the item, fresh or cached in this pass, shows that the cloud took it.
LEMMA JudgedFinished ==
  ASSUME TypeOK, IInv, Hook \/ List, state'[pos] = "finished"
  PROVE  /\ cloud[pos] # "present"
         /\ TypeOf[pos] \in HookTypes => cloud[pos] = "gone"
<1> pos \in Item BY DEF TypeOK
<1>1. CASE state[pos] = "finished"
  BY <1>1 DEF IInv, SeenInv, FinishedIsGone, HookSawGone
<1>2. CASE state[pos] # "finished"
  <2>1. CASE Hook
    <3>1. state'[pos] \in {"waiting", "failed", state[pos]}
      BY <2>1 DEF Hook, HookWaits, HookFails, HookPasses, WaitReturns, SetState, TypeOK
    <3> QED BY <1>2, <3>1
  <2>2. CASE List
    <3>1. pc = "list" BY <2>2 DEF List
    <3>2. TypeOf[pos] \in HookTypes => cloud[pos] = "gone"
      BY <3>1 DEF IInv, SeenInv, HookSawGone
    <3>3. CASE ListFails(pos)
      BY <3>3 DEF ListFails, WaitReturns, SetState, TypeOK
    <3>4. ASSUME NEW list, Judge(pos, list), cloud[pos] = "present" => pos \in list
          PROVE  cloud[pos] # "present"
      BY <1>2, <3>4 DEF Judge, WaitReturns, SetState, StillListed, TypeOK
    <3>5. CASE ListCached(pos)
      <4>1. cloud[pos] = "present" => pos \in left[Key(pos)]
        BY <3>5 DEF ListCached, IInv, SeenInv, CacheShowsPresent
      <4> QED BY <3>2, <3>4, <3>5, <4>1 DEF ListCached
    <3>6. CASE ListFresh(pos)
      <4>1. cloud[pos] = "present" => pos \in Listing(Key(pos)) BY DEF Listing, Visible
      <4> QED BY <3>2, <3>4, <3>6, <4>1 DEF ListFresh
    <3> QED BY <2>2, <3>3, <3>5, <3>6 DEF List
  <2> QED BY <2>1, <2>2
<1> QED BY <1>1, <1>2

LEMMA WaitCache ==
  ASSUME TypeOK, IInv, Hook \/ List
  PROVE  CacheShowsPresent'
<1> pos \in Item BY DEF TypeOK
<1>1. cloud' = cloud BY WaitEffects
<1>2. CASE UNCHANGED <<cached, left>>
  BY <1>1, <1>2 DEF IInv, SeenInv, CacheShowsPresent
<1>3. CASE ListFresh(pos)
  <2> SUFFICES ASSUME NEW k \in cached', NEW i \in Item, Key(i) = k, cloud[i] = "present"
               PROVE  i \in left'[k]
    BY <1>1 DEF CacheShowsPresent
  <2>1. k \in Keys BY DEF Keys
  <2>2. left' = [left EXCEPT ![Key(pos)] = Listing(Key(pos))]
        /\ cached' = cached \cup {Key(pos)}
    BY <1>3 DEF ListFresh
  <2>3. CASE k = Key(pos)
    <3>1. i \in Listing(k) BY DEF Listing, Visible
    <3> QED BY <2>1, <2>2, <2>3, <3>1 DEF TypeOK
  <2>4. CASE k # Key(pos)
    <3>1. k \in cached /\ left'[k] = left[k] BY <2>1, <2>2, <2>4 DEF TypeOK
    <3> QED BY <3>1 DEF IInv, SeenInv, CacheShowsPresent
  <2> QED BY <2>3, <2>4
<1> QED BY <1>2, <1>3 DEF Hook, InPass, List, ListCached, ListFails

LEMMA WaitInv ==
  ASSUME TypeOK, TypeOK', IInv, Hook \/ List
  PROVE  IInv'
<1> pos \in Item BY DEF TypeOK
<1>1. /\ pc \in {"hook", "list"}
      /\ UNCHANGED <<outcome, cloud, attempts>>
  BY WaitEffects
<1>2. attempts[pos] > 0 /\ (state[pos] \in {"pending", "waiting"} \/ pos \in everFailed)
  BY <1>1 DEF IInv, ItemInv, WaitPhase, Tried
<1>3. outcome = "running" BY <1>1 DEF IInv, Stopped
<1>4. CASE UNCHANGED <<state, pos, entered, everFailed>> /\ pc' = "list"
  <2>1. ItemInv'
    BY <1>1, <1>4 DEF IInv, ItemInv, WaitPhase, Tried, FailedSeen, NewIsFree, FilteredUntried
  <2>2. FinishedIsGone' BY <1>1, <1>4 DEF IInv, SeenInv, FinishedIsGone
  <2>3. HookSawGone'
    <3>1. TypeOf[pos] \in HookTypes => cloud[pos] = "gone"
      <4>1. CASE List BY <4>1 DEF List, IInv, SeenInv, HookSawGone
      <4>2. CASE Hook
        <5>1. CASE HookPasses(pos) BY <5>1 DEF HookPasses
        <5>2. CASE HookWaits(pos) \/ HookFails(pos)
          BY <1>4, <5>2, AdvanceTypes DEF HookWaits, HookFails, WaitReturns
        <5> QED BY <4>2, <5>1, <5>2 DEF Hook
      <4> QED BY <4>1, <4>2
    <3> QED BY <1>1, <1>4, <3>1 DEF IInv, SeenInv, HookSawGone
  <2>4. Stopped' BY <1>1, <1>3, <1>4 DEF Stopped
  <2>5. DependencyOrder' BY <1>1, <1>4 DEF IInv, DependencyOrder
  <2> QED BY <2>1, <2>2, <2>3, <2>4, <2>5, WaitCache DEF IInv, SeenInv
<1>5. CASE (\E s \in {"waiting", "failed", "finished", state[pos]} : SetState(pos, s))
           /\ Advance
  <2>1. PICK s \in {"waiting", "failed", "finished", state[pos]} : SetState(pos, s) BY <1>5
  <2>2. state' = [state EXCEPT ![pos] = s]
        /\ everFailed' = IF s = "failed" THEN everFailed \cup {pos} ELSE everFailed
    BY <2>1 DEF SetState
  <2>3. \A j \in Item : j # pos => state'[j] = state[j] BY <2>2 DEF TypeOK
  <2>4. state'[pos] = s BY <2>2 DEF TypeOK
  <2>5. pc' \in {"dispatch", "failure"} BY <1>5, AdvanceTypes
  <2>6. ItemInv'
    <3>1. WaitPhase' BY <2>5 DEF WaitPhase
    <3>2. Tried' BY <1>1, <1>2, <2>2, <2>3, <2>4 DEF IInv, ItemInv, Tried
    <3>3. FailedSeen' BY <2>2, <2>3, <2>4 DEF IInv, ItemInv, FailedSeen
    <3>4. (NewIsFree /\ FilteredUntried)'
      BY <1>1, <2>3, <2>4 DEF IInv, ItemInv, NewIsFree, FilteredUntried
    <3> QED BY <3>1, <3>2, <3>3, <3>4 DEF ItemInv
  <2>7. FinishedIsGone' /\ HookSawGone'
    BY <1>1, <2>3, <2>5, JudgedFinished DEF IInv, SeenInv, FinishedIsGone, HookSawGone
  <2>8. Stopped' BY <1>1, <1>3, <2>5 DEF Stopped
  <2>9. DependencyOrder'
    <3> SUFFICES ASSUME NEW i \in Item, attempts[i] > 0, NEW d \in DependenciesOf(i)
                 PROVE  Cleared(d, i)'
      BY <1>1 DEF DependencyOrder, Cleared
    <3>1. d \in Item BY DEF DependenciesOf
    <3>2. Cleared(d, i) BY DEF IInv, DependencyOrder, Cleared
    <3>3. everFailed \subseteq everFailed' BY <2>2
    <3>4. state'[d] = state[d] \/ d \in everFailed'
      <4>1. CASE d # pos BY <2>3, <3>1, <4>1
      <4>2. CASE d = pos BY <1>2, <3>2, <3>3, <4>2 DEF Cleared
      <4> QED BY <4>1, <4>2
    <3> QED BY <3>1, <3>2, <3>3, <3>4, ClearedForGood
  <2> QED BY <2>6, <2>7, <2>8, <2>9, WaitCache DEF IInv, SeenInv
<1> QED BY <1>4, <1>5, WaitEffects

\* The checks of a pass change no item; a pass that starts anew forgets its listings, and the
\* loop ends well only when nothing is left unfinished.
LEMMA ChecksInv ==
  ASSUME TypeOK, IInv, Checks
  PROVE  IInv'
<1>1. /\ UNCHANGED <<state, pos, cloud, attempts, everFailed>>
      /\ pc \in {"scanned", "failure", "wait", "loop"}
  BY DEF Checks, Confirm, HandleFailure, GivesUpAt, HandleWaiting, Loop
<1>2. \/ pc' = "done" /\ outcome' # "running"
      \/ pc' \in {"dispatch", "wait", "loop"} /\ outcome' = outcome
  BY DEF Checks, Confirm, HandleFailure, GivesUpAt, HandleWaiting, Loop, End, StartPass
<1>3. outcome = "running" BY <1>1 DEF IInv, Stopped
<1>4. ItemInv'
  BY <1>1, <1>2 DEF IInv, ItemInv, WaitPhase, Tried, FailedSeen, NewIsFree, FilteredUntried
<1>5. FinishedIsGone' /\ HookSawGone'
  BY <1>1, <1>2 DEF IInv, SeenInv, FinishedIsGone, HookSawGone
<1>6. CacheShowsPresent'
  <2>1. cached' = {} \/ UNCHANGED <<cached, left>>
    BY DEF Checks, Confirm, HandleFailure, GivesUpAt, HandleWaiting, Loop, StartPass
  <2> QED BY <1>1, <2>1 DEF IInv, SeenInv, CacheShowsPresent
<1>7. Stopped'
  <2>1. outcome' \in {"nothing", "dryRun", "declined"} => \A i \in Item : attempts[i] = 0
    <3>1. CASE Confirm BY <3>1 DEF Confirm, IInv, Stopped
    <3>2. CASE ~Confirm
      BY <1>3, <3>2 DEF Checks, HandleFailure, GivesUpAt, HandleWaiting, Loop, End, StartPass
    <3> QED BY <3>1, <3>2
  <2>2. outcome' = "ok" => \A i \in Item : state[i] \in {"finished", "filtered", "deferred"}
    <3>1. CASE Loop /\ ~AnyIn(state, UnfinishedStates)
      BY <3>1 DEF AnyIn, UnfinishedStates, ProcessingStates, NewStates, WaitStates,
                  TypeOK, ItemState
    <3>2. CASE ~(Loop /\ ~AnyIn(state, UnfinishedStates))
      BY <1>3, <3>2 DEF Checks, Confirm, HandleFailure, GivesUpAt, HandleWaiting, Loop, End,
                        StartPass
    <3> QED BY <3>1, <3>2
  <2> QED BY <1>1, <1>2, <1>3, <2>1, <2>2 DEF Stopped
<1>8. DependencyOrder' BY <1>1 DEF IInv, DependencyOrder
<1> QED BY <1>4, <1>5, <1>6, <1>7, <1>8 DEF IInv, SeenInv

LEMMA CloudInv ==
  ASSUME TypeOK, IInv, Cloud
  PROVE  IInv'
<1>1. UNCHANGED <<state, pc, pos, entered, cached, left, outcome, attempts, everFailed>>
  BY CloudEffects DEF engine
<1>2. CloudForward /\ pos \in Item BY CloudEffects DEF TypeOK
<1>3. ItemInv'
  BY <1>1 DEF IInv, ItemInv, WaitPhase, Tried, FailedSeen, NewIsFree, FilteredUntried
<1>4. SeenInv'
  BY <1>1, <1>2
     DEF IInv, SeenInv, FinishedIsGone, CacheShowsPresent, HookSawGone, CloudForward
<1>5. Stopped' /\ DependencyOrder' BY <1>1 DEF IInv, Stopped, DependencyOrder
<1> QED BY <1>3, <1>4, <1>5 DEF IInv

LEMMA Invariance == Spec => [](TypeOK /\ IInv)
<1>1. IInv /\ TypeOK /\ TypeOK' /\ [Next]_vars => IInv'
  <2> SUFFICES ASSUME IInv, TypeOK, TypeOK', [Next]_vars PROVE IInv'
    OBVIOUS
  <2>1. CASE Dispatch BY <2>1, DispatchInv
  <2>2. CASE Hook \/ List BY <2>2, WaitInv
  <2>3. CASE Checks BY <2>3, ChecksInv
  <2>4. CASE Cloud BY <2>4, CloudInv
  <2>5. CASE UNCHANGED vars
    BY <2>5 DEF vars, engine, IInv, ItemInv, SeenInv, WaitPhase, Tried, FailedSeen, NewIsFree,
                FilteredUntried, FinishedIsGone, CacheShowsPresent, HookSawGone, Stopped,
                DependencyOrder
  <2> QED BY <2>1, <2>2, <2>3, <2>4, <2>5 DEF Next, Engine, Done
<1> QED BY <1>1, InitInv, TypeCorrect, PTL DEF Spec

-----------------------------------------------------------------------------
(* The properties. *)

\* HandleWaitDependency: nothing is asked to go before what it depends on is out of its way
\* or has failed at least once.
THEOREM OrderKept == Spec => []DependencyOrder
<1>1. IInv => DependencyOrder BY DEF IInv
<1> QED BY <1>1, Invariance, PTL

\* HandleWait: a finished item is one the cloud no longer keeps, whatever failed on the way.
THEOREM FinishedMeansGone == Spec => []FinishedIsGone
<1>1. IInv => FinishedIsGone BY DEF IInv, SeenInv
<1> QED BY <1>1, Invariance, PTL

\* run: when it returns no error, only what the plan left out is still there.
THEOREM SuccessSweeps == Spec => []SuccessMeansSwept
<1>1. TypeOK /\ IInv => SuccessMeansSwept
  BY DEF IInv, SeenInv, FinishedIsGone, Stopped, SuccessMeansSwept
<1> QED BY <1>1, Invariance, PTL

\* What the plan keeps stays kept and is never asked to go, and nothing is before the second
\* prompt: HandleQueue's switch has no case for a filtered item, and HandleWait is only ever
\* at an item that was asked to go.
THEOREM KeptStaysUntouched == Spec => KeptUntouched
<1>1. TypeOK /\ IInv /\ IInv' /\ [Next]_vars => KeepsFiltered
  <2> SUFFICES ASSUME TypeOK, IInv, IInv', [Next]_vars, NEW i \in Item
               PROVE  LeftAlone(i)
    BY DEF KeepsFiltered
  <2>1. state[i] = "filtered" => state'[i] = "filtered"
    <3> SUFFICES ASSUME state[i] = "filtered" PROVE state'[i] = state[i]
      OBVIOUS
    <3> pos \in Item BY DEF TypeOK
    <3>1. CASE Dispatch
      <4>1. CASE DispatchWait(pos) \/ DispatchSettled(pos)
        BY <4>1 DEF DispatchWait, DispatchSettled
      <4>2. CASE ~(DispatchWait(pos) \/ DispatchSettled(pos))
        <5>1. state[pos] # "filtered" /\ \E s \in ItemState : SetState(pos, s)
          BY <3>1, <4>2, RemoveEffects
             DEF Dispatch, DispatchRemove, DispatchDependent, DispatchFailed,
                 HandleWaitDependency, ItemState
        <5> QED BY <5>1 DEF SetState, TypeOK
      <4> QED BY <4>1, <4>2
    <3>2. CASE Hook \/ List
      <4>1. pos # i
        BY <3>2, WaitEffects DEF IInv, ItemInv, WaitPhase, Tried, FilteredUntried, TypeOK
      <4> QED BY <3>2, <4>1, WaitEffects DEF SetState, TypeOK
    <3>3. CASE Checks
      BY <3>3 DEF Checks, Confirm, HandleFailure, GivesUpAt, HandleWaiting, Loop
    <3>4. CASE Cloud BY <3>4, CloudEffects DEF engine
    <3>5. CASE UNCHANGED vars BY <3>5 DEF vars, engine
    <3> QED BY <3>1, <3>2, <3>3, <3>4, <3>5 DEF Next, Engine, Done
  <2>2. state'[i] = "filtered" \/ outcome' \in {"nothing", "dryRun", "declined"}
          => attempts'[i] = 0
    BY DEF IInv, ItemInv, FilteredUntried, Stopped
  <2> QED BY <2>1, <2>2 DEF LeftAlone
<1> QED BY <1>1, Invariance, PTL DEF Spec, KeptUntouched

\* OkeCluster.HandleWait and OkeNodePool.HandleWait: their dependents are only asked to go
\* once the service has said the cluster or pool is gone, or it failed or was left out.
THEOREM HookHoldsBack == Spec => []HookKeepsDependentsBack
<1>1. IInv => HookKeepsDependentsBack
  <2> SUFFICES ASSUME IInv, NEW i \in Item, attempts[i] > 0, NEW d \in DependenciesOf(i),
                      TypeOf[d] \in HookTypes
               PROVE  d \in everFailed \/ state[d] \in {"filtered", "deferred"} \/ cloud[d] = "gone"
    BY DEF HookKeepsDependentsBack
  <2>1. d \in Item BY DEF DependenciesOf
  <2>2. d \in everFailed \/ state[d] \in {"finished", "filtered", "deferred"}
    BY DEF IInv, DependencyOrder
  <2> QED BY <2>1, <2>2 DEF IInv, SeenInv, HookSawGone
<1> QED BY <1>1, Invariance, PTL

-----------------------------------------------------------------------------
(* What the run waits for. *)

\* HandleWait is at an item in the state HandleQueue dispatched it in, and asks a hook only
\* of a type that has one.
WaitEntry ==
  /\ pc = "hook" => TypeOf[pos] \in HookTypes
  /\ pc \in {"hook", "list"} =>
       /\ entered \in {"failed", "pending", "waiting"}
       /\ entered # "failed" => state[pos] = entered

GoingInv == WaitEntry /\ WaitsOnlyForTheGoing

\* HandleRemove leaves an item pending only when the cloud has its removal.
LEMMA PendingIsGoing ==
  ASSUME TypeOK, NEW i \in Item, HandleRemove(i), state'[i] \in {"pending", "waiting"}
  PROVE  cloud'[i] # "present"
<1> USE DEF TypeOK, SetState, CloudState
<1>1. CASE Accepted(i)
  <2>1. AfterRemove(i) \in {"gone", "deleting"} BY DEF AfterRemove
  <2> QED BY <1>1, <2>1 DEF Accepted, SetCloud
<1>2. CASE Refused(i) BY <1>2 DEF Refused
<1>3. CASE AlreadyGoing(i) BY <1>3 DEF AlreadyGoing
<1>4. CASE RemoveFails(i) BY <1>4 DEF RemoveFails
<1>5. CASE AnswerLost(i) BY <1>5 DEF AnswerLost
<1>6. CASE RemoveHolds(i) BY <1>6 DEF RemoveHolds
<1> QED BY <1>1, <1>2, <1>3, <1>4, <1>5, <1>6 DEF HandleRemove

LEMMA RemoveGoing ==
  ASSUME TypeOK, WaitsOnlyForTheGoing, NEW i \in Item, HandleRemove(i)
  PROVE  WaitsOnlyForTheGoing'
<1>1. PICK s \in {"pending", "hold", "failed", "deferred"} : SetState(i, s)
  BY RemoveEffects
<1>2. \A j \in Item : j # i => state'[j] = state[j] BY <1>1 DEF SetState, TypeOK
<1>3. CloudForward BY RemoveEffects
<1> QED BY <1>2, <1>3, PendingIsGoing DEF WaitsOnlyForTheGoing, Going, CloudForward

LEMMA DispatchGoing ==
  ASSUME TypeOK, GoingInv, Dispatch
  PROVE  GoingInv'
<1> pos \in Item BY DEF TypeOK
<1>1. CASE HandleRemove(pos) /\ Advance
  BY <1>1, RemoveGoing, AdvanceTypes DEF GoingInv, WaitEntry
<1>2. CASE HandleRemove(pos) /\ EnterWait(pos, "failed")
  BY <1>2, RemoveGoing DEF GoingInv, WaitEntry, EnterWait
<1>3. CASE /\ \E s \in {"pendingDependency", "deferred"} : SetState(pos, s)
           /\ Advance /\ UNCHANGED <<cloud, faults, attempts>>
  <2>1. \A j \in Item : state'[j] \in {"pending", "waiting"} => state'[j] = state[j]
    BY <1>3 DEF SetState, TypeOK
  <2> QED BY <1>3, <2>1, AdvanceTypes DEF GoingInv, WaitEntry, WaitsOnlyForTheGoing, Going
<1>4. CASE DispatchWait(pos)
  BY <1>4 DEF DispatchWait, EnterWait, GoingInv, WaitEntry, WaitsOnlyForTheGoing, Going
<1>5. CASE DispatchSettled(pos)
  BY <1>5, AdvanceTypes DEF DispatchSettled, GoingInv, WaitEntry, WaitsOnlyForTheGoing, Going
<1> QED
  BY <1>1, <1>2, <1>3, <1>4, <1>5
     DEF Dispatch, DispatchRemove, DispatchDependent, DispatchFailed, HandleWaitDependency

\* What HandleWait calls waiting was pending or waiting before, unless its hook says so.
LEMMA WaitGoing ==
  ASSUME TypeOK, GoingInv, Hook \/ List
  PROVE  GoingInv'
<1> pos \in Item BY DEF TypeOK
<1>1. cloud' = cloud /\ pc \in {"hook", "list"} BY WaitEffects
<1>2. CASE UNCHANGED <<state, pos, entered, everFailed>> /\ pc' = "list"
  BY <1>1, <1>2 DEF GoingInv, WaitEntry, WaitsOnlyForTheGoing, Going
<1>3. CASE /\ \E s \in {"waiting", "failed", "finished", state[pos]} : SetState(pos, s)
           /\ Advance
  <2>1. WaitEntry' BY <1>3, AdvanceTypes DEF WaitEntry
  <2>2. \A j \in Item : j # pos => state'[j] = state[j] BY <1>3 DEF SetState, TypeOK
  <2>3. TypeOf[pos] \notin HookTypes /\ state'[pos] \in {"pending", "waiting"}
          => state[pos] \in {"pending", "waiting"}
    <3> SUFFICES ASSUME TypeOf[pos] \notin HookTypes,
                        state'[pos] \in {"pending", "waiting"},
                        state[pos] \notin {"pending", "waiting"}
                 PROVE  FALSE
      OBVIOUS
    <3>1. List /\ entered = "failed" BY <1>1 DEF GoingInv, WaitEntry, Hook
    <3>2. state'[pos] \in {"failed", "finished", state[pos]}
      BY <3>1 DEF List, ListCached, ListFresh, ListFails, Judge, WaitReturns, SetState, TypeOK
    <3> QED BY <3>2
  <2> QED BY <1>1, <2>1, <2>2, <2>3 DEF GoingInv, WaitsOnlyForTheGoing, Going
<1> QED BY <1>2, <1>3, WaitEffects

\* HandleRemove and HandleWait: outside OKE, the run waits for nothing the cloud has not taken.
THEOREM WaitsForTheGoing == Spec => []WaitsOnlyForTheGoing
<1>1. Init => GoingInv
  BY ItemFacts DEF Init, IsPlan, GoingInv, WaitEntry, WaitsOnlyForTheGoing, Going
<1>2. TypeOK /\ GoingInv /\ [Next]_vars => GoingInv'
  <2> SUFFICES ASSUME TypeOK, GoingInv, [Next]_vars PROVE GoingInv'
    OBVIOUS
  <2>1. CASE Dispatch BY <2>1, DispatchGoing
  <2>2. CASE Hook \/ List BY <2>2, WaitGoing
  <2>3. CASE Checks
    <3>1. UNCHANGED <<state, cloud>> /\ pc' \notin {"hook", "list"}
      BY <2>3 DEF Checks, Confirm, HandleFailure, GivesUpAt, HandleWaiting, Loop, End, StartPass
    <3> QED BY <3>1 DEF GoingInv, WaitEntry, WaitsOnlyForTheGoing, Going
  <2>4. CASE Cloud
    BY <2>4, CloudEffects
       DEF engine, CloudForward, GoingInv, WaitEntry, WaitsOnlyForTheGoing, Going
  <2>5. CASE UNCHANGED vars
    BY <2>5 DEF vars, engine, GoingInv, WaitEntry, WaitsOnlyForTheGoing, Going
  <2> QED BY <2>1, <2>2, <2>3, <2>4, <2>5 DEF Next, Engine, Done
<1>3. GoingInv => WaitsOnlyForTheGoing BY DEF GoingInv
<1> QED BY <1>1, <1>2, <1>3, TypeCorrect, PTL DEF Spec

-----------------------------------------------------------------------------
(* When the run gives up. *)

\* What the checks of the last pass left behind: with failedCount above zero nothing is in
\* process, and every failed item was tried once in each of the passes it counts.
BehindCount(i) ==
  /\ failedCount > 0 => state[i] \notin ProcessingStates
  /\ state[i] = "failed" => attempts[i] >= failedCount

\* The item has had its turn in this pass.
AheadOfCount(i) == state[i] = "failed" => attempts[i] >= failedCount + 1

Retried ==
  /\ pc \in {"scanned", "failure", "wait", "loop"} => pos = 1
  /\ pc = "scanned" => failedCount = 0
  /\ pc \in {"wait", "loop"} => \A i \in Item : BehindCount(i)
  /\ pc \in {"dispatch", "hook", "list"} =>
       \A i \in Item : (i < pos => AheadOfCount(i)) /\ (i > pos => BehindCount(i))
  /\ pc = "dispatch" => BehindCount(pos)
  /\ pc \in {"hook", "list"} => attempts[pos] >= failedCount + 1
  /\ pc = "failure" => \A i \in Item : AheadOfCount(i)

RetryInv == Retried /\ FailsAfterThreeAttempts

\* The pass moves on from an item that has had its turn.
LEMMA AdvanceRetried ==
  ASSUME TypeOK, TypeOK', Retried, IInv, pc \in {"dispatch", "hook", "list"},
         \A j \in Item : j # pos => state'[j] = state[j] /\ attempts'[j] = attempts[j],
         state'[pos] = "failed" => attempts'[pos] >= failedCount + 1,
         Advance, UNCHANGED <<failedCount, outcome>>
  PROVE  RetryInv'
<1> pos \in Item /\ pos \in Nat /\ N \in Nat BY ItemFacts DEF TypeOK, Item
<1>a. \A j \in Item : attempts[j] \in Nat BY DEF TypeOK, AttemptCap
<1>1. outcome = "running" BY DEF IInv, Stopped
<1>2. FailsAfterThreeAttempts' BY <1>1 DEF FailsAfterThreeAttempts
<1>3. \A j \in Item : j <= pos => AheadOfCount(j)'
  BY DEF Retried, AheadOfCount, Item
<1>4. \A j \in Item : j > pos => BehindCount(j)'
  BY DEF Retried, BehindCount, Item
<1>5. CASE pos < N
  <2>1. pos' = pos + 1 /\ pc' = "dispatch" BY <1>5 DEF Advance
  <2>2. \A j \in Item : (j < pos' => AheadOfCount(j)') /\ (j >= pos' => BehindCount(j)')
    BY <1>3, <1>4, <2>1 DEF Item
  <2>3. pos' \in Item BY DEF TypeOK
  <2> QED BY <1>2, <2>1, <2>2, <2>3 DEF RetryInv, Retried, Item
<1>6. CASE ~(pos < N)
  <2>1. pos' = 1 /\ pc' = "failure" BY <1>6 DEF Advance
  <2>2. \A j \in Item : AheadOfCount(j)' BY <1>3, <1>6 DEF Item
  <2> QED BY <1>2, <2>1, <2>2 DEF RetryInv, Retried
<1> QED BY <1>5, <1>6

\* A removal gives the item its turn.
LEMMA RemoveCounts ==
  ASSUME TypeOK, Retried, IInv, pc = "dispatch", HandleRemove(pos),
         state[pos] \in {"new", "hold", "failed", "newDependency", "pendingDependency"}
  PROVE  /\ attempts'[pos] >= failedCount + 1
         /\ \A j \in Item : j # pos => state'[j] = state[j] /\ attempts'[j] = attempts[j]
<1> pos \in Item BY DEF TypeOK
<1>1. attempts' = [attempts EXCEPT ![pos] = IF @ < AttemptCap THEN @ + 1 ELSE @]
  BY RemoveEffects
<1>2. \E s \in {"pending", "hold", "failed", "deferred"} : SetState(pos, s)
  BY RemoveEffects
<1>3. failedCount \in 0..2 /\ attempts[pos] \in 0..3 BY DEF TypeOK, AttemptCap
<1>4. failedCount > 0 => attempts[pos] >= failedCount
  <2>1. failedCount > 0 => state[pos] \notin ProcessingStates
        /\ (state[pos] = "failed" => attempts[pos] >= failedCount)
    BY DEF Retried, BehindCount
  <2> QED BY <2>1 DEF ProcessingStates, NewStates, WaitStates
<1> QED BY <1>1, <1>2, <1>3, <1>4 DEF SetState, TypeOK, AttemptCap

LEMMA DispatchRetried ==
  ASSUME TypeOK, TypeOK', IInv, RetryInv, Dispatch
  PROVE  RetryInv'
<1> pos \in Item BY DEF TypeOK
<1>1. pc = "dispatch" /\ UNCHANGED <<failedCount, outcome>> BY DEF Dispatch, InPass
<1>2. Retried BY DEF RetryInv
<1>3. ASSUME state[pos] \in {"new", "hold", "failed", "newDependency", "pendingDependency"},
             HandleRemove(pos), Advance
      PROVE  RetryInv'
  BY <1>1, <1>2, <1>3, RemoveCounts, AdvanceRetried
<1>4. CASE DispatchFailed(pos)
  <2>1. HandleRemove(pos) /\ state[pos] = "failed" /\ pos' = pos /\ pc' \in {"hook", "list"}
    BY <1>4 DEF DispatchFailed, EnterWait
  <2>2. /\ attempts'[pos] >= failedCount + 1
        /\ \A j \in Item : j # pos => state'[j] = state[j] /\ attempts'[j] = attempts[j]
    BY <1>1, <1>2, <2>1, RemoveCounts
  <2>3. outcome = "running" BY <1>1 DEF IInv, Stopped
  <2>4. \A j \in Item : (j < pos => AheadOfCount(j)') /\ (j > pos => BehindCount(j)')
    BY <1>1, <1>2, <2>2 DEF Retried, AheadOfCount, BehindCount, Item
  <2> QED BY <1>1, <2>1, <2>2, <2>3, <2>4 DEF RetryInv, Retried, FailsAfterThreeAttempts
<1>5. CASE /\ \E s \in {"pendingDependency", "deferred"} : SetState(pos, s)
           /\ Advance /\ UNCHANGED <<cloud, faults, attempts>>
  <2>1. \A j \in Item : j # pos => state'[j] = state[j] BY <1>5 DEF SetState, TypeOK
  <2>2. state'[pos] # "failed" BY <1>5 DEF SetState, TypeOK
  <2> QED BY <1>1, <1>2, <1>5, <2>1, <2>2, AdvanceRetried
<1>6. CASE DispatchWait(pos)
  <2>1. /\ state[pos] \in {"pending", "waiting"} /\ pos' = pos /\ pc' \in {"hook", "list"}
        /\ UNCHANGED <<state, attempts>>
    BY <1>6 DEF DispatchWait, EnterWait
  <2>2. failedCount = 0
    BY <1>1, <1>2, <2>1
       DEF Retried, BehindCount, ProcessingStates, WaitStates, TypeOK
  <2>3. attempts[pos] > 0 BY <2>1 DEF IInv, ItemInv, Tried
  <2>4. outcome = "running" BY <1>1 DEF IInv, Stopped
  <2>5. attempts[pos] >= failedCount + 1 BY <2>2, <2>3 DEF TypeOK
  <2> QED
    BY <1>1, <2>1, <2>4, <2>5
       DEF RetryInv, Retried, FailsAfterThreeAttempts, AheadOfCount, BehindCount
<1>7. CASE DispatchSettled(pos)
  <2>1. state[pos] # "failed" /\ Advance /\ UNCHANGED <<state, attempts>>
    BY <1>7 DEF DispatchSettled
  <2> QED BY <1>1, <1>2, <2>1, AdvanceRetried
<1> QED
  BY <1>1, <1>3, <1>4, <1>5, <1>6, <1>7
     DEF Dispatch, DispatchRemove, DispatchDependent, HandleWaitDependency

LEMMA WaitRetried ==
  ASSUME TypeOK, TypeOK', IInv, RetryInv, Hook \/ List
  PROVE  RetryInv'
<1> pos \in Item BY DEF TypeOK
<1>1. pc \in {"hook", "list"} /\ UNCHANGED <<failedCount, outcome, attempts>> BY WaitEffects
<1>2. Retried BY DEF RetryInv
<1>3. attempts[pos] >= failedCount + 1 BY <1>1, <1>2 DEF Retried
<1>4. CASE UNCHANGED <<state, pos, entered, everFailed>> /\ pc' = "list"
  BY <1>1, <1>4 DEF RetryInv, Retried, FailsAfterThreeAttempts, AheadOfCount, BehindCount
<1>5. CASE /\ \E s \in {"waiting", "failed", "finished", state[pos]} : SetState(pos, s)
           /\ Advance
  <2>1. \A j \in Item : j # pos => state'[j] = state[j] BY <1>5 DEF SetState, TypeOK
  <2> QED BY <1>1, <1>2, <1>3, <1>5, <2>1, AdvanceRetried
<1> QED BY <1>4, <1>5, WaitEffects

\* handleFailure counts a pass only when nothing but failures is left, and forgets them all
\* as soon as anything else is.
LEMMA ChecksRetried ==
  ASSUME TypeOK, TypeOK', IInv, RetryInv, Checks
  PROVE  RetryInv'
<1>1. UNCHANGED <<state, pos, attempts>> /\ pc \in {"scanned", "failure", "wait", "loop"}
  BY DEF Checks, Confirm, HandleFailure, GivesUpAt, HandleWaiting, Loop
<1>2. outcome = "running" /\ pos = 1 BY <1>1 DEF IInv, Stopped, RetryInv, Retried
<1>3. CASE HandleFailure
  <2>1. \A i \in Item : AheadOfCount(i) BY <1>3 DEF HandleFailure, GivesUpAt, RetryInv, Retried
  <2>2. CASE outcome' = "failed"
    <3>1. pc' = "done" /\ failedCount = 2
      BY <1>2, <1>3, <2>2 DEF HandleFailure, GivesUpAt, End, TypeOK
    <3> QED
      BY <1>1, <2>1, <3>1
         DEF RetryInv, Retried, FailsAfterThreeAttempts, AheadOfCount, AttemptCap
  <2>3. CASE NoneButFailed /\ failedCount' = failedCount + 1 /\ pc' = "wait" /\ outcome' = outcome
    <3>1. \A i \in Item : BehindCount(i)'
      BY <1>1, <2>1, <2>3 DEF AheadOfCount, BehindCount, NoneButFailed, AnyIn
    <3> QED BY <1>1, <1>2, <2>3, <3>1 DEF RetryInv, Retried, FailsAfterThreeAttempts
  <2>4. CASE failedCount' = 0 /\ pc' = "wait" /\ outcome' = outcome
    <3>1. \A i \in Item : BehindCount(i)' BY <1>1, <2>4 DEF BehindCount, TypeOK
    <3> QED BY <1>1, <1>2, <2>4, <3>1 DEF RetryInv, Retried, FailsAfterThreeAttempts
  <2> QED BY <1>3, <2>2, <2>3, <2>4 DEF HandleFailure, GivesUpAt, End
<1>4. CASE HandleWaiting \/ Loop \/ Confirm
  <2>1. UNCHANGED failedCount /\ outcome' # "failed"
    BY <1>2, <1>4 DEF HandleWaiting, Loop, Confirm, End, StartPass
  <2>2. pc' \in {"done", "loop", "dispatch"} /\ pc \in {"scanned", "wait", "loop"}
    BY <1>4 DEF HandleWaiting, Loop, Confirm, End, StartPass
  <2>3. \A i \in Item : BehindCount(i)
    BY <2>2 DEF RetryInv, Retried, BehindCount, TypeOK
  <2>4. \A i \in Item : BehindCount(i)' BY <1>1, <2>1, <2>3 DEF BehindCount
  <2>5. 1 \in Item /\ \A i \in Item : ~(i < 1) BY ItemFacts DEF Item
  <2> QED
    BY <1>1, <1>2, <2>1, <2>2, <2>4, <2>5 DEF RetryInv, Retried, FailsAfterThreeAttempts
<1> QED BY <1>3, <1>4 DEF Checks

\* handleFailure: a run that ends as failed has asked each item it reports three times.
THEOREM GivesUpLast == Spec => []FailsAfterThreeAttempts
<1>1. Init => RetryInv BY ItemFacts DEF Init, IsPlan, RetryInv, Retried, FailsAfterThreeAttempts
<1>2. /\ TypeOK /\ TypeOK' /\ IInv /\ RetryInv /\ [Next]_vars => RetryInv'
  <2> SUFFICES ASSUME TypeOK, TypeOK', IInv, RetryInv, [Next]_vars PROVE RetryInv'
    OBVIOUS
  <2>1. CASE Dispatch BY <2>1, DispatchRetried
  <2>2. CASE Hook \/ List BY <2>2, WaitRetried
  <2>3. CASE Checks BY <2>3, ChecksRetried
  <2>4. CASE Cloud
    BY <2>4, CloudEffects
       DEF engine, RetryInv, Retried, FailsAfterThreeAttempts, BehindCount, AheadOfCount
  <2>5. CASE UNCHANGED vars
    BY <2>5
       DEF vars, engine, RetryInv, Retried, FailsAfterThreeAttempts, BehindCount, AheadOfCount
  <2> QED BY <2>1, <2>2, <2>3, <2>4, <2>5 DEF Next, Engine, Done
<1>3. RetryInv => FailsAfterThreeAttempts BY DEF RetryInv
<1> QED BY <1>1, <1>2, <1>3, Invariance, PTL DEF Spec
=============================================================================
