--------------------------- MODULE NukeRefinement ---------------------------
(***************************************************************************)
(* A run implements Teardown, for every queue, catalogue and cloud: each   *)
(* step of the engine or the cloud is one step of the abstract teardown,   *)
(* or none.                                                                *)
(***************************************************************************)
EXTENDS NukeProofs

FateMap == [i \in Item |-> FateOf(i)]
There == {i \in Item : cloud[i] = "present"}
Asked == {"asked", "troubled", "putOff"}

\* A step that changes the state and the attempts of one item only, changes one fate only.
LEMMA OneFate ==
  ASSUME NEW p \in Item, NEW f, FateOf(p)' = f,
         \A j \in Item : j # p =>
           /\ state'[j] = state[j] /\ attempts'[j] = attempts[j]
           /\ j \in everFailed' <=> j \in everFailed
  PROVE  Abstract!Become(p, f)
<1>1. \A j \in Item : j # p => FateOf(j)' = FateOf(j) BY DEF FateOf
<1> QED BY <1>1 DEF Abstract!Become

\* The fates of an item that was never asked to go, and of one that was.
LEMMA FateBefore ==
  ASSUME TypeOK, IInv, NEW i \in Item, attempts[i] = 0
  PROVE  /\ state[i] \in {"new", "newDependency", "pendingDependency"} => FateOf(i) = "planned"
         /\ i \notin everFailed
BY DEF FateOf, IInv, ItemInv, Tried, TypeOK, ItemState

LEMMA FateAfter ==
  ASSUME TypeOK, NEW i \in Item, attempts[i] # 0,
         state[i] \notin {"filtered", "finished"}
  PROVE  /\ FateOf(i) \in Asked
         /\ FateOf(i) = "putOff" <=> state[i] = "deferred"
         /\ FateOf(i) = "asked" <=> state[i] # "deferred" /\ i \notin everFailed
BY DEF FateOf, TypeOK, Asked

\* HandleRemove changes the cloud for its item alone.
LEMMA RemoveMayGo ==
  ASSUME TypeOK, NEW i \in Item, HandleRemove(i)
  PROVE  Abstract!MayGo(i)
<1>1. UNCHANGED cloud \/ \E c \in CloudState : c # "present" /\ SetCloud(i, c)
  BY DEF HandleRemove, Accepted, Refused, AlreadyGoing, RemoveFails, AnswerLost, RemoveHolds,
         AfterRemove, CloudState
<1>2. CASE UNCHANGED cloud BY <1>2 DEF Abstract!MayGo
<1>3. CASE \E c \in CloudState : c # "present" /\ SetCloud(i, c)
  <2>1. \A j \in Item : cloud'[j] = "present" <=> cloud[j] = "present" /\ j # i
    BY <1>3 DEF SetCloud, TypeOK
  <2> QED BY <2>1 DEF Abstract!MayGo
<1> QED BY <1>1, <1>2, <1>3

-----------------------------------------------------------------------------
(* The steps of the engine.                                                *)

\* Wherever HandleRemove is first called on an item, what stands on it is out of its way.
LEMMA FirstAsk ==
  ASSUME TypeOK, IInv, NEW i \in Item, attempts[i] = 0,
         \/ state[i] = "new"
         \/ /\ ~DependenciesLeft(i)
            /\ BlockersIn(state, i, "deferred", TRUE) = {}
  PROVE  \A d \in DependenciesOf(i) : Abstract!OutOfTheWay(d, i)
<1>1. CASE state[i] = "new" BY <1>1 DEF IInv, ItemInv, NewIsFree
<1>2. CASE ~DependenciesLeft(i) /\ BlockersIn(state, i, "deferred", TRUE) = {}
  <2> SUFFICES ASSUME NEW d \in DependenciesOf(i) PROVE Abstract!OutOfTheWay(d, i)
    OBVIOUS
  <2>1. d \in Item /\ state[d] \in ItemState BY DEF DependenciesOf, TypeOK
  <2>2. state[d] \in {"failed", "filtered", "finished", "deferred"}
    BY <1>2, <2>1 DEF DependenciesLeft, ProcessingStates, NewStates, WaitStates, ItemState
  <2>3. state[d] = "deferred" => ~InTheWay(d, i, TRUE) BY <1>2, <2>1 DEF BlockersIn
  <2>4. state[d] = "failed" => d \in everFailed BY <2>1 DEF IInv, ItemInv, FailedSeen
  <2>5. FateOf(d) \notin {"planned", "asked"}
        /\ (FateOf(d) \in {"deferred", "putOff"} => state[d] = "deferred")
    BY <2>2, <2>4 DEF FateOf
  <2> QED
    BY <2>1, <2>3, <2>5 DEF Abstract!OutOfTheWay, Abstract!Awaits, InTheWay, Abstract!InTheWay
<1> QED BY <1>1, <1>2

LEMMA RemoveStep ==
  ASSUME TypeOK, TypeOK', IInv, NEW p \in Item, HandleRemove(p), UNCHANGED outcome,
         outcome = "running",
         \/ state[p] \in {"new", "hold", "failed"}
         \/ /\ state[p] \in {"newDependency", "pendingDependency"}
            /\ ~DependenciesLeft(p)
            /\ BlockersIn(state, p, "deferred", TRUE) = {}
  PROVE  Abstract!Next
<1>1. PICK s \in {"pending", "hold", "failed", "deferred"} : SetState(p, s)
  BY RemoveEffects
<1>2. attempts' = [attempts EXCEPT ![p] = IF @ < AttemptCap THEN @ + 1 ELSE @]
  BY RemoveEffects
<1>3. attempts[p] \in Nat /\ attempts'[p] > 0 BY <1>2 DEF TypeOK, AttemptCap
<1>4. state'[p] = s
      /\ everFailed' = IF s = "failed" THEN everFailed \cup {p} ELSE everFailed
  BY <1>1 DEF SetState, TypeOK
<1>5. \A j \in Item : j # p =>
        /\ state'[j] = state[j] /\ attempts'[j] = attempts[j]
        /\ j \in everFailed' <=> j \in everFailed
  BY <1>1, <1>2 DEF SetState, TypeOK
<1>6. PICK f : f = FateOf(p)' OBVIOUS
<1>7. f \in Asked /\ (f = "asked" => p \notin everFailed)
  BY <1>3, <1>4, <1>6 DEF FateOf, Asked
<1>8. Abstract!Become(p, f) BY <1>5, <1>6, OneFate
<1>9. Abstract!MayGo(p) BY RemoveMayGo
<1>10. CASE attempts[p] = 0
  <2>1. state[p] \notin {"hold", "failed"} BY <1>10 DEF IInv, ItemInv, Tried
  <2>2. FateOf(p) = "planned" BY <1>10, <2>1, FateBefore
  <2>3. \A d \in DependenciesOf(p) : Abstract!OutOfTheWay(d, p) BY <1>10, <2>1, FirstAsk
  <2>4. Abstract!Ask(p)
    BY <1>7, <1>8, <1>9, <2>2, <2>3
       DEF Abstract!Ask, Asked, Abstract!DependenciesOf, DependenciesOf, Abstract!Item, Item
  <2> QED BY <2>4 DEF Abstract!Next, Abstract!Deal, Abstract!Item, Item
<1>11. CASE attempts[p] # 0
  <2>1. FateOf(p) \in Asked /\ (p \notin everFailed => FateOf(p) = "asked")
    <3>1. state[p] \notin {"filtered", "finished", "deferred"} OBVIOUS
    <3> QED BY <1>11, <3>1, FateAfter
  <2>2. Abstract!Again(p) BY <1>7, <1>8, <1>9, <2>1 DEF Abstract!Again, Asked
  <2> QED BY <2>2 DEF Abstract!Next, Abstract!Deal, Abstract!Item, Item
<1> QED BY <1>10, <1>11

LEMMA Stutter ==
  ASSUME \A i \in Item : FateOf(i)' = FateOf(i),
         \A i \in Item : cloud'[i] = "present" <=> cloud[i] = "present",
         UNCHANGED outcome
  PROVE  UNCHANGED Abstract!vars
<1>1. [i \in Item |-> FateOf(i)]' = [i \in Item |-> FateOf(i)] OBVIOUS
<1>2. {i \in Item : cloud[i] = "present"}' = {i \in Item : cloud[i] = "present"} OBVIOUS
<1> QED BY <1>1, <1>2 DEF Abstract!vars

\* HandleWaitDependency, when it makes the item wait.
LEMMA DependencyStep ==
  ASSUME TypeOK, NEW p \in Item, UNCHANGED <<cloud, attempts, outcome>>,
         state[p] \in {"newDependency", "pendingDependency"},
         SetState(p, "pendingDependency")
  PROVE  UNCHANGED Abstract!vars
<1>1. /\ state' = [state EXCEPT ![p] = "pendingDependency"]
      /\ everFailed' = everFailed
  BY DEF SetState
<1>2. \A j \in Item : j # p => state'[j] = state[j] BY <1>1 DEF TypeOK
<1>3. state'[p] = "pendingDependency" BY <1>1 DEF TypeOK
<1>4. \A j \in Item : FateOf(j)' = FateOf(j) BY <1>1, <1>2, <1>3 DEF FateOf
<1> QED BY <1>4, Stutter

\* HandleWaitDependency, when what blocks the item is deferred.
LEMMA DeferStep ==
  ASSUME TypeOK, IInv, NEW p \in Item, UNCHANGED <<cloud, attempts, outcome>>,
         outcome = "running",
         state[p] \in {"newDependency", "pendingDependency"},
         BlockersIn(state, p, "deferred", TRUE) # {},
         SetState(p, "deferred")
  PROVE  Abstract!Next
<1>1. state' = [state EXCEPT ![p] = "deferred"] /\ everFailed' = everFailed
  BY DEF SetState
<1>2. /\ state'[p] = "deferred"
      /\ \A j \in Item : j # p => state'[j] = state[j]
  BY <1>1 DEF TypeOK
<1>3. Abstract!MayGo(p) BY DEF Abstract!MayGo
<1>4. attempts[p] \in Nat BY DEF TypeOK, AttemptCap
<1>5. CASE attempts[p] = 0
  <2>1. FateOf(p)' = "deferred" BY <1>2, <1>5 DEF FateOf
  <2>2. Abstract!Become(p, "deferred") BY <1>1, <1>2, <2>1, OneFate
  <2>3. \E d \in DependenciesOf(p) : Abstract!Awaits(d, p)
    <3>1. PICK d \in DependenciesOf(p) : state[d] = "deferred" /\ InTheWay(d, p, TRUE)
      BY DEF BlockersIn
    <3>2. d \in Item BY DEF DependenciesOf
    <3>3. FateOf(d) \in {"deferred", "putOff"} BY <3>1 DEF FateOf
    <3> QED BY <3>1, <3>2, <3>3 DEF Abstract!Awaits, Abstract!InTheWay, InTheWay
  <2>4. FateOf(p) = "planned" BY <1>5, FateBefore
  <2>5. Abstract!HoldBack(p)
    BY <2>2, <2>3, <2>4
       DEF Abstract!HoldBack, Abstract!DependenciesOf, DependenciesOf, Abstract!Item, Item
  <2> QED BY <2>5 DEF Abstract!Next, Abstract!Deal, Abstract!Item, Item
<1>6. CASE attempts[p] # 0
  <2>1. FateOf(p)' = "putOff" BY <1>2, <1>4, <1>6 DEF FateOf
  <2>2. Abstract!Become(p, "putOff") BY <1>1, <1>2, <2>1, OneFate
  <2>3. FateOf(p) \in Asked BY <1>6, FateAfter
  <2>4. Abstract!Again(p) BY <1>3, <2>2, <2>3 DEF Abstract!Again, Asked
  <2> QED BY <2>4 DEF Abstract!Next, Abstract!Deal, Abstract!Item, Item
<1> QED BY <1>5, <1>6

\* HandleWait: the item is finished, or it was asked before and is still the run's concern.
LEMMA WaitStep ==
  ASSUME TypeOK, TypeOK', IInv, Hook \/ List, NEW p \in Item, p = pos
  PROVE  Abstract!Next \/ UNCHANGED Abstract!vars
<1>1. /\ pc \in {"hook", "list"}
      /\ UNCHANGED <<outcome, cloud, attempts>>
  BY WaitEffects
<1>2. outcome = "running" BY <1>1 DEF IInv, Stopped
<1>3. \/ state[p] \in {"pending", "waiting"}
      \/ p \in everFailed /\ state[p] \in {"hold", "failed", "deferred"}
  BY <1>1 DEF IInv, ItemInv, WaitPhase
<1>4. attempts[p] > 0 /\ attempts'[p] > 0 BY <1>1, <1>3 DEF IInv, ItemInv, Tried
<1>5. FateOf(p) \in Asked /\ (p \notin everFailed => FateOf(p) = "asked")
  <2>1. attempts[p] # 0 BY <1>4
  <2> QED BY <1>3, <2>1, FateAfter
<1>6. CASE UNCHANGED <<state, pos, entered, everFailed>>
  <2>1. \A j \in Item : FateOf(j)' = FateOf(j) BY <1>1, <1>6 DEF FateOf
  <2> QED BY <1>1, <2>1, Stutter
<1>7. CASE \E s \in {"waiting", "failed", "finished", state[p]} : SetState(p, s)
  <2>1. PICK s \in {"waiting", "failed", "finished", state[p]} : SetState(p, s) BY <1>7
  <2>2. /\ state'[p] = s
        /\ everFailed' = IF s = "failed" THEN everFailed \cup {p} ELSE everFailed
    BY <2>1 DEF SetState, TypeOK
  <2>3. \A j \in Item : j # p =>
          /\ state'[j] = state[j] /\ attempts'[j] = attempts[j]
          /\ j \in everFailed' <=> j \in everFailed
    BY <1>1, <2>1 DEF SetState, TypeOK
  <2>4. PICK f : f = FateOf(p)' OBVIOUS
  <2>5. Abstract!Become(p, f) BY <2>3, <2>4, OneFate
  <2>6. CASE s = "finished"
    <3>1. f = "done" BY <2>2, <2>4, <2>6 DEF FateOf
    <3>2. cloud[p] # "present" BY <2>2, <2>6, JudgedFinished
    <3>3. UNCHANGED {i \in Item : cloud[i] = "present"} BY <1>1
    <3>4. Abstract!Finish(p)
      BY <1>5, <2>5, <3>1, <3>2, <3>3 DEF Abstract!Finish, Asked
    <3> QED BY <1>1, <1>2, <3>4 DEF Abstract!Next, Abstract!Deal, Abstract!Item, Item
  <2>7. CASE s # "finished"
    <3>1. f \in Asked /\ (f = "asked" => p \notin everFailed)
      BY <1>3, <1>4, <2>2, <2>4, <2>7 DEF FateOf, Asked
    <3>2. UNCHANGED {i \in Item : cloud[i] = "present"} BY <1>1
    <3>3. Abstract!Again(p)
      BY <1>5, <2>5, <3>1, <3>2 DEF Abstract!Again, Abstract!MayGo, Asked
    <3> QED BY <1>1, <1>2, <3>3 DEF Abstract!Next, Abstract!Deal, Abstract!Item, Item
  <2> QED BY <2>6, <2>7
<1> QED BY <1>6, <1>7, WaitEffects

LEMMA DispatchStep ==
  ASSUME TypeOK, TypeOK', IInv, Dispatch, NEW p \in Item, p = pos
  PROVE  Abstract!Next \/ UNCHANGED Abstract!vars
<1>1. pc = "dispatch" /\ UNCHANGED outcome BY DEF Dispatch, InPass
<1>2. outcome = "running" BY <1>1 DEF IInv, Stopped
<1>3. CASE DispatchRemove(p) \/ DispatchFailed(p)
  <2>1. HandleRemove(p) /\ state[p] \in {"new", "hold", "failed"}
    BY <1>3 DEF DispatchRemove, DispatchFailed
  <2> QED BY <1>1, <1>2, <2>1, RemoveStep
<1>4. CASE DispatchDependent(p)
  <2>1. state[p] \in {"newDependency", "pendingDependency"} /\ HandleWaitDependency(p)
    BY <1>4 DEF DispatchDependent
  <2>2. CASE SetState(p, "pendingDependency") /\ UNCHANGED <<cloud, faults, attempts>>
    BY <1>1, <2>1, <2>2, DependencyStep
  <2>3. CASE /\ BlockersIn(state, p, "deferred", TRUE) # {}
             /\ SetState(p, "deferred")
             /\ UNCHANGED <<cloud, faults, attempts>>
    BY <1>1, <1>2, <2>1, <2>3, DeferStep
  <2>4. CASE /\ ~DependenciesLeft(p)
             /\ BlockersIn(state, p, "deferred", TRUE) = {}
             /\ HandleRemove(p)
    BY <1>1, <1>2, <2>1, <2>4, RemoveStep
  <2> QED BY <2>1, <2>2, <2>3, <2>4 DEF HandleWaitDependency
<1>5. CASE DispatchWait(p) \/ DispatchSettled(p)
  <2>1. UNCHANGED <<state, cloud, attempts, everFailed>>
    BY <1>5 DEF DispatchWait, DispatchSettled
  <2>2. \A j \in Item : FateOf(j)' = FateOf(j) BY <2>1 DEF FateOf
  <2> QED BY <1>1, <2>1, <2>2, Stutter
<1> QED BY <1>3, <1>4, <1>5 DEF Dispatch

\* The checks of a pass: the run goes on, or it ends the way Teardown allows.
LEMMA ChecksStep ==
  ASSUME TypeOK, IInv, Checks
  PROVE  Abstract!Next \/ UNCHANGED Abstract!vars
<1>1. UNCHANGED <<state, cloud, attempts, everFailed>>
      /\ pc \in {"scanned", "failure", "wait", "loop"}
  BY DEF Checks, Confirm, HandleFailure, GivesUpAt, HandleWaiting, Loop
<1>2. outcome = "running" BY <1>1 DEF IInv, Stopped
<1>3. \A j \in Item : FateOf(j)' = FateOf(j) BY <1>1 DEF FateOf
<1>4. CASE UNCHANGED outcome BY <1>1, <1>3, <1>4, Stutter
<1>5. UNCHANGED FateMap /\ UNCHANGED There BY <1>1, <1>3 DEF FateMap, There
<1>6. \A S : Abstract!Fates(S) <=> \A i \in Item : FateOf(i) \in S
  BY DEF Abstract!Fates, Abstract!Item, Item
<1>7. \A i \in Item : state[i] \in ItemState BY DEF TypeOK
<1>8. CASE Confirm /\ outcome' = "nothing"
  <2>1. pc = "scanned" /\ ~AnyIn(state, NewStates) BY <1>2, <1>8 DEF Confirm, End, StartPass
  <2>2. \A i \in Item : state[i] \in {"filtered", "deferred"} /\ attempts[i] = 0
    BY <2>1 DEF IInv, Stopped, AnyIn
  <2>3. Abstract!Fates({"kept", "deferred"}) BY <1>6, <2>2 DEF FateOf
  <2> QED BY <1>2, <1>5, <1>8, <2>3 DEF Abstract!Next, Abstract!End, FateMap, There
<1>9. CASE Confirm /\ outcome' \in {"dryRun", "declined"}
  <2>1. pc = "scanned" BY <1>9 DEF Confirm
  <2>2. \A i \in Item : /\ state[i] \in {"new", "newDependency", "filtered", "deferred"}
                        /\ attempts[i] = 0 /\ i \notin everFailed
    BY <2>1 DEF IInv, ItemInv, Tried, Stopped, NewStates
  <2>3. Abstract!Fates({"planned", "kept", "deferred"}) BY <1>6, <2>2 DEF FateOf
  <2> QED BY <1>2, <1>5, <1>9, <2>3 DEF Abstract!Next, Abstract!End, FateMap, There
<1>10. CASE HandleFailure /\ outcome' = "failed"
  <2>1. NoneButFailed BY <1>2, <1>10 DEF HandleFailure, GivesUpAt, End
  <2>2. PICK i \in Item : state[i] = "failed" BY <2>1 DEF NoneButFailed, AnyIn
  <2>3. FateOf(i) = "troubled" BY <2>2 DEF IInv, ItemInv, FailedSeen, FateOf
  <2>4. ~Abstract!Fates(Abstract!Fate \ {"troubled"}) BY <1>6, <2>3
  <2> QED BY <1>2, <1>5, <1>10, <2>4 DEF Abstract!Next, Abstract!End, FateMap, There
<1>11. CASE HandleWaiting /\ outcome' = "timeout"
  <2>1. OnlyWaiting BY <1>2, <1>11 DEF HandleWaiting, End
  <2>2. PICK i \in Item : state[i] \in WaitStates BY <2>1 DEF OnlyWaiting, AnyIn
  <2>3. FateOf(i) \in {"troubled", "asked", "planned"} BY <2>2 DEF FateOf, WaitStates
  <2>4. ~Abstract!Fates({"done", "kept", "deferred", "putOff"}) BY <1>6, <2>3
  <2> QED BY <1>2, <1>5, <1>11, <2>4 DEF Abstract!Next, Abstract!End, FateMap, There
<1>12. CASE Loop /\ outcome' = "ok"
  <2>1. ~AnyIn(state, UnfinishedStates) BY <1>2, <1>12 DEF Loop, StartPass, End
  <2>2. \A i \in Item : state[i] \in {"finished", "filtered", "deferred"}
    BY <1>7, <2>1 DEF AnyIn, UnfinishedStates, ProcessingStates, NewStates, WaitStates,
                      ItemState
  <2>3. Abstract!Fates({"done", "kept", "deferred", "putOff"}) BY <1>6, <2>2 DEF FateOf
  <2> QED BY <1>2, <1>5, <1>12, <2>3 DEF Abstract!Next, Abstract!End, FateMap, There
<1> QED
  BY <1>4, <1>8, <1>9, <1>10, <1>11, <1>12
     DEF Checks, Confirm, HandleFailure, GivesUpAt, HandleWaiting, Loop, End, StartPass

LEMMA CloudStep ==
  ASSUME TypeOK, Cloud
  PROVE  Abstract!Next \/ UNCHANGED Abstract!vars
<1>1. UNCHANGED <<engine, attempts, everFailed>> /\ outcome = "running"
  BY CloudEffects DEF Cloud, Running
<1>2. \A j \in Item : FateOf(j)' = FateOf(j) BY <1>1 DEF FateOf, engine
<1>3. PICK i \in Item : DeletionCompletes(i) \/ Vanishes(i) BY DEF Cloud
<1>4. CASE DeletionCompletes(i)
  <2>1. \A j \in Item : cloud'[j] = "present" <=> cloud[j] = "present"
    BY <1>4 DEF DeletionCompletes, SetCloud, TypeOK
  <2> QED BY <1>1, <1>2, <2>1, Stutter DEF engine
<1>5. CASE Vanishes(i)
  <2>1. There' = There \ {i} BY <1>5 DEF Vanishes, SetCloud, TypeOK, There
  <2>2. UNCHANGED FateMap BY <1>2 DEF FateMap
  <2>3. Abstract!Leave(i) BY <2>1, <2>2 DEF Abstract!Leave, FateMap, There
  <2> QED BY <1>1, <2>3 DEF engine, Abstract!Next, Abstract!Deal, Abstract!Item, Item
<1> QED BY <1>3, <1>4, <1>5

LEMMA InitMaps ==
  ASSUME Init
  PROVE  Abstract!Init
<1>1. \A i \in Item : /\ state[i] \in {"new", "newDependency", "filtered", "deferred"}
                      /\ attempts[i] = 0 /\ i \notin everFailed
  BY ItemFacts DEF Init, IsPlan
<1>2. \A i \in Item : FateOf(i) \in {"planned", "deferred", "kept"} BY <1>1 DEF FateOf
<1> QED BY <1>2 DEF Abstract!Init, Abstract!Item, Item, Init

\* A run implements Teardown: whatever its passes, listings, caches and counters do, it asks
\* a resource to go only when what stands on it is out of the way, calls nothing done that is
\* still there, and ends well only with everything dealt with.
THEOREM RunImplementsTeardown == Spec => ImplementsTeardown
<1>1. Init => Abstract!Init BY InitMaps
<1>2. TypeOK /\ TypeOK' /\ IInv /\ [Next]_vars => [Abstract!Next]_(Abstract!vars)
  <2> SUFFICES ASSUME TypeOK, TypeOK', IInv, [Next]_vars
               PROVE  Abstract!Next \/ UNCHANGED Abstract!vars
    OBVIOUS
  <2> pos \in Item BY DEF TypeOK
  <2>1. CASE Dispatch BY <2>1, DispatchStep
  <2>2. CASE Hook \/ List BY <2>2, WaitStep
  <2>3. CASE Checks BY <2>3, ChecksStep
  <2>4. CASE Cloud BY <2>4, CloudStep
  <2>5. CASE UNCHANGED vars
    <3>1. \A j \in Item : FateOf(j)' = FateOf(j) BY <2>5 DEF vars, engine, FateOf
    <3> QED BY <2>5, <3>1, Stutter DEF vars, engine
  <2> QED BY <2>1, <2>2, <2>3, <2>4, <2>5 DEF Next, Engine, Done
<1> QED BY <1>1, <1>2, Invariance, PTL DEF Spec, ImplementsTeardown, Abstract!Spec
=============================================================================
