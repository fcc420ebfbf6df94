----------------------------- MODULE PlanProofs -----------------------------
(***************************************************************************)
(* What planDependents leaves behind, for a queue of any length over any   *)
(* catalogue: nothing to withdraw, and exactly the filtered items that the *)
(* links between resources ask for.                                        *)
(***************************************************************************)
EXTENDS Plan, TLAPS

\* The states an item can have before the run.
PlanState == {"new", "newDependency", "deferred", "filtered"}
PlanTypes == TypeOK /\ state \in [Item -> PlanState]

LEMMA ItemFacts == /\ 1 \in Item
                   /\ N \in Nat /\ N >= 1
                   /\ \A i \in Item : PlannedState(i) \in {"new", "newDependency"}
BY QueueAssumption DEF Item, PlannedState

LEMMA OnwardTypes ==
  ASSUME NEW phase, pos \in Item, Onward(phase)
  PROVE  pos' \in Item /\ pc' \in {pc, phase}
BY ItemFacts DEF Onward, Item

\* The planner only ever uses the four states a plan is made of.
THEOREM TypeCorrect == Spec => []PlanTypes
<1>1. Init => PlanTypes
  <2> SUFFICES ASSUME Init PROVE PlanTypes
    OBVIOUS
  <2>1. state \in [Item -> PlanState] /\ state \in [Item -> ItemState]
    BY ItemFacts DEF Init, PlanState, ItemState
  <2>2. changed \in BOOLEAN BY DEF Init
  <2> QED BY <2>1, <2>2, ItemFacts DEF Init, PlanTypes, TypeOK
<1>2. PlanTypes /\ [Next]_vars => PlanTypes'
  <2> SUFFICES ASSUME PlanTypes, [Next]_vars PROVE PlanTypes'
    OBVIOUS
  <2> USE DEF PlanTypes, TypeOK, PlanState, ItemState
  <2>1. CASE ScanItem
    <3>1. pc = "scan" /\ UNCHANGED changed BY <2>1 DEF ScanItem
    <3>2. CASE FilterMatches BY <3>1, <3>2, OnwardTypes DEF FilterMatches
    <3>3. CASE DeferAnswersYes BY <3>1, <3>3, OnwardTypes DEF DeferAnswersYes
    <3>4. CASE LeftIn BY <3>1, <3>4, OnwardTypes DEF LeftIn
    <3>5. CASE FilterBroken BY <3>1, <3>5 DEF FilterBroken
    <3> QED BY <2>1, <3>2, <3>3, <3>4, <3>5 DEF ScanItem
  <2>2. CASE Sweep BY <2>2 DEF Sweep
  <2>3. CASE PlanItem
    <3>1. pc = "plan" /\ Onward("sweep") /\ UNCHANGED <<matched, ownDeferred>>
      BY <2>3 DEF PlanItem
    <3>2. changed' \in BOOLEAN BY <2>3 DEF PlanItem, Keep, Hold, Leave, Withdraw
    <3>3. state' \in [Item -> PlanState] /\ state' \in [Item -> ItemState]
      BY <2>3 DEF PlanItem, Keep, Hold, Leave, Withdraw
    <3> QED BY <3>1, <3>2, <3>3, OnwardTypes
  <2>4. CASE UNCHANGED vars BY <2>4 DEF vars
  <2> QED BY <2>1, <2>2, <2>3, <2>4 DEF Next
<1> QED BY <1>1, <1>2, PTL DEF Spec

\* The types of the run's own invariant, which allow an item every state of the engine.
THEOREM TypeKept == Spec => []TypeOK
<1>1. PlanTypes => TypeOK
  BY DEF PlanTypes
<1> QED BY <1>1, TypeCorrect, PTL

-----------------------------------------------------------------------------
(* A sweep that changes nothing has seen every item settled. *)

SettledFor(i) == ~KeptByFiltered(state, i) /\ ~HeldByDeferred(state, i)

SweepInv ==
  /\ pc = "sweep" => pos = 1
  /\ pc = "plan" /\ ~changed => \A j \in Item : j < pos => SettledFor(j)
  /\ pc = "sweep" /\ ~changed => PlanClosed(state)
  /\ pc = "done" => PlanClosed(state)
  /\ pc = "scan" => changed

\* planDependents stops at a plan with nothing left to withdraw.
THEOREM EndsClosed == Spec => []PlanEndsClosed
<1>1. Init => SweepInv
  BY DEF Init, SweepInv
<1>2. SweepInv /\ PlanTypes /\ [Next]_vars => SweepInv'
  <2> SUFFICES ASSUME SweepInv, PlanTypes, [Next]_vars PROVE SweepInv'
    OBVIOUS
  <2> USE DEF PlanTypes, TypeOK
  <2>1. CASE ScanItem
    <3>1. pc = "scan" /\ changed /\ changed' = changed BY <2>1 DEF ScanItem, SweepInv
    <3>2. pc' \in {"scan", "aborted"} \/ (pc' = "sweep" /\ pos' = 1)
      BY <2>1, <3>1 DEF ScanItem, FilterMatches, DeferAnswersYes, LeftIn, FilterBroken, Onward
    <3> QED BY <3>1, <3>2 DEF SweepInv
  <2>2. CASE Sweep
    <3>1. CASE changed
      <4>1. pc' = "plan" /\ pos' = 1 BY <2>2, <3>1 DEF Sweep, SweepInv
      <4>2. \A j \in Item : ~(j < 1) BY DEF Item
      <4> QED BY <4>1, <4>2 DEF SweepInv
    <3>2. CASE ~changed
      <4>1. pc' = "done" /\ state' = state BY <2>2, <3>2 DEF Sweep
      <4>2. PlanClosed(state) BY <2>2, <3>2 DEF Sweep, SweepInv
      <4> QED BY <4>1, <4>2 DEF SweepInv
    <3> QED BY <3>1, <3>2
  <2>3. CASE PlanItem
    <3>1. pc = "plan" /\ Onward("sweep") BY <2>3 DEF PlanItem
    <3>2. CASE changed' = TRUE
      <4>1. pc' = "plan" \/ (pc' = "sweep" /\ pos' = 1) BY <3>1 DEF Onward
      <4> QED BY <3>2, <4>1 DEF SweepInv
    <3>3. CASE changed' # TRUE
      <4>1. state' = state /\ changed' = changed /\ SettledFor(pos)
        BY <2>3, <3>3 DEF PlanItem, Keep, Hold, Leave, Withdraw, SettledFor
      <4>2. \A j \in Item : j < pos => SettledFor(j)
        BY <3>1, <3>3, <4>1 DEF SweepInv
      <4>3. \A j \in Item : j < pos + 1 => SettledFor(j)
        BY <4>1, <4>2 DEF Item
      <4>4. CASE pos < N
        BY <3>1, <4>1, <4>3, <4>4 DEF Onward, SweepInv, SettledFor
      <4>5. CASE ~(pos < N)
        <5>1. \A j \in Item : SettledFor(j)
          BY <4>3, <4>5, ItemFacts DEF Item
        <5>2. pc' = "sweep" /\ pos' = 1 BY <3>1, <4>5 DEF Onward
        <5> QED BY <4>1, <5>1, <5>2 DEF SweepInv, PlanClosed, SettledFor
      <4> QED BY <4>4, <4>5
    <3> QED BY <3>2, <3>3
  <2>4. CASE UNCHANGED vars BY <2>4 DEF vars, SweepInv, SettledFor
  <2> QED BY <2>1, <2>2, <2>3, <2>4 DEF Next
<1>3. SweepInv => PlanEndsClosed
  BY DEF SweepInv, PlanEndsClosed
<1> QED BY <1>1, <1>2, <1>3, TypeCorrect, PTL DEF Spec

-----------------------------------------------------------------------------
(* What is filtered in the end is what the matched items keep.             *)

FilteredSet == {i \in Item : state[i] = "filtered"}

KeptInv ==
  /\ pc = "scan" => /\ FilteredSet = matched
                   /\ \A j \in Item : j >= pos => state[j] = PlannedState(j)
  /\ matched \subseteq FilteredSet
  /\ FilteredSet \subseteq Kept

LEMMA MatchedIsKept == ASSUME matched \subseteq Item PROVE matched \subseteq Kept
BY DEF Kept, Least

\* One step of the scan filters exactly what it matches.
LEMMA ScanKept ==
  ASSUME PlanTypes, PlanTypes', KeptInv, ScanItem
  PROVE  KeptInv'
<1> USE DEF PlanTypes, TypeOK
<1> pos \in Item OBVIOUS
<1>1. pc = "scan" /\ FilteredSet = matched /\ state[pos] \in {"new", "newDependency"}
  BY ItemFacts DEF ScanItem, KeptInv, Item
<1>2. FilteredSet' = matched'
  <2>1. CASE FilterMatches
    <3>1. state' = [state EXCEPT ![pos] = "filtered"] /\ matched' = matched \cup {pos}
      BY <2>1 DEF FilterMatches
    <3>2. \A i \in Item : state'[i] = "filtered" <=> i = pos \/ state[i] = "filtered"
      BY <3>1
    <3> QED BY <1>1, <3>1, <3>2 DEF FilteredSet
  <2>2. CASE DeferAnswersYes
    <3>1. state' = [state EXCEPT ![pos] = "deferred"] /\ matched' = matched
      BY <2>2 DEF DeferAnswersYes
    <3>2. \A i \in Item : state'[i] = "filtered" <=> state[i] = "filtered"
      BY <1>1, <3>1
    <3> QED BY <1>1, <3>1, <3>2 DEF FilteredSet
  <2>3. CASE LeftIn \/ FilterBroken
    BY <1>1, <2>3 DEF LeftIn, FilterBroken, FilteredSet
  <2> QED BY <2>1, <2>2, <2>3 DEF ScanItem
<1>3. pc' = "scan" => \A j \in Item : j >= pos' => state'[j] = PlannedState(j)
  <2> SUFFICES ASSUME pc' = "scan", NEW j \in Item, j >= pos' PROVE state'[j] = PlannedState(j)
    OBVIOUS
  <2>1. pos' = pos + 1
    BY <1>1 DEF ScanItem, FilterMatches, DeferAnswersYes, LeftIn, FilterBroken, Onward
  <2>2. j > pos /\ state[j] = PlannedState(j) BY <1>1, <2>1 DEF KeptInv, Item
  <2> QED
    BY <2>2 DEF ScanItem, FilterMatches, DeferAnswersYes, LeftIn, FilterBroken, Item
<1>4. matched' \subseteq Kept' BY DEF Kept, Least
<1> QED BY <1>2, <1>3, <1>4 DEF KeptInv

\* An item planDependents filters belongs to every set that is closed above the matched ones.
LEMMA PlanKept ==
  ASSUME PlanTypes, KeptInv, PlanItem
  PROVE  KeptInv'
<1> USE DEF PlanTypes, TypeOK
<1> pos \in Item OBVIOUS
<1>1. pc = "plan" /\ matched' = matched /\ pc' # "scan" BY DEF PlanItem, Onward
<1>2. Kept' = Kept BY <1>1 DEF Kept, Least, Closed, DependenciesOf
<1>3. CASE Keep(pos)
  <2>1. state' = [state EXCEPT ![pos] = "filtered"] BY <1>3 DEF Keep, Withdraw
  <2>2. FilteredSet' = FilteredSet \cup {pos}
    <3>1. \A i \in Item : state'[i] = "filtered" <=> i = pos \/ state[i] = "filtered"
      BY <2>1
    <3> QED BY <3>1 DEF FilteredSet
  <2>3. PICK d \in DependenciesOf(pos) : state[d] = "filtered" /\ InTheWay(d, pos, FALSE)
    BY <1>3 DEF Keep, KeptByFiltered, BlockersIn
  <2>4. d \in Kept BY <2>3 DEF KeptInv, FilteredSet, DependenciesOf
  <2>5. pos \in Kept
    <3> SUFFICES ASSUME NEW S \in SUBSET Item, matched \subseteq S, Closed(S, Item, FALSE)
                 PROVE  pos \in S
      BY DEF Kept, Least
    <3>1. d \in S BY <2>4 DEF Kept, Least
    <3> QED BY <2>3, <3>1 DEF Closed
  <2> QED BY <1>1, <1>2, <2>2, <2>5 DEF KeptInv
<1>4. CASE Hold(pos) \/ Leave(pos)
  <2>1. \A i \in Item : state'[i] = "filtered" <=> state[i] = "filtered"
    BY <1>4 DEF Hold, HeldByDeferred, Leave, Withdraw
  <2>2. FilteredSet' = FilteredSet BY <2>1 DEF FilteredSet
  <2> QED BY <1>1, <1>2, <2>2 DEF KeptInv
<1> QED BY <1>3, <1>4 DEF PlanItem

\* A plan that is closed and filters what was matched filters all that those keep.
LEMMA ClosedIsAll ==
  ASSUME PlanTypes, KeptInv, PlanClosed(state)
  PROVE  FilteredSet = Kept
<1> USE DEF PlanTypes, TypeOK
<1>1. Closed(FilteredSet, Item, FALSE)
  <2> SUFFICES ASSUME NEW i \in Item, NEW d \in DependenciesOf(i), state[d] = "filtered",
                      InTheWay(d, i, FALSE)
               PROVE  state[i] = "filtered"
    BY DEF Closed, FilteredSet
  <2>1. d \in BlockersIn(state, i, "filtered", FALSE) BY DEF BlockersIn
  <2>2. ~KeptByFiltered(state, i) BY DEF PlanClosed
  <2>3. state[i] \notin {"new", "newDependency", "deferred"} BY <2>1, <2>2 DEF KeptByFiltered
  <2> QED BY <2>3 DEF PlanState
<1>2. FilteredSet \in SUBSET Item BY DEF FilteredSet
<1>3. Kept \subseteq FilteredSet BY <1>1, <1>2 DEF KeptInv, Kept, Least
<1> QED BY <1>3 DEF KeptInv

LEMMA FilterInvariance == Spec => []KeptInv
<1>1. Init /\ PlanTypes => KeptInv
  <2> SUFFICES ASSUME Init, PlanTypes PROVE KeptInv
    OBVIOUS
  <2>1. \A i \in Item : state[i] = PlannedState(i) /\ state[i] # "filtered"
    BY ItemFacts DEF Init
  <2>2. FilteredSet = {} /\ matched = {} BY <2>1 DEF FilteredSet, Init
  <2> QED BY <2>1, <2>2 DEF KeptInv
<1>2. KeptInv /\ PlanTypes /\ PlanTypes' /\ [Next]_vars => KeptInv'
  <2> SUFFICES ASSUME KeptInv, PlanTypes, PlanTypes', [Next]_vars PROVE KeptInv'
    OBVIOUS
  <2>1. CASE ScanItem BY <2>1, ScanKept
  <2>2. CASE PlanItem BY <2>2, PlanKept
  <2>3. CASE Sweep \/ UNCHANGED vars
    <3>1. state' = state /\ matched' = matched /\ (pc' = "scan" => pc = "scan" /\ pos' = pos)
      BY <2>3 DEF Sweep, vars
    <3>2. Kept' = Kept BY <3>1 DEF Kept, Least, Closed, DependenciesOf
    <3>3. FilteredSet' = FilteredSet BY <3>1 DEF FilteredSet
    <3> QED BY <3>1, <3>2, <3>3 DEF KeptInv
  <2> QED BY <2>1, <2>2, <2>3 DEF Next
<1> QED BY <1>1, <1>2, TypeCorrect, PTL DEF Spec

-----------------------------------------------------------------------------
(* What is deferred in the end is what the deferrals left in hold back.    *)

DeferredSet == {i \in Item : state[i] = "deferred"}

\* Each deferral has its reason: the item's own Defer, or one in its way that is deferred
\* too, or that has been filtered since and will have this item filtered in turn.
HeldBack(i) ==
  \E d \in DependenciesOf(i) :
    /\ InTheWay(d, i, TRUE)
    /\ state[d] = "deferred" \/ (state[d] = "filtered" /\ InTheWay(d, i, FALSE))

DeferInv ==
  /\ \A i \in Item : state[i] \in {PlannedState(i), "filtered", "deferred"}
  /\ pc = "scan" => DeferredSet = ownDeferred
  /\ \A i \in ownDeferred : TypeOf[i] \in Deferrers /\ state[i] \in {"deferred", "filtered"}
  /\ \A i \in DeferredSet \ ownDeferred : HeldBack(i)
  /\ DeferredSet \subseteq Kept \cup Deferred

\* An item that others depend on, of a type that names nothing, has nothing in its way by name.
LEMMA NamelessIsFree ==
  ASSUME NEW i \in Item, NEW d \in DependenciesOf(i), TypeOf[d] \notin BlockerTypes,
         NEW h \in DependenciesOf(d)
  PROVE  ~InTheWay(h, d, FALSE)
<1>1. d \in Item /\ h \in Item /\ TypeOf[d] \in Type /\ TypeOf[i] \in Type
      /\ TypeOf[d] \in DependsOn[TypeOf[i]] /\ TypeOf[h] \in DependsOn[TypeOf[d]]
  BY QueueAssumption DEF DependenciesOf
<1>2. TypeOf[h] \notin BlockerTypes BY <1>1, ChainsAreNamed
<1> QED BY <1>2 DEF InTheWay

LEMMA KeptIsClosed == Closed(Kept, Item, FALSE)
<1> SUFFICES ASSUME NEW i \in Item, NEW d \in DependenciesOf(i) \cap Kept,
                    InTheWay(d, i, FALSE),
                    NEW S \in SUBSET Item, matched \subseteq S, Closed(S, Item, FALSE)
             PROVE  i \in S
  BY DEF Closed, Kept, Least
<1>1. d \in S BY DEF Kept, Least
<1> QED BY <1>1 DEF Closed

\* Nothing is kept without a reason: Kept less such an item would be closed as well.
LEMMA KeptHasReason ==
  ASSUME NEW i \in Kept, i \notin matched, matched \subseteq Item
  PROVE  \E h \in DependenciesOf(i) \cap Kept : InTheWay(h, i, FALSE)
<1> SUFFICES ASSUME \A h \in DependenciesOf(i) \cap Kept : ~InTheWay(h, i, FALSE)
             PROVE  FALSE
  OBVIOUS
<1> DEFINE S == Kept \ {i}
<1>1. S \in SUBSET Item BY DEF Kept, Least
<1>2. matched \subseteq S BY MatchedIsKept
<1>3. Closed(S, Item, FALSE)
  <2> SUFFICES ASSUME NEW j \in Item, NEW d \in DependenciesOf(j) \cap S, InTheWay(d, j, FALSE)
               PROVE  j \in S
    BY DEF Closed
  <2>1. j \in Kept BY KeptIsClosed DEF Closed
  <2> QED BY <2>1
<1>4. i \in S BY <1>1, <1>2, <1>3 DEF Kept, Least
<1> QED BY <1>4

LEMMA DeferredIsClosed ==
  ASSUME NEW i \in Item, i \notin Kept, NEW d \in DependenciesOf(i), d \in Deferred,
         InTheWay(d, i, TRUE)
  PROVE  i \in Deferred
<1> SUFFICES ASSUME NEW S \in SUBSET Item, ownDeferred \ Kept \subseteq S,
                    Closed(S, Item \ Kept, TRUE)
             PROVE  i \in S
  BY DEF Deferred, Least
<1>1. d \in S BY DEF Deferred, Least
<1> QED BY <1>1 DEF Closed

LEMMA ScanDeferred ==
  ASSUME PlanTypes, PlanTypes', KeptInv, DeferInv, ScanItem
  PROVE  DeferInv'
<1> USE DEF PlanTypes, TypeOK
<1> pos \in Item OBVIOUS
<1>1. /\ pc = "scan" /\ DeferredSet = ownDeferred
      /\ state[pos] = PlannedState(pos) /\ state[pos] \in {"new", "newDependency"}
  BY ItemFacts DEF ScanItem, KeptInv, DeferInv, Item
<1>2. DeferredSet' = ownDeferred'
  <2>1. CASE FilterMatches
    <3>1. ownDeferred' = ownDeferred /\ state' = [state EXCEPT ![pos] = "filtered"]
      BY <2>1 DEF FilterMatches
    <3>2. \A i \in Item : state'[i] = "deferred" <=> state[i] = "deferred" BY <1>1, <3>1
    <3> QED BY <1>1, <3>1, <3>2 DEF DeferredSet
  <2>2. CASE DeferAnswersYes
    <3>1. /\ ownDeferred' = ownDeferred \cup {pos}
          /\ state' = [state EXCEPT ![pos] = "deferred"]
      BY <2>2 DEF DeferAnswersYes
    <3>2. \A i \in Item : state'[i] = "deferred" <=> i = pos \/ state[i] = "deferred"
      BY <3>1
    <3> QED BY <1>1, <3>1, <3>2 DEF DeferredSet
  <2>3. CASE LeftIn \/ FilterBroken BY <1>1, <2>3 DEF LeftIn, FilterBroken, DeferredSet
  <2> QED BY <2>1, <2>2, <2>3 DEF ScanItem
<1>3. \A i \in Item : state'[i] \in {PlannedState(i), "filtered", "deferred"}
  BY DEF ScanItem, FilterMatches, DeferAnswersYes, LeftIn, FilterBroken, DeferInv
<1>4. \A i \in ownDeferred' : TypeOf[i] \in Deferrers
  BY DEF ScanItem, FilterMatches, DeferAnswersYes, LeftIn, FilterBroken, DeferInv
<1>5. \A i \in ownDeferred' : state'[i] = "deferred" BY <1>2 DEF DeferredSet
<1>6. ownDeferred' \subseteq (Kept \cup Deferred)' BY DEF Deferred, Least
<1> QED BY <1>2, <1>3, <1>4, <1>5, <1>6 DEF DeferInv

\* A hold comes from an item that is deferred in the end, or from one that is kept and names
\* the item, which is then kept as well; an item that names nothing is not kept after it was
\* deferred.
LEMMA HoldIsDeferred ==
  ASSUME PlanTypes, KeptInv, DeferInv, NEW i \in Item, HeldByDeferred(state, i)
  PROVE  i \in Kept \cup Deferred
<1> SUFFICES ASSUME i \notin Kept PROVE i \in Deferred
  OBVIOUS
<1>1. PICK d \in DependenciesOf(i) : state[d] = "deferred" /\ InTheWay(d, i, TRUE)
  BY DEF HeldByDeferred, BlockersIn
<1>2. d \in Item BY DEF DependenciesOf
<1>3. CASE d \in Deferred BY <1>1, <1>3, DeferredIsClosed
<1>4. CASE d \in Kept
  <2>1. CASE TypeOf[d] \in BlockerTypes
    <3>1. InTheWay(d, i, FALSE) BY <1>1, <2>1 DEF InTheWay
    <3>2. i \in Kept BY <1>4, <3>1, KeptIsClosed DEF Closed
    <3> QED BY <3>2
  <2>2. CASE TypeOf[d] \notin BlockerTypes
    <3>1. d \notin matched BY <1>1 DEF KeptInv, FilteredSet
    <3>2. matched \subseteq Item BY DEF PlanTypes, TypeOK
    <3>3. PICK h \in DependenciesOf(d) : InTheWay(h, d, FALSE)
      BY <1>4, <3>1, <3>2, KeptHasReason
    <3> QED BY <2>2, <3>3, NamelessIsFree
  <2> QED BY <2>1, <2>2
<1> QED BY <1>1, <1>2, <1>3, <1>4 DEF DeferInv, DeferredSet

LEMMA PlanDeferred ==
  ASSUME PlanTypes, PlanTypes', KeptInv, DeferInv, PlanItem
  PROVE  DeferInv'
<1> USE DEF PlanTypes, TypeOK
<1> pos \in Item OBVIOUS
<1>1. pc = "plan" /\ UNCHANGED <<matched, ownDeferred>> /\ pc' # "scan"
  BY DEF PlanItem, Onward
<1>2. Kept' = Kept /\ Deferred' = Deferred
  BY <1>1 DEF Deferred, Kept, Least, Closed, DependenciesOf
<1>3. CASE Keep(pos)
  <2>1. state' = [state EXCEPT ![pos] = "filtered"] /\ KeptByFiltered(state, pos)
    BY <1>3 DEF Keep, Withdraw
  <2>2. \A i \in Item : state'[i] = IF i = pos THEN "filtered" ELSE state[i] BY <2>1
  <2>3. DeferredSet' \subseteq DeferredSet BY <2>2 DEF DeferredSet
  <2>4. ASSUME NEW i \in DeferredSet' \ ownDeferred' PROVE HeldBack(i)'
    <3>1. i \in Item /\ HeldBack(i) BY <1>1, <2>3, <2>4 DEF DeferInv, DeferredSet
    <3>2. PICK d \in DependenciesOf(i) :
            /\ InTheWay(d, i, TRUE)
            /\ state[d] = "deferred" \/ (state[d] = "filtered" /\ InTheWay(d, i, FALSE))
      BY <3>1 DEF HeldBack
    <3>3. d \in Item BY DEF DependenciesOf
    <3>4. CASE d = pos
      <4>1. PICK h \in DependenciesOf(pos) : InTheWay(h, pos, FALSE)
        BY <2>1 DEF KeptByFiltered, BlockersIn
      <4>2. TypeOf[d] \in BlockerTypes BY <3>1, <3>2, <3>4, <4>1, NamelessIsFree
      <4>3. InTheWay(d, i, FALSE) BY <3>2, <4>2 DEF InTheWay
      <4>4. state'[d] = "filtered" BY <2>2, <3>3, <3>4
      <4>5. InTheWay(d, i, TRUE)' /\ InTheWay(d, i, FALSE)' BY <3>2, <4>3 DEF InTheWay
      <4> QED BY <4>4, <4>5 DEF HeldBack, DependenciesOf
    <3>5. CASE d # pos
      <4>1. state'[d] = state[d] BY <2>2, <3>3, <3>5
      <4> QED BY <3>2, <4>1 DEF HeldBack, InTheWay, DependenciesOf
    <3> QED BY <3>4, <3>5
  <2> QED BY <1>1, <1>2, <2>2, <2>3, <2>4 DEF DeferInv
<1>4. CASE Hold(pos)
  <2>1. state' = [state EXCEPT ![pos] = "deferred"] /\ HeldByDeferred(state, pos)
    BY <1>4 DEF Hold, Withdraw
  <2>2. \A i \in Item : state'[i] = IF i = pos THEN "deferred" ELSE state[i] BY <2>1
  <2>3. DeferredSet' = DeferredSet \cup {pos} BY <2>2 DEF DeferredSet
  <2>4. state[pos] = "newDependency" BY <2>1 DEF HeldByDeferred
  <2>5. HeldBack(pos)
    BY <2>1 DEF HeldByDeferred, BlockersIn, HeldBack
  <2>6. ASSUME NEW i \in DeferredSet' \ ownDeferred' PROVE HeldBack(i)'
    <3>1. i \in Item /\ HeldBack(i) BY <1>1, <2>3, <2>5, <2>6 DEF DeferInv, DeferredSet
    <3>2. PICK d \in DependenciesOf(i) :
            /\ InTheWay(d, i, TRUE)
            /\ state[d] = "deferred" \/ (state[d] = "filtered" /\ InTheWay(d, i, FALSE))
      BY <3>1 DEF HeldBack
    <3>3. d # pos /\ d \in Item BY <2>4, <3>2 DEF DependenciesOf
    <3>4. state'[d] = state[d] BY <2>2, <3>3
    <3> QED BY <3>2, <3>4 DEF HeldBack, InTheWay, DependenciesOf
  <2>7. pos \in Kept \cup Deferred BY <2>1, HoldIsDeferred
  <2>8. \A i \in ownDeferred : state'[i] \in {"deferred", "filtered"}
    BY <2>2 DEF DeferInv
  <2>9. \A i \in Item : state'[i] \in {PlannedState(i), "filtered", "deferred"}
    BY <2>2 DEF DeferInv
  <2> QED BY <1>1, <1>2, <2>3, <2>6, <2>7, <2>8, <2>9 DEF DeferInv
<1>5. CASE Leave(pos)
  <2>1. state' = state BY <1>5 DEF Leave
  <2>2. DeferredSet' = DeferredSet BY <2>1 DEF DeferredSet
  <2> QED BY <1>1, <1>2, <2>1, <2>2 DEF DeferInv, HeldBack, InTheWay, DependenciesOf
<1> QED BY <1>3, <1>4, <1>5 DEF PlanItem

LEMMA Deferrals == Spec => [](PlanTypes /\ KeptInv /\ DeferInv)
<1>1. Init /\ PlanTypes => DeferInv
  <2> SUFFICES ASSUME Init, PlanTypes PROVE DeferInv
    OBVIOUS
  <2>1. \A i \in Item : state[i] = PlannedState(i) /\ state[i] # "deferred"
    BY ItemFacts DEF Init
  <2>2. DeferredSet = {} /\ ownDeferred = {} BY <2>1 DEF DeferredSet, Init
  <2> QED BY <2>1, <2>2 DEF DeferInv
<1>2. PlanTypes /\ PlanTypes' /\ KeptInv /\ DeferInv /\ [Next]_vars => DeferInv'
  <2> SUFFICES ASSUME PlanTypes, PlanTypes', KeptInv, DeferInv, [Next]_vars PROVE DeferInv'
    OBVIOUS
  <2>1. CASE ScanItem BY <2>1, ScanDeferred
  <2>2. CASE PlanItem BY <2>2, PlanDeferred
  <2>3. CASE Sweep \/ UNCHANGED vars
    <3>1. UNCHANGED <<state, matched, ownDeferred>> /\ (pc' = "scan" => pc = "scan")
      BY <2>3 DEF Sweep, vars
    <3>2. Kept' = Kept /\ Deferred' = Deferred
      BY <3>1 DEF Deferred, Kept, Least, Closed, DependenciesOf
    <3>3. DeferredSet' = DeferredSet BY <3>1 DEF DeferredSet
    <3> QED BY <3>1, <3>2, <3>3 DEF DeferInv, HeldBack, InTheWay, DependenciesOf
  <2> QED BY <2>1, <2>2, <2>3 DEF Next
<1> QED BY <1>1, <1>2, TypeCorrect, FilterInvariance, PTL DEF Spec

\* planDependents: nothing waits for a later run without something to wait for.
THEOREM DeferralsHaveReasons == Spec => []DeferralsAreSupported
<1>1. PlanTypes /\ DeferInv /\ PlanEndsClosed => DeferralsAreSupported
  <2> SUFFICES ASSUME PlanTypes, DeferInv, PlanClosed(state), NEW i \in Item,
                      state[i] = "deferred", TypeOf[i] \notin Deferrers
               PROVE  BlockersIn(state, i, "deferred", TRUE) # {}
    BY DEF PlanEndsClosed, DeferralsAreSupported, PlanSupported
  <2>1. HeldBack(i) BY DEF DeferInv, DeferredSet
  <2>2. PICK d \in DependenciesOf(i) :
          /\ InTheWay(d, i, TRUE)
          /\ state[d] = "deferred" \/ (state[d] = "filtered" /\ InTheWay(d, i, FALSE))
    BY <2>1 DEF HeldBack
  <2>3. CASE state[d] = "deferred" BY <2>2, <2>3 DEF BlockersIn
  <2>4. CASE state[d] = "filtered" /\ InTheWay(d, i, FALSE)
    BY <2>2, <2>4 DEF PlanClosed, KeptByFiltered, BlockersIn
  <2> QED BY <2>2, <2>3, <2>4
<1> QED BY <1>1, Deferrals, EndsClosed, PTL

\* planDependents' plan does not depend on the order in which the scanners delivered the
\* items: it is the one the links between resources determine.
THEOREM EndsAtTheFixpoint == Spec => []PlanIsTheFixpoint
<1>1. PlanTypes /\ KeptInv /\ DeferInv /\ PlanEndsClosed => PlanIsTheFixpoint
  <2> SUFFICES ASSUME PlanTypes, KeptInv, DeferInv, PlanClosed(state)
               PROVE  state = [i \in Item |-> IF i \in Kept THEN "filtered"
                                 ELSE IF i \in Deferred THEN "deferred" ELSE PlannedState(i)]
    BY DEF PlanEndsClosed, PlanIsTheFixpoint
  <2>1. FilteredSet = Kept BY ClosedIsAll
  <2>2. DeferredSet \subseteq Deferred BY <2>1 DEF DeferInv, DeferredSet, FilteredSet
  <2>3. ownDeferred \ Kept \subseteq DeferredSet
    BY <2>1 DEF DeferInv, DeferredSet, FilteredSet, PlanTypes, TypeOK
  <2>4. Closed(DeferredSet, Item \ Kept, TRUE)
    <3> SUFFICES ASSUME NEW i \in Item \ Kept, NEW d \in DependenciesOf(i),
                        state[d] = "deferred", InTheWay(d, i, TRUE)
                 PROVE  state[i] = "deferred"
      BY DEF Closed, DeferredSet
    <3>1. state[i] # "filtered" BY <2>1 DEF FilteredSet
    <3>2. PlannedState(i) = "newDependency" BY DEF PlannedState, DependenciesOf
    <3>3. state[i] # "newDependency" BY DEF PlanClosed, HeldByDeferred, BlockersIn
    <3> QED BY <3>1, <3>2, <3>3 DEF DeferInv
  <2>5. DeferredSet \in SUBSET Item BY DEF DeferredSet
  <2>6. Deferred \subseteq DeferredSet BY <2>3, <2>4, <2>5 DEF Deferred, Least
  <2>7. \A i \in Item : state[i] = IF i \in Kept THEN "filtered"
                                 ELSE IF i \in Deferred THEN "deferred" ELSE PlannedState(i)
    BY <2>1, <2>2, <2>6 DEF FilteredSet, DeferredSet, DeferInv
  <2> QED BY <2>7 DEF PlanTypes
<1> QED BY <1>1, Deferrals, EndsClosed, PTL

\* What planDependents hands over is what Run starts from: each plan is an initial state of the
\* removal run.
THEOREM HandsOver == Spec => [](pc = "done" => state \in [Item -> ItemState] /\ IsPlan(state, Deferrers))
<1>1. PlanTypes /\ DeferInv /\ PlanEndsClosed /\ DeferralsAreSupported
        => (pc = "done" => state \in [Item -> ItemState] /\ IsPlan(state, Deferrers))
  BY DEF PlanTypes, TypeOK, DeferInv, PlanEndsClosed, DeferralsAreSupported, IsPlan
<1> QED BY <1>1, Deferrals, EndsClosed, DeferralsHaveReasons, PTL
=============================================================================
