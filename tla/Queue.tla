------------------------------- MODULE Queue -------------------------------
(***************************************************************************)
(* The vocabulary of the removal queue: its items in queue order, their    *)
(* states, the types they belong to, and the two questions the planner and *)
(* the run both ask of it: is any item in one of these states, and which   *)
(* items block this one.                                                   *)
(***************************************************************************)
EXTENDS Integers, FiniteSets

CONSTANTS
  N,             \* how many items the scan queued
  Type,          \* registered resource types
  TypeOf,        \* item -> its type
  DependsOn,     \* type -> the types it is registered to depend on
  BlockerTypes,  \* types that implement resource.Blocker
  Blocks         \* item of a blocker type -> the items its Blocks() names

\* An item is its position in the queue: HandleQueue and planDependents walk 1..N.
Item == 1..N

ASSUME QueueAssumption ==
  /\ N \in Nat \ {0}
  /\ TypeOf \in [Item -> Type]
  /\ DependsOn \in [Type -> SUBSET Type]
  /\ BlockerTypes \subseteq Type
  /\ Blocks \in [Item -> SUBSET Item]

ItemState ==
  {"new", "newDependency", "hold", "pending", "pendingDependency", "waiting",
   "failed", "filtered", "finished", "deferred"}

\* Queue.Count(S...) > 0; the code only ever compares the count with zero.
AnyIn(state, S) == \E i \in Item : state[i] \in S

\* What runScanner makes of an item the filters and Defer leave in.
PlannedState(i) == IF DependsOn[TypeOf[i]] = {} THEN "new" ELSE "newDependency"

DependenciesOf(i) == {d \in Item : TypeOf[d] \in DependsOn[TypeOf[i]]}

\* d is in the way of i: it names i, or it names nothing and types alone decide.
InTheWay(d, i, byType) ==
  IF TypeOf[d] \in BlockerTypes THEN i \in Blocks[d] ELSE byType

BlockersIn(state, i, s, byType) ==
  {d \in DependenciesOf(i) : state[d] = s /\ InTheWay(d, i, byType)}

\* Mutant: a deferral is final for the planner.
KeptUnlessDeferred(state, i) ==
  /\ state[i] \in {"new", "newDependency"}
  /\ BlockersIn(state, i, "filtered", FALSE) # {}

\* The two rules of planDependents for one item.
KeptByFiltered(state, i) ==
  /\ state[i] \in {"new", "newDependency", "deferred"}
  /\ BlockersIn(state, i, "filtered", FALSE) # {}

HeldByDeferred(state, i) ==
  /\ state[i] = "newDependency"
  /\ BlockersIn(state, i, "deferred", TRUE) # {}

\* Nothing is left for planDependents to change.
PlanClosed(state) ==
  \A i \in Item : ~KeptByFiltered(state, i) /\ ~HeldByDeferred(state, i)

\* An item waits for a later run because its own Defer said so (deferrers are the types
\* that implement resource.Deferrer), or because one that blocks it does.
PlanSupported(state, deferrers) ==
  \A i \in Item : state[i] = "deferred" =>
    TypeOf[i] \in deferrers \/ BlockersIn(state, i, "deferred", TRUE) # {}

\* What planDependents hands to the run.
IsPlan(state, deferrers) ==
  /\ \A i \in Item : state[i] \in {PlannedState(i), "filtered", "deferred"}
  /\ PlanClosed(state)
  /\ PlanSupported(state, deferrers)
=============================================================================
