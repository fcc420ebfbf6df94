-------------------------------- MODULE Plan --------------------------------
(***************************************************************************)
(* The plan of a run: runScanner takes the scanned items one by one, lets  *)
(* the filters and then the resource itself withdraw each, and             *)
(* planDependents carries both withdrawals along the links between         *)
(* resources, sweep after sweep, until a sweep changes nothing.            *)
(***************************************************************************)
EXTENDS Queue

CONSTANT Deferrers  \* types that implement resource.Deferrer

ASSUME PlanAssumption == Deferrers \subseteq Type

\* Along the chains that can be withdrawn every type but the last names what it is in the way
\* of: an item of a type that names nothing, and that others depend on, is itself never kept
\* by a name.  Without it the plan would depend on the order of the sweeps: such an item could
\* hold its dependents back and be filtered only afterwards.
ASSUME ChainsAreNamed ==
  \A t \in Type \ BlockerTypes :
    (\E u \in Type : t \in DependsOn[u]) => DependsOn[t] \cap BlockerTypes = {}

VARIABLES
  state,        \* item -> Item.State; of no meaning before the item is scanned
  pc,           \* "aborted" after a filter that cannot be matched
  pos,          \* the next item
  changed       \* planDependents' loop condition

\* Observed: what the filters matched and which items deferred themselves.
VARIABLES matched, ownDeferred

vars == <<state, pc, pos, changed, matched, ownDeferred>>

TypeOK ==
  /\ state \in [Item -> ItemState]
  /\ pc \in {"scan", "sweep", "plan", "done", "aborted"}
  /\ pos \in Item
  /\ changed \in BOOLEAN
  /\ matched \subseteq Item
  /\ ownDeferred \subseteq Item

Init ==
  /\ state = [i \in Item |-> PlannedState(i)]
  /\ pc = "scan"
  /\ pos = 1
  /\ changed = TRUE
  /\ matched = {}
  /\ ownDeferred = {}

\* Mutant: one item too many.
OnwardPast(phase) ==
  IF pos <= N THEN pos' = pos + 1 /\ UNCHANGED pc
              ELSE pos' = 1 /\ pc' = phase

\* The next item, or after the last one the next phase.
Onward(phase) ==
  IF pos < N THEN pos' = pos + 1 /\ UNCHANGED pc
             ELSE pos' = 1 /\ pc' = phase

-----------------------------------------------------------------------------
(* runScanner: Filter, then checkDefer on what it left in. *)

FilterMatches ==
  /\ state' = [state EXCEPT ![pos] = "filtered"]
  /\ matched' = matched \cup {pos}
  /\ Onward("sweep")
  /\ UNCHANGED ownDeferred

DeferAnswersYes ==
  /\ TypeOf[pos] \in Deferrers
  /\ state' = [state EXCEPT ![pos] = "deferred"]
  /\ ownDeferred' = ownDeferred \cup {pos}
  /\ Onward("sweep")
  /\ UNCHANGED matched

\* Defer says no, cannot tell (its error is only logged), or is not implemented.
LeftIn ==
  /\ Onward("sweep")
  /\ UNCHANGED <<state, matched, ownDeferred>>

\* A filter whose value cannot be matched ends the scan, and with it the run.
FilterBroken ==
  /\ pc' = "aborted"
  /\ UNCHANGED <<state, pos, matched, ownDeferred>>

ScanItem ==
  /\ pc = "scan"
  /\ FilterMatches \/ DeferAnswersYes \/ LeftIn \/ FilterBroken
  /\ UNCHANGED changed

-----------------------------------------------------------------------------
(* planDependents: sweep the queue until a sweep changes nothing. *)

Sweep ==
  /\ pc = "sweep"
  /\ \/ changed /\ changed' = FALSE /\ pc' = "plan"
     \/ ~changed /\ pc' = "done" /\ UNCHANGED changed
  /\ UNCHANGED <<state, pos, matched, ownDeferred>>

Withdraw(i, s) ==
  /\ state' = [state EXCEPT ![i] = s]
  /\ changed' = TRUE

\* Mutants: the change is not reported; a deferral is taken for news every time; any
\* deferred item of a type depended on holds, whatever it names.
KeepSilently(i) ==
  /\ KeptByFiltered(state, i)
  /\ state' = [state EXCEPT ![i] = "filtered"]
  /\ UNCHANGED changed
HoldForever(i) ==
  /\ ~KeptByFiltered(state, i)
  /\ BlockersIn(state, i, "deferred", TRUE) # {}
  /\ Withdraw(i, "deferred")
HoldByType(i) ==
  /\ ~KeptByFiltered(state, i)
  /\ state[i] = "newDependency"
  /\ \E d \in DependenciesOf(i) : state[d] = "deferred"
  /\ Withdraw(i, "deferred")

Keep(i) ==
  /\ KeptByFiltered(state, i)
  /\ Withdraw(i, "filtered")

Hold(i) ==
  /\ ~KeptByFiltered(state, i)
  /\ HeldByDeferred(state, i)
  /\ Withdraw(i, "deferred")

Leave(i) ==
  /\ ~KeptByFiltered(state, i)
  /\ ~HeldByDeferred(state, i)
  /\ UNCHANGED <<state, changed>>

PlanItem ==
  /\ pc = "plan"
  /\ Keep(pos) \/ Hold(pos) \/ Leave(pos)
  /\ Onward("sweep")
  /\ UNCHANGED <<matched, ownDeferred>>

Ended == pc \in {"done", "aborted"}

Next == ScanItem \/ Sweep \/ PlanItem \/ (Ended /\ UNCHANGED vars)

Spec == Init /\ [][Next]_vars

\* One goroutine, and no call that does not return.
FairSpec == Spec /\ WF_vars(ScanItem \/ Sweep \/ PlanItem)

-----------------------------------------------------------------------------
(* What the plan should be, from the answers alone: the least sets closed   *)
(* under the links, above the matched items and the remaining deferrals.    *)

Closed(S, among, byType) ==
  \A i \in among : (\E d \in DependenciesOf(i) \cap S : InTheWay(d, i, byType)) => i \in S

Least(base, among, byType) ==
  {i \in Item : \A S \in SUBSET Item : base \subseteq S /\ Closed(S, among, byType) => i \in S}

Kept == Least(matched, Item, FALSE)
Deferred == LET kept == Kept IN Least(ownDeferred \ kept, Item \ kept, TRUE)

\* planDependents ends with exactly that plan, whatever order the scanners delivered the
\* items in: an item blocked by a filtered one is filtered, however long the chain, one
\* blocked by a deferred one that is not itself kept is deferred, and nothing else changes.
PlanIsTheFixpoint ==
  pc = "done" =>
    LET kept == Kept
        deferred == Deferred
    IN  state = [i \in Item |-> IF i \in kept THEN "filtered"
                                ELSE IF i \in deferred THEN "deferred" ELSE PlannedState(i)]

\* No item is left for planDependents to withdraw: the run starts from a closed plan.
PlanEndsClosed == pc = "done" => PlanClosed(state)

\* planDependents' comment: being kept "overrides a deferral, which would otherwise promise
\* a later run that can never come".  A deferred item has a deferred item to wait for.
DeferralsAreSupported == pc = "done" => PlanSupported(state, Deferrers)

\* planDependents only ever withdraws items, so its sweeps come to an end.
PlanTerminates == <>Ended
=============================================================================
