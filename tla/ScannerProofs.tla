--------------------------- MODULE ScannerProofs ---------------------------
(***************************************************************************)
(* Scanner.Run with any number of types, permits and places in the channel *)
(* never runs more listers than it has permits, never closes the channel   *)
(* on one of them, and loses nothing but to a full channel.                *)
(***************************************************************************)
EXTENDS Scanner, FiniteSetTheorems, TLAPS

\* What the semaphore has handed out is what works; closing takes all of it, for good.
PermitsHeld ==
  IF closed THEN permits = 0 /\ Working = {} /\ toStart = {}
            ELSE permits + Cardinality(Working) = ParallelQueries

StartsOnce == \A t \in toStart : task[t] = "idle"

\* A goroutine's resources are sent, still to be sent, or dropped into a full channel.
Accounted ==
  \A t \in ResourceType :
    /\ sent[t] + rest[t] <= listed[t]
    /\ task[t] \in {"idle", "listing"} => listed[t] = 0
    /\ task[t] # "sending" => rest[t] = 0
    /\ queued # QueueSize => sent[t] + rest[t] = listed[t]

IInv == TypeOK /\ PermitsHeld /\ StartsOnce /\ Accounted

LEMMA WorkingFinite == IsFiniteSet(Working) /\ Cardinality(Working) \in Nat
<1>1. Working \subseteq ResourceType BY DEF Working
<1> QED BY <1>1, ScannerAssumption, FS_Subset, FS_CardinalityType

LEMMA InitInv == Init => IInv
<1> SUFFICES ASSUME Init PROVE IInv
  OBVIOUS
<1>1. TypeOK
  <2>1. closed \in BOOLEAN /\ crashed \in BOOLEAN BY DEF Init
  <2>2. task \in [ResourceType -> {"idle", "listing", "sending", "done"}] BY DEF Init
  <2>3. /\ rest \in [ResourceType -> 0..MaxListed]
        /\ listed \in [ResourceType -> 0..MaxListed]
        /\ sent \in [ResourceType -> 0..MaxListed]
    BY ScannerAssumption DEF Init
  <2>4. permits \in 0..ParallelQueries /\ queued \in 0..QueueSize /\ toStart \subseteq ResourceType
    BY ScannerAssumption DEF Init
  <2> QED BY <2>1, <2>2, <2>3, <2>4 DEF TypeOK
<1>2. PermitsHeld
  <2>1. Working = {} BY DEF Init, Working
  <2>2. Cardinality(Working) = 0 BY <2>1, FS_EmptySet
  <2> QED BY <2>2, ScannerAssumption DEF Init, PermitsHeld
<1>3. StartsOnce /\ Accounted BY DEF Init, StartsOnce, Accounted
<1> QED BY <1>1, <1>2, <1>3 DEF IInv

\* A goroutine that begins to work takes one permit with it.
LEMMA PermitTaken ==
  ASSUME IInv, NEW t \in ResourceType, Start(t)
  PROVE  PermitsHeld'
<1> USE DEF IInv, TypeOK
<1>1. ~closed /\ closed' = closed BY DEF Start, PermitsHeld
<1>2. t \notin Working BY DEF Start, StartsOnce, Working
<1>3. Working' = Working \cup {t} BY DEF Start, Working
<1>4. Cardinality(Working') = Cardinality(Working) + 1
  BY <1>2, <1>3, WorkingFinite, FS_AddElement
<1> QED BY <1>1, <1>4, WorkingFinite, ScannerAssumption DEF PermitsHeld, Start

\* One that is done hands it back.
LEMMA PermitReturned ==
  ASSUME IInv, NEW t \in ResourceType, ListFails(t) \/ Finish(t)
  PROVE  PermitsHeld' /\ permits' \in 0..ParallelQueries
<1> USE DEF IInv, TypeOK
<1>1. t \in Working BY DEF ListFails, Finish, Working
<1>2. ~closed /\ closed' = closed BY <1>1 DEF ListFails, Finish, PermitsHeld
<1>3. Working' = Working \ {t} BY DEF ListFails, Finish, Working
<1>4. Cardinality(Working') = Cardinality(Working) - 1
  BY <1>1, <1>3, WorkingFinite, FS_RemoveElement
<1>5. Cardinality(Working) >= 1
  <2>1. Cardinality(Working) # 0 BY <1>1, WorkingFinite, FS_EmptySet
  <2> QED BY <2>1, WorkingFinite
<1> QED BY <1>2, <1>4, <1>5, WorkingFinite, ScannerAssumption DEF PermitsHeld, ListFails, Finish

\* Steps of a goroutine between its permit's coming and going leave the semaphore alone.
LEMMA PermitKept ==
  ASSUME IInv, Working' = Working, UNCHANGED <<closed, permits, toStart>>
  PROVE  PermitsHeld'
BY DEF IInv, PermitsHeld

LEMMA ListInv ==
  ASSUME IInv, NEW t \in ResourceType, List(t)
  PROVE  IInv'
<1> USE DEF IInv, TypeOK, seen
<1>1. CASE ListReturns(t)
  <2> USE <1>1 DEF ListReturns
  <2>1. TypeOK' OBVIOUS
  <2>2. Working' = Working BY DEF Working
  <2>3. StartsOnce' BY DEF StartsOnce
  <2>4. Accounted' BY DEF Accounted
  <2> QED BY <2>1, <2>2, <2>3, <2>4, PermitKept
<1>2. CASE ListFails(t)
  <2> USE <1>2 DEF ListFails
  <2>1. StartsOnce' BY DEF StartsOnce
  <2>2. Accounted' BY DEF Accounted
  <2>3. TypeOK' BY PermitReturned
  <2> QED BY <2>1, <2>2, <2>3, PermitReturned
<1>3. CASE ListPanics(t)
  <2> USE <1>3 DEF ListPanics
  <2>1. Working' = Working BY DEF Working
  <2> QED BY <2>1, PermitKept DEF StartsOnce, Accounted
<1>4. CASE Enqueue(t)
  <2> USE <1>4 DEF Enqueue
  <2>1. sent[t] + 1 \in 0..MaxListed /\ rest[t] - 1 \in 0..MaxListed
    BY ScannerAssumption DEF Accounted
  <2>2. queued' \in 0..QueueSize BY ScannerAssumption
  <2>3. TypeOK' BY <2>1, <2>2
  <2>4. Working' = Working BY DEF Working
  <2>5. Accounted' BY DEF Accounted
  <2> QED BY <2>3, <2>4, <2>5, PermitKept DEF StartsOnce
<1>5. CASE Drop(t)
  <2> USE <1>5 DEF Drop
  <2>1. TypeOK' BY ScannerAssumption
  <2>2. Working' = Working BY DEF Working
  <2>3. Accounted' BY DEF Accounted
  <2> QED BY <2>1, <2>2, <2>3, PermitKept DEF StartsOnce
<1>6. CASE Finish(t)
  <2> USE <1>6 DEF Finish
  <2>1. StartsOnce' BY DEF StartsOnce
  <2>2. Accounted' BY DEF Accounted
  <2>3. TypeOK' BY PermitReturned
  <2> QED BY <2>1, <2>2, <2>3, PermitReturned
<1> QED BY <1>1, <1>2, <1>3, <1>4, <1>5, <1>6 DEF List

LEMMA RunInv ==
  ASSUME IInv, Run
  PROVE  IInv'
<1> USE DEF IInv, TypeOK, seen
<1>1. CASE Close
  <2> USE <1>1 DEF Close
  <2>1. Cardinality(Working) = 0 BY WorkingFinite, ScannerAssumption DEF PermitsHeld
  <2>2. Working = {} BY <2>1, WorkingFinite, FS_EmptySet
  <2>3. PermitsHeld' BY <2>2 DEF PermitsHeld, Working
  <2>4. TypeOK' BY ScannerAssumption
  <2> QED BY <2>3, <2>4 DEF StartsOnce, Accounted
<1>2. ASSUME NEW t \in ResourceType, Start(t) PROVE IInv'
  <2> USE <1>2 DEF Start
  <2>1. TypeOK' BY ScannerAssumption
  <2>2. StartsOnce' BY DEF StartsOnce
  <2>3. Accounted' BY DEF Accounted, StartsOnce
  <2> QED BY <2>1, <2>2, <2>3, PermitTaken
<1> QED BY <1>1, <1>2 DEF Run

LEMMA Invariance == Spec => []IInv
<1>1. IInv /\ [Next]_vars => IInv'
  <2> SUFFICES ASSUME IInv, [Next]_vars PROVE IInv'
    OBVIOUS
  <2>1. CASE Run BY <2>1, RunInv
  <2>2. CASE \E t \in ResourceType : List(t) BY <2>2, ListInv
  <2>3. CASE UNCHANGED vars
    BY <2>3 DEF vars, seen, IInv, TypeOK, PermitsHeld, StartsOnce, Accounted, Working
  <2> QED BY <2>1, <2>2, <2>3 DEF Next
<1> QED BY <1>1, InitInv, PTL DEF Spec

\* The semaphore and the counters stay in their ranges.
THEOREM TypeCorrect == Spec => []TypeOK
<1>1. IInv => TypeOK BY DEF IInv
<1> QED BY <1>1, Invariance, PTL

\* Run starts no lister without a permit, so no more of them work than there are permits.
THEOREM ParallelBounded == Spec => []AtMostParallelQueries
<1>1. IInv => AtMostParallelQueries
  <2> SUFFICES ASSUME IInv PROVE Cardinality(Working) <= ParallelQueries
    BY DEF AtMostParallelQueries
  <2>1. CASE closed
    <3>1. Cardinality(Working) = 0 BY <2>1, FS_EmptySet DEF IInv, PermitsHeld
    <3> QED BY <3>1, ScannerAssumption
  <2>2. CASE ~closed
    BY <2>2, WorkingFinite, ScannerAssumption DEF IInv, TypeOK, PermitsHeld
  <2> QED BY <2>1, <2>2
<1> QED BY <1>1, Invariance, PTL

\* Run closes the channel only when every lister's goroutine is through with it.
THEOREM ClosesLast == Spec => []ClosedAfterAll
<1>1. IInv => ClosedAfterAll BY DEF IInv, PermitsHeld, ClosedAfterAll
<1> QED BY <1>1, Invariance, PTL

\* list drops resources into a full channel only.
THEOREM NothingElseLost == Spec => []DroppedOnlyWhenFull
<1>1. IInv => DroppedOnlyWhenFull
  <2> SUFFICES ASSUME IInv, closed, queued # QueueSize, NEW t \in ResourceType
               PROVE  sent[t] = listed[t]
    BY DEF DroppedOnlyWhenFull
  <2>1. task[t] # "sending" BY DEF IInv, PermitsHeld, Working
  <2> QED BY <2>1 DEF IInv, Accounted, TypeOK
<1> QED BY <1>1, Invariance, PTL
=============================================================================
