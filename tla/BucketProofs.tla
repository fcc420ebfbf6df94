---------------------------- MODULE BucketProofs ----------------------------
(***************************************************************************)
(* Bucket.Remove never deletes a bucket it has not emptied, for any number *)
(* of workers, versions, failures and pages.                               *)
(***************************************************************************)
EXTENDS Bucket, TLAPS

InHands == UNION {held[w] : w \in Worker}

\* Unless an error was seen, a version still stored is still on its way to a worker.
OnItsWay ==
  errs = 0 /\ (\A w \in Worker : wpc[w] # "report")
    => stored \subseteq unlisted \cup batch \cup items \cup InHands

HandsFree == \A w \in Worker : wpc[w] \in {"range", "done"} => held[w] = {}

DoneIsDrained == \A w \in Worker : wpc[w] = "done" => closed /\ items = {}

ClosedByCaller == closed <=> pc \in {"wait", "check", "delete", "returned"}

AllSent ==
  /\ pc = "list" => batch = {}
  /\ closed /\ ~listErr => unlisted = {} /\ batch = {}

PoolDone == pc \in {"check", "delete", "returned"} => \A w \in Worker : wpc[w] = "done"

DeletesCleanly == pc = "delete" => ~listErr /\ errs = 0

IInv ==
  /\ TypeOK
  /\ OnItsWay
  /\ HandsFree
  /\ DoneIsDrained
  /\ ClosedByCaller
  /\ AllSent
  /\ PoolDone
  /\ DeletesCleanly

LEMMA InitTypes == Init => TypeOK
<1> SUFFICES ASSUME Init PROVE TypeOK
  OBVIOUS
<1>1. closed \in BOOLEAN /\ listErr \in BOOLEAN BY DEF Init
<1>2. held \in [Worker -> SUBSET Version] BY DEF Init
<1>3. wpc \in [Worker -> {"range", "delete", "report", "done"}] BY DEF Init
<1>4. errs \in 0..Capacity /\ failures \in 0..MaxFailures BY BucketAssumption DEF Init
<1>5. stored \subseteq Version /\ unlisted \subseteq Version /\ batch \subseteq Version
      /\ items \subseteq Version
  BY DEF Init
<1>6. pc = "list" /\ result = "none" BY DEF Init
<1> QED BY <1>1, <1>2, <1>3, <1>4, <1>5, <1>6 DEF TypeOK

\* The types of Bucket.Remove's variables, channels within their capacity included.
THEOREM TypeCorrect == Spec => []TypeOK
<1>1. Init => TypeOK
  BY InitTypes
<1>2. TypeOK /\ [Next]_vars => TypeOK'
  <2> SUFFICES ASSUME TypeOK, [Next]_vars PROVE TypeOK'
    OBVIOUS
  <2> USE BucketAssumption DEF TypeOK, pool, caller
  <2>1. CASE ListPage BY <2>1 DEF ListPage
  <2>2. CASE ListFails BY <2>2 DEF ListFails
  <2>3. CASE Send BY <2>3 DEF Send
  <2>4. CASE PageDone BY <2>4 DEF PageDone
  <2>5. CASE WaitDone BY <2>5 DEF WaitDone
  <2>6. CASE Check BY <2>6 DEF Check, Return
  <2>7. CASE DeleteBucket BY <2>7 DEF DeleteBucket, Return
  <2>8. ASSUME NEW w \in Worker, Work(w) PROVE TypeOK'
    <3>1. CASE Take(w) BY <3>1 DEF Take
    <3>2. CASE Exit(w) BY <3>2 DEF Exit
    <3>3. CASE DeleteObject(w) BY <3>3 DEF DeleteObject
    <3>4. CASE DeleteFails(w) BY <3>4 DEF DeleteFails
    <3>5. CASE Report(w) BY <3>5 DEF Report
    <3> QED BY <2>8, <3>1, <3>2, <3>3, <3>4, <3>5 DEF Work
  <2>9. CASE UNCHANGED vars BY <2>9 DEF vars
  <2> QED BY <2>1, <2>2, <2>3, <2>4, <2>5, <2>6, <2>7, <2>8, <2>9 DEF Next, Main
<1> QED BY <1>1, <1>2, PTL DEF Spec

LEMMA InitInv == Init => IInv
<1> SUFFICES ASSUME Init PROVE IInv
  OBVIOUS
<1>1. stored = unlisted /\ batch = {} /\ closed = FALSE /\ pc = "list" BY DEF Init
<1>2. \A w \in Worker : wpc[w] = "range" /\ held[w] = {} BY DEF Init
<1>3. OnItsWay /\ HandsFree /\ DoneIsDrained
  BY <1>1, <1>2 DEF OnItsWay, HandsFree, DoneIsDrained
<1>4. ClosedByCaller /\ AllSent /\ PoolDone /\ DeletesCleanly
  BY <1>1 DEF ClosedByCaller, AllSent, PoolDone, DeletesCleanly
<1> QED BY <1>3, <1>4, InitTypes DEF IInv

\* A worker's step keeps the invariant: what it holds leaves its hands only deleted or with
\* an error on the way to the channel.
LEMMA WorkInv ==
  ASSUME IInv, TypeOK', NEW w \in Worker, Work(w)
  PROVE  IInv'
<1> USE DEF IInv, TypeOK, caller
<1>1. CASE Take(w)
  <2> USE <1>1 DEF Take
  <2>1. OnItsWay'
    <3> SUFFICES ASSUME errs = 0, \A u \in Worker : wpc'[u] # "report", NEW v \in stored
                 PROVE  v \in unlisted \cup batch \cup items' \cup InHands'
      BY DEF OnItsWay
    <3>1. \A u \in Worker : wpc[u] # "report" OBVIOUS
    <3>2. v \in unlisted \cup batch \cup items \cup InHands BY <3>1 DEF OnItsWay
    <3>3. v \in items => v \in items' \/ v \in held'[w] OBVIOUS
    <3>4. v \in InHands => v \in InHands' BY DEF InHands, HandsFree
    <3> QED BY <3>2, <3>3, <3>4 DEF InHands
  <2>2. (HandsFree /\ DoneIsDrained)' BY DEF HandsFree, DoneIsDrained
  <2>3. (ClosedByCaller /\ AllSent /\ PoolDone /\ DeletesCleanly)'
    BY DEF ClosedByCaller, AllSent, PoolDone, DeletesCleanly
  <2> QED BY <2>1, <2>2, <2>3
<1>2. CASE Exit(w)
  <2> USE <1>2 DEF Exit
  <2>1. OnItsWay' BY DEF OnItsWay, InHands
  <2>2. (HandsFree /\ DoneIsDrained)' BY DEF HandsFree, DoneIsDrained
  <2>3. (ClosedByCaller /\ AllSent /\ PoolDone /\ DeletesCleanly)'
    BY DEF ClosedByCaller, AllSent, PoolDone, DeletesCleanly
  <2> QED BY <2>1, <2>2, <2>3
<1>3. CASE DeleteObject(w)
  <2> USE <1>3 DEF DeleteObject
  <2>1. OnItsWay' BY DEF OnItsWay, InHands
  <2>2. (HandsFree /\ DoneIsDrained)' BY DEF HandsFree, DoneIsDrained
  <2>3. (ClosedByCaller /\ AllSent /\ PoolDone /\ DeletesCleanly)'
    BY DEF ClosedByCaller, AllSent, PoolDone, DeletesCleanly
  <2> QED BY <2>1, <2>2, <2>3
<1>4. CASE DeleteFails(w)
  <2> USE <1>4 DEF DeleteFails
  <2>1. OnItsWay' BY DEF OnItsWay
  <2>2. (HandsFree /\ DoneIsDrained)' BY DEF HandsFree, DoneIsDrained
  <2>3. (ClosedByCaller /\ AllSent /\ PoolDone /\ DeletesCleanly)'
    BY DEF ClosedByCaller, AllSent, PoolDone, DeletesCleanly
  <2> QED BY <2>1, <2>2, <2>3
<1>5. CASE Report(w)
  <2> USE <1>5 DEF Report
  <2>1. OnItsWay' BY BucketAssumption DEF OnItsWay
  <2>2. (HandsFree /\ DoneIsDrained)' BY DEF HandsFree, DoneIsDrained
  <2>3. (ClosedByCaller /\ AllSent /\ PoolDone /\ DeletesCleanly)'
    BY DEF ClosedByCaller, AllSent, PoolDone, DeletesCleanly
  <2> QED BY <2>1, <2>2, <2>3
<1> QED BY <1>1, <1>2, <1>3, <1>4, <1>5 DEF Work

\* A step of the caller keeps the invariant: it closes the channel only when every page has
\* been handed out, or with an error to return.
LEMMA MainInv ==
  ASSUME IInv, TypeOK', Main
  PROVE  IInv'
<1> USE DEF IInv, TypeOK, pool
<1>1. CASE ListPage
  <2> USE <1>1 DEF ListPage
  <2>1. OnItsWay'
    <3>1. InHands' = InHands BY DEF InHands
    <3>2. unlisted \cup batch \subseteq unlisted' \cup batch' BY DEF AllSent
    <3> QED BY <3>1, <3>2 DEF OnItsWay
  <2>2. (HandsFree /\ DoneIsDrained)' BY DEF HandsFree, DoneIsDrained
  <2>3. (ClosedByCaller /\ AllSent /\ PoolDone /\ DeletesCleanly)'
    BY DEF ClosedByCaller, AllSent, PoolDone, DeletesCleanly
  <2> QED BY <2>1, <2>2, <2>3
<1>2. CASE ListFails
  <2> USE <1>2 DEF ListFails
  <2>1. OnItsWay' BY DEF OnItsWay, InHands
  <2>2. (HandsFree /\ DoneIsDrained)' BY DEF HandsFree, DoneIsDrained
  <2>3. (ClosedByCaller /\ AllSent /\ PoolDone /\ DeletesCleanly)'
    BY DEF ClosedByCaller, AllSent, PoolDone, DeletesCleanly
  <2> QED BY <2>1, <2>2, <2>3
<1>3. CASE Send
  <2> USE <1>3 DEF Send
  <2>1. OnItsWay'
    <3>1. InHands' = InHands BY DEF InHands
    <3>2. batch \cup items \subseteq batch' \cup items' OBVIOUS
    <3> QED BY <3>1, <3>2 DEF OnItsWay
  <2>2. (HandsFree /\ DoneIsDrained)' BY DEF HandsFree, DoneIsDrained, ClosedByCaller
  <2>3. (ClosedByCaller /\ AllSent /\ PoolDone /\ DeletesCleanly)'
    BY DEF ClosedByCaller, AllSent, PoolDone, DeletesCleanly
  <2> QED BY <2>1, <2>2, <2>3
<1>4. CASE PageDone
  <2> USE <1>4 DEF PageDone
  <2>1. OnItsWay' BY DEF OnItsWay, InHands
  <2>2. (HandsFree /\ DoneIsDrained)' BY DEF HandsFree, DoneIsDrained
  <2>3. (ClosedByCaller /\ AllSent /\ PoolDone /\ DeletesCleanly)'
    BY DEF ClosedByCaller, AllSent, PoolDone, DeletesCleanly
  <2> QED BY <2>1, <2>2, <2>3
<1>5. CASE WaitDone \/ Check \/ DeleteBucket
  <2> USE <1>5 DEF WaitDone, Check, DeleteBucket, Return
  <2>1. OnItsWay' BY DEF OnItsWay, InHands
  <2>2. (HandsFree /\ DoneIsDrained)' BY DEF HandsFree, DoneIsDrained
  <2>3. (ClosedByCaller /\ AllSent /\ PoolDone /\ DeletesCleanly)'
    BY BucketAssumption DEF ClosedByCaller, AllSent, PoolDone, DeletesCleanly
  <2> QED BY <2>1, <2>2, <2>3
<1> QED BY <1>1, <1>2, <1>3, <1>4, <1>5 DEF Main

\* bucket.go deletes the bucket only after every version it held was deleted without error.
THEOREM EmptiedFirst == Spec => []DeletesOnlyEmptied
<1>1. IInv /\ [Next]_vars /\ TypeOK' => IInv'
  <2> SUFFICES ASSUME IInv, [Next]_vars, TypeOK' PROVE IInv'
    OBVIOUS
  <2>1. CASE Main BY <2>1, MainInv
  <2>2. CASE \E w \in Worker : Work(w) BY <2>2, WorkInv
  <2>3. CASE UNCHANGED vars
    BY <2>3 DEF vars, pool, caller, IInv, TypeOK, OnItsWay, InHands, HandsFree,
                DoneIsDrained, ClosedByCaller, AllSent, PoolDone, DeletesCleanly
  <2> QED BY <2>1, <2>2, <2>3 DEF Next
<1>2. IInv => DeletesOnlyEmptied
  <2> SUFFICES ASSUME IInv, pc = "delete" PROVE stored = {}
    BY DEF DeletesOnlyEmptied
  <2>1. PICK w \in Worker : TRUE BY BucketAssumption
  <2>2. closed /\ ~listErr /\ errs = 0 BY DEF IInv, ClosedByCaller, DeletesCleanly
  <2>3. \A u \in Worker : wpc[u] = "done" /\ held[u] = {} BY DEF IInv, PoolDone, HandsFree
  <2>4. items = {} BY <2>1, <2>3 DEF IInv, DoneIsDrained
  <2>5. unlisted = {} /\ batch = {} BY <2>2 DEF IInv, AllSent
  <2>6. InHands = {} BY <2>3 DEF InHands
  <2>7. \A u \in Worker : wpc[u] # "report" BY <2>3
  <2> QED BY <2>2, <2>4, <2>5, <2>6, <2>7 DEF IInv, OnItsWay
<1> QED BY <1>1, <1>2, InitInv, TypeCorrect, PTL DEF Spec

-----------------------------------------------------------------------------
(* A version is in one place at a time. *)

Apart ==
  /\ unlisted \cap batch = {} /\ unlisted \cap items = {} /\ batch \cap items = {}
  /\ HeldOnce

LEMMA WorkApart ==
  ASSUME TypeOK, Apart, NEW w \in Worker, Work(w)
  PROVE  Apart'
<1> USE DEF TypeOK, caller, Apart
<1>1. CASE Take(w)
  <2>1. PICK v \in items : items' = items \ {v} /\ held' = [held EXCEPT ![w] = {v}]
    BY <1>1 DEF Take
  <2>2. /\ UNCHANGED <<unlisted, batch>> /\ v \notin batch \cup unlisted \cup items'
        /\ \A u \in Worker : v \notin held[u]
    BY <1>1, <2>1 DEF Take, HeldOnce
  <2>3. \A u \in Worker : held'[u] = IF u = w THEN {v} ELSE held[u]
    BY <2>1
  <2> QED BY <2>1, <2>2, <2>3 DEF HeldOnce
<1>2. CASE Exit(w) \/ DeleteFails(w)
  BY <1>2 DEF Exit, DeleteFails, HeldOnce
<1>3. CASE DeleteObject(w) \/ Report(w)
  <2>1. /\ UNCHANGED <<unlisted, batch, items>>
        /\ \A u \in Worker : held'[u] = IF u = w THEN {} ELSE held[u]
    BY <1>3 DEF DeleteObject, Report
  <2> QED BY <2>1 DEF HeldOnce
<1> QED BY <1>1, <1>2, <1>3 DEF Work

LEMMA MainApart == Apart /\ Main => Apart'
<1> SUFFICES ASSUME Apart, Main PROVE Apart'
  OBVIOUS
<1> USE DEF pool, Apart
<1>1. CASE ListPage BY <1>1 DEF ListPage, HeldOnce
<1>2. CASE Send BY <1>2 DEF Send, HeldOnce
<1>3. CASE ListFails \/ PageDone \/ WaitDone \/ Check \/ DeleteBucket
  BY <1>3 DEF ListFails, PageDone, WaitDone, Check, DeleteBucket, HeldOnce
<1> QED BY <1>1, <1>2, <1>3 DEF Main

\* Remove's channel hands every version to one worker: none is deleted or reported twice.
THEOREM TakenOnce == Spec => []HeldOnce
<1>1. Init => Apart
  BY DEF Init, Apart, HeldOnce
<1>2. TypeOK /\ Apart /\ [Next]_vars => Apart'
  BY WorkApart, MainApart DEF Next, vars, pool, caller, Apart, HeldOnce
<1>3. Apart => HeldOnce
  BY DEF Apart
<1> QED BY <1>1, <1>2, <1>3, TypeCorrect, PTL DEF Spec
=============================================================================
