---------------------- MODULE ScheduledDeletionProofs ----------------------
(***************************************************************************)
(* What ensure may rely on and what may be relied on of it, for any number *)
(* of attempts, polls, retries and failing calls, and any service: nothing *)
(* is sent in the middle of a transition, and success means the date.      *)
(***************************************************************************)
EXTENDS ScheduledDeletion, TLAPS

\* What an action leaves a variable of the run in, said once for Return and NextAttempt.
LEMMA ReturnTypes ==
  ASSUME TypeOK, NEW r \in {"ok", "error", "deferred"}, Return(r)
  PROVE  /\ result' = r
         /\ phase' \in {"judge", "waiting", "retry", "deferred"}
         /\ pc' = pc /\ attempt' = attempt /\ polls' = polls /\ seen' = seen
         /\ phase' = "waiting" => r = "ok"
BY DEF Return, Outcome, ensureVars

LEMMA NextAttemptTypes ==
  ASSUME TypeOK, phase = "ensure", attempt < Attempts, NextAttempt
  PROVE  /\ polls' = polls /\ seen' = seen /\ attempt' \in 0..Attempts
         /\ \/ attempt' < Attempts /\ phase' = phase /\ pc' = "read" /\ result' = result
            \/ phase' \in {"judge", "retry"} /\ pc' = pc /\ result' = "error"
BY ScheduleAssumption DEF NextAttempt, TypeOK

\* An attempt is under way as long as ensure runs, and what is judged has a result.
Counting ==
  /\ phase = "ensure" => attempt < Attempts
  /\ phase = "judge" => result # "none"

Typed == TypeOK /\ Counting

LEMMA FaultTypes == ASSUME TypeOK, Fault PROVE faults' \in 0..MaxFaults
BY ScheduleAssumption DEF Fault, TypeOK

LEMMA SettledTypes == Typed /\ Settled => Typed'
<1> SUFFICES ASSUME TypeOK, Counting, Settled PROVE TypeOK' /\ Counting'
  BY DEF Typed
<1>1. /\ phase = "ensure" /\ pc = "read"
      /\ UNCHANGED <<kind, life, date, blocked, keeps, inTime, tries, actedInTransition>>
  BY DEF Settled, service, habits
<1>2. CASE ReadFails
  BY <1>1, <1>2, ReturnTypes, FaultTypes DEF ReadFails, TypeOK, Counting
<1>3. CASE ReadSettled
  BY <1>1, <1>3, ScheduleAssumption DEF ReadSettled, TypeOK, Counting
<1>4. CASE PollAgain
  BY <1>1, <1>4, ScheduleAssumption DEF PollAgain, TypeOK, Counting
<1>5. CASE SettleTimeout
  BY <1>1, <1>5, ReturnTypes DEF SettleTimeout, TypeOK, Counting
<1> QED BY <1>2, <1>3, <1>4, <1>5 DEF Settled

\* One request: what it may do to the record of the service and to the run.
LEMMA Answers ==
  ASSUME Typed, phase = "ensure", Cancel \/ Schedule
  PROVE  /\ UNCHANGED <<kind, blocked, keeps, inTime, polls, seen>>
         /\ attempt' \in 0..Attempts /\ faults' \in 0..MaxFaults
         /\ \/ attempt' < Attempts /\ phase' = "ensure" /\ pc' = "read" /\ result' = result
            \/ phase' \in {"judge", "retry", "deferred"} /\ pc' = pc /\ result' \in {"error", "deferred"}
         /\ life' \in Life /\ date' \in Date
<1> USE DEF Typed, Counting
<1>1. TypeOK /\ attempt < Attempts
  OBVIOUS
<1>2. CASE Return("error") /\ faults' \in 0..MaxFaults /\ UNCHANGED <<kind, blocked, keeps, inTime, life, date>>
  BY <1>1, <1>2 DEF Return, Outcome, ensureVars, TypeOK
<1>3. CASE Return("deferred") /\ UNCHANGED <<kind, blocked, keeps, inTime, life, date, faults>>
  BY <1>1, <1>3 DEF Return, Outcome, ensureVars, TypeOK
<1>4. CASE NextAttempt /\ UNCHANGED <<kind, blocked, keeps, inTime, faults>> /\ life' \in Life /\ date' \in Date
  BY <1>1, <1>4, NextAttemptTypes DEF TypeOK
<1>5. CASE Cancel
  BY <1>1, <1>2, <1>4, <1>5, FaultTypes
     DEF Cancel, Request, CancelAccepted, CancelRefused, TypeOK, habits, Life, Transitions, Date
<1>6. CASE Schedule
  <2>1. keeps \subseteq Date BY <1>1, ScheduleAssumption DEF TypeOK, Date
  <2> QED BY <1>1, <1>2, <1>3, <1>4, <1>6, <2>1, FaultTypes
          DEF Schedule, Request, ScheduleAccepted, ScheduleBlocked, TypeOK, habits, Life, Transitions
<1> QED BY <1>5, <1>6

LEMMA ActTypes == Typed /\ Act => Typed'
<1> SUFFICES ASSUME Typed, Act PROVE Typed'
  OBVIOUS
<1>1. TypeOK /\ phase = "ensure" /\ attempt < Attempts /\ tries' = tries
  BY DEF Typed, Counting, Act
<1>2. CASE AlreadyDone
  BY <1>1, <1>2, ReturnTypes DEF AlreadyDone, Typed, TypeOK, Counting, service, habits
<1>3. CASE Cancel \/ Schedule
  <2>1. actedInTransition' \in BOOLEAN
    BY <1>3 DEF Cancel, Schedule, Request
  <2> QED BY <1>1, <1>3, <2>1, Answers DEF Typed, TypeOK, Counting
<1> QED BY <1>2, <1>3 DEF Act

\* The run around ensure.
LEMMA RunTypes == Typed /\ (Scan \/ Retry \/ Judge \/ Wait) => Typed'
<1> SUFFICES ASSUME TypeOK, Counting, Scan \/ Retry \/ Judge \/ Wait PROVE TypeOK' /\ Counting'
  BY DEF Typed
<1>1. UNCHANGED <<kind, life, date, blocked, keeps, inTime, result, actedInTransition>>
  BY DEF Scan, Retry, Judge, Wait, service, habits
<1>2. StartEnsure => phase' = "ensure" /\ pc' = "read" /\ attempt' = 0 /\ polls' = 0 /\ seen' = seen
  BY DEF StartEnsure
<1>3. CASE Scan
  BY <1>1, <1>2, <1>3, ScheduleAssumption DEF Scan, ensureVars, TypeOK, Counting
<1>4. CASE Retry
  BY <1>1, <1>2, <1>4, ScheduleAssumption DEF Retry, ensureVars, TypeOK, Counting
<1>5. CASE Judge
  <2>1. phase' \in {"finished", "waiting", "retry", "deferred"}
    BY <1>5 DEF Judge, TypeOK, Outcome, Counting
  <2> QED BY <1>1, <1>5, <2>1, FaultTypes DEF Judge, ensureVars, TypeOK, Counting
<1>6. CASE Wait
  BY <1>1, <1>6, FaultTypes DEF Wait, ensureVars, TypeOK, Counting
<1> QED BY <1>3, <1>4, <1>5, <1>6


\* The run of one such resource keeps its types, whatever the service does.
THEOREM TypeCorrect == Spec => []Typed
<1>1. Init => Typed
  <2> SUFFICES ASSUME Init PROVE Typed
    OBVIOUS
  <2>1. life \in Life /\ date \in Date
    BY DEF Init, Date
  <2>2. blocked \in BOOLEAN /\ keeps \subseteq DatesKept
    BY DEF Init
  <2>3. seen \in [life : Life, date : Date]
    BY <2>1 DEF Init
  <2>4. attempt \in 0..Attempts /\ polls \in 0..MaxPolls /\ tries \in 0..(MaxTries - 1) /\ faults \in 0..MaxFaults
    BY ScheduleAssumption DEF Init
  <2>5. phase = "scan" /\ Counting
    BY DEF Init, Counting
  <2> QED BY <2>1, <2>2, <2>3, <2>4, <2>5 DEF Init, Typed, TypeOK
<1>2. Typed /\ [Next]_vars => Typed'
  <2> SUFFICES ASSUME Typed, [Next]_vars PROVE Typed'
    OBVIOUS
  <2>1. CASE Run BY <2>1, SettledTypes, ActTypes, RunTypes DEF Run
  <2>2. CASE Service
    <3>1. life' \in Life /\ date' \in Date
      BY <2>2 DEF Service, Settles, DateArrives, Becomes, Typed, TypeOK, Life, Transitions, Date
    <3> QED BY <2>2, <3>1 DEF Service, Typed, TypeOK, Counting, habits, ensureVars
  <2>3. CASE UNCHANGED vars
    BY <2>3 DEF vars, service, habits, ensureVars, Typed, TypeOK, Counting
  <2> QED BY <2>1, <2>2, <2>3 DEF Next
<1> QED BY <1>1, <1>2, PTL DEF Spec

\* As the runs check it.
THEOREM TypeKept == Spec => []TypeOK
<1>1. Typed => TypeOK
  BY DEF Typed
<1> QED BY <1>1, TypeCorrect, PTL

-----------------------------------------------------------------------------
(* What settled returned still tells what the service may have made of it.  *)

\* From a settled state the service only ever goes on along the date: nothing but a request of
\* ensure begins a transition.
SeenHolds ==
  /\ seen.life \notin Transitions
  /\ seen.life = "ACTIVE" => life = "ACTIVE"
  /\ seen.life = "PENDING_DELETION" =>
       \/ life \in {"DELETING", "DELETED"}
       \/ life = "PENDING_DELETION" /\ date = seen.date
  /\ seen.life \in {"DELETING", "DELETED"} => life \in {"DELETING", "DELETED"}

ActInv == phase = "ensure" /\ pc = "act" => SeenHolds

LEMMA SeenFacts == ASSUME Typed, ActInv, phase = "ensure", pc = "act" PROVE life \notin Transitions
BY DEF Typed, TypeOK, ActInv, SeenHolds, Life, Transitions

\* Where the service goes by itself.
LEMMA ServiceGoesOn ==
  ASSUME Service
  PROVE  /\ UNCHANGED <<phase, pc, seen, result, actedInTransition>>
         /\ life = "ACTIVE" => FALSE
         /\ life = "PENDING_DELETION" => life' = "DELETING"
         /\ life \in {"DELETING", "DELETED"} => life' = "DELETED"
BY DEF Service, Settles, DateArrives, Becomes, ensureVars

LEMMA ActInvariant == Typed /\ ActInv /\ [Next]_vars => ActInv'
<1> SUFFICES ASSUME Typed, ActInv, [Next]_vars, phase' = "ensure", pc' = "act" PROVE SeenHolds'
  BY DEF ActInv
<1>1. CASE Service
  <2>1. SeenHolds BY <1>1, ServiceGoesOn DEF ActInv
  <2> QED BY <1>1, <2>1, ServiceGoesOn DEF SeenHolds, Typed, TypeOK, Life, Transitions
<1>2. CASE Settled
  <2>1. ReadSettled
    BY <1>2 DEF Settled, ReadFails, PollAgain, SettleTimeout, Return, Outcome, ensureVars, Typed, TypeOK
  <2> QED BY <1>2, <2>1 DEF ReadSettled, Settled, service, SeenHolds, Typed, TypeOK, Life, Transitions
<1>3. CASE Act
  <2>1. phase = "ensure" BY <1>3 DEF Act
  <2>2. ~AlreadyDone BY <2>1, ReturnTypes DEF AlreadyDone, Typed
  <2>3. pc' = "read" BY <1>3, <2>1, <2>2, Answers DEF Act
  <2> QED BY <2>3
<1>4. CASE Scan \/ Retry
  BY <1>4 DEF Scan, Retry, StartEnsure
<1>5. CASE Judge \/ Wait
  BY <1>5 DEF Judge, Wait, Outcome, Typed, TypeOK, Counting
<1>6. CASE UNCHANGED vars
  BY <1>6 DEF vars, service, ensureVars, ActInv, SeenHolds
<1> QED BY <1>1, <1>2, <1>3, <1>4, <1>5, <1>6 DEF Next, Run

LEMMA ActInvHolds == Spec => []ActInv
<1>1. Init => ActInv
  BY DEF Init, ActInv
<1> QED BY <1>1, ActInvariant, TypeCorrect, PTL DEF Spec

\* settled's promise, kept for any delay between the read and the request: nothing is sent to a
\* resource in the middle of a transition.
THEOREM SentOnlySettled == Spec => []NeverActsInTransition
<1>1. Init => NeverActsInTransition
  BY DEF Init, NeverActsInTransition
<1>2. Typed /\ ActInv /\ NeverActsInTransition /\ [Next]_vars => NeverActsInTransition'
  <2> SUFFICES ASSUME Typed, ActInv, ~actedInTransition, [Next]_vars PROVE ~actedInTransition'
    BY DEF NeverActsInTransition
  <2>1. CASE Act
    <3>1. life \notin Transitions BY <2>1, SeenFacts DEF Act
    <3> QED BY <2>1, <3>1 DEF Act, AlreadyDone, Cancel, Schedule, Request
  <2>2. CASE Service BY <2>2, ServiceGoesOn
  <2>3. CASE Scan \/ Settled \/ Retry \/ Judge \/ Wait \/ UNCHANGED vars
    BY <2>3 DEF Scan, Settled, Retry, Judge, Wait, vars
  <2> QED BY <2>1, <2>2, <2>3 DEF Next, Run
<1> QED BY <1>1, <1>2, ActInvHolds, TypeCorrect, PTL DEF Spec

\* Remove's success is no guess: the service has the deletion at the date asked for, or is
\* already at it, however long the engine takes to look again.
THEOREM SuccessMeansTheDate == Spec => []SuccessIsDated
<1> DEFINE Dated == life \in {"DELETING", "DELETED"} \/ (life = "PENDING_DELETION" /\ date = "near")
<1>1. Init => SuccessIsDated
  BY DEF Init, SuccessIsDated
<1>2. Typed /\ ActInv /\ SuccessIsDated /\ [Next]_vars => SuccessIsDated'
  <2> SUFFICES ASSUME Typed, ActInv, SuccessIsDated, [Next]_vars,
                      phase' \in {"judge", "waiting"}, result' = "ok"
               PROVE  Dated'
    BY DEF SuccessIsDated
  <2>1. CASE Service BY <2>1, ServiceGoesOn DEF SuccessIsDated
  <2>2. CASE Settled
    <3>1. result' # "ok" \/ phase' = "ensure"
      BY <2>2 DEF Settled, ReadFails, ReadSettled, PollAgain, SettleTimeout, Return
    <3> QED BY <3>1
  <2>3. CASE Act
    <3>1. SeenHolds /\ phase = "ensure" BY <2>3 DEF Act, ActInv
    <3>2. AlreadyDone BY <2>3, <3>1, Answers DEF Act
    <3> QED BY <3>1, <3>2 DEF AlreadyDone, LaterThanNecessary, SeenHolds, service
  <2>4. CASE Scan \/ Retry
    BY <2>4 DEF Scan, Retry, StartEnsure
  <2>5. CASE Judge \/ Wait
    BY <2>5 DEF Judge, Wait, service, SuccessIsDated
  <2>6. CASE UNCHANGED vars
    BY <2>6 DEF vars, service, SuccessIsDated
  <2> QED BY <2>1, <2>2, <2>3, <2>4, <2>5, <2>6 DEF Next, Run
<1> QED BY <1>1, <1>2, ActInvHolds, TypeCorrect, PTL DEF Spec

-----------------------------------------------------------------------------
(* What a finished resource has to show for it, with an obliging service.  *)

Dated == life \in {"DELETING", "DELETED"} \/ (life = "PENDING_DELETION" /\ date = "near")

\* Nothing stands between the resource and the date any more.
OnItsWay ==
  \/ life \in {"SCHEDULING_DELETION", "PENDING_DELETION"} /\ date = "near"
  \/ life \in {"DELETING", "DELETED"}

\* ensure needs two requests at most: one withdraws a date too far out, one asks for its own.
Progress ==
  phase = "ensure" =>
    /\ attempt <= 2
    /\ attempt = 1 => life \in {"CANCELLING_DELETION", "ACTIVE"} \/ OnItsWay
    /\ attempt = 2 => OnItsWay

\* Whatever made the run try again was the one failing call, or came after the date was set.
Excused == faults >= 1 \/ Dated

RetriesExcused ==
  /\ phase = "scan" => tries = 0
  /\ phase = "retry" \/ (phase = "ensure" /\ tries > 0) => Excused
  /\ phase = "judge" => (IF result = "deferred" THEN life = "ACTIVE" ELSE Dated)
  /\ phase = "judge" => Excused \/ result = "deferred"
  /\ phase \in {"waiting", "finished"} => Dated

DatedInv == Obliging => Progress /\ RetriesExcused

\* A request is only sent on what still holds, so none disturbs a date that is set.
LEMMA RequestsSpareTheDated ==
  ASSUME Typed, ActInv, phase = "ensure", pc = "act", Cancel \/ Schedule, Dated
  PROVE  Dated' /\ Return("error")
<1>1. SeenHolds BY DEF ActInv
<1>2. CASE Cancel
  BY <1>1, <1>2 DEF Cancel, Request, CancelAccepted, CancelRefused, LaterThanNecessary,
                    SeenHolds, Dated
<1>3. CASE Schedule
  <2>1. life # "ACTIVE" BY DEF Dated
  <2> QED BY <1>3, <2>1 DEF Schedule, Request, ScheduleAccepted, ScheduleBlocked, Dated
<1> QED BY <1>2, <1>3

LEMMA SettledDated ==
  ASSUME Typed, ActInv, DatedInv, Obliging', Settled
  PROVE  DatedInv'
<1>1. /\ phase = "ensure" /\ UNCHANGED <<life, date, keeps, inTime, tries>>
  BY DEF Settled, service, habits
<1>2. faults \in Nat /\ faults' \in Nat /\ faults <= faults' /\ tries \in Nat
  BY ScheduleAssumption
     DEF Settled, ReadFails, ReadSettled, PollAgain, SettleTimeout, Fault, Typed, TypeOK
<1>3. Obliging BY <1>1, <1>2 DEF Obliging
<1>4. Progress /\ RetriesExcused BY <1>3 DEF DatedInv
<1>5. CASE ReadFails
  <2>1. faults' = faults + 1 /\ result' = "error"
        /\ phase' = (IF tries > 0 THEN "judge" ELSE "retry")
    BY <1>5 DEF ReadFails, Fault, Return, Outcome
  <2>2. faults = 0 BY <1>2, <2>1 DEF Obliging
  <2>3. tries > 0 => Dated BY <1>1, <1>4, <2>2 DEF RetriesExcused, Excused
  <2> QED BY <1>1, <1>2, <2>1, <2>2, <2>3
          DEF DatedInv, Progress, RetriesExcused, Excused, Dated
<1>6. CASE ReadSettled \/ PollAgain
  <2>1. UNCHANGED <<phase, attempt, result, faults>>
    BY <1>6 DEF ReadSettled, PollAgain
  <2> QED
    BY <1>1, <1>4, <2>1
       DEF DatedInv, Progress, OnItsWay, RetriesExcused, Excused, Dated
<1>7. CASE SettleTimeout BY <1>3, <1>7 DEF SettleTimeout, Obliging
<1> QED BY <1>5, <1>6, <1>7 DEF Settled

LEMMA ActDated ==
  ASSUME Attempts >= 3, Typed, ActInv, DatedInv, Obliging', Act
  PROVE  DatedInv'
<1>1. phase = "ensure" /\ pc = "act" /\ tries' = tries /\ attempt \in Nat /\ tries \in Nat
  BY ScheduleAssumption DEF Act, Typed, TypeOK
<1>2. keeps' = keeps /\ inTime' = inTime
  BY DEF Act, AlreadyDone, Cancel, Schedule, Request, service, habits
<1>3. faults \in Nat /\ faults' \in Nat /\ faults <= faults'
  BY ScheduleAssumption
     DEF Act, AlreadyDone, Cancel, Schedule, Request, CancelAccepted, CancelRefused,
         ScheduleAccepted, ScheduleBlocked, Fault, Typed, TypeOK
<1>4. Obliging BY <1>2, <1>3 DEF Obliging
<1>5. Progress /\ RetriesExcused /\ SeenHolds BY <1>1, <1>4 DEF DatedInv, ActInv
<1>6. CASE AlreadyDone
  <2>1. UNCHANGED <<life, date, faults>> /\ result' = "ok"
        /\ phase' = (IF tries > 0 THEN "judge" ELSE "waiting")
    BY <1>6 DEF AlreadyDone, Return, Outcome, service
  <2>2. Dated BY <1>5, <1>6 DEF AlreadyDone, LaterThanNecessary, SeenHolds, Dated
  <2> QED BY <2>1, <2>2 DEF DatedInv, Progress, RetriesExcused, Excused, Dated
<1>7. CASE (Cancel \/ Schedule) /\ Fault /\ Return("error") /\ UNCHANGED <<life, date>>
  <2>1. faults' = faults + 1 /\ result' = "error"
        /\ phase' = (IF tries > 0 THEN "judge" ELSE "retry")
    BY <1>7 DEF Fault, Return, Outcome
  <2>2. faults = 0 BY <1>3, <2>1 DEF Obliging
  <2>3. tries > 0 => Dated BY <1>1, <1>5, <2>2 DEF RetriesExcused, Excused
  <2> QED BY <1>1, <1>3, <1>7, <2>1, <2>2, <2>3
          DEF DatedInv, Progress, RetriesExcused, Excused, Dated
<1>8. CASE Cancel /\ CancelRefused
  <2>1. Dated BY <1>5, <1>8 DEF Cancel, CancelRefused, SeenHolds, Dated
  <2>2. UNCHANGED <<life, date, faults>> /\ result' = "error"
        /\ phase' = (IF tries > 0 THEN "judge" ELSE "retry")
    BY <1>8 DEF CancelRefused, Return, Outcome
  <2> QED BY <2>1, <2>2 DEF DatedInv, Progress, RetriesExcused, Excused, Dated
<1>9. CASE Cancel /\ CancelAccepted
  <2>1. /\ life = "PENDING_DELETION" /\ date # "near"
        /\ life' = "CANCELLING_DELETION" /\ faults' = faults
    BY <1>5, <1>9 DEF Cancel, CancelAccepted, LaterThanNecessary, SeenHolds
  <2>2. attempt = 0 BY <1>1, <1>5, <2>1 DEF Progress, OnItsWay
  <2>3. attempt' = 1 /\ phase' = "ensure"
    BY <1>1, <1>9, <2>2, ScheduleAssumption DEF CancelAccepted, NextAttempt
  <2>4. tries > 0 => faults >= 1 BY <1>1, <1>5, <2>1 DEF RetriesExcused, Excused, Dated
  <2> QED BY <1>1, <2>1, <2>3, <2>4 DEF DatedInv, Progress, RetriesExcused, Excused
<1>10. CASE Schedule /\ ScheduleBlocked
  <2>1. life = "ACTIVE" /\ UNCHANGED <<life, date, faults>> /\ result' = "deferred"
        /\ phase' \in {"judge", "deferred"}
    BY <1>10 DEF ScheduleBlocked, Return, Outcome
  <2> QED BY <2>1 DEF DatedInv, Progress, RetriesExcused
<1>11. CASE Schedule /\ ScheduleAccepted
  <2>1. /\ life = "ACTIVE" /\ life' = "SCHEDULING_DELETION" /\ date' = "near"
        /\ faults' = faults
    BY <1>4, <1>11 DEF ScheduleAccepted, Obliging
  <2>2. attempt <= 1 BY <1>1, <1>5, <2>1 DEF Progress, OnItsWay
  <2>3. attempt' \in {1, 2} /\ phase' = "ensure"
    BY <1>1, <1>11, <2>2, ScheduleAssumption DEF ScheduleAccepted, NextAttempt
  <2>4. tries > 0 => faults >= 1 BY <1>1, <1>5, <2>1 DEF RetriesExcused, Excused, Dated
  <2> QED BY <1>1, <2>1, <2>3, <2>4 DEF DatedInv, Progress, OnItsWay, RetriesExcused, Excused
<1> QED
  BY <1>6, <1>7, <1>8, <1>9, <1>10, <1>11 DEF Act, Cancel, Schedule, Request

LEMMA AroundDated ==
  ASSUME Typed, DatedInv, Obliging', Scan \/ Retry \/ Judge \/ Wait
  PROVE  DatedInv'
<1>1. UNCHANGED <<life, date, keeps, inTime, result>>
  BY DEF Scan, Retry, Judge, Wait, service, habits
<1>2. faults \in Nat /\ faults' \in Nat /\ faults <= faults' /\ tries \in Nat
  BY ScheduleAssumption DEF Scan, Retry, Judge, Wait, Fault, Typed, TypeOK
<1>3. Obliging BY <1>1, <1>2 DEF Obliging
<1>4. Progress /\ RetriesExcused BY <1>3 DEF DatedInv
<1>5. CASE Scan
  <2>1. ((phase' = "ensure" /\ attempt' = 0) \/ phase' = "skipped") /\ tries' = tries
    BY <1>5 DEF Scan, StartEnsure
  <2>2. tries = 0 BY <1>4, <1>5 DEF Scan, RetriesExcused
  <2> QED BY <2>1, <2>2 DEF DatedInv, Progress, RetriesExcused
<1>6. CASE Retry
  <2>1. ((phase' = "ensure" /\ attempt' = 0) \/ phase' = "failed") /\ faults' = faults
    BY <1>6 DEF Retry, StartEnsure
  <2>2. Excused BY <1>4, <1>6 DEF Retry, RetriesExcused
  <2> QED BY <1>1, <2>1, <2>2 DEF DatedInv, Progress, RetriesExcused, Excused, Dated
<1>7. CASE Judge
  <2>1. CASE ~Listed /\ phase' = "finished" /\ faults' = faults
    <3>1. life # "ACTIVE" BY <2>1 DEF Listed, VaultListed, CertificateListed, Leaving
    <3>2. Dated BY <1>4, <1>7, <3>1 DEF Judge, RetriesExcused
    <3> QED BY <1>1, <2>1, <3>2 DEF DatedInv, Progress, RetriesExcused, Dated
  <2>2. CASE Listed /\ phase' = Outcome[result] /\ faults' = faults
    <3>1. result \in {"ok", "error", "deferred"}
      BY <1>7 DEF Judge, Typed, TypeOK, Counting
    <3>2. result # "deferred" => Dated BY <1>4, <1>7 DEF Judge, RetriesExcused
    <3>3. phase' = IF result = "ok" THEN "waiting"
                   ELSE IF result = "error" THEN "retry" ELSE "deferred"
      BY <2>2, <3>1 DEF Outcome
    <3> QED BY <1>1, <3>1, <3>2, <3>3 DEF DatedInv, Progress, RetriesExcused, Excused, Dated
  <2>3. CASE Fault /\ phase' = "retry"
    BY <1>2, <2>3 DEF Fault, DatedInv, Progress, RetriesExcused, Excused
  <2> QED BY <1>7, <2>1, <2>2, <2>3 DEF Judge
<1>8. CASE Wait
  <2>1. Dated BY <1>4, <1>8 DEF Wait, RetriesExcused
  <2>2. phase' \in {"finished", "timeout", "retry"} BY <1>8 DEF Wait
  <2> QED BY <1>1, <2>1, <2>2 DEF DatedInv, Progress, RetriesExcused, Excused, Dated
<1> QED BY <1>5, <1>6, <1>7, <1>8

LEMMA ServiceDated ==
  ASSUME Typed, DatedInv, Obliging', Service
  PROVE  DatedInv'
<1>1. UNCHANGED <<keeps, inTime, phase, attempt, tries, result, faults>>
  BY DEF Service, habits, ensureVars
<1>2. Progress /\ RetriesExcused BY <1>1 DEF DatedInv, Obliging
<1>3. /\ Dated => Dated'
      /\ OnItsWay => OnItsWay'
      /\ life # "ACTIVE"
      /\ life = "CANCELLING_DELETION" => life' = "ACTIVE"
  BY DEF Service, Settles, DateArrives, Becomes, Dated, OnItsWay
<1> QED BY <1>1, <1>2, <1>3 DEF DatedInv, Progress, RetriesExcused, Excused

\* scheduledDeletionAttempts is six; three are enough for what HandleWait's listing is taken to
\* mean: with an obliging service nothing counts as finished but what is going at the date asked
\* for, though for a vault or a key the listing shows no date at all.
THEOREM FinishedMeansDated ==
  ASSUME Attempts >= 3
  PROVE  Spec => []FinishedIsDated
<1>1. Init => DatedInv
  BY DEF Init, DatedInv, Progress, RetriesExcused
<1>2. Typed /\ ActInv /\ DatedInv /\ [Next]_vars => DatedInv'
  <2> SUFFICES ASSUME Typed, ActInv, DatedInv, [Next]_vars, Obliging' PROVE DatedInv'
    BY DEF DatedInv
  <2>1. CASE Settled BY <2>1, SettledDated
  <2>2. CASE Act BY <2>2, ActDated
  <2>3. CASE Scan \/ Retry \/ Judge \/ Wait BY <2>3, AroundDated
  <2>4. CASE Service BY <2>4, ServiceDated
  <2>5. CASE UNCHANGED vars
    BY <2>5
       DEF vars, service, habits, ensureVars, DatedInv, Obliging, Progress, OnItsWay,
           RetriesExcused, Excused, Dated
  <2> QED BY <2>1, <2>2, <2>3, <2>4, <2>5 DEF Next, Run
<1>3. DatedInv => FinishedIsDated BY DEF DatedInv, RetriesExcused, Dated, FinishedIsDated
<1> QED BY <1>1, <1>2, <1>3, ActInvHolds, TypeCorrect, PTL DEF Spec
=============================================================================
