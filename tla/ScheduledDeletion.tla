------------------------- MODULE ScheduledDeletion -------------------------
(***************************************************************************)
(* A certificate, CA, vault or key is never deleted on request, only       *)
(* scheduled.  This module follows one of them through a run: the lister   *)
(* decides whether it is queued, Remove drives deletionSchedule.ensure     *)
(* against the service's asynchronous lifecycle, and the engine asks the   *)
(* same lister whether it is finished.  Dates are "near" (within           *)
(* scheduledDeletionSlack of what ensure asks for), "late", or "none".     *)
(***************************************************************************)
EXTENDS Integers

CONSTANTS
  Attempts,        \* scheduledDeletionAttempts
  MaxPolls,        \* bound: reads of one transition before the settle deadline
  MaxTries,        \* Remove calls before handleFailure ends a run with nothing else to do
  MaxFaults,       \* bound: API calls that fail for no reason of the resource's
  DatesKept,       \* the dates a service may keep when asked for a near one
  SettlesInTime    \* whether it always finishes a transition before the deadline, as a set

ASSUME ScheduleAssumption ==
  /\ Attempts \in Nat \ {0} /\ MaxTries \in Nat \ {0}
  /\ MaxPolls \in Nat /\ MaxFaults \in Nat
  /\ DatesKept \subseteq {"near", "late"} /\ DatesKept # {}
  /\ SettlesInTime \subseteq BOOLEAN /\ SettlesInTime # {}

VARIABLES
  kind,          \* what it is; a key behaves like a vault
  life, date,    \* the service's record of the resource
  blocked,       \* an object that blocks it is already scheduled for deletion
  keeps,         \* the dates this service keeps: its habit, as is
  inTime         \* whether it settles before the deadline

VARIABLES
  phase,         \* where the run is with it
  pc,            \* where ensure is: "read" in settled, "act" on what it saw
  attempt,       \* ensure's loop counter
  polls,         \* reads settled has made of this transition
  seen,          \* what settled returned
  tries,         \* Remove calls made before this one
  result,        \* what the last Remove returned
  faults

\* Observed: a schedule or cancel was sent in the middle of a transition.
VARIABLE actedInTransition

habits == <<keeps, inTime>>
service == <<kind, life, date, blocked, habits>>
ensureVars == <<pc, attempt, polls, seen>>
vars == <<service, phase, ensureVars, tries, result, faults, actedInTransition>>

Transitions == {"CREATING", "UPDATING", "SCHEDULING_DELETION", "CANCELLING_DELETION"}
Life == Transitions \cup {"ACTIVE", "PENDING_DELETION", "DELETING", "DELETED"}
Date == {"near", "late", "none"}

TypeOK ==
  /\ kind \in {"certificate", "authority", "vault"}
  /\ life \in Life /\ date \in Date /\ blocked \in BOOLEAN
  /\ keeps \subseteq DatesKept /\ inTime \in SettlesInTime
  /\ phase \in {"scan", "skipped", "ensure", "retry", "judge", "waiting",
                "finished", "deferred", "failed", "timeout"}
  /\ pc \in {"read", "act"}
  /\ attempt \in 0..Attempts
  /\ polls \in 0..MaxPolls
  /\ seen \in [life : Life, date : Date]
  /\ tries \in 0..(MaxTries - 1)
  /\ result \in {"none", "ok", "error", "deferred"}
  /\ faults \in 0..MaxFaults
  /\ actedInTransition \in BOOLEAN

\* The resource as an earlier run, terraform or nobody left it.
Init ==
  /\ kind \in {"certificate", "authority", "vault"}
  /\ life \in Life
  /\ date \in IF life \in {"PENDING_DELETION", "SCHEDULING_DELETION"} THEN Date ELSE {"none"}
  /\ blocked \in (IF kind = "authority" THEN BOOLEAN ELSE {FALSE})
  /\ keeps \in (SUBSET DatesKept) \ {{}}
  /\ inTime \in SettlesInTime
  /\ phase = "scan"
  /\ pc = "read"
  /\ attempt = 0
  /\ polls = 0
  /\ seen = [life |-> life, date |-> date]
  /\ tries = 0
  /\ result = "none"
  /\ faults = 0
  /\ actedInTransition = FALSE

Fault == faults < MaxFaults /\ faults' = faults + 1

\* scheduledLaterThanNecessary: no date at all counts as one too far out.
LaterThanNecessary(d) == d # "near"

\* What a lister leaves out: gone, going, being scheduled, and a pending deletion - for a
\* certificate or an authority only one that is due soon enough, for a vault or key any.
Leaving == {"DELETED", "DELETING", "SCHEDULING_DELETION"}

CertificateListed ==
  life \notin Leaving /\ (life = "PENDING_DELETION" => LaterThanNecessary(date))

VaultListed == life \notin Leaving \cup {"PENDING_DELETION"}

Listed == IF kind = "vault" THEN VaultListed ELSE CertificateListed

-----------------------------------------------------------------------------
(* ensure. *)

StartEnsure ==
  /\ phase' = "ensure"
  /\ pc' = "read"
  /\ attempt' = 0
  /\ polls' = 0
  /\ UNCHANGED seen

\* What becomes of an item by what its Remove returned.
Outcome == [ok |-> "waiting", error |-> "retry", deferred |-> "deferred"]

\* The first Remove of an item is followed by HandleWait in the next pass, if it was
\* accepted; a Remove of a failed item by a HandleWait in the same pass.
Return(r) ==
  /\ result' = r
  /\ phase' = IF tries > 0 THEN "judge"
              ELSE Outcome[r]
  /\ UNCHANGED ensureVars

\* One read of settled: a transition is waited out, up to the deadline.
ReadFails ==
  /\ Fault
  /\ Return("error")

\* Mutant: settled waits for a schedule to settle and for nothing else.
ReadImpatient ==
  /\ life # "SCHEDULING_DELETION"
  /\ seen' = [life |-> life, date |-> date]
  /\ pc' = "act"
  /\ polls' = 0
  /\ UNCHANGED <<phase, attempt, result, faults>>

ReadSettled ==
  /\ life \notin Transitions
  /\ seen' = [life |-> life, date |-> date]
  /\ pc' = "act"
  /\ polls' = 0
  /\ UNCHANGED <<phase, attempt, result, faults>>

PollAgain ==
  /\ life \in Transitions
  /\ polls < MaxPolls
  /\ polls' = polls + 1
  /\ UNCHANGED <<phase, pc, attempt, seen, result, faults>>

SettleTimeout ==
  /\ life \in Transitions
  /\ polls = MaxPolls /\ ~inTime
  /\ Return("error")
  /\ UNCHANGED faults

Settled ==
  /\ phase = "ensure" /\ pc = "read"
  /\ ReadFails \/ ReadSettled \/ PollAgain \/ SettleTimeout
  /\ UNCHANGED <<service, tries, actedInTransition>>

\* Mutant: one attempt too many.
NextAttemptPast ==
  /\ attempt' = attempt + 1
  /\ IF attempt < Attempts
     THEN pc' = "read" /\ UNCHANGED <<phase, polls, seen, result>>
     ELSE /\ result' = "error"
          /\ phase' = IF tries > 0 THEN "judge" ELSE "retry"
          /\ UNCHANGED <<pc, polls, seen>>

\* After the action of an attempt: the next read, or the error that says the date stays.
NextAttempt ==
  /\ attempt' = attempt + 1
  /\ IF attempt + 1 < Attempts
     THEN pc' = "read" /\ UNCHANGED <<phase, polls, seen, result>>
     ELSE /\ result' = "error"
          /\ phase' = IF tries > 0 THEN "judge" ELSE "retry"
          /\ UNCHANGED <<pc, polls, seen>>

\* A request to the service: it answers, or the call fails before it gets there.
Request(effect) ==
  /\ effect \/ (Fault /\ Return("error") /\ UNCHANGED <<life, date>>)
  /\ actedInTransition' = (actedInTransition \/ life \in Transitions)
  /\ UNCHANGED <<kind, blocked, habits>>

\* Mutant: any pending deletion will do.
AnyDateWillDo ==
  /\ seen.life \in {"DELETING", "DELETED", "PENDING_DELETION"}
  /\ Return("ok")
  /\ UNCHANGED <<service, faults, actedInTransition>>

AlreadyDone ==
  /\ \/ seen.life \in {"DELETING", "DELETED"}
     \/ seen.life = "PENDING_DELETION" /\ ~LaterThanNecessary(seen.date)
  /\ Return("ok")
  /\ UNCHANGED <<service, faults, actedInTransition>>

\* Mutant: the withdrawn schedule is never issued again.
CancelAndLeave ==
  /\ life = "PENDING_DELETION"
  /\ life' = "CANCELLING_DELETION" /\ date' = "none"
  /\ Return("ok")
  /\ UNCHANGED faults

CancelAccepted ==
  /\ life = "PENDING_DELETION"
  /\ life' = "CANCELLING_DELETION" /\ date' = "none"
  /\ NextAttempt
  /\ UNCHANGED faults

\* Too late: the date has come since it was read.
CancelRefused ==
  /\ life # "PENDING_DELETION"
  /\ Return("error")
  /\ UNCHANGED <<life, date, faults>>

Cancel ==
  /\ seen.life = "PENDING_DELETION" /\ LaterThanNecessary(seen.date)
  /\ Request(CancelAccepted \/ CancelRefused)

\* Mutant: the schedule is not read back.
ScheduleAndLeave ==
  /\ life = "ACTIVE" /\ ~blocked
  /\ life' = "SCHEDULING_DELETION"
  /\ date' \in keeps
  /\ Return("ok")
  /\ UNCHANGED faults

ScheduleAccepted ==
  /\ life = "ACTIVE" /\ ~blocked
  /\ life' = "SCHEDULING_DELETION"
  /\ date' \in keeps
  /\ NextAttempt
  /\ UNCHANGED faults

\* blockedBy recognises the refusal, and ensure turns it into a deferral.
ScheduleBlocked ==
  /\ life = "ACTIVE" /\ blocked
  /\ Return("deferred")
  /\ UNCHANGED <<life, date, faults>>

Schedule ==
  /\ seen.life \notin {"DELETING", "DELETED", "PENDING_DELETION"}
  /\ Request(ScheduleAccepted \/ ScheduleBlocked)

Act ==
  /\ phase = "ensure" /\ pc = "act"
  /\ AlreadyDone \/ Cancel \/ Schedule
  /\ UNCHANGED tries

-----------------------------------------------------------------------------
(* The run around it: the scan's listing, the next pass's retry, and        *)
(* HandleWait's listing.                                                    *)

Scan ==
  /\ phase = "scan"
  /\ \/ Listed /\ StartEnsure
     \/ ~Listed /\ phase' = "skipped" /\ UNCHANGED ensureVars
  /\ UNCHANGED <<service, tries, result, faults, actedInTransition>>

\* The item failed: the next pass calls Remove again, unless handleFailure ended the run.
Retry ==
  /\ phase = "retry"
  /\ \/ /\ tries + 1 < MaxTries
        /\ tries' = tries + 1
        /\ StartEnsure
     \/ /\ tries + 1 >= MaxTries
        /\ phase' = "failed"
        /\ UNCHANGED <<ensureVars, tries>>
  /\ UNCHANGED <<service, result, faults, actedInTransition>>

\* HandleWait after the Remove of a failed item.
Judge ==
  /\ phase = "judge"
  /\ \/ /\ ~Listed
        /\ phase' = "finished" /\ UNCHANGED faults
     \/ /\ Listed
        /\ phase' = Outcome[result]
        /\ UNCHANGED faults
     \/ Fault /\ phase' = "retry"
  /\ UNCHANGED <<service, ensureVars, tries, result, actedInTransition>>

\* HandleWait of a waiting item, until handleWaiting loses patience.
Wait ==
  /\ phase = "waiting"
  /\ \/ ~Listed /\ phase' = "finished" /\ UNCHANGED faults
     \/ Listed /\ phase' = "timeout" /\ UNCHANGED faults
     \/ Fault /\ phase' = "retry"
  /\ UNCHANGED <<service, ensureVars, tries, result, actedInTransition>>

Ended == phase \in {"skipped", "finished", "deferred", "failed", "timeout"}

Run == Scan \/ Settled \/ Act \/ Retry \/ Judge \/ Wait

-----------------------------------------------------------------------------
(* The service: it finishes transitions, and deletes when the date comes.   *)

Becomes(from, to) ==
  /\ life = from /\ life' = to
  /\ date' = IF to = "PENDING_DELETION" THEN date ELSE "none"

Settles ==
  \/ Becomes("CREATING", "ACTIVE")
  \/ Becomes("UPDATING", "ACTIVE")
  \/ Becomes("SCHEDULING_DELETION", "PENDING_DELETION")
  \/ Becomes("CANCELLING_DELETION", "ACTIVE")

DateArrives ==
  \/ Becomes("PENDING_DELETION", "DELETING")
  \/ Becomes("DELETING", "DELETED")

Service ==
  /\ ~Ended
  /\ Settles \/ DateArrives
  /\ UNCHANGED <<kind, blocked, habits, phase, ensureVars, tries, result, faults, actedInTransition>>

Next == Run \/ Service \/ (Ended /\ UNCHANGED vars)

Spec == Init /\ [][Next]_vars

\* The run never stops on its own, and the service completes what it accepted.
FairSpec == Spec /\ WF_vars(Run) /\ WF_vars(~Ended /\ Settles /\ Service)

-----------------------------------------------------------------------------
(* Properties. *)

\* When Remove reports success the service really has the deletion scheduled near, or is
\* already at it - not a date it kept later than asked, not a transition.
SuccessIsDated ==
  phase \in {"judge", "waiting"} /\ result = "ok" =>
    \/ life \in {"DELETING", "DELETED"}
    \/ life = "PENDING_DELETION" /\ date = "near"

\* settled's promise: nothing is sent to a resource in the middle of a transition.
NeverActsInTransition == ~actedInTransition

\* What an obliging service does: it keeps the dates it is given, settles in time, and fails
\* one call at most.
Obliging == keeps = {"near"} /\ inTime /\ faults <= 1

\* A resource reported finished is scheduled near or on its way out, even when a call failed
\* on the way - if the service is an obliging one.
FinishedIsDated ==
  phase = "finished" /\ Obliging =>
    \/ life \in {"DELETING", "DELETED"}
    \/ life = "PENDING_DELETION" /\ date = "near"

\* With an obliging service, each resource the scan listed ends finished or deferred, from
\* whatever state it was left in, whichever call fails.
AlwaysTakesTheDate ==
  phase = "ensure" ~> phase \in {"finished", "deferred"} \/ ~Obliging

\* ensure "leaves the resource scheduled for deletion": when every request was answered,
\* giving up does not leave it with no deletion scheduled at all.
LeavesScheduled ==
  phase = "failed" => life \notin {"ACTIVE", "CANCELLING_DELETION"}
=============================================================================
