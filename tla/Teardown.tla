------------------------------ MODULE Teardown ------------------------------
(***************************************************************************)
(* What a run promises of every resource, whatever its passes, listings,   *)
(* caches and counters do: it asks a resource to go only when what stands  *)
(* on it is out of the way, never touches what the plan keeps or a deferral *)
(* holds back, calls nothing done that is still there, and ends well only  *)
(* with everything dealt with.  Nuke.tla implements it.                    *)
(***************************************************************************)
EXTENDS Queue

VARIABLES
  fate,     \* item -> what has become of it
  there,    \* the items the cloud still keeps
  verdict   \* "running", then how the run ended

vars == <<fate, there, verdict>>

\* Kept, deferred and done are for good; put off is deferred after it was asked to go.
Fate == {"planned", "asked", "troubled", "putOff", "deferred", "kept", "done"}

Init ==
  /\ fate \in [Item -> {"planned", "deferred", "kept"}]
  /\ there \in SUBSET Item
  /\ verdict = "running"

Become(i, f) == fate' = [fate EXCEPT ![i] = f]

Awaits(d, i) == fate[d] \in {"deferred", "putOff"} /\ InTheWay(d, i, TRUE)

OutOfTheWay(d, i) == fate[d] \notin {"planned", "asked"} /\ ~Awaits(d, i)

\* The cloud may take the resource at once, or in its own time.
MayGo(i) == there' \in {there, there \ {i}}

Ask(i) ==
  /\ fate[i] = "planned"
  /\ \A d \in DependenciesOf(i) : OutOfTheWay(d, i)
  /\ \E f \in {"asked", "troubled", "putOff"} : Become(i, f)
  /\ MayGo(i)

\* It was asked before: tried again, waited for, or put off until a later run.
Again(i) ==
  /\ fate[i] \in {"asked", "troubled", "putOff"}
  /\ \E f \in {"asked", "troubled", "putOff"} :
       /\ f = "asked" => fate[i] = "asked"
       /\ Become(i, f)
  /\ MayGo(i)

HoldBack(i) ==
  /\ fate[i] = "planned"
  /\ \E d \in DependenciesOf(i) : Awaits(d, i)
  /\ Become(i, "deferred")
  /\ UNCHANGED there

Finish(i) ==
  /\ fate[i] \in {"asked", "troubled", "putOff"}
  /\ i \notin there
  /\ Become(i, "done")
  /\ UNCHANGED there

Leave(i) == there' = there \ {i} /\ UNCHANGED fate

Fates(S) == \A i \in Item : fate[i] \in S

End ==
  /\ \/ verdict' = "ok" /\ Fates({"done", "kept", "deferred", "putOff"})
     \/ verdict' = "failed" /\ ~Fates(Fate \ {"troubled"})
     \/ verdict' = "timeout" /\ ~Fates({"done", "kept", "deferred", "putOff"})
     \/ verdict' = "nothing" /\ Fates({"kept", "deferred"})
     \/ verdict' \in {"dryRun", "declined"} /\ Fates({"planned", "kept", "deferred"})
  /\ UNCHANGED <<fate, there>>

Deal(i) == Ask(i) \/ Again(i) \/ HoldBack(i) \/ Finish(i) \/ Leave(i)

Next ==
  /\ verdict = "running"
  /\ \/ UNCHANGED verdict /\ \E i \in Item : Deal(i)
     \/ End

Spec == Init /\ [][Next]_vars
=============================================================================
