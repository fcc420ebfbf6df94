---------------------------- MODULE AccountProofs ----------------------------
(***************************************************************************)
(* What holds of the runs of any command line, with any configuration, in  *)
(* any tenancy, however many calls fail and however often the process is   *)
(* killed.                                                                 *)
(***************************************************************************)
EXTENDS Account, SelectionProofs, FiniteSetTheorems, TLAPS

-----------------------------------------------------------------------------
(* The constants. *)

LEMMA FactsOf ==
  \A o \in Object : Facts[o] = Inventory[o] /\ TypeOf(o) = Inventory[o].type /\ Home(o) = Inventory[o].home
BY DEF Facts, TypeOf, Home

LEMMA OfTypeIs == \A t \in TypeName \cup {"Stage"} : OfType(t) = {o \in Object : TypeOf(o) = t}
BY DEF OfType, OfTypes

LEMMA NetworkTypes ==
  /\ VnicOwners \cup {"Vcn", "RouteTable", "OrphanedVnic", "DnsZone", "Subnet", "NetworkSecurityGroup"}
       \subseteq TypeName
  /\ Registered["Subnet"] = Subnet /\ Registered["NetworkSecurityGroup"] = NetworkSecurityGroup
  /\ Registered["DnsZone"] = DnsZone
  /\ \A t \in {"Subnet", "NetworkSecurityGroup"} : VnicOwners \subseteq DependencyGraph[t]
BY DEF TypeName, Registered, VnicOwners, DependencyGraph, Subnet, NetworkSecurityGroup, After, Plain

LEMMA ListedOfType == \A t, note : Listed(t, note) \subseteq OfType(t)
BY DEF Listed

-----------------------------------------------------------------------------
(* Types. *)

\* No item is retried while it is removed, there are calls only in a sweep, and the scan knows
\* of no failure.
Typed ==
  /\ TypeOK
  /\ call.of \cap again = {}
  /\ phase # "sweep" => call = NoCall
  /\ phase \in {"start", "scan"} => again = {} /\ lap = 0

LEMMA TypedInit == ASSUME Init PROVE Typed
<1>1. PICK c \in Cases :
        /\ cmd = c.command
        /\ life = [o \in Object |-> IF o \in c.has THEN "active" ELSE "absent"]
        /\ ruled = c.has \cap OfType("RouteTable")
        /\ attached = {v \in c.has : Facts[v].instance # "none"}
        /\ delegated = {z \in c.has : Facts[z].global /\ Facts[z].parents \cap c.has # {}}
  BY DEF Init
<1>2. c.has \subseteq Object
  BY <1>1, AccountAssumption
<1>3. unread \subseteq TypeName
  BY DEF Init, ToRead
<1>4. call = NoCall /\ again = {} /\ lap = 0 /\ faults = 0 /\ phase = "start" /\ halfway = {} /\ asDefault = {}
  BY DEF Init
<1>5. noted \in [TwoReads -> SUBSET Object]
  BY DEF Init
<1>6. item \in [Object -> ItemState]
  BY DEF Init, ItemState
<1>7. call \in Call
  BY <1>4 DEF NoCall, Call
<1>8. life \in [Object -> {"absent", "active", "going", "scheduled", "gone"}]
  BY <1>1
<1> QED BY <1>1, <1>2, <1>3, <1>4, <1>5, <1>6, <1>7, <1>8, AccountAssumption DEF Typed, TypeOK, Call

\* A step in which an item's Remove returns, or goes on to its next call.
LEMMA TypedReturn ==
  ASSUME Typed, NEW o \in Object,
         NEW outcome \in ItemState, call' = NoCall, item' = [item EXCEPT ![o] = outcome],
         o \notin again', again' \subseteq again, phase = "sweep", phase' = phase, lap' = lap
  PROVE  /\ item' \in [Object -> ItemState] /\ again' \subseteq Items("failed")'
         /\ call' \in Call
         /\ call'.of \cap again' = {}
         /\ phase' # "sweep" => call' = NoCall
         /\ phase' \in {"start", "scan"} => again' = {} /\ lap' = 0
BY DEF Typed, TypeOK, Call, Items, NoCall, ItemState

LEMMA TypedDelete ==
  ASSUME Typed, NEW o \in Object, Delete(o), o \notin again', again' \subseteq again, phase = "sweep",
         UNCHANGED <<cmd, phase, scan, lap>>
  PROVE  Typed'
<1>1. call' = NoCall /\ \E outcome \in ItemState : item' = [item EXCEPT ![o] = outcome]
  BY DEF Delete, Fails, Returns, ItemState
<1>2. item' \in [Object -> ItemState] /\ again' \subseteq Items("failed")'
  BY <1>1, TypedReturn DEF scan
<1>3. life' \in [Object -> {"absent", "active", "going", "scheduled", "gone"}]
  BY DEF Typed, TypeOK, Call, Delete, Fails, world
<1>4. ruled' = ruled /\ attached' = attached /\ delegated' = delegated
  BY DEF Delete, Fails, world
<1>5. faults' \in 0..MaxFaults
  BY AccountAssumption DEF Typed, TypeOK, Call, Delete, Fails, Fault
<1> QED BY <1>1, <1>2, <1>3, <1>4, <1>5, TypedReturn DEF Typed, TypeOK, scan

LEMMA TypedRemove == ASSUME Typed, NEW o \in Object, Remove(o) PROVE Typed'
<1>a. AccountAssumption /\ o \in Object
  BY AccountAssumption
<1>b. o \notin again \ {o} /\ again \ {o} \subseteq again
  OBVIOUS
<1>c. ASSUME Turn(o)
      PROVE  phase = "sweep" /\ call = NoCall /\ again' = again \ {o} /\ UNCHANGED <<cmd, phase, scan, lap>>
  BY <1>c DEF Turn
<1>d. ASSUME NEW step, InCall(o, step)
      PROVE  o \notin again /\ phase = "sweep" /\ UNCHANGED <<cmd, phase, scan, again, lap>>
  <2>1. call.of = {o} /\ UNCHANGED <<cmd, phase, scan, again, lap>>
    BY <1>d DEF InCall
  <2>2. phase = "sweep"
    BY <2>1 DEF Typed, NoCall
  <2> QED BY <2>1, <2>2 DEF Typed
<1>e. ASSUME NEW step \in {"poll", "stages", "delete"}
      PROVE  AtStep(o, step) \in Call /\ AtStep(o, step).of = {o}
  BY <1>a DEF Call, AtStep, NoCall
<1>1. CASE Request(o)
  BY <1>1, <1>b, <1>c, TypedDelete DEF Request
<1>2. CASE DeleteTable(o)
  BY <1>2, <1>b, <1>c, TypedDelete DEF DeleteTable
<1>3. CASE DeleteAfter(o)
  BY <1>3, <1>d, TypedDelete DEF DeleteAfter
<1>4. CASE Schedule(o)
  <2>1. life' \in [Object -> {"absent", "active", "going", "scheduled", "gone"}]
    BY <1>4 DEF Schedule, Fails, world, Typed, TypeOK, Call
  <2>2. call' = NoCall /\ \E outcome \in ItemState : item' = [item EXCEPT ![o] = outcome]
    BY <1>4 DEF Schedule, Fails, Returns, ItemState
  <2>3. UNCHANGED <<ruled, attached, delegated>> /\ faults' \in 0..MaxFaults
    BY <1>4, <1>a DEF Schedule, Fails, Fault, world, Typed, TypeOK, Call
  <2> QED BY <1>4, <1>b, <1>c, <2>1, <2>2, <2>3, TypedReturn DEF Schedule, Typed, TypeOK, scan
<1>5. CASE Detach(o)
  <2>1. life' \in [Object -> {"absent", "active", "going", "scheduled", "gone"}]
    BY <1>5 DEF Detach, Fails, world, Typed, TypeOK, Call
  <2>2. call' = NoCall /\ \E outcome \in ItemState : item' = [item EXCEPT ![o] = outcome]
    BY <1>5 DEF Detach, Fails, Returns, ItemState
  <2>3. UNCHANGED <<ruled, attached, delegated>> /\ faults' \in 0..MaxFaults
    BY <1>5, <1>a DEF Detach, Fails, Fault, world, Typed, TypeOK, Call
  <2> QED BY <1>5, <1>b, <1>c, <2>1, <2>2, <2>3, TypedReturn DEF Detach, Typed, TypeOK, scan
<1>6. CASE Clear(o)
  <2>1. call' = NoCall /\ \E outcome \in ItemState : item' = [item EXCEPT ![o] = outcome]
    BY <1>6 DEF Clear, Returns, ItemState
  <2>2. UNCHANGED <<life, attached, delegated>> /\ ruled' \subseteq Object /\ faults' \in 0..MaxFaults
    BY <1>6, <1>a DEF Clear, Fault, Typed, TypeOK, Call
  <2> QED BY <1>6, <1>b, <1>c, <2>1, <2>2, TypedReturn DEF Clear, Typed, TypeOK, scan
<1>7. CASE DeleteAndPoll(o)
  <2>1. life' \in [Object -> {"absent", "active", "going", "scheduled", "gone"}]
    BY <1>7 DEF DeleteAndPoll, Fails, world, Typed, TypeOK, Call
  <2>2. UNCHANGED <<ruled, attached, delegated>> /\ faults' \in 0..MaxFaults
    BY <1>7, <1>a DEF DeleteAndPoll, Fails, Fault, world, Typed, TypeOK, Call
  <2>3. CASE item' = item /\ call' = AtStep(o, "poll")
    BY <1>7, <1>c, <1>e, <2>1, <2>2, <2>3 DEF DeleteAndPoll, Typed, TypeOK, scan, Items
  <2>4. CASE Returns(o, "failed")
    <3>1. call' = NoCall /\ item' = [item EXCEPT ![o] = "failed"] /\ "failed" \in ItemState
      BY <2>4 DEF Returns, ItemState
    <3> QED BY <1>7, <1>b, <1>c, <2>1, <2>2, <3>1, TypedReturn DEF DeleteAndPoll, Typed, TypeOK, scan
  <2> QED BY <1>7, <2>3, <2>4 DEF DeleteAndPoll, Fails
<1>8. CASE Poll(o)
  <2>1. call' = NoCall /\ \E outcome \in ItemState : item' = [item EXCEPT ![o] = outcome]
    BY <1>8 DEF Poll, Fails, Returns, ItemState
  <2>2. UNCHANGED world /\ faults' \in 0..MaxFaults
    BY <1>8, <1>a DEF Poll, Fails, Fault, Typed, TypeOK, Call
  <2> QED BY <1>8, <1>d, <2>1, <2>2, TypedReturn DEF Poll, Typed, TypeOK, scan, world
<1>9. CASE Undelegate(o)
  <2>1. UNCHANGED <<life, ruled, attached>> /\ delegated' \subseteq Object /\ faults' \in 0..MaxFaults
    BY <1>9, <1>a DEF Undelegate, Fails, Fault, world, Typed, TypeOK, Call
  <2>2. CASE item' = item /\ call' = AtStep(o, "delete")
    BY <1>9, <1>c, <1>e, <2>1, <2>2 DEF Undelegate, Typed, TypeOK, scan, Items
  <2>3. CASE Returns(o, "failed")
    <3>1. call' = NoCall /\ item' = [item EXCEPT ![o] = "failed"] /\ "failed" \in ItemState
      BY <2>3 DEF Returns, ItemState
    <3> QED BY <1>9, <1>b, <1>c, <2>1, <3>1, TypedReturn DEF Undelegate, Typed, TypeOK, scan
  <2> QED BY <1>9, <2>2, <2>3 DEF Undelegate, Fails
<1>10. CASE StartStages(o)
  BY <1>10, <1>c, <1>e DEF StartStages, Typed, TypeOK, world, scan, Items
<1>11. CASE ListStages(o)
  <2>1. UNCHANGED world /\ faults' \in 0..MaxFaults
    BY <1>11, <1>a DEF ListStages, Fails, Fault, Typed, TypeOK, Call
  <2> DEFINE stages == {s \in Facts[o].parts : life[s] = "active"}
  <2>2. stages \subseteq Object
    BY <1>a, FactsOf DEF AccountAssumption
  <2>3. CASE item' = item /\ (call' = AtStep(o, "delete") \/ call' = [AtStep(o, "pass") EXCEPT !.left = stages])
    <3>1. call' \in [of : {{o}}, step : {"delete", "pass"}, left : SUBSET Object, progress : BOOLEAN]
      BY <2>2, <2>3 DEF AtStep, NoCall
    <3> QED BY <1>11, <1>a, <1>d, <2>1, <2>3, <3>1 DEF ListStages, Typed, TypeOK, Call, world, scan,
                                                       Items
  <2>4. CASE Fails(o)
    <3>1. call' = NoCall /\ item' = [item EXCEPT ![o] = "failed"] /\ "failed" \in ItemState
      BY <2>4 DEF Fails, Returns, ItemState
    <3> QED BY <1>11, <1>d, <2>1, <3>1, TypedReturn DEF ListStages, Typed, TypeOK, scan, world
  <2> QED BY <1>11, <2>3, <2>4 DEF ListStages
<1>12. CASE DeleteStage(o)
  <2>1. InCall(o, "pass") /\ UNCHANGED <<ruled, attached, delegated, item>> /\ faults' \in 0..MaxFaults
    BY <1>12, <1>a DEF DeleteStage, Fault, Typed, TypeOK, Call
  <2>2. life' \in [Object -> {"absent", "active", "going", "scheduled", "gone"}]
    BY <1>12 DEF DeleteStage, Typed, TypeOK, Call
  <2>3. call' \in [of : {{o}}, step : {"pass"}, left : SUBSET Object, progress : BOOLEAN]
    <3>1. PICK s \in call.left : \/ call' = [call EXCEPT !.left = @ \ {s}, !.progress = TRUE]
                                 \/ call' = [call EXCEPT !.left = @ \ {s}]
      BY <1>12 DEF DeleteStage
    <3>2. call \in [of : {{o}}, step : {"pass"}, left : SUBSET Object, progress : BOOLEAN]
      BY <2>1 DEF InCall, Typed, TypeOK, Call
    <3>3. \E progress \in BOOLEAN :
            call' = [of |-> {o}, step |-> "pass", left |-> call.left \ {s}, progress |-> progress]
      BY <3>1, <3>2
    <3> QED BY <3>2, <3>3
  <2>4. call' \in Call /\ call'.of = call.of
    BY <2>1, <2>3 DEF Call, InCall
  <2> QED BY <1>a, <1>d, <2>1, <2>2, <2>4 DEF Typed, TypeOK, scan, Items
<1>13. CASE PassEnds(o)
  <2>1. CASE item' = item /\ call' = AtStep(o, "stages")
    <3>1. call' \in Call /\ call'.of = {o}
      BY <1>e, <2>1
    <3>2. InCall(o, "pass") /\ UNCHANGED <<world, faults>>
      BY <1>13 DEF PassEnds
    <3> QED BY <1>d, <2>1, <3>1, <3>2 DEF Typed, TypeOK, scan, world, Items
  <2>2. CASE Returns(o, "failed")
    <3>1. call' = NoCall /\ item' = [item EXCEPT ![o] = "failed"] /\ "failed" \in ItemState
      BY <2>2 DEF Returns, ItemState
    <3> QED BY <1>13, <1>d, <3>1, TypedReturn DEF PassEnds, Typed, TypeOK, scan, world
  <2> QED BY <1>13, <2>1, <2>2 DEF PassEnds
<1> QED BY <1>1, <1>2, <1>3, <1>4, <1>5, <1>6, <1>7, <1>8, <1>9, <1>10, <1>11, <1>12, <1>13
        DEF Remove

LEMMA TypedScan ==
  ASSUME Typed, NEW t \in unread, ReadFirst(t) \/ List(t) \/ ListFails(t) \/ FilterBreaks(t)
  PROVE  Typed'
<1>a. t \in TypeName /\ UNCHANGED <<world, cmd, call, again, lap>>
  BY DEF Typed, TypeOK, Call, ReadFirst, List, ListFails, FilterBreaks
<1>1. CASE ReadFirst(t)
  <2>1. FirstRead(t) \subseteq Object
    <3>1. \A v \in OfType("Vcn") : Facts[v].takes \subseteq Object
      BY FactsOf, AccountAssumption, OfTypeIs, NetworkTypes DEF TypeOf
    <3>2. UNION {Facts[v].takes : v \in {w \in OfType("Vcn") : Home(w) = cmd.target /\ There(w)}} \subseteq Object
      BY <3>1
    <3>3. attached \subseteq Object
      BY DEF Typed, TypeOK, Call
    <3> QED BY <3>2, <3>3 DEF FirstRead
  <2> QED BY <1>1, <1>a, <2>1 DEF ReadFirst, Typed, TypeOK, Call, world, Items
<1>2. CASE List(t)
  <2>1. PICK found \in SUBSET Found(t) :
          /\ item' = [o \in Object |-> IF o \notin found THEN item[o]
                                      ELSE IF FilterSays(o) = "yes" THEN "filtered" ELSE "queued"]
          /\ asDefault' = asDefault \cup (IF t = "RouteTable" THEN found \cap noted[t] ELSE {})
          /\ UNCHANGED faults \/ Fault
    BY <1>2 DEF List
  <2>2. item' \in [Object -> ItemState]
    BY <2>1 DEF Typed, TypeOK, Call, ItemState
  <2>3. asDefault' \subseteq OfType("RouteTable")
    BY <2>1, ListedOfType DEF Found, Typed, TypeOK, Call
  <2>4. faults' \in 0..MaxFaults
    BY <2>1, AccountAssumption DEF Fault, Typed, TypeOK, Call
  <2>5. again = {} /\ phase = "scan" /\ UNCHANGED <<phase, halfway, noted>> /\ unread' = unread \ {t}
    BY <1>2 DEF List, Typed
  <2> QED BY <1>a, <2>2, <2>3, <2>4, <2>5 DEF Typed, TypeOK, Call, world, Items
<1>3. CASE ListFails(t)
  BY <1>3, <1>a, AccountAssumption DEF ListFails, Fault, Typed, TypeOK, Call, world, Items
<1>4. CASE FilterBreaks(t)
  BY <1>4, <1>a DEF FilterBreaks, Typed, TypeOK, Call, world, scan, Items
<1> QED BY <1>1, <1>2, <1>3, <1>4

LEMMA TypedEngine ==
  ASSUME Typed, Start \/ Plan \/ RetryFailed \/ GiveUp \/ Complete \/ WaitedTooLong \/ RunAgain \/ Interrupt
  PROVE  Typed'
<1>a. UNCHANGED <<world, cmd>>
  BY DEF Start, Plan, RetryFailed, GiveUp, Complete, WaitedTooLong, Over, RunAgain, Interrupt
<1>b. ASSUME Forgotten
      PROVE  /\ unread' \subseteq TypeName /\ halfway' = {} /\ noted' \in [TwoReads -> SUBSET Object]
                             /\ asDefault' = {} /\ item' \in [Object -> ItemState]
                             /\ call' = NoCall /\ again' = {} /\ lap' = 0
  BY <1>b DEF Forgotten, ToRead, ItemState
<1>c. NoCall \in Call
      /\ NoCall.of = {}
  BY DEF NoCall, Call
<1>1. CASE Start
  BY <1>1, <1>a DEF Start, Typed, TypeOK, Call, world, scan, Items
<1>2. CASE Plan
  <2>1. PICK plan \in Plans :
          /\ IF plan.sound THEN UNCHANGED faults ELSE Fault
          /\ item' = [o \in Object |-> IF item[o] # "queued" THEN item[o]
                                      ELSE IF o \in plan.kept THEN "filtered"
                                      ELSE IF o \in plan.deferred THEN "deferred" ELSE "queued"]
          /\ phase' \in {"sweep", "over"}
    BY <1>2 DEF Plan
  <2>2. item' \in [Object -> ItemState]
    BY <2>1 DEF Typed, TypeOK, Call, ItemState
  <2>3. faults' \in 0..MaxFaults
    BY <2>1, AccountAssumption DEF Fault, Typed, TypeOK, Call
  <2>4. again = {} /\ call = NoCall /\ lap = 0 /\ UNCHANGED <<scan, call, again, lap>>
    BY <1>2 DEF Plan, Typed
  <2> QED BY <1>a, <2>1, <2>2, <2>3, <2>4 DEF Typed, TypeOK, Call, world, scan, Items
<1>3. CASE RetryFailed
  <2>1. again' = Items("failed") /\ lap' = lap + 1 /\ lap < 2 /\ call = NoCall /\ phase = "sweep"
        /\ UNCHANGED <<phase, scan, item, call, faults>>
    BY <1>3 DEF RetryFailed, OnlyFailures
  <2> QED BY <1>a, <2>1 DEF Typed, TypeOK, Call, world, scan, Items, NoCall
<1>4. CASE GiveUp \/ Complete \/ WaitedTooLong
  <2>1. phase' = "over" /\ call = NoCall /\ UNCHANGED <<scan, item, call, again, lap, faults>>
    BY <1>4 DEF GiveUp, Complete, WaitedTooLong, OnlyFailures, Over
  <2> QED BY <1>a, <2>1 DEF Typed, TypeOK, Call, world, scan, Items
<1>5. CASE RunAgain
  <2>1. phase' = "start" /\ Forgotten /\ faults' = faults
    BY <1>5 DEF RunAgain
  <2> QED BY <1>a, <1>b, <1>c, <2>1 DEF Typed, TypeOK, Call, world, Items
<1>6. CASE Interrupt
  <2>1. phase' = "over" /\ Forgotten /\ faults' \in 0..MaxFaults
    BY <1>6, AccountAssumption DEF Interrupt, Fault, Typed, TypeOK, Call
  <2> QED BY <1>a, <1>b, <1>c, <2>1 DEF Typed, TypeOK, Call, world, Items
<1> QED BY <1>1, <1>2, <1>3, <1>4, <1>5, <1>6

LEMMA TypedItem == ASSUME Typed, NEW o \in Object, PutOff(o) \/ StillThere(o) \/ Finish(o)
  PROVE  Typed'
<1>1. o \notin again /\ call = NoCall /\ phase = "sweep"
      /\ UNCHANGED <<world, cmd, phase, scan, call, again, lap, faults>>
  BY DEF PutOff, StillThere, Finish, Due, ToJudge, Typed, TypeOK, Call, Items
<1>2. \E outcome \in ItemState : item' = [item EXCEPT ![o] = outcome]
  BY DEF PutOff, StillThere, Finish, ItemState
<1> QED BY <1>1, <1>2 DEF Typed, TypeOK, Call, world, scan, Items

LEMMA TypedService == ASSUME Typed, NEW o \in Object, Completes(o) \/ Launch(o) PROVE Typed'
<1>1. life' \in [Object -> {"absent", "active", "going", "scheduled", "gone"}]
  BY DEF Completes, Launch, Typed, TypeOK, Call
<1>2. ruled' \subseteq Object /\ attached' \subseteq Object /\ delegated' = delegated
  BY DEF Completes, Launch, Typed, TypeOK, Call
<1>3. UNCHANGED <<cmd, phase, scan, item, call, again, lap, faults>>
  BY DEF Completes, Launch
<1> QED BY <1>1, <1>2, <1>3 DEF Typed, TypeOK, Call, scan, Items

LEMMA TypedStep == ASSUME Typed, [Next]_vars PROVE Typed'
<1>1. ASSUME NEW o \in InQueue, Remove(o) \/ PutOff(o) \/ StillThere(o) \/ Finish(o) PROVE Typed'
  BY <1>1, TypedRemove, TypedItem DEF InQueue
<1>2. ASSUME Engine \/ Interrupt PROVE Typed'
  BY <1>2, TypedEngine, TypedScan DEF Engine
<1>3. CASE UNCHANGED vars
  BY <1>3 DEF vars, world, scan, Typed, TypeOK, Call, Items
<1> QED BY <1>1, <1>2, <1>3, TypedService DEF Next, Tool

LEMMA AlwaysTyped == Spec => []Typed
BY TypedInit, TypedStep, PTL DEF Spec

\* Whatever the configuration and however a run is cut off, the variables keep their types: what
\* is retried has failed, and nothing is retried more than twice.
THEOREM TypeKept == Spec => []TypeOK
<1>1. Typed => TypeOK
  BY DEF Typed
<1> QED BY <1>1, AlwaysTyped, PTL

-----------------------------------------------------------------------------
(* What a step does to a resource. *)

\* Nothing comes back, but a VNIC that is launched; and what is going was there.
LEMMA LifeMoves ==
  ASSUME Typed, [Next]_vars, NEW p \in Object
  PROVE  /\ life'[p] = "active" => life[p] = "active" \/ Facts[p].instance # "none"
         /\ life'[p] = "going" => There(p)
         /\ life[p] = "gone" => life'[p] = "gone"
         /\ life[p] = "absent" => life'[p] \in {"absent", "active"}
<1>a. life \in [Object -> {"absent", "active", "going", "scheduled", "gone"}]
  BY DEF Typed, TypeOK, Call
<1>1. ASSUME UNCHANGED world PROVE life' = life
  BY <1>1 DEF world
<1>2. ASSUME NEW o \in Object, Delete(o)
      PROVE  life' = life \/ (life[o] = "active" /\ life' = [life EXCEPT ![o] = "going"])
  BY <1>2, <1>1 DEF Delete, Deletable, Fails
<1>3. ASSUME NEW o \in Object, Request(o) \/ DeleteTable(o) \/ DeleteAfter(o)
      PROVE  life' = life \/ (life[o] = "active" /\ life' = [life EXCEPT ![o] = "going"])
  BY <1>2, <1>3 DEF Request, DeleteTable, DeleteAfter
<1>4. ASSUME NEW o \in Object, Poll(o) \/ Undelegate(o) \/ StartStages(o) \/ ListStages(o) \/ PassEnds(o) \/ Clear(o)
      PROVE  life' = life
  BY <1>1, <1>4 DEF Poll, Undelegate, StartStages, ListStages, PassEnds, Clear, Fails
<1>5. ASSUME NEW o \in Object, DeleteAndPoll(o)
      PROVE  life' = life \/ (life[o] = "active" /\ life' = [life EXCEPT ![o] = "going"])
  BY <1>1, <1>5 DEF DeleteAndPoll, Deletable, Fails
<1>6. ASSUME NEW o \in Object, Detach(o)
      PROVE  life' = life \/ (life[o] = "active" /\ life' = [life EXCEPT ![o] = "going"])
  BY <1>a, <1>1, <1>6 DEF Detach, Fails
<1>7. ASSUME NEW o \in Object, DeleteStage(o)
      PROVE  life' = life \/ \E s \in Object : life[s] = "active" /\ life' = [life EXCEPT ![s] = "going"]
  BY <1>7 DEF DeleteStage, Deletable, Typed, TypeOK, Call
<1>8. ASSUME NEW o \in Object, Schedule(o)
      PROVE  life'[p] = life[p] \/ (life[p] = "active" /\ life'[p] = "scheduled")
  BY <1>1, <1>8 DEF Schedule, Fails
<1>9. ASSUME NEW o \in Object, Completes(o)
      PROVE  life'[p] = life[p] \/ (life[p] # "absent" /\ life'[p] = "gone")
  BY <1>9 DEF Completes
<1>10. ASSUME NEW o \in Object, Launch(o)
       PROVE  life[o] = "absent" /\ Facts[o].instance # "none" /\ life' = [life EXCEPT ![o] = "active"]
  BY <1>10 DEF Launch
<1>11. ASSUME NEW o \in Object, PutOff(o) \/ StillThere(o) \/ Finish(o) PROVE life' = life
  BY <1>1, <1>11 DEF PutOff, StillThere, Finish
<1>12. ASSUME Engine \/ Interrupt PROVE life' = life
  BY <1>1, <1>12 DEF Engine, Start, Plan, RetryFailed, GiveUp, Complete, WaitedTooLong, Over,
                     RunAgain, Interrupt,
                     ReadFirst, List, ListFails, FilterBreaks
<1>13. CASE UNCHANGED vars
  BY <1>1, <1>13 DEF vars, There
<1>14. ASSUME NEW o \in Object, Remove(o)
       PROVE  \/ life'[p] = life[p]
              \/ life[p] = "active" /\ life'[p] \in {"going", "scheduled"}
  BY <1>a, <1>3, <1>4, <1>5, <1>6, <1>7, <1>8, <1>14 DEF Remove
<1> QED BY <1>a, <1>9, <1>10, <1>11, <1>12, <1>13, <1>14 DEF Next, Tool, InQueue, There

\* Calls that are half done belong to a Remove that makes several, and stages are deleted by
\* the Remove of their own pipeline.
Calls ==
  /\ \A o \in call.of :
       /\ call.step = "poll" => Removal(o) = "poll"
       /\ call.step \in {"stages", "pass"} => Removal(o) = "stagesFirst"
       /\ call.step = "delete" => Removal(o) \in {"delegationFirst", "stagesFirst"}
  /\ \A s \in call.left : \E o \in call.of : s \in Facts[o].parts

LEMMA NoCallIsOne == call = NoCall => Calls
BY DEF NoCall, Calls

LEMMA CallMoves ==
  ASSUME Typed, Calls, [Next]_vars
  PROVE  /\ Calls'
         /\ \A z \in Object :
              call'.of = {z} /\ call'.step = "delete" =>
                call' = call \/ Removal(z) = "stagesFirst" \/ (Undelegate(z) /\ item[z] # "none")
<1> DEFINE Goal(z) == call'.of = {z} /\ call'.step = "delete" =>
                call' = call \/ Removal(z) = "stagesFirst" \/ (Undelegate(z) /\ item[z] # "none")
<1>a. ASSUME call' = call PROVE Calls' /\ \A z \in Object : Goal(z)
  BY <1>a DEF Calls, Removal
<1>b. ASSUME call' = NoCall PROVE Calls' /\ \A z \in Object : Goal(z)
  BY <1>b DEF Calls, NoCall
<1>c. ASSUME NEW o \in Object, NEW step \in {"poll", "stages", "delete"}, call' = AtStep(o, step)
      PROVE  call'.of = {o} /\ call'.step = step /\ call'.left = {}
  BY <1>c DEF AtStep, NoCall
<1>1. ASSUME Engine \/ Interrupt PROVE call' = call \/ call' = NoCall
  BY <1>1 DEF Engine, Start, Plan, RetryFailed, GiveUp, Complete, WaitedTooLong, Over, RunAgain,
              Interrupt,
              ReadFirst, List, ListFails, FilterBreaks, Forgotten
<1>2. ASSUME NEW o \in Object, PutOff(o) \/ StillThere(o) \/ Finish(o) \/ Completes(o) \/ Launch(o)
      PROVE  call' = call
  BY <1>2 DEF PutOff, StillThere, Finish, Completes, Launch
<1>3. ASSUME NEW o \in InQueue, Remove(o) PROVE Calls' /\ \A z \in Object : Goal(z)
  <2>a. ASSUME Delete(o) \/ Fails(o) \/ Returns(o, "asked") \/ Returns(o, "failed") \/ Returns(o, "deferred")
        PROVE  call' = NoCall
    BY <2>a DEF Delete, Fails, Returns
  <2>b. ASSUME NEW step, InCall(o, step) PROVE call.of = {o} /\ call.step = step
    BY <2>b DEF InCall
  <2>c. o \in Object /\ item[o] # "none"
    BY DEF InQueue
  <2>1. CASE Request(o) \/ Schedule(o) \/ Detach(o) \/ Clear(o) \/ DeleteTable(o) \/ Poll(o) \/ DeleteAfter(o)
    BY <1>b, <2>1, <2>a DEF Request, Schedule, Detach, Clear, DeleteTable, Poll, DeleteAfter
  <2>2. CASE DeleteAndPoll(o)
    <3>1. call' = NoCall \/ (call' = AtStep(o, "poll") /\ Removal(o) = "poll")
      BY <2>2, <2>a DEF DeleteAndPoll
    <3> QED BY <1>b, <1>c, <2>c, <3>1 DEF Calls, Removal
  <2>3. CASE Undelegate(o)
    <3>1. call' = NoCall \/ (call' = AtStep(o, "delete") /\ Removal(o) = "delegationFirst")
      BY <2>3, <2>a DEF Undelegate
    <3> QED BY <1>b, <1>c, <2>3, <2>c, <3>1 DEF Calls, Removal
  <2>4. CASE StartStages(o)
    <3>1. call' = AtStep(o, "stages") /\ Removal(o) = "stagesFirst"
      BY <2>4 DEF StartStages
    <3> QED BY <1>c, <2>c, <3>1 DEF Calls, Removal
  <2>5. CASE ListStages(o)
    <3>1. call.of = {o} /\ Removal(o) = "stagesFirst"
      BY <2>5, <2>b DEF ListStages, Calls
    <3> DEFINE stages == {s \in Facts[o].parts : life[s] = "active"}
    <3>2. \/ call' = NoCall
          \/ call' = AtStep(o, "delete")
          \/ call' = [AtStep(o, "pass") EXCEPT !.left = stages]
      BY <2>5, <2>a DEF ListStages
    <3>3. CASE call' = [AtStep(o, "pass") EXCEPT !.left = stages]
      <4>1. call'.of = {o} /\ call'.step = "pass" /\ call'.left = stages
        BY <3>3 DEF AtStep, NoCall
      <4> QED BY <2>c, <3>1, <4>1 DEF Calls, Removal
    <3> QED BY <1>b, <1>c, <2>c, <3>1, <3>2, <3>3 DEF Calls, Removal
  <2>6. CASE DeleteStage(o)
    <3>1. PICK s \in call.left : \/ call' = [call EXCEPT !.left = @ \ {s}, !.progress = TRUE]
                                 \/ call' = [call EXCEPT !.left = @ \ {s}]
      BY <2>6 DEF DeleteStage
    <3>2. call.of = {o} /\ call.step = "pass"
      BY <2>6, <2>b DEF DeleteStage
    <3>3. call'.of = {o} /\ call'.step = "pass" /\ call'.left \subseteq call.left
      BY <3>1, <3>2 DEF Typed, TypeOK, Call
    <3> QED BY <2>c, <3>2, <3>3 DEF Calls, Removal
  <2>7. CASE PassEnds(o)
    <3>1. Removal(o) = "stagesFirst" /\ (call' = AtStep(o, "stages") \/ call' = NoCall)
      BY <2>7, <2>a, <2>b DEF PassEnds, Calls
    <3> QED BY <1>b, <1>c, <2>c, <3>1 DEF Calls, Removal
  <2> QED BY <1>3, <2>1, <2>2, <2>3, <2>4, <2>5, <2>6, <2>7 DEF Remove
<1>4. CASE UNCHANGED vars
  BY <1>4, <1>a DEF vars
<1> QED BY <1>a, <1>b, <1>1, <1>2, <1>3, <1>4 DEF Next, Tool, InQueue

-----------------------------------------------------------------------------
(* Zones. *)

GlobalZones == {z \in Object : Facts[z].global}

\* No zone that encloses z in its own compartment stays.
Alone(z) == \A p \in Facts[z].parents : Home(p) = Home(z) => life[p] # "active"

\* A zone is only deleted when its delegation is gone, or stands nowhere it could be removed.
Zones ==
  /\ delegated \subseteq GlobalZones
  /\ \A z \in GlobalZones : item[z] # "none" => Home(z) = cmd.target
  /\ \A z \in delegated : life[z] \notin {"absent", "active"} => Alone(z)
  /\ \A z \in delegated : call.of = {z} /\ call.step = "delete" => Alone(z)

LEMMA ZoneFacts ==
  ASSUME NEW z \in GlobalZones
  PROVE  /\ z \in Object /\ TypeOf(z) = "DnsZone" /\ Removal(z) = "delegationFirst"
         /\ Facts[z].instance = "none"
         /\ \A p \in Facts[z].parents : p \in Object /\ Facts[p].instance = "none"
         /\ \A o \in Object : z \notin Facts[o].takes \cup Facts[o].parts \cup Facts[o].nodes
<1>1. \A y \in GlobalZones : y \in Object /\ TypeOf(y) = "DnsZone" /\ Facts[y].instance = "none"
  BY FactsOf, AccountAssumption, ZoneAssumption DEF GlobalZones
<1>2. \A p \in Facts[z].parents : p \in GlobalZones
  BY FactsOf, ZoneAssumption DEF GlobalZones
<1>3. Removal(z) = "delegationFirst"
  BY <1>1, NetworkTypes DEF Removal, DnsZone, Plain
<1>4. \A o \in Object : z \notin Facts[o].takes \cup Facts[o].parts \cup Facts[o].nodes
  BY FactsOf, ZoneAssumption DEF GlobalZones
<1> QED BY <1>1, <1>2, <1>3, <1>4

\* Only the Remove of its own takes such a zone away.
LEMMA ZoneLeaves ==
  ASSUME Typed, Calls, [Next]_vars, NEW z \in GlobalZones, life[z] = "active", life'[z] # "active"
  PROVE  call.of = {z} /\ call.step = "delete"
<1>a. z \in Object /\ Removal(z) = "delegationFirst"
      /\ \A o \in Object : z \notin Facts[o].takes \cup Facts[o].parts \cup Facts[o].nodes
  BY ZoneFacts
<1>b. life \in [Object -> {"absent", "active", "going", "scheduled", "gone"}]
  BY DEF Typed, TypeOK, Call
<1>1. ASSUME Engine \/ Interrupt \/ \E o \in Object : PutOff(o) \/ StillThere(o) \/ Finish(o)
      PROVE  FALSE
  BY <1>1 DEF Engine, Start, Plan, RetryFailed, GiveUp, Complete, WaitedTooLong, Over, RunAgain,
              Interrupt,
              ReadFirst, List, ListFails, FilterBreaks, PutOff, StillThere, Finish, world
<1>2. ASSUME NEW o \in Object, Completes(o) \/ Launch(o) PROVE FALSE
  BY <1>2, <1>a, <1>b DEF Completes, Launch
<1>3. ASSUME NEW o \in Object, Remove(o) PROVE call.of = {z} /\ call.step = "delete"
  <2>1. ASSUME Delete(o) PROVE o = z
    BY <2>1, <1>a, <1>b DEF Delete, Fails, world
  <2>2. CASE Request(o)
    BY <2>1, <2>2, <1>a DEF Request
  <2>3. CASE DeleteTable(o)
    BY <2>1, <2>3, <1>a DEF DeleteTable
  <2>4. CASE DeleteAfter(o)
    BY <2>1, <2>4 DEF DeleteAfter, InCall
  <2>5. CASE Schedule(o)
    BY <2>5, <1>a, <1>b DEF Schedule, Fails, world
  <2>6. CASE Detach(o)
    BY <2>6, <1>a, <1>b DEF Detach, Fails, world
  <2>7. CASE DeleteAndPoll(o)
    BY <2>7, <1>a, <1>b DEF DeleteAndPoll, Fails, world
  <2>8. CASE Poll(o) \/ Undelegate(o) \/ StartStages(o) \/ ListStages(o) \/ PassEnds(o) \/ Clear(o)
    BY <2>8 DEF Poll, Undelegate, StartStages, ListStages, PassEnds, Clear, Fails, world
  <2>9. CASE DeleteStage(o)
    <3>1. PICK s \in call.left : life' = life \/ life' = [life EXCEPT ![s] = "going"]
      BY <2>9 DEF DeleteStage
    <3>2. \E y \in Object : s \in Facts[y].parts
      BY DEF Calls, Typed, TypeOK, Call
    <3> QED BY <3>1, <3>2, <1>a, <1>b
  <2> QED BY <1>3, <2>2, <2>3, <2>4, <2>5, <2>6, <2>7, <2>8, <2>9 DEF Remove
<1>4. CASE UNCHANGED vars
  BY <1>4 DEF vars, world
<1> QED BY <1>1, <1>2, <1>3, <1>4 DEF Next, Tool, InQueue

\* A Remove changes no item but its own.
LEMMA RemoveMoves ==
  ASSUME NEW o, Remove(o)
  PROVE  /\ cmd' = cmd /\ lap' = lap
         /\ item' = item \/ \E outcome \in {"asked", "failed", "deferred"} : item' = [item EXCEPT ![o] = outcome]
<1>1. cmd' = cmd /\ lap' = lap
  BY DEF Remove, Request, Schedule, Detach, Clear, DeleteTable, DeleteAndPoll, Poll, Undelegate, StartStages,
         ListStages, DeleteStage, PassEnds, DeleteAfter, Turn, InCall
<1>2. ASSUME Fails(o) \/ Delete(o) \/ Returns(o, "asked") \/ Returns(o, "failed") \/ Returns(o, "deferred")
      PROVE  \E outcome \in {"asked", "failed", "deferred"} : item' = [item EXCEPT ![o] = outcome]
  BY <1>2 DEF Fails, Delete, Returns
<1> QED BY <1>1, <1>2 DEF Remove, Request, Schedule, Detach, Clear, DeleteTable, DeleteAndPoll,
                          Poll, Undelegate,
                          StartStages, ListStages, DeleteStage, PassEnds, DeleteAfter

\* An item is new only when its lister has returned it.
LEMMA ItemMoves ==
  ASSUME Typed, [Next]_vars, NEW o \in Object
  PROVE  cmd' = cmd /\ (item'[o] # "none" => item[o] # "none" \/ \E t \in TypeName : o \in Found(t))
<1>a. item \in [Object -> ItemState]
  BY DEF Typed, TypeOK, Call
<1>1. ASSUME NEW t \in unread, List(t)
      PROVE  cmd' = cmd /\ (item'[o] # "none" => item[o] # "none" \/ \E u \in TypeName : o \in Found(u))
  <2>1. PICK found \in SUBSET Found(t) :
          item' = [p \in Object |-> IF p \notin found THEN item[p]
                                   ELSE IF FilterSays(p) = "yes" THEN "filtered" ELSE "queued"]
    BY <1>1 DEF List
  <2>2. t \in TypeName
    BY DEF Typed, TypeOK, Call
  <2> QED BY <1>1, <2>1, <2>2 DEF List
<1>2. ASSUME Engine \/ Interrupt, ~\E t \in unread : List(t)
      PROVE  cmd' = cmd /\ (item'[o] # "none" => item[o] # "none")
  <2>1. CASE Plan
    BY <2>1 DEF Plan
  <2>2. CASE RunAgain \/ Interrupt
    BY <2>2 DEF RunAgain, Interrupt, Forgotten
  <2> QED BY <1>2, <2>1, <2>2 DEF Engine, Start, RetryFailed, GiveUp, Complete, WaitedTooLong, Over,
                                   ReadFirst, ListFails, FilterBreaks
<1>3. ASSUME NEW p \in Object, Completes(p) \/ Launch(p) PROVE cmd' = cmd /\ item' = item
  BY <1>3 DEF Completes, Launch
<1>4. ASSUME NEW p \in InQueue, PutOff(p) \/ StillThere(p) \/ Finish(p)
      PROVE  cmd' = cmd /\ (item'[o] # "none" => item[o] # "none")
  BY <1>4, <1>a DEF PutOff, StillThere, Finish, InQueue
<1>5. ASSUME NEW p \in InQueue, Remove(p)
      PROVE  cmd' = cmd /\ (item'[o] # "none" => item[o] # "none")
  BY <1>5, <1>a, RemoveMoves DEF InQueue
<1>6. CASE UNCHANGED vars
  BY <1>6 DEF vars
<1> QED BY <1>1, <1>2, <1>3, <1>4, <1>5, <1>6 DEF Next, Tool

LEMMA FoundZone ==
  ASSUME NEW z \in GlobalZones, NEW t \in TypeName, z \in Found(t)
  PROVE  Home(z) = cmd.target
<1>1. z \in OfType(t)
  BY ListedOfType DEF Found
<1>2. t = "DnsZone"
  BY <1>1, OfTypeIs, ZoneFacts
<1>3. \E how \in {"globalZones", "privateZones"} : \E note : Selects(how, z, note)
  BY <1>2, NetworkTypes DEF Found, Listed, DnsZone, Plain
<1> QED BY <1>3 DEF Selects

LEMMA ZonesStep == ASSUME Typed, Calls, Zones, [Next]_vars PROVE Zones'
<1>a. ASSUME NEW z \in GlobalZones, Alone(z) PROVE Alone(z)'
  BY <1>a, LifeMoves, ZoneFacts DEF Alone, Home, Facts
<1>b. delegated' \subseteq delegated
  <2>1. ASSUME \/ Engine \/ Interrupt
               \/ \E o \in Object : PutOff(o) \/ StillThere(o) \/ Finish(o) \/ Completes(o) \/ Launch(o)
        PROVE  delegated' = delegated
    BY <2>1 DEF Engine, Start, Plan, RetryFailed, GiveUp, Complete, WaitedTooLong, Over, RunAgain,
                Interrupt,
                ReadFirst, List, ListFails, FilterBreaks, PutOff, StillThere, Finish, Completes,
                Launch, world
  <2>2. ASSUME NEW o \in Object, Remove(o) PROVE delegated' \subseteq delegated
    <3>1. CASE Undelegate(o)
      BY <3>1 DEF Undelegate, Fails, world
    <3>2. CASE ~Undelegate(o)
      BY <2>2, <3>2 DEF Remove, Request, Schedule, Detach, Clear, DeleteTable, DeleteAndPoll, Poll,
                        StartStages,
                        ListStages, DeleteStage, PassEnds, DeleteAfter, Delete, Fails, world
    <3> QED BY <3>1, <3>2
  <2>3. CASE UNCHANGED vars
    BY <2>3 DEF vars, world
  <2> QED BY <2>1, <2>2, <2>3 DEF Next, Tool, InQueue
<1>1. \A z \in GlobalZones : item'[z] # "none" => Home(z)' = cmd'.target
  <2> SUFFICES ASSUME NEW z \in GlobalZones, item'[z] # "none"
               PROVE  Home(z) = cmd.target /\ cmd' = cmd
    BY DEF Home, Facts
  <2>1. z \in Object
    BY ZoneFacts
  <2> QED BY <2>1, ItemMoves, FoundZone DEF Zones
<1>2. ASSUME NEW z \in delegated', life'[z] \notin {"absent", "active"} PROVE Alone(z)'
  <2>1. z \in GlobalZones /\ z \in delegated /\ z \in Object
    BY <1>b, ZoneFacts DEF Zones
  <2>2. CASE life[z] = "active"
    BY <2>1, <2>2, <1>2, <1>a, ZoneLeaves DEF Zones
  <2>3. CASE life[z] = "absent"
    BY <2>1, <2>3, <1>2, LifeMoves
  <2> QED BY <2>1, <2>2, <2>3, <1>a DEF Zones
<1>3. ASSUME NEW z \in delegated', call'.of = {z}, call'.step = "delete" PROVE Alone(z)'
  <2>1. z \in GlobalZones /\ z \in delegated /\ z \in Object
    BY <1>b, ZoneFacts DEF Zones
  <2>2. CASE call' = call
    BY <2>1, <2>2, <1>3, <1>a DEF Zones
  <2>3. CASE Undelegate(z) /\ item[z] # "none"
    <3> DEFINE above == {p \in Facts[z].parents : Facts[z].global /\ Home(p) = cmd.target /\ life[p] = "active"}
    <3>1. \/ delegated' = (IF above = {} THEN delegated ELSE delegated \ {z})
          \/ call' = NoCall
      BY <2>3 DEF Undelegate, Fails, Returns
    <3>2. call' # NoCall
      BY <1>3 DEF NoCall
    <3>3. above = {}
      BY <3>1, <3>2, <1>3
    <3>4. Home(z) = cmd.target /\ Facts[z].global
      BY <2>1, <2>3 DEF Zones, GlobalZones
    <3>5. Alone(z)
      BY <3>3, <3>4 DEF Alone
    <3> QED BY <2>1, <3>5, <1>a
  <2> QED BY <2>1, <2>2, <2>3, <1>3, CallMoves, ZoneFacts
<1> QED BY <1>1, <1>2, <1>3, <1>b DEF Zones, GlobalZones, Facts

LEMMA AlwaysZones == Spec => [](Typed /\ Calls /\ Zones)
<1>1. ASSUME Init PROVE Calls /\ Zones
  <2>1. PICK c \in Cases :
          /\ life = [o \in Object |-> IF o \in c.has THEN "active" ELSE "absent"]
          /\ delegated = {z \in c.has : Facts[z].global /\ Facts[z].parents \cap c.has # {}}
    BY <1>1 DEF Init
  <2>2. delegated \subseteq GlobalZones
    BY <2>1, AccountAssumption DEF GlobalZones
  <2>3. \A z \in Object : life[z] \in {"absent", "active"} /\ item[z] = "none"
    BY <1>1, <2>1 DEF Init
  <2>4. call = NoCall
    BY <1>1 DEF Init
  <2> QED BY <2>2, <2>3, <2>4, NoCallIsOne DEF Zones, GlobalZones, NoCall
<1>2. Typed /\ Calls /\ Zones /\ [Next]_vars => Calls' /\ Zones'
  BY CallMoves, ZonesStep
<1> QED BY <1>1, <1>2, TypedInit, TypedStep, PTL DEF Spec

\* Whatever fails, in whatever order the zones are taken and however often the run is killed
\* between the two calls of a zone's Remove and given again, a zone that is gone leaves no
\* delegation behind in a zone that stays (deleteParentDelegation).
THEOREM NothingDangles == Spec => []NoDanglingDelegation
<1>1. Zones => NoDanglingDelegation
  BY DEF Zones, Alone, NoDanglingDelegation
<1> QED BY <1>1, AlwaysZones, PTL

-----------------------------------------------------------------------------
(* What places VNICs. *)

\* What is queued is queued by the scan.  What the first pass has removed without a failure is
\* gone, and a load balancer already when its Remove returns.
Owners ==
  /\ lap > 0 => Items("queued") = {}
  /\ \A h \in Object : TypeOf(h) \in VnicOwners /\ lap = 0 =>
       /\ item[h] = "finished" => ~There(h)
       /\ item[h] = "asked" /\ Removal(h) = "poll" => ~There(h)

LEMMA OwnerRemoval ==
  ASSUME NEW h \in Object, TypeOf(h) \in VnicOwners
  PROVE  /\ Removal(h) = "poll" \/ "HandleWait" \in Registered[TypeOf(h)].implements
         /\ Removal(h) \in {"poll", "request"} /\ Facts[h].instance = "none"
<1>1. /\ Registered["LoadBalancer"].removal = "poll" /\ Registered["NetworkLoadBalancer"].removal = "poll"
      /\ Registered["OkeCluster"].removal = "request" /\ Registered["OkeNodePool"].removal = "request"
      /\ Registered["OkeCluster"].implements = {"HandleWait"} /\ Registered["OkeNodePool"].implements = {"HandleWait"}
  <2>1. /\ Registered["LoadBalancer"] = LoadBalancer /\ Registered["NetworkLoadBalancer"] = NetworkLoadBalancer
        /\ Registered["OkeCluster"] = OkeCluster /\ Registered["OkeNodePool"] = OkeNodePool
    BY DEF Registered
  <2> QED BY <2>1 DEF LoadBalancer, NetworkLoadBalancer, OkeCluster, OkeNodePool, After, Plain
<1>2. Facts[h].instance = "none"
  BY FactsOf, AccountAssumption DEF VnicOwners
<1> QED BY <1>1, <1>2 DEF VnicOwners, Removal

LEMMA OwnersStep == ASSUME Typed, Calls, Owners, [Next]_vars PROVE Owners'
<1>a. item \in [Object -> ItemState]
  BY DEF Typed, TypeOK, Call
<1>1. lap' > 0 => Items("queued")' = {}
  <2>1. ASSUME NEW t \in unread, List(t) PROVE lap' = 0
    BY <2>1 DEF List, Typed
  <2>2. CASE Plan
    BY <2>2 DEF Plan, Typed
  <2>3. CASE RetryFailed
    BY <2>3 DEF RetryFailed, OnlyFailures, Items
  <2>4. CASE RunAgain \/ Interrupt
    BY <2>4 DEF RunAgain, Interrupt, Forgotten
  <2>5. ASSUME lap' = lap, \A o \in Object : item'[o] = "queued" => item[o] = "queued"
        PROVE  lap' > 0 => Items("queued")' = {}
    BY <2>5 DEF Owners, Items
  <2>6. ASSUME \/ Start \/ GiveUp \/ Complete \/ WaitedTooLong
               \/ \E t \in unread : ReadFirst(t) \/ ListFails(t) \/ FilterBreaks(t)
        PROVE  lap' = lap /\ item' = item
    BY <2>6 DEF Start, GiveUp, Complete, WaitedTooLong, Over, ReadFirst, ListFails, FilterBreaks
  <2>7. ASSUME NEW o \in Object, Completes(o) \/ Launch(o) PROVE lap' = lap /\ item' = item
    BY <2>7 DEF Completes, Launch
  <2>8. ASSUME NEW o \in Object, PutOff(o) \/ StillThere(o) \/ Finish(o)
        PROVE  lap' = lap /\ \A p \in Object : item'[p] = "queued" => item[p] = "queued"
    BY <2>8, <1>a DEF PutOff, StillThere, Finish
  <2>9. ASSUME NEW o \in Object, Remove(o)
        PROVE  lap' = lap /\ \A p \in Object : item'[p] = "queued" => item[p] = "queued"
    BY <2>9, <1>a, RemoveMoves
  <2>10. CASE UNCHANGED vars
    BY <2>10, <2>5 DEF vars
  <2> QED BY <2>1, <2>2, <2>3, <2>4, <2>5, <2>6, <2>7, <2>8, <2>9, <2>10 DEF Next, Tool, Engine,
                                                                             InQueue
<1>2. ASSUME NEW h \in Object, TypeOf(h) \in VnicOwners, lap' = 0
      PROVE  /\ item'[h] = "finished" => ~There(h)'
             /\ item'[h] = "asked" /\ Removal(h) = "poll" => ~There(h)'
  <2>a. There(h)' => There(h)
    BY LifeMoves, OwnerRemoval, <1>2 DEF There
  <2>b. ASSUME item'[h] \in {"none", item[h], "filtered", "queued", "deferred", "failed"}, lap = 0
        PROVE  /\ item'[h] = "finished" => ~There(h)'
               /\ item'[h] = "asked" /\ Removal(h) = "poll" => ~There(h)'
    BY <2>a, <2>b, <1>2 DEF Owners
  <2>1. CASE Engine \/ Interrupt
    <3>1. ASSUME NEW t \in unread, List(t)
          PROVE  lap = 0 /\ item'[h] \in {item[h], "filtered", "queued"}
      BY <3>1 DEF List, Typed
    <3>2. CASE Plan
      BY <2>b, <3>2 DEF Plan, Typed
    <3>3. CASE RunAgain \/ Interrupt
      BY <3>3 DEF RunAgain, Interrupt, Forgotten
    <3>4. CASE RetryFailed
      BY <3>4, <1>2 DEF RetryFailed, Typed, TypeOK, Call
    <3>5. ASSUME \/ Start \/ GiveUp \/ Complete \/ WaitedTooLong
                 \/ \E t \in unread : ReadFirst(t) \/ ListFails(t) \/ FilterBreaks(t)
          PROVE  lap' = lap /\ item' = item
      BY <3>5 DEF Start, GiveUp, Complete, WaitedTooLong, Over, ReadFirst, ListFails, FilterBreaks
    <3> QED BY <2>1, <2>b, <3>1, <3>2, <3>3, <3>4, <3>5, <1>2 DEF Engine
  <2>2. ASSUME NEW o \in Object, Completes(o) \/ Launch(o) PROVE lap' = lap /\ item' = item
    BY <2>2 DEF Completes, Launch
  <2>3. ASSUME NEW o \in Object, PutOff(o) \/ StillThere(o)
        PROVE  /\ item'[h] = "finished" => ~There(h)'
               /\ item'[h] = "asked" /\ Removal(h) = "poll" => ~There(h)'
    <3>1. lap = 0
      BY <2>3, <1>2 DEF PutOff, StillThere
    <3>2. ~StillThere(o)
      BY <3>1 DEF StillThere, ToJudge
    <3>3. item' = [item EXCEPT ![o] = "deferred"]
      BY <2>3, <3>2 DEF PutOff
    <3> QED BY <2>b, <3>1, <3>3, <1>a
  <2>4. ASSUME NEW o \in Object, Finish(o)
        PROVE  /\ item'[h] = "finished" => ~There(h)'
               /\ item'[h] = "asked" /\ Removal(h) = "poll" => ~There(h)'
    <3>1. lap = 0 /\ item' = [item EXCEPT ![o] = "finished"]
      BY <2>4, <1>2 DEF Finish
    <3>2. CASE o = h
      <4>1. item[h] = "asked" /\ ~Hooked(h)
        BY <2>4, <3>1, <3>2 DEF Finish, ToJudge
      <4>2. ~There(h)
        BY <4>1, <3>1, <1>2, OwnerRemoval DEF Hooked, Owners
      <4> QED BY <4>2, <2>a
    <3> QED BY <2>b, <3>1, <3>2, <1>a
  <2>5. ASSUME NEW o \in Object, Remove(o)
        PROVE  /\ item'[h] = "finished" => ~There(h)'
               /\ item'[h] = "asked" /\ Removal(h) = "poll" => ~There(h)'
    <3>1. lap = 0
      BY <2>5, <1>2, RemoveMoves
    <3>2. item' = item \/ \E outcome \in {"asked", "failed", "deferred"} : item' = [item EXCEPT ![o] = outcome]
      BY <2>5, RemoveMoves
    <3>3. CASE o = h /\ item' = [item EXCEPT ![o] = "asked"] /\ Removal(h) = "poll"
      <4>a. item'[h] = "asked"
        BY <3>3, <1>a
      <4>b. ASSUME NEW step, InCall(h, step) PROVE step \notin {"stages", "pass", "delete"}
        BY <4>b, <3>3 DEF InCall, Calls
      <4>1. CASE Request(h) \/ Schedule(h) \/ Detach(h) \/ Clear(h) \/ DeleteTable(h) \/ Undelegate(h) \/ StartStages(h)
        BY <4>1, <3>3 DEF Request, Schedule, Detach, Clear, DeleteTable, Undelegate, StartStages
      <4>2. CASE ListStages(h) \/ DeleteStage(h) \/ PassEnds(h) \/ DeleteAfter(h)
        BY <4>2, <4>b DEF ListStages, DeleteStage, PassEnds, DeleteAfter
      <4>3. CASE DeleteAndPoll(h)
        <5>1. item' = item
          BY <4>3, <4>a, <1>a DEF DeleteAndPoll, Fails, Returns
        <5> QED BY <2>b, <3>1, <5>1
      <4>4. CASE Poll(h)
        <5>1. life[h] = "gone"
          BY <4>4, <4>a, <1>a DEF Poll, Fails, Returns
        <5> QED BY <2>a, <5>1 DEF There
      <4> QED BY <2>5, <3>3, <4>1, <4>2, <4>3, <4>4 DEF Remove
    <3> QED BY <2>b, <3>1, <3>2, <3>3, <1>a
  <2>6. CASE UNCHANGED vars
    BY <2>6, <2>b, <1>2 DEF vars
  <2> QED BY <2>1, <2>2, <2>3, <2>4, <2>5, <2>6, <2>b, <1>2 DEF Next, Tool, InQueue
<1> QED BY <1>1, <1>2 DEF Owners, TypeOf, Facts, Removal

LEMMA AlwaysOwners == Spec => [](Typed /\ Calls /\ Owners)
<1>1. ASSUME Init PROVE Calls /\ Owners
  BY <1>1, NoCallIsOne DEF Init, Owners
<1>2. Typed /\ Calls /\ Owners /\ [Next]_vars => Calls' /\ Owners'
  BY CallMoves, OwnersStep
<1> QED BY <1>1, <1>2, TypedInit, TypedStep, PTL DEF Spec

\* Subnets and security groups are only asked to go when the item is due.
LEMMA AskedWhenDue ==
  ASSUME Typed, Calls, [Next]_vars,
         NEW o \in OfType("Subnet") \cup OfType("NetworkSecurityGroup"), AskedInThisStep(o)
  PROVE  o \in Object /\ Due(o)
<1>a. item \in [Object -> ItemState] /\ again \subseteq Items("failed")
  BY DEF Typed, TypeOK, Call
<1>b. o \in Object /\ TypeOf(o) \in {"Subnet", "NetworkSecurityGroup"}
  BY OfTypeIs, NetworkTypes
<1>c. Removal(o) = "request"
  BY <1>b, NetworkTypes DEF Removal, Subnet, NetworkSecurityGroup, After, Plain
<1>d. item[o] = "queued" /\ item'[o] \in {"asked", "failed"}
  BY DEF AskedInThisStep
<1>1. ~(Engine \/ Interrupt)
  <2>1. ~Plan
    BY <1>b, <1>d DEF Plan
  <2>2. ~RunAgain /\ ~Interrupt
    BY <1>b, <1>d DEF RunAgain, Interrupt, Forgotten
  <2>3. ~\E t \in unread : List(t)
    BY <1>b, <1>d DEF List
  <2> QED BY <1>d, <2>1, <2>2, <2>3 DEF Engine, Start, RetryFailed, GiveUp, Complete, WaitedTooLong,
                                        Over,
                                        ReadFirst, ListFails, FilterBreaks
<1>2. ASSUME NEW p \in Object, PutOff(p) \/ StillThere(p) \/ Finish(p) \/ Completes(p) \/ Launch(p)
      PROVE  FALSE
  BY <1>2, <1>a, <1>b, <1>d DEF PutOff, StillThere, Finish, Completes, Launch, ToJudge
<1>3. ASSUME NEW p \in Object, Remove(p) PROVE p = o
  BY <1>3, <1>a, <1>b, <1>d, RemoveMoves
<1>4. ~UNCHANGED vars
  BY <1>d DEF vars
<1>5. Remove(o)
  BY <1>1, <1>2, <1>3, <1>4 DEF Next, Tool, InQueue
<1>6. ASSUME NEW step \in {"poll", "stages", "pass", "delete"}, InCall(o, step) PROVE FALSE
  BY <1>6, <1>c DEF InCall, Calls
<1>7. Request(o)
  BY <1>5, <1>6, <1>c DEF Remove, Schedule, Detach, Clear, DeleteTable, DeleteAndPoll, Poll,
                          Undelegate, StartStages,
                          ListStages, DeleteStage, PassEnds, DeleteAfter
<1>8. o \notin again
  BY <1>a, <1>d DEF Items
<1> QED BY <1>b, <1>7, <1>8 DEF Request, Turn

\* Subnets and security groups outlive what places VNICs in them (Subnet, NetworkSecurityGroup):
\* neither is asked to go before those of it that the run took on are gone, or their removal has
\* failed.  The engine holds them back as long as one of a type they depend on is unfinished,
\* and none of those finishes in the first pass while it is still there.
THEOREM OwnersGoFirst == Spec => VnicOwnersGoneFirst
<1>1. ASSUME Typed, Calls, Owners, [Next]_vars,
             NEW o \in OfType("Subnet") \cup OfType("NetworkSecurityGroup"), AskedInThisStep(o),
             NEW h \in Object, TypeOf(h) \in VnicOwners,
             item[h] \notin {"none", "filtered", "deferred", "failed"}
      PROVE  ~There(h)
  <2>1. o \in Object /\ Due(o) /\ item[o] = "queued"
    BY <1>1, AskedWhenDue DEF AskedInThisStep
  <2>2. TypeOf(h) \in DependencyGraph[TypeOf(o)]
    BY <1>1, <2>1, OfTypeIs, NetworkTypes
  <2>3. item[h] \notin {"queued", "asked"}
    BY <1>1, <2>1, <2>2, OfTypeIs, NetworkTypes DEF Due, StillQueued
  <2>4. item[h] = "finished"
    BY <1>1, <2>3 DEF Typed, TypeOK, Call, ItemState
  <2>5. lap = 0
    BY <1>1, <2>1 DEF Owners, Items, Typed, TypeOK, Call
  <2> QED BY <1>1, <2>4, <2>5 DEF Owners
<1>2. Typed /\ Calls /\ Owners /\ [Next]_vars =>
        [\A o \in OfType("Subnet") \cup OfType("NetworkSecurityGroup") :
           AskedInThisStep(o) =>
             \A h \in Object :
               /\ TypeOf(h) \in VnicOwners /\ o \in Facts[h].holds
               /\ item[h] \notin {"none", "filtered", "deferred", "failed"}
               => ~There(h)]_vars
  BY <1>1
<1> QED BY <1>2, AlwaysOwners, PTL DEF Spec, VnicOwnersGoneFirst

-----------------------------------------------------------------------------
(* What a command puts at stake. *)

\* The catalogue's types, their scopes and the selections of their listers.
SharedTypes == {"User", "Group", "DynamicGroup", "CustomerSecretKey", "Policy"}

LEMMA TypesAre ==
  TypeName = SharedTypes \cup
    {"Vcn", "Subnet", "NetworkSecurityGroup", "InternetGateway", "NatGateway",
     "ServiceGateway", "RouteTable", "OrphanedVnic", "LoadBalancer", "NetworkLoadBalancer",
     "DnsZone", "OkeNodePool", "OkeCluster", "ContainerInstance", "BlockVolume", "Bucket",
     "BuildPipeline", "DeployPipeline", "BuildRun", "DevopsRepository", "DevopsProject",
     "Log", "LogGroup", "OnsTopic", "Certificate", "CertificateAuthority", "Key", "Vault"}
BY DEF TypeName, Registered, SharedTypes

LEMMA ScopesAre ==
  /\ \A t \in TypeName \ SharedTypes : Registered[t].scope = "compartment"
  /\ \A t \in SharedTypes : Registered[t].scope = "tenancy"
<1>1. /\ Registered["Vcn"].scope = "compartment" /\ Registered["Subnet"].scope = "compartment"
      /\ Registered["NetworkSecurityGroup"].scope = "compartment"
      /\ Registered["InternetGateway"].scope = "compartment"
      /\ Registered["NatGateway"].scope = "compartment"
      /\ Registered["ServiceGateway"].scope = "compartment"
      /\ Registered["RouteTable"].scope = "compartment"
      /\ Registered["OrphanedVnic"].scope = "compartment"
      /\ Registered["LoadBalancer"].scope = "compartment"
      /\ Registered["NetworkLoadBalancer"].scope = "compartment"
      /\ Registered["DnsZone"].scope = "compartment"
      /\ Registered["OkeNodePool"].scope = "compartment"
      /\ Registered["OkeCluster"].scope = "compartment"
      /\ Registered["ContainerInstance"].scope = "compartment"
      /\ Registered["BlockVolume"].scope = "compartment"
      /\ Registered["Bucket"].scope = "compartment"
      /\ Registered["BuildPipeline"].scope = "compartment"
      /\ Registered["DeployPipeline"].scope = "compartment"
      /\ Registered["BuildRun"].scope = "compartment"
      /\ Registered["DevopsRepository"].scope = "compartment"
      /\ Registered["DevopsProject"].scope = "compartment"
      /\ Registered["Log"].scope = "compartment"
      /\ Registered["LogGroup"].scope = "compartment"
      /\ Registered["OnsTopic"].scope = "compartment"
      /\ Registered["Certificate"].scope = "compartment"
      /\ Registered["CertificateAuthority"].scope = "compartment"
      /\ Registered["Key"].scope = "compartment" /\ Registered["Vault"].scope = "compartment"
  BY DEF Registered, Plain, After, Scheduled, Vcn, Subnet, NetworkSecurityGroup, InternetGateway,
     NatGateway, ServiceGateway, RouteTable, OrphanedVnic, LoadBalancer,
     NetworkLoadBalancer, DnsZone, OkeNodePool, OkeCluster, ContainerInstance,
     BlockVolume, Bucket, BuildPipeline, DeployPipeline, BuildRun, DevopsRepository,
     DevopsProject, Log, LogGroup, OnsTopic, Certificate, CertificateAuthority, Key,
     Vault
<1>2. /\ Registered["User"].scope = "tenancy" /\ Registered["Group"].scope = "tenancy"
      /\ Registered["DynamicGroup"].scope = "tenancy"
      /\ Registered["CustomerSecretKey"].scope = "tenancy"
      /\ Registered["Policy"].scope = "tenancy"
  BY DEF Registered, Shared, Plain, User, Group, DynamicGroup, CustomerSecretKey, Policy
<1> QED BY <1>1, <1>2, TypesAre DEF SharedTypes

LEMMA ListsAre ==
  /\ \A t \in TypeName \ (SharedTypes \cup {"Log", "DnsZone"}) :
       Registered[t].lists \subseteq {"compartment", "tables", "orphans", "inVaults"}
  /\ Registered["Log"].lists = {"inGroups"}
  /\ Registered["DnsZone"].lists = {"globalZones", "privateZones"}
  /\ Registered["Policy"].lists = {"prefixed", "belowRoot"}
  /\ Registered["CustomerSecretKey"].lists = {"ownKeys"}
  /\ \A t \in {"User", "Group", "DynamicGroup"} : Registered[t].lists = {"prefixed"}
<1> DEFINE usual == {"compartment", "tables", "orphans", "inVaults"}
<1>1. /\ Registered["Vcn"].lists \subseteq usual /\ Registered["Subnet"].lists \subseteq usual
      /\ Registered["NetworkSecurityGroup"].lists \subseteq usual
      /\ Registered["InternetGateway"].lists \subseteq usual
      /\ Registered["NatGateway"].lists \subseteq usual
      /\ Registered["ServiceGateway"].lists \subseteq usual
      /\ Registered["RouteTable"].lists \subseteq usual
      /\ Registered["OrphanedVnic"].lists \subseteq usual
      /\ Registered["LoadBalancer"].lists \subseteq usual
      /\ Registered["NetworkLoadBalancer"].lists \subseteq usual
      /\ Registered["OkeNodePool"].lists \subseteq usual
      /\ Registered["OkeCluster"].lists \subseteq usual
      /\ Registered["ContainerInstance"].lists \subseteq usual
      /\ Registered["BlockVolume"].lists \subseteq usual
      /\ Registered["Bucket"].lists \subseteq usual
      /\ Registered["BuildPipeline"].lists \subseteq usual
      /\ Registered["DeployPipeline"].lists \subseteq usual
      /\ Registered["BuildRun"].lists \subseteq usual
      /\ Registered["DevopsRepository"].lists \subseteq usual
      /\ Registered["DevopsProject"].lists \subseteq usual
      /\ Registered["LogGroup"].lists \subseteq usual
      /\ Registered["OnsTopic"].lists \subseteq usual
      /\ Registered["Certificate"].lists \subseteq usual
      /\ Registered["CertificateAuthority"].lists \subseteq usual
      /\ Registered["Key"].lists \subseteq usual /\ Registered["Vault"].lists \subseteq usual
  BY DEF Registered, Plain, After, Scheduled, Vcn, Subnet, NetworkSecurityGroup,
     InternetGateway, NatGateway, ServiceGateway, RouteTable, OrphanedVnic, LoadBalancer,
     NetworkLoadBalancer, OkeNodePool, OkeCluster, ContainerInstance, BlockVolume,
     Bucket, BuildPipeline, DeployPipeline, BuildRun, DevopsRepository, DevopsProject,
     LogGroup, OnsTopic, Certificate, CertificateAuthority, Key, Vault
<1>2. /\ Registered["Log"].lists = {"inGroups"}
      /\ Registered["DnsZone"].lists = {"globalZones", "privateZones"}
      /\ Registered["Policy"].lists = {"prefixed", "belowRoot"}
      /\ Registered["CustomerSecretKey"].lists = {"ownKeys"}
      /\ Registered["User"].lists = {"prefixed"} /\ Registered["Group"].lists = {"prefixed"}
      /\ Registered["DynamicGroup"].lists = {"prefixed"}
  BY DEF Registered, Plain, Shared, Log, DnsZone, Policy, CustomerSecretKey, User, Group, DynamicGroup
<1> QED BY <1>1, <1>2, TypesAre DEF SharedTypes

\* At stake, if the command is no dry run.
Candidates ==
  [c \in Commands |->
     {o \in Object :
        /\ ~Rejected(c)
        /\ TypeOf(o) \in TypeName /\ AskedFor(c, TypeOf(o))
        /\ ~Spared(c, o)
        /\ TypeOf(o) = "DnsZone" => ~Facts[o].fixed
        /\ InReach(c, o)}]

LEMMA OursAreCandidates ==
  ASSUME Typed, NEW o \in Object
  PROVE  cmd \in Commands /\ (Ours(o) <=> o \in Candidates[cmd] /\ cmd.noDryRun)
<1>1. cmd \in Commands
  BY DEF Typed, TypeOK, Commands
<1> QED BY <1>1 DEF Ours, AtStake, Candidates

LEMMA CandidatesStay ==
  ASSUME cmd' = cmd, NEW o \in Object
  PROVE  (o \in Candidates[cmd])' = (o \in Candidates[cmd]) /\ Ours(o)' = Ours(o)
BY DEF Ours

\* The type lists, folded over the names of a scope, leave exactly what is asked for.
LEMMA AskedForTypes ==
  ASSUME NEW c \in Commands, ~Rejected(c), NEW base \in SUBSET TypeName
  PROVE  TypesToScan(base, c) = {t \in base : AskedFor(c, t)}
<1> DEFINE config == c.config.types
           account == c.config.accounts[c.target].types
           lists == {c.includes, c.excludes, GetIncludes(config), config.excludes,
                     GetIncludes(account), account.excludes}
<1>1. \A list \in lists : NamesItself(list, base)
  <2>1. \A list \in lists : NamesItself(list, TypeName)
    BY ConfigAssumption DEF Rejected, TypeLists
  <2> QED BY <2>1, NamesItselfStill
<1>2. TypesToScan(base, c) =
        {t \in base :
           /\ \A list \in {c.includes, GetIncludes(config), GetIncludes(account)} :
                list = {} \/ Named(list, t)
           /\ \A list \in {c.excludes, config.excludes, account.excludes} : ~Named(list, t)}
  BY <1>1, TypesScanned
<1>3. \A t : AskedFor(c, t) <=>
           /\ \A list \in {c.includes, GetIncludes(config), GetIncludes(account)} :
                list = {} \/ Named(list, t)
           /\ \A list \in {c.excludes, config.excludes, account.excludes} : ~Named(list, t)
  <2>1. GetIncludes(config) = config.includes \cup config.targets
        /\ GetIncludes(account) = account.includes \cup account.targets
    BY DEF GetIncludes
  <2> QED BY <2>1 DEF AskedFor, TypeLists, Names, Named
<1> QED BY <1>2, <1>3

\* Exactly the types that the command asks for have a lister called.
LEMMA ScannedAreAskedFor ==
  ASSUME Typed, NEW t
  PROVE  t \in Scanned <=> t \in TypeName /\ ~Rejected(cmd) /\ AskedFor(cmd, t)
<1>1. cmd \in Commands
  BY DEF Typed, TypeOK, Commands
<1>2. TypeName = NamesForScope("compartment") \cup NamesForScope("tenancy")
  BY ScopesAre, TypesAre DEF NamesForScope
<1>3. CASE Rejected(cmd)
  BY <1>1, <1>3 DEF Scanned, ScannedBy
<1>4. CASE ~Rejected(cmd)
  <2>1. Scanned = UNION {TypesToScan(NamesForScope(scope), cmd) : scope \in {"compartment", "tenancy"}}
    BY <1>1, <1>4 DEF Scanned, ScannedBy
  <2>2. \A scope : TypesToScan(NamesForScope(scope), cmd) = {u \in NamesForScope(scope) : AskedFor(cmd, u)}
    BY <1>1, <1>4, AskedForTypes DEF NamesForScope
  <2> QED BY <1>2, <1>4, <2>1, <2>2
<1> QED BY <1>3, <1>4

\* The filters leave an item in exactly if nothing speaks for it, in the account's list or a preset.
LEMMA NoneSpeaks ==
  ASSUME Typed, ~Rejected(cmd), NEW o \in Object
  PROVE  /\ FilterSays(o) = "no" <=> ~Spared(cmd, o)
         /\ FilterSays(o) \in {"yes", "no", "error"}
<1> DEFINE all == FiltersOf(cmd.config, cmd.target)
           keys == {Global, TypeOf(o)}
<1>1. cmd \in Commands
  BY DEF Typed, TypeOK, Commands
<1>2. FilterSays(o) = Filter(all, TypeOf(o), Facts[o].shows)
  BY <1>1 DEF FilterSays, Says
<1>3. IsList(cmd.config.accounts[cmd.target].presets)
      /\ \A filters \in FilterLists(cmd) : \A key \in DOMAIN filters : IsList(filters[key])
  BY <1>1, ConfigAssumption DEF Rejected
<1>4. \A filters \in FilterLists(cmd) : \A key : IsListed(filters, key)
  BY <1>3 DEF IsListed, Under, IsList, Elements
<1>5. \A key : /\ IsListed(all, key)
                /\ Entries(all, key) = UNION {Entries(filters, key) : filters \in FilterLists(cmd)}
  BY <1>3, <1>4, FiltersTogether DEF FilterLists
<1> HIDE DEF all
<1>6. /\ FilterSays(o) = "no" <=>
           \A f \in Entries(all, Global) \cup Entries(all, TypeOf(o)) : ~Speaks(f, Facts[o].shows)
      /\ FilterSays(o) \in {"yes", "no", "error"}
  BY <1>2, <1>5, FilterSaysNo
<1>7. FilterSays(o) = "no" <=>
        \A filters \in FilterLists(cmd), key \in keys :
          \A f \in Entries(filters, key) : ~Speaks(f, Facts[o].shows)
  BY <1>5, <1>6
<1>8. \A filters, key : (\A f \in Entries(filters, key) : ~Speaks(f, Facts[o].shows)) <=>
        ~(/\ key \in DOMAIN filters
          /\ \E i \in DOMAIN filters[key] : Speaks(filters[key][i], Facts[o].shows))
  BY DEF Entries, Under, Elements
<1>9. Spared(cmd, o) <=>
        \E filters \in FilterLists(cmd), key \in keys :
          /\ key \in DOMAIN filters
          /\ \E i \in DOMAIN filters[key] : Speaks(filters[key][i], Facts[o].shows)
  BY DEF Spared, Global, Speaks
<1> QED BY <1>6, <1>7, <1>8, <1>9

\* Whatever a lister returns is where the command may reach.
LEMMA ListedIsInReach ==
  ASSUME NEW t \in TypeName, NEW note, NEW o \in Listed(t, note)
  PROVE  /\ o \in Object /\ TypeOf(o) = t
         /\ t = "DnsZone" => ~Facts[o].fixed
         /\ InReach(cmd, o)
<1>1. o \in Object /\ TypeOf(o) = t
  BY OfTypeIs, ListedOfType
<1>2. PICK how \in Registered[t].lists : Selects(how, o, note)
  BY DEF Listed
<1>3. CASE t \notin SharedTypes
  <2>1. t \notin NamesForScope("tenancy")
    BY <1>3, ScopesAre DEF NamesForScope
  <2>2. CASE t = "Log"
    <3>1. InActive(o, cmd.target)
      BY <1>2, <2>2, ListsAre DEF Selects
    <3>2. Home(o) = cmd.target
      BY <1>1, <2>2, <3>1, FactsOf, AlongAssumption DEF InActive
    <3> QED BY <1>1, <2>1, <2>2, <3>2 DEF InReach, Home
  <2>3. CASE t = "DnsZone"
    <3>1. Home(o) = cmd.target /\ ~Facts[o].fixed
      BY <1>2, <2>3, ListsAre DEF Selects
    <3> QED BY <1>1, <2>1, <2>3, <3>1 DEF InReach, Home
  <2>4. CASE t \notin {"Log", "DnsZone"}
    <3>1. Home(o) = cmd.target
      BY <1>2, <1>3, <2>4, ListsAre DEF Selects
    <3> QED BY <1>1, <2>1, <2>4, <3>1 DEF InReach, Home
  <2> QED BY <2>2, <2>3, <2>4
<1>4. CASE t \in SharedTypes
  <2>1. t \in NamesForScope("tenancy") /\ t # "DnsZone"
    BY <1>4, ScopesAre DEF NamesForScope, SharedTypes
  <2>2. CASE t = "CustomerSecretKey"
    <3>1. Home(o) = cmd.user /\ MatchesPrefix(cmd, o, "entigo-infralib-%s")
      BY <1>2, <2>2, ListsAre DEF Selects
    <3> QED BY <1>1, <2>1, <2>2, <3>1 DEF InReach, Home
  <2>3. CASE t = "Policy"
    <3>1. \/ Home(o) = "root" /\ MatchesPrefix(cmd, o, "%s-")
          \/ Home(o) = cmd.target /\ cmd.target # "root"
      BY <1>2, <2>3, ListsAre DEF Selects
    <3> QED BY <1>1, <2>1, <2>3, <3>1 DEF InReach, Home
  <2>4. CASE t \in {"User", "Group", "DynamicGroup"}
    <3>1. Home(o) = "root" /\ MatchesPrefix(cmd, o, "%s-")
      BY <1>2, <2>4, ListsAre DEF Selects
    <3> QED BY <1>1, <2>1, <2>4, <3>1 DEF InReach, Home
  <2> QED BY <1>4, <2>2, <2>3, <2>4 DEF SharedTypes
<1> QED BY <1>1, <1>3, <1>4

\* What the run has queued and not kept.
TakenOn(o) == item[o] \notin {"none", "filtered"}
GoesAlong(o) == Ours(o) \/ \E p \in GoesWith(o) : Ours(p)

\* A resource only begins to go when the run removes it, or removes what it goes along with, or
\* when what it goes along with is gone.
LEMMA ActiveLeaves ==
  ASSUME Typed, Calls, [Next]_vars, NEW p \in Object, life[p] = "active", life'[p] # "active"
  PROVE  \/ \E o \in Object : /\ Remove(o) /\ phase = "sweep"
                              /\ item[o] = "queued" \/ o \in again \/ call.of = {o}
                              /\ p = o \/ o \in GoesWith(p)
         \/ \E o \in GoesWith(p) : life[o] \in {"going", "scheduled"}
<1>b. life \in [Object -> {"absent", "active", "going", "scheduled", "gone"}]
  BY DEF Typed, TypeOK
<1>1. ASSUME Engine \/ Interrupt \/ \E o \in Object : PutOff(o) \/ StillThere(o) \/ Finish(o)
      PROVE  FALSE
  BY <1>1 DEF Engine, Start, Plan, RetryFailed, GiveUp, Complete, WaitedTooLong, Over, RunAgain,
              Interrupt,
              ReadFirst, List, ListFails, FilterBreaks, PutOff, StillThere, Finish, world
<1>2. ASSUME NEW o \in Object, Completes(o)
      PROVE  o \in GoesWith(p) /\ life[o] \in {"going", "scheduled"}
  <2>1. p \in {o} \cup Facts[o].takes \cup Facts[o].nodes /\ life[o] \in {"going", "scheduled"}
    BY <1>2 DEF Completes
  <2> QED BY <2>1 DEF GoesWith
<1>3. ASSUME NEW o \in Object, Launch(o) PROVE FALSE
  BY <1>3, <1>b DEF Launch
<1>4. ASSUME NEW o \in Object, Remove(o)
      PROVE  /\ phase = "sweep"
             /\ item[o] = "queued" \/ o \in again \/ call.of = {o}
             /\ p = o \/ o \in GoesWith(p)
  <2>1. ASSUME Turn(o) PROVE phase = "sweep" /\ (item[o] = "queued" \/ o \in again)
    BY <2>1 DEF Turn, Due
  <2>2. ASSUME NEW step, InCall(o, step) PROVE phase = "sweep" /\ call.of = {o} /\ call.step = step
    BY <2>2 DEF InCall, Typed, NoCall
  <2>3. ASSUME Delete(o) PROVE o = p
    BY <2>3, <1>b DEF Delete, Fails, world
  <2>4. CASE Request(o)
    BY <2>1, <2>3, <2>4 DEF Request
  <2>5. CASE DeleteTable(o)
    BY <2>1, <2>3, <2>5 DEF DeleteTable
  <2>6. CASE DeleteAfter(o)
    BY <2>2, <2>3, <2>6 DEF DeleteAfter
  <2>7. CASE Schedule(o)
    <3>1. p \in {o} \cup Facts[o].takes
      BY <2>7, <1>b DEF Schedule, Fails, world
    <3> QED BY <2>1, <2>7, <3>1 DEF Schedule, GoesWith
  <2>8. CASE Detach(o)
    <3>1. p = o
      BY <2>8, <1>b DEF Detach, Fails, world
    <3> QED BY <2>1, <2>8, <3>1 DEF Detach
  <2>9. CASE DeleteAndPoll(o)
    <3>1. p = o
      BY <2>9, <1>b DEF DeleteAndPoll, Fails, world
    <3> QED BY <2>1, <2>9, <3>1 DEF DeleteAndPoll
  <2>10. CASE Poll(o) \/ Undelegate(o) \/ StartStages(o) \/ ListStages(o) \/ PassEnds(o) \/ Clear(o)
    BY <2>10 DEF Poll, Undelegate, StartStages, ListStages, PassEnds, Clear, Fails, world
  <2>11. CASE DeleteStage(o)
    <3>1. PICK s \in call.left : life' = life \/ life' = [life EXCEPT ![s] = "going"]
      BY <2>11 DEF DeleteStage
    <3>2. phase = "sweep" /\ call.of = {o} /\ s \in Facts[o].parts
      BY <2>2, <2>11 DEF DeleteStage, Calls
    <3>3. p = s
      BY <3>1, <1>b
    <3> QED BY <3>2, <3>3 DEF GoesWith
  <2> QED BY <1>4, <2>4, <2>5, <2>6, <2>7, <2>8, <2>9, <2>10, <2>11 DEF Remove
<1>5. CASE UNCHANGED vars
  BY <1>5 DEF vars, world
<1> QED BY <1>1, <1>2, <1>3, <1>4, <1>5 DEF Next, Tool, InQueue

\* All that is taken on is at stake, as is all that goes; and only a run that is no dry run ever
\* gets to removing.  That what goes along takes nothing along itself keeps the last part
\* inductive.
Staked ==
  /\ unread \subseteq Scanned
  /\ phase = "sweep" => cmd.noDryRun
  /\ \A o \in Object : TakenOn(o) => o \in Candidates[cmd]
  /\ \A o \in call.of : TakenOn(o)
  /\ \A o \in Object : life[o] \in {"going", "scheduled"} => GoesAlong(o)

LEMMA OnlyOursLeaves ==
  ASSUME Typed, Calls, Staked, [Next]_vars, NEW p \in Object, life[p] = "active", life'[p] # "active"
  PROVE  GoesAlong(p)
<1>1. ASSUME NEW o \in Object, phase = "sweep", item[o] = "queued" \/ o \in again \/ call.of = {o},
             p = o \/ o \in GoesWith(p)
      PROVE  GoesAlong(p)
  <2>1. TakenOn(o)
    BY <1>1 DEF Staked, TakenOn, Typed, TypeOK, Items
  <2>2. Ours(o)
    BY <1>1, <2>1, OursAreCandidates DEF Staked
  <2> QED BY <1>1, <2>2 DEF GoesAlong
<1>2. ASSUME NEW o \in GoesWith(p), life[o] \in {"going", "scheduled"} PROVE GoesAlong(p)
  <2>1. o \in Object /\ p \in Facts[o].takes \cup Facts[o].parts \cup Facts[o].nodes
    BY <1>2 DEF GoesWith
  <2>2. GoesWith(o) = {}
    BY <2>1, FactsOf, AlongAssumption DEF GoesWith
  <2>3. Ours(o)
    BY <1>2, <2>1, <2>2 DEF Staked, GoesAlong
  <2> QED BY <1>2, <2>3 DEF GoesAlong
<1> QED BY <1>1, <1>2, ActiveLeaves

\* A Remove is that of an item the run has taken on, and the only one in progress.
LEMMA RemovesTakenOn ==
  ASSUME Typed, Staked, NEW o \in Object, Remove(o)
  PROVE  /\ TakenOn(o) /\ phase = "sweep"
         /\ UNCHANGED <<cmd, phase, scan>>
         /\ call'.of \subseteq {o}
<1>1. ASSUME Turn(o) PROVE TakenOn(o) /\ phase = "sweep" /\ UNCHANGED <<cmd, phase, scan>>
  BY <1>1 DEF Turn, Due, TakenOn, Typed, TypeOK, Items
<1>2. ASSUME NEW step, InCall(o, step)
      PROVE  TakenOn(o) /\ phase = "sweep" /\ call.of = {o} /\ UNCHANGED <<cmd, phase, scan>>
  BY <1>2 DEF InCall, Typed, NoCall, Staked
<1>3. TakenOn(o) /\ phase = "sweep" /\ UNCHANGED <<cmd, phase, scan>>
  BY <1>1, <1>2 DEF Remove, Request, Schedule, Detach, Clear, DeleteTable, DeleteAndPoll, Poll, Undelegate,
                    StartStages, ListStages, DeleteStage, PassEnds, DeleteAfter
<1>a. ASSUME Delete(o) \/ Fails(o) \/ Returns(o, "asked") \/ Returns(o, "failed") \/ Returns(o, "deferred")
      PROVE  call'.of = {}
  BY <1>a DEF Delete, Fails, Returns, NoCall
<1>b. \A step : AtStep(o, step).of = {o}
  BY DEF AtStep, NoCall
<1>4. CASE Request(o) \/ Schedule(o) \/ Detach(o) \/ Clear(o) \/ DeleteTable(o) \/ Poll(o) \/ DeleteAfter(o)
  BY <1>3, <1>4, <1>a DEF Request, Schedule, Detach, Clear, DeleteTable, Poll, DeleteAfter
<1>5. CASE DeleteAndPoll(o) \/ Undelegate(o) \/ StartStages(o) \/ PassEnds(o)
  BY <1>3, <1>5, <1>a, <1>b DEF DeleteAndPoll, Undelegate, StartStages, PassEnds
<1>6. CASE ListStages(o)
  <2>1. ASSUME NEW stages, call' = [AtStep(o, "pass") EXCEPT !.left = stages] PROVE call'.of = {o}
    BY <2>1 DEF AtStep, NoCall
  <2> QED BY <1>3, <1>6, <1>a, <1>b, <2>1 DEF ListStages
<1>7. CASE DeleteStage(o)
  <2>1. PICK s \in call.left : \/ call' = [call EXCEPT !.left = @ \ {s}, !.progress = TRUE]
                               \/ call' = [call EXCEPT !.left = @ \ {s}]
    BY <1>7 DEF DeleteStage
  <2>2. call'.of = call.of
    BY <2>1 DEF Typed, TypeOK, Call
  <2>3. call.of = {o}
    BY <1>7 DEF DeleteStage, InCall
  <2> QED BY <1>3, <2>2, <2>3
<1> QED BY <1>4, <1>5, <1>6, <1>7 DEF Remove

LEMMA StakedStep == ASSUME Typed, Calls, Staked, [Next]_vars PROVE Staked'
<1>a. item \in [Object -> ItemState] /\ unread \subseteq TypeName /\ again \subseteq Items("failed")
  BY DEF Typed, TypeOK
<1>b. cmd' = cmd
  <2>1. ASSUME NEW o \in Object, Remove(o) PROVE cmd' = cmd
    BY <2>1, RemovesTakenOn
  <2> QED BY <2>1
          DEF Next, Tool, InQueue, Engine, Start, Plan, RetryFailed, GiveUp, Complete, WaitedTooLong, Over,
              RunAgain, Interrupt, ReadFirst, List, ListFails, FilterBreaks, PutOff, StillThere, Finish,
              Completes, Launch, vars
<1>c. \A o \in Object : /\ (o \in Candidates[cmd])' = (o \in Candidates[cmd])
                          /\ Ours(o)' = Ours(o) /\ GoesAlong(o)' = GoesAlong(o)
  BY <1>b, CandidatesStay DEF GoesAlong, GoesWith, Facts
<1>d. Scanned' = Scanned
  BY <1>b DEF Scanned
<1>1. unread' \subseteq Scanned
  <2>1. ASSUME NEW o \in Object, Remove(o) PROVE unread' = unread
    BY <2>1, RemovesTakenOn DEF scan
  <2>2. CASE RunAgain \/ Interrupt
    BY <2>2 DEF RunAgain, Interrupt, Forgotten, ToRead
  <2>3. ASSUME NEW t \in unread, ReadFirst(t) \/ List(t) \/ ListFails(t) \/ FilterBreaks(t)
        PROVE  unread' \subseteq unread
    BY <2>3 DEF ReadFirst, List, ListFails, FilterBreaks, scan
  <2>4. ASSUME \/ Start \/ Plan \/ RetryFailed \/ GiveUp \/ Complete \/ WaitedTooLong
               \/ \E o \in Object : PutOff(o) \/ StillThere(o) \/ Finish(o) \/ Completes(o) \/ Launch(o)
               \/ UNCHANGED vars
        PROVE unread' = unread
    BY <2>4 DEF Start, Plan, RetryFailed, GiveUp, Complete, WaitedTooLong, Over, PutOff, StillThere, Finish,
               Completes, Launch, vars, scan
  <2> QED BY <2>1, <2>2, <2>3, <2>4 DEF Next, Tool, Engine, InQueue, Staked
<1>2. phase' = "sweep" => cmd.noDryRun
  <2>1. ASSUME NEW o \in Object, Remove(o) PROVE phase' = phase
    BY <2>1, RemovesTakenOn
  <2>2. CASE Plan
    BY <2>2 DEF Plan
  <2>3. ASSUME phase' = "sweep", ~Plan, ~\E o \in Object : Remove(o) PROVE phase' = phase
    BY <2>3 DEF Next, Tool, InQueue, Engine, Start, RetryFailed, GiveUp, Complete, WaitedTooLong, Over,
               RunAgain, Interrupt, ReadFirst, List, ListFails, FilterBreaks, PutOff, StillThere, Finish,
               Completes, Launch, vars
  <2> QED BY <2>1, <2>2, <2>3 DEF Staked
<1>3. ASSUME NEW o \in Object, TakenOn(o)' PROVE o \in Candidates[cmd]
  <2>1. CASE TakenOn(o)
    BY <2>1 DEF Staked
  <2>2. CASE ~TakenOn(o)
    <3>1. ASSUME NEW q \in Object, Remove(q) PROVE FALSE
      BY <3>1, <2>2, <1>3, <1>a, RemovesTakenOn, RemoveMoves DEF TakenOn
    <3>2. ASSUME NEW q \in Object, PutOff(q) \/ StillThere(q) \/ Finish(q) \/ Completes(q) \/ Launch(q)
          PROVE  FALSE
      BY <3>2, <2>2, <1>3, <1>a DEF TakenOn, PutOff, StillThere, Finish, Completes, Launch, Due, ToJudge
    <3>3. CASE Interrupt \/ UNCHANGED vars
      BY <3>3, <2>2, <1>3 DEF TakenOn, Interrupt, Forgotten, vars
    <3>4. ASSUME \/ Start \/ Plan \/ RetryFailed \/ GiveUp \/ Complete \/ WaitedTooLong \/ RunAgain
                 \/ \E t \in unread : ReadFirst(t) \/ ListFails(t) \/ FilterBreaks(t)
          PROVE  FALSE
      BY <3>4, <2>2, <1>3 DEF TakenOn, Start, Plan, RetryFailed, GiveUp, Complete, WaitedTooLong, Over,
                              RunAgain, Forgotten, ReadFirst, ListFails, FilterBreaks
    <3>5. ASSUME NEW t \in unread, List(t) PROVE o \in Candidates[cmd]
      <4>1. PICK found \in SUBSET Found(t) :
              /\ \A p \in found : FilterSays(p) # "error"
              /\ item' = [p \in Object |->
                            IF p \notin found THEN item[p]
                            ELSE IF FilterSays(p) = "yes" THEN "filtered" ELSE "queued"]
        BY <3>5 DEF List
      <4>2. o \in Found(t) /\ FilterSays(o) \notin {"yes", "error"}
        BY <4>1, <2>2, <1>3 DEF TakenOn
      <4>3. t \in TypeName /\ ~Rejected(cmd) /\ AskedFor(cmd, t)
        BY ScannedAreAskedFor DEF Staked
      <4>4. TypeOf(o) = t /\ (t = "DnsZone" => ~Facts[o].fixed) /\ InReach(cmd, o)
        BY <4>2, <4>3, ListedIsInReach DEF Found
      <4>5. ~Spared(cmd, o)
        BY <4>2, <4>3, NoneSpeaks
      <4> QED BY <4>3, <4>4, <4>5, OursAreCandidates DEF Candidates
    <3> QED BY <3>1, <3>2, <3>3, <3>4, <3>5 DEF Next, Tool, Engine, InQueue
  <2> QED BY <2>1, <2>2
<1>4. ASSUME NEW o \in call'.of PROVE TakenOn(o)'
  <2>a. o \in Object
    BY TypedStep DEF Typed, TypeOK, Call
  <2>1. ASSUME NEW q \in Object, Remove(q) PROVE TakenOn(o)'
    <3>1. o = q /\ TakenOn(q)
      BY <2>1, <1>4, RemovesTakenOn
    <3> QED BY <2>1, <2>a, <3>1, <1>a, RemoveMoves DEF TakenOn
  <2>2. CASE RunAgain \/ Interrupt
    BY <2>2, <1>4 DEF RunAgain, Interrupt, Forgotten, NoCall
  <2>3. ASSUME call' = call, phase # "scan", ~RunAgain, ~Interrupt, ~\E q \in Object : Remove(q)
        PROVE  TakenOn(o)'
    <3>1. TakenOn(o)
      BY <2>3, <1>4 DEF Staked
    <3> QED BY <2>3, <2>a, <3>1, <1>a
            DEF TakenOn, Next, Tool, InQueue, Engine, Start, Plan, RetryFailed, GiveUp, Complete, WaitedTooLong, Over,
                ReadFirst, List, ListFails, FilterBreaks, PutOff, StillThere, Finish, Completes, Launch, vars
  <2>4. ASSUME ~RunAgain, ~Interrupt, ~\E q \in Object : Remove(q) PROVE call' = call
    BY <2>4 DEF Next, Tool, InQueue, Engine, Start, Plan, RetryFailed, GiveUp, Complete, WaitedTooLong, Over,
                ReadFirst, List, ListFails, FilterBreaks, PutOff, StillThere, Finish, Completes, Launch, vars
  <2>5. phase = "scan" => call.of = {}
    BY DEF Typed, NoCall
  <2> QED BY <2>1, <2>2, <2>3, <2>4, <2>5, <1>4
<1>5. ASSUME NEW o \in Object, life'[o] \in {"going", "scheduled"} PROVE GoesAlong(o)
  <2>1. CASE life[o] = "active"
    BY <2>1, <1>5, OnlyOursLeaves
  <2>2. CASE life[o] # "active"
    BY <2>2, <1>5, LifeMoves DEF Staked, Typed, TypeOK
  <2> QED BY <2>1, <2>2
<1> QED BY <1>b, <1>c, <1>d, <1>1, <1>2, <1>3, <1>4, <1>5 DEF Staked

LEMMA AlwaysStaked == Spec => [](Typed /\ Calls /\ Staked)
<1>1. ASSUME Init PROVE Calls /\ Staked
  <2>1. /\ unread = ToRead /\ phase = "start" /\ call = NoCall
        /\ \A o \in Object : item[o] = "none" /\ life[o] \in {"active", "absent"}
    BY <1>1 DEF Init
  <2> QED BY <2>1, NoCallIsOne DEF Staked, ToRead, TakenOn, NoCall
<1>2. Typed /\ Calls /\ Staked /\ [Next]_vars => Calls' /\ Staked'
  BY CallMoves, StakedStep
<1> QED BY <1>1, <1>2, TypedInit, TypedStep, PTL DEF Spec

\* Whatever is configured, whichever calls fail and however often a run is cut off and the
\* command given again, nothing in the tenancy begins to go but what the command puts at stake,
\* or what goes along with that: the listers' selections, the type lists, the presets and the
\* filters, the dry run and the order of a Remove's calls together take no more than AtStake says.
THEOREM NothingElseGoes == Spec => OnlyOurs
<1>1. Typed /\ Calls /\ Staked /\ [Next]_vars =>
        [\A o \in Object :
           life[o] = "active" /\ life'[o] # "active" => Ours(o) \/ \E p \in GoesWith(o) : Ours(p)]_vars
  BY OnlyOursLeaves DEF GoesAlong
<1> QED BY <1>1, AlwaysStaked, PTL DEF Spec, OnlyOurs

-----------------------------------------------------------------------------
(* What a kept resource needs. *)

ChainTypes == {"Certificate", "CertificateAuthority", "Key", "Vault"}

LEMMA ChainTypesAre ==
  /\ ChainTypes \subseteq TypeName
  /\ \A t \in ChainTypes : Registered[t].removal = "schedule"
  /\ Implementing("Blocks") = {"Certificate", "CertificateAuthority", "Key"}
  /\ \A t \in TypeName : \A u \in Implementing("Blocks") : u \in DependencyGraph[t] =>
       <<u, t>> \in {<<"Certificate", "CertificateAuthority">>, <<"CertificateAuthority", "Key">>,
                     <<"Key", "Vault">>}
<1> DEFINE NoBlocks(t) == "Blocks" \notin Registered[t].implements
           Outside(t) == "Certificate" \notin Registered[t].dependsOn /\ "CertificateAuthority" \notin Registered[t].dependsOn
                           /\ "Key" \notin Registered[t].dependsOn
<1>1. ChainTypes \subseteq TypeName
  BY TypesAre DEF ChainTypes
<1>2. /\ Registered["Certificate"].removal = "schedule" /\ Registered["CertificateAuthority"].removal = "schedule"
      /\ Registered["Key"].removal = "schedule" /\ Registered["Vault"].removal = "schedule"
  BY DEF Registered, Certificate, CertificateAuthority, Key, Vault, Scheduled, After, Plain
<1>3. /\ "Blocks" \in Registered["Certificate"].implements
      /\ "Blocks" \in Registered["CertificateAuthority"].implements
      /\ "Blocks" \in Registered["Key"].implements /\ "Blocks" \notin Registered["Vault"].implements
  BY DEF Registered, Certificate, CertificateAuthority, Key, Vault, Scheduled, After, Plain
<1>4. /\ Registered["Certificate"].dependsOn = {} /\ Registered["CertificateAuthority"].dependsOn = {"Certificate"}
      /\ Registered["Key"].dependsOn = {"CertificateAuthority"} /\ Registered["Vault"].dependsOn = {"Key"}
  BY DEF Registered, Certificate, CertificateAuthority, Key, Vault, Scheduled, After, Plain
<1>5. /\ NoBlocks("Vcn") /\ NoBlocks("Subnet") /\ NoBlocks("NetworkSecurityGroup")
      /\ NoBlocks("InternetGateway") /\ NoBlocks("NatGateway") /\ NoBlocks("ServiceGateway")
      /\ NoBlocks("RouteTable") /\ NoBlocks("OrphanedVnic") /\ NoBlocks("LoadBalancer")
      /\ NoBlocks("NetworkLoadBalancer") /\ NoBlocks("DnsZone") /\ NoBlocks("OkeNodePool")
      /\ NoBlocks("OkeCluster") /\ NoBlocks("ContainerInstance") /\ NoBlocks("BlockVolume")
      /\ NoBlocks("Bucket") /\ NoBlocks("BuildPipeline") /\ NoBlocks("DeployPipeline")
      /\ NoBlocks("BuildRun") /\ NoBlocks("DevopsRepository") /\ NoBlocks("DevopsProject")
      /\ NoBlocks("Log") /\ NoBlocks("LogGroup") /\ NoBlocks("OnsTopic") /\ NoBlocks("User")
      /\ NoBlocks("Group") /\ NoBlocks("DynamicGroup") /\ NoBlocks("CustomerSecretKey")
      /\ NoBlocks("Policy")
  BY DEF Registered, Plain, After, Shared,
         Vcn, Subnet, NetworkSecurityGroup, InternetGateway, NatGateway, ServiceGateway,
         RouteTable, OrphanedVnic, LoadBalancer, NetworkLoadBalancer, DnsZone,
         OkeNodePool, OkeCluster, ContainerInstance, BlockVolume, Bucket, BuildPipeline,
         DeployPipeline, BuildRun, DevopsRepository, DevopsProject, Log, LogGroup,
         OnsTopic, User, Group, DynamicGroup, CustomerSecretKey, Policy
<1>6. /\ Outside("Vcn") /\ Outside("Subnet") /\ Outside("NetworkSecurityGroup")
      /\ Outside("InternetGateway") /\ Outside("NatGateway") /\ Outside("ServiceGateway")
      /\ Outside("RouteTable") /\ Outside("OrphanedVnic") /\ Outside("LoadBalancer")
      /\ Outside("NetworkLoadBalancer") /\ Outside("DnsZone") /\ Outside("OkeNodePool")
      /\ Outside("OkeCluster") /\ Outside("ContainerInstance") /\ Outside("BlockVolume")
      /\ Outside("Bucket") /\ Outside("BuildPipeline") /\ Outside("DeployPipeline")
      /\ Outside("BuildRun") /\ Outside("DevopsRepository") /\ Outside("DevopsProject")
      /\ Outside("Log") /\ Outside("LogGroup") /\ Outside("OnsTopic") /\ Outside("User")
      /\ Outside("Group") /\ Outside("DynamicGroup") /\ Outside("CustomerSecretKey")
      /\ Outside("Policy")
  BY DEF VnicOwners, Registered, Plain, After, Shared,
         Vcn, Subnet, NetworkSecurityGroup, InternetGateway, NatGateway, ServiceGateway,
         RouteTable, OrphanedVnic, LoadBalancer, NetworkLoadBalancer, DnsZone,
         OkeNodePool, OkeCluster, ContainerInstance, BlockVolume, Bucket, BuildPipeline,
         DeployPipeline, BuildRun, DevopsRepository, DevopsProject, Log, LogGroup,
         OnsTopic, User, Group, DynamicGroup, CustomerSecretKey, Policy
<1> HIDE DEF NoBlocks, Outside
<1>7. \A t \in TypeName \ ChainTypes : NoBlocks(t) /\ Outside(t)
  BY <1>5, <1>6, TypesAre DEF SharedTypes, ChainTypes
<1>8. Implementing("Blocks") = {"Certificate", "CertificateAuthority", "Key"}
  BY <1>1, <1>3, <1>7 DEF Implementing, ChainTypes, NoBlocks
<1>9. \A t \in TypeName : \A u \in {"Certificate", "CertificateAuthority", "Key"} :
        u \in DependencyGraph[t] =>
          <<u, t>> \in {<<"Certificate", "CertificateAuthority">>, <<"CertificateAuthority", "Key">>,
                        <<"Key", "Vault">>}
  BY <1>1, <1>4, <1>7 DEF DependencyGraph, ChainTypes, Outside
<1> QED BY <1>1, <1>2, <1>8, <1>9 DEF ChainTypes

\* The chain has three links, and its parts are removed by a schedule.
LEMMA NeedsAre ==
  \A h \in Object : \A o \in Facts[h].needs :
    /\ o \in Object
    /\ <<TypeOf(h), TypeOf(o)>> \in {<<"Certificate", "CertificateAuthority">>, <<"CertificateAuthority", "Key">>,
                                    <<"Key", "Vault">>}
    /\ TypeOf(h) \in ChainTypes /\ TypeOf(o) \in ChainTypes
    /\ DependsOnIt(o, h) /\ o \in Blocks(h)
BY ChainTypesAre, ChainAssumption, FactsOf DEF ChainTypes, Removal, DependsOnIt, Blocks

LEMMA LinksAre == Links = 3
<1>1. Cardinality({"Certificate"}) = 1 /\ IsFiniteSet({"Certificate"})
  BY FS_Singleton
<1>2. Cardinality({"Certificate"} \cup {"CertificateAuthority"}) = 2
      /\ IsFiniteSet({"Certificate"} \cup {"CertificateAuthority"})
  BY <1>1, FS_AddElement
<1>3. Cardinality(({"Certificate"} \cup {"CertificateAuthority"}) \cup {"Key"}) = 3
  BY <1>2, FS_AddElement
<1>4. ({"Certificate"} \cup {"CertificateAuthority"}) \cup {"Key"} = {"Certificate", "CertificateAuthority", "Key"}
  OBVIOUS
<1> QED BY <1>3, <1>4, ChainTypesAre DEF Links

\* Three steps along the links.
Further(links, S, among) == S \cup ((UNION {links[h] : h \in S}) \cap among)

LEMMA ThreeSteps ==
  ASSUME NEW links, NEW from, NEW among
  PROVE  Along(Links, links, from, among) =
           Further(links, Further(links, Further(links, from, among), among), among)
<1> DEFINE S(X) == X \cup ((UNION {links[h] : h \in X}) \cap among)
           Good(f) == f = [n \in 0..3 |-> IF n = 0 THEN from ELSE S(f[n - 1])]
           g == [n \in 0..3 |-> IF n = 0 THEN from ELSE IF n = 1 THEN S(from)
                                ELSE IF n = 2 THEN S(S(from)) ELSE S(S(S(from)))]
           chosen == CHOOSE f : Good(f)
<1>1. Along(Links, links, from, among) = chosen[3]
  BY LinksAre DEF Along
<1> HIDE DEF S
<1>2. Good(g)
  <2>1. \A n \in 0..3 : n = 0 \/ n = 1 \/ n = 2 \/ n = 3
    OBVIOUS
  <2>2. \A n \in 0..3 : g[n] = IF n = 0 THEN from ELSE S(g[n - 1])
    BY <2>1
  <2> QED BY <2>2
<1>3. Good(chosen)
  BY <1>2
<1> HIDE DEF chosen
<1>4. chosen[0] = from /\ chosen[1] = S(chosen[0]) /\ chosen[2] = S(chosen[1]) /\ chosen[3] = S(chosen[2])
  BY <1>3
<1> QED BY <1>1, <1>4 DEF S, Further

\* Three sweeps are enough for planDependents: what a kept item needs is kept.
LEMMA NeededIsKept ==
  ASSUME NEW h \in Object, h \in KeptByThePlan, NEW o \in Facts[h].needs, item[o] = "queued"
  PROVE  o \in KeptByThePlan
<1> DEFINE queued == {p \in Object : item[p] = "queued"}
           r0 == {p \in Object : item[p] = "filtered"}
           r1 == Further(BlockLinks, r0, queued)
           r2 == Further(BlockLinks, r1, queued)
           r3 == Further(BlockLinks, r2, queued)
<1>1. KeptByThePlan = r3
  BY ThreeSteps DEF KeptByThePlan
<1>2. r0 \subseteq Object /\ r1 \subseteq Object /\ r2 \subseteq Object /\ queued \subseteq Object
  BY DEF Further
<1>3. \A g \in Object : BlockLinks[g] = Blocks(g) /\ Blocks(g) \subseteq Facts[g].needs
  BY DEF BlockLinks, Blocks
<1>4. o \in queued /\ o \in BlockLinks[h]
  BY NeedsAre, <1>3
<1>5. \A g, p : g \in Object /\ p \in BlockLinks[g] =>
         <<TypeOf(g), TypeOf(p)>> \in {<<"Certificate", "CertificateAuthority">>,
                                        <<"CertificateAuthority", "Key">>, <<"Key", "Vault">>}
  BY NeedsAre, <1>3
<1> HIDE DEF queued, r0
<1>6. CASE h \in r2
  BY <1>1, <1>4, <1>6 DEF Further
<1>7. CASE h \notin r2
  <2>1. PICK g \in r2 : h \in BlockLinks[g] /\ g \notin r1
    BY <1>1, <1>7 DEF Further
  <2>2. PICK f \in r1 : g \in BlockLinks[f] /\ f \notin r0
    BY <2>1 DEF Further
  <2>3. PICK e \in r0 : f \in BlockLinks[e]
    BY <2>2 DEF Further
  <2>4. e \in Object /\ f \in Object /\ g \in Object
    BY <1>2, <2>1, <2>2, <2>3
  <2>5. TypeOf(e) = "Certificate" \/ TypeOf(e) = "CertificateAuthority" \/ TypeOf(e) = "Key"
    BY <1>5, <2>3, <2>4
  <2>6. TypeOf(f) \in {"CertificateAuthority", "Key", "Vault"}
    BY <1>5, <2>3, <2>4
  <2>7. TypeOf(g) \in {"Key", "Vault"}
    BY <1>5, <2>2, <2>4, <2>6
  <2>8. TypeOf(h) = "Vault"
    BY <1>5, <2>1, <2>4, <2>7
  <2> QED BY <2>8, <1>4, <1>5
<1> QED BY <1>6, <1>7

\* A set closed under the links holds the whole chain.
LEMMA ChainWithin ==
  ASSUME NEW h \in Object, NEW K \in SUBSET Object, h \in K,
         \A p \in K : \A o \in Facts[p].needs : item[o] # "none" => o \in K
  PROVE  Chain(h) \subseteq K \ {h}
<1> DEFINE links == [p \in Object |-> Facts[p].needs]
           listed == {p \in Object : item[p] # "none"}
<1>1. Chain(h) = Further(links, Further(links, Further(links, {h}, listed), listed), listed) \ {h}
  BY ThreeSteps DEF Chain
<1>2. ASSUME NEW S, S \subseteq K PROVE Further(links, S, listed) \subseteq K
  BY <1>2 DEF Further
<1> HIDE DEF links, listed
<1> QED BY <1>1, <1>2

LEMMA NeededTypes ==
  ASSUME NEW h \in Object, NEW o \in Chain(h)
  PROVE  o \in Object /\ TypeOf(o) \in {"CertificateAuthority", "Key", "Vault"}
<1> DEFINE K == {h} \cup {p \in Object : TypeOf(p) \in {"CertificateAuthority", "Key", "Vault"}}
<1>1. \A p \in K : \A n \in Facts[p].needs : item[n] # "none" => n \in K
  BY NeedsAre
<1>2. K \in SUBSET Object /\ h \in K
  OBVIOUS
<1> HIDE DEF K
<1>3. Chain(h) \subseteq K \ {h}
  BY <1>1, <1>2, ChainWithin
<1> QED BY <1>3 DEF K

\* What something needs is removed by a schedule, and only when nothing in the queue needs it.
LEMMA ChainRemoval ==
  ASSUME Calls, NEW q \in Object, Removal(q) = "schedule", Remove(q)
  PROVE  Schedule(q) /\ Turn(q)
BY DEF Remove, Request, Schedule, Detach, Clear, DeleteTable, DeleteAndPoll, Poll, Undelegate, StartStages,
       ListStages, DeleteStage, PassEnds, DeleteAfter, Calls, InCall

LEMMA NeededIsNotDue ==
  ASSUME NEW h \in Object, NEW o \in Facts[h].needs, item[h] \in {"queued", "deferred"}
  PROVE  ~(Due(o) /\ ~Behind(o))
<1>1. o \in Object /\ DependsOnIt(o, h) /\ o \in Blocks(h)
  BY NeedsAre
<1>2. CASE item[h] = "deferred"
  BY <1>1, <1>2 DEF Behind
<1>3. CASE item[h] = "queued"
  <2>1. TypeOf(h) \in TypeName
    BY NeedsAre, ChainTypesAre DEF ChainTypes
  <2>2. StillQueued(TypeOf(h))
    BY <1>3, <2>1, OfTypeIs DEF StillQueued
  <2> QED BY <1>1, <2>2 DEF DependsOnIt, Due
<1> QED BY <1>2, <1>3

\* In a sweep, what a kept item needs is kept as well, and as long as nothing has failed what a
\* queued or deferred item needs has not been asked to go.  A vault takes its keys with it at once.
Fresh(o) == item[o] \in {"none", "filtered", "queued"}
Unasked(o) == item[o] \in {"none", "filtered", "queued", "deferred"}
KeptChains ==
  \A h \in Object : \A o \in Facts[h].needs : item[h] = "filtered" => item[o] \in {"none", "filtered"}
HeldChains ==
  /\ \A h \in Object : \A o \in Facts[h].needs : item[h] \in {"queued", "deferred"} => Unasked(o)
  /\ \A o \in Object : TypeOf(o) \in ChainTypes => item[o] # "failed"
KeysFollow ==
  \A k \in Object : TypeOf(k) = "Key" =>
    \A v \in GoesWith(k) : life[v] \in {"going", "scheduled"} => life[k] # "active"
Chains ==
  /\ phase \in {"start", "scan"} => \A o \in Object : Fresh(o)
  /\ phase = "sweep" => KeptChains
  /\ phase = "sweep" /\ faults = 0 => HeldChains
  /\ KeysFollow

\* Only a schedule takes away what something needs, its own or that of the vault it goes with.
LEMMA WhatGoesAlong ==
  ASSUME NEW o \in Object, TypeOf(o) \in {"CertificateAuthority", "Key", "Vault"}, NEW v \in GoesWith(o)
  PROVE  /\ v \in Object /\ TypeOf(o) = "Key" /\ TypeOf(v) = "Vault"
         /\ o \in Facts[v].takes /\ v \in Facts[o].needs
         /\ GoesWith(v) = {}
<1>1. \A p, q \in Object : TypeOf(p) \in {"CertificateAuthority", "Key", "Vault"} /\ q \in GoesWith(p) =>
         p \in Facts[q].takes /\ TypeOf(p) = "Key" /\ q \in Facts[p].needs
  BY FactsOf, ChainAssumption DEF GoesWith
<1>2. v \in Object
  BY DEF GoesWith
<1>3. o \in Facts[v].takes /\ TypeOf(o) = "Key" /\ v \in Facts[o].needs
  BY <1>1, <1>2
<1>4. TypeOf(v) = "Vault"
  BY <1>3, NeedsAre
<1>5. GoesWith(v) = {}
  BY <1>1, <1>2, <1>4 DEF GoesWith
<1> QED BY <1>2, <1>3, <1>4, <1>5

LEMMA NeededLeaves ==
  ASSUME Typed, Calls, [Next]_vars, NEW o \in Object,
         TypeOf(o) \in {"CertificateAuthority", "Key", "Vault"}, life[o] = "active", life'[o] # "active"
  PROVE  \/ \E q \in {o} \cup GoesWith(o) : /\ q \in Object /\ Schedule(q) /\ Turn(q) /\ phase = "sweep"
                                            /\ q = o \/ (q \in Facts[o].needs /\ TypeOf(o) = "Key")
         \/ \E q \in GoesWith(o) : TypeOf(o) = "Key" /\ life[q] \in {"going", "scheduled"}
<1>1. \A q \in GoesWith(o) : q \in Facts[o].needs /\ TypeOf(o) = "Key" /\ q \in Object
  BY WhatGoesAlong
<1>2. Removal(o) = "schedule" /\ \A q \in GoesWith(o) : Removal(q) = "schedule"
  BY <1>1, NeedsAre, ChainTypesAre DEF Removal, ChainTypes
<1>3. ASSUME NEW q \in Object, Remove(q), phase = "sweep", o = q \/ q \in GoesWith(o)
      PROVE  Schedule(q) /\ Turn(q)
  BY <1>2, <1>3, ChainRemoval
<1> QED BY <1>1, <1>3, ActiveLeaves

LEMMA KeysFollowStep ==
  ASSUME Typed, Calls, KeysFollow, [Next]_vars
  PROVE  KeysFollow'
<1>a. life \in [Object -> {"absent", "active", "going", "scheduled", "gone"}]
  BY DEF Typed, TypeOK
<1> SUFFICES ASSUME NEW k \in Object, TypeOf(k) = "Key", NEW v \in GoesWith(k),
                    life'[v] \in {"going", "scheduled"}
             PROVE  life'[k] # "active"
  BY DEF KeysFollow, GoesWith, TypeOf, Facts
<1>1. v \in Object /\ TypeOf(v) = "Vault" /\ GoesWith(v) = {} /\ k \in Facts[v].takes
  BY WhatGoesAlong
<1>2. life'[k] = "active" => life[k] = "active"
  BY LifeMoves, FactsOf, AccountAssumption
<1>3. CASE life[v] \in {"going", "scheduled"}
  BY <1>2, <1>3 DEF KeysFollow
<1>4. CASE life[v] \notin {"going", "scheduled"}
  <2>1. life[v] = "active"
    BY <1>a, <1>1, <1>4, LifeMoves DEF There
  <2>2. Schedule(v)
    BY <1>1, <2>1, NeededLeaves
  <2>3. life' # life
    BY <2>1
  <2> QED BY <1>1, <1>2, <2>1, <2>2, <2>3 DEF Schedule, Fails, world
<1> QED BY <1>3, <1>4

\* What becomes of the items.
LEMMA ItemsInASweep ==
  ASSUME Typed, Calls, Staked, [Next]_vars
  PROVE  /\ phase' \in {"start", "scan"} =>
              \/ \A o \in Object : item'[o] = "none"
              \/ phase \in {"start", "scan"} /\ \A o \in Object : Fresh(o) => Fresh(o)'
         /\ phase' = "sweep" => Plan \/ phase = "sweep"
         /\ phase = "sweep" /\ phase' = "sweep" =>
              \/ item' = item
              \/ \E q \in Object : /\ TakenOn(q)
                                   /\ \/ Remove(q)
                                      \/ PutOff(q) /\ item' = [item EXCEPT ![q] = "deferred"]
                                      \/ StillThere(q) /\ item' = [item EXCEPT ![q] = "asked"]
                                      \/ Finish(q) /\ item' = [item EXCEPT ![q] = "finished"]
         /\ faults' = 0 => faults = 0
<1>a. item \in [Object -> ItemState] /\ faults \in Nat
  BY AccountAssumption DEF Typed, TypeOK
<1>f. Fault => faults' # 0
  BY <1>a DEF Fault
<1>1. ASSUME NEW q \in Object, Remove(q)
      PROVE  TakenOn(q) /\ phase = "sweep" /\ phase' = phase /\ (faults' = 0 => faults = 0)
  <2>1. ASSUME Delete(q) \/ Fails(q) PROVE faults' = 0 => faults = 0
    BY <2>1, <1>f DEF Delete, Fails
  <2> QED BY <1>1, <2>1, <1>f, RemovesTakenOn
          DEF Remove, Request, Schedule, Detach, Clear, DeleteTable, DeleteAndPoll, Poll, Undelegate,
              StartStages, ListStages, DeleteStage, PassEnds, DeleteAfter
<1>2. ASSUME NEW q \in Object, PutOff(q) \/ StillThere(q) \/ Finish(q)
      PROVE  /\ TakenOn(q) /\ phase = "sweep" /\ phase' = phase /\ faults' = faults
             /\ \/ PutOff(q) /\ item' = [item EXCEPT ![q] = "deferred"]
                \/ StillThere(q) /\ item' = [item EXCEPT ![q] = "asked"]
                \/ Finish(q) /\ item' = [item EXCEPT ![q] = "finished"]
  BY <1>2 DEF PutOff, StillThere, Finish, Due, ToJudge, TakenOn
<1>3. ASSUME NEW q \in Object, Completes(q) \/ Launch(q)
      PROVE  UNCHANGED <<item, phase, faults>>
  BY <1>3 DEF Completes, Launch
<1>4. ASSUME NEW t \in unread, List(t)
      PROVE  /\ phase = "scan" /\ phase' = phase /\ (faults' = 0 => faults = 0)
             /\ \A o \in Object : Fresh(o) => Fresh(o)'
  BY <1>4, <1>f DEF List, Fresh
<1>5. ASSUME NEW t \in unread, ReadFirst(t) \/ ListFails(t) \/ FilterBreaks(t)
      PROVE  item' = item /\ phase' \in {phase, "over"} /\ (faults' = 0 => faults = 0)
  BY <1>5, <1>f DEF ReadFirst, ListFails, FilterBreaks
<1>6. CASE Start
  BY <1>6 DEF Start, Fresh
<1>7. CASE Plan
  <2>1. PICK plan \in Plans : /\ IF plan.sound THEN UNCHANGED faults ELSE Fault
                              /\ phase = "scan" /\ phase' \in {"sweep", "over"}
    BY <1>7 DEF Plan
  <2> QED BY <1>7, <2>1, <1>f
<1>8. CASE RetryFailed \/ GiveUp \/ Complete \/ WaitedTooLong
  BY <1>8 DEF RetryFailed, GiveUp, Complete, WaitedTooLong, OnlyFailures, Over
<1>9. CASE RunAgain \/ Interrupt
  BY <1>9, <1>f DEF RunAgain, Interrupt, Forgotten
<1>10. CASE UNCHANGED vars
  BY <1>10 DEF vars, Fresh
<1>11. ASSUME item' = item PROVE \A o \in Object : Fresh(o) => Fresh(o)'
  BY <1>11 DEF Fresh
<1>12. CASE \E q \in Object : Remove(q) \/ PutOff(q) \/ StillThere(q) \/ Finish(q)
  BY <1>1, <1>2, <1>12
<1>13. CASE \E q \in Object : Completes(q) \/ Launch(q)
  BY <1>3, <1>11, <1>13
<1>14. CASE \E t \in unread : ReadFirst(t) \/ List(t) \/ ListFails(t) \/ FilterBreaks(t)
  BY <1>4, <1>5, <1>11, <1>14 DEF ReadFirst, ListFails, FilterBreaks
<1> QED BY <1>6, <1>7, <1>8, <1>9, <1>10, <1>12, <1>13, <1>14 DEF Next, Tool, Engine, InQueue

LEMMA KeptChainsStep ==
  ASSUME Typed, Calls, Staked, Chains, [Next]_vars, phase' = "sweep"
  PROVE  KeptChains'
<1>a. item \in [Object -> ItemState]
  BY DEF Typed, TypeOK
<1> SUFFICES ASSUME NEW h \in Object, NEW o \in Facts[h].needs, item'[h] = "filtered"
             PROVE  item'[o] \in {"none", "filtered"}
  BY DEF KeptChains, Facts
<1>b. o \in Object
  BY NeedsAre
<1>1. CASE Plan
  <2>1. PICK plan \in Plans :
          item' = [p \in Object |-> IF item[p] # "queued" THEN item[p]
                                    ELSE IF p \in plan.kept THEN "filtered"
                                    ELSE IF p \in plan.deferred THEN "deferred" ELSE "queued"]
    BY <1>1 DEF Plan
  <2>2. plan.kept = KeptByThePlan
    <3> DEFINE queued == {p \in Object : item[p] = "queued"} \ KeptByThePlan
               defers == {p \in queued : DefersItself(p)}
               made(said) == [kept |-> KeptByThePlan, deferred |-> Along(Links, BlockLinks, said, queued),
                              queued |-> queued, sound |-> said = defers]
    <3>1. Plans = {made(said) : said \in SUBSET defers}
      BY Zenon DEF Plans
    <3>2. \A said : made(said).kept = KeptByThePlan
      OBVIOUS
    <3> HIDE DEF made, defers
    <3> QED BY <3>1, <3>2
  <2>3. h \in KeptByThePlan
    <3>1. {p \in Object : item[p] = "filtered"} \subseteq KeptByThePlan
      BY ThreeSteps DEF KeptByThePlan, Further
    <3> QED BY <2>1, <2>2, <3>1
  <2>4. item[o] \in {"none", "filtered", "queued"}
    BY <1>1, <1>b DEF Plan, Chains, Fresh
  <2>5. item[o] = "queued" => o \in KeptByThePlan
    BY <2>3, NeededIsKept
  <2> QED BY <1>b, <2>1, <2>2, <2>4, <2>5
<1>2. CASE phase = "sweep"
  <2>1. \A p \in Object : /\ item'[p] = "filtered" => item[p] = "filtered"
                          /\ item[p] \in {"none", "filtered"} => item'[p] = item[p]
    <3>1. ASSUME NEW q \in Object, TakenOn(q), NEW outcome, outcome # "filtered",
                 item' = [item EXCEPT ![q] = outcome]
          PROVE  \A p \in Object : /\ item'[p] = "filtered" => item[p] = "filtered"
                                   /\ item[p] \in {"none", "filtered"} => item'[p] = item[p]
      BY <3>1, <1>a DEF TakenOn
    <3>2. CASE item' = item
      BY <3>2
    <3> QED BY <1>2, <3>1, <3>2, ItemsInASweep, RemoveMoves
  <2> QED BY <1>2, <1>b, <2>1 DEF Chains, KeptChains
<1> QED BY <1>1, <1>2, ItemsInASweep

LEMMA HeldChainsStep ==
  ASSUME Typed, Calls, Staked, Chains, [Next]_vars, phase' = "sweep", faults' = 0
  PROVE  HeldChains'
<1>a. item \in [Object -> ItemState] /\ again \subseteq Items("failed") /\ faults \in Nat
  BY AccountAssumption DEF Typed, TypeOK
<1>b. faults = 0
  BY ItemsInASweep
<1>c. HeldChains' <=>
        /\ \A h \in Object : \A o \in Facts[h].needs :
             item'[h] \in {"queued", "deferred"} => item'[o] \in {"none", "filtered", "queued", "deferred"}
        /\ \A o \in Object : TypeOf(o) \in ChainTypes => item'[o] # "failed"
  BY DEF HeldChains, Unasked, ChainTypes, Facts, TypeOf
<1>1. CASE Plan
  <2>1. \A p \in Object : item'[p] \in {"none", "filtered", "queued", "deferred"}
    BY <1>1 DEF Plan, Chains, Fresh
  <2> QED BY <1>c, <2>1, NeedsAre
<1>2. CASE phase = "sweep"
  <2>1. HeldChains
    BY <1>2, <1>b DEF Chains
  <2>2. CASE item' = item
    BY <2>1, <2>2, <1>c DEF HeldChains, Unasked
  <2>3. ASSUME NEW q \in Object, PutOff(q), item' = [item EXCEPT ![q] = "deferred"]
        PROVE  HeldChains'
    <3>1. item[q] = "queued"
      BY <2>3 DEF PutOff, Due
    <3> QED BY <2>1, <2>3, <3>1, <1>a, <1>c, NeedsAre DEF HeldChains, Unasked
  <2>4. ASSUME NEW q \in Object, NEW outcome \in {"asked", "finished"}, item[q] \in {"asked", "failed"},
               item' = [item EXCEPT ![q] = outcome]
        PROVE  HeldChains'
    BY <2>1, <2>4, <1>a, <1>c, NeedsAre DEF HeldChains, Unasked
  <2>5. ASSUME NEW q \in Object, Remove(q), item' # item, TypeOf(q) \notin ChainTypes PROVE HeldChains'
    BY <2>1, <2>5, <1>a, <1>c, NeedsAre, RemoveMoves DEF HeldChains, Unasked
  <2>6. ASSUME NEW q \in Object, Remove(q), item' # item, TypeOf(q) \in ChainTypes PROVE HeldChains'
    <3>1. Schedule(q) /\ Turn(q)
      BY <2>6, ChainRemoval, ChainTypesAre DEF Removal
    <3>2. item[q] = "queued" /\ Due(q) /\ ~Behind(q)
      BY <2>1, <2>6, <3>1, <1>a DEF Turn, Due, HeldChains, Items
    <3>3. item' = [item EXCEPT ![q] = "asked"] \/ item' = [item EXCEPT ![q] = "deferred"]
      BY <3>1, <1>a DEF Schedule, Fails, Fault, Returns
    <3>4. \A h \in Object : q \in Facts[h].needs => item[h] \notin {"queued", "deferred"}
      BY <3>2, NeededIsNotDue
    <3> QED BY <2>1, <3>2, <3>3, <3>4, <1>a, <1>c, NeedsAre DEF HeldChains, Unasked
  <2>7. \A q \in Object : StillThere(q) \/ Finish(q) => item[q] \in {"asked", "failed"}
    BY DEF StillThere, Finish, ToJudge
  <2> QED BY <1>2, <2>2, <2>3, <2>4, <2>5, <2>6, <2>7, ItemsInASweep
<1> QED BY <1>1, <1>2, ItemsInASweep

LEMMA ChainsStep == ASSUME Typed, Calls, Staked, Chains, [Next]_vars PROVE Chains'
<1>1. phase' \in {"start", "scan"} => \A o \in Object : Fresh(o)'
  BY ItemsInASweep DEF Chains, Fresh
<1>2. phase' = "sweep" => KeptChains'
  BY KeptChainsStep
<1>3. phase' = "sweep" /\ faults' = 0 => HeldChains'
  BY HeldChainsStep
<1>4. KeysFollow'
  BY KeysFollowStep DEF Chains
<1> QED BY <1>1, <1>2, <1>3, <1>4 DEF Chains

LEMMA AlwaysChains == Spec => [](Typed /\ Calls /\ Staked /\ Chains)
<1>1. ASSUME Init PROVE Chains
  <2>1. /\ phase = "start" /\ \A o \in Object : item[o] = "none" /\ life[o] \in {"active", "absent"}
    BY <1>1 DEF Init
  <2> QED BY <2>1 DEF Chains, Fresh, KeysFollow, GoesWith
<1>2. Typed /\ Calls /\ Staked /\ Chains /\ [Next]_vars => Chains'
  BY ChainsStep
<1> QED BY <1>1, <1>2, AlwaysStaked, PTL DEF Spec

\* What is kept, or still waits for what needs it, is in no danger, nor is the vault it is in.
LEMMA NeededStays ==
  ASSUME Typed, Calls, Staked, Chains, [Next]_vars,
         NEW o \in Object, TypeOf(o) \in {"CertificateAuthority", "Key", "Vault"}, life[o] = "active",
         phase = "sweep" =>
           \/ item[o] = "filtered"
           \/ faults = 0 /\ \E p \in Object : o \in Facts[p].needs /\ item[p] \in {"queued", "deferred"}
                            /\ item[o] \in {"queued", "deferred"}
  PROVE  life'[o] = "active"
<1> SUFFICES ASSUME life'[o] # "active" PROVE FALSE
  OBVIOUS
<1>1. ~\E q \in GoesWith(o) : TypeOf(o) = "Key" /\ life[q] \in {"going", "scheduled"}
  BY DEF Chains, KeysFollow
<1>2. PICK q \in {o} \cup GoesWith(o) : /\ q \in Object /\ Turn(q) /\ phase = "sweep"
                                        /\ q = o \/ q \in Facts[o].needs
  BY <1>1, NeededLeaves
<1>3. item[q] \notin {"none", "filtered"} /\ ((Due(q) /\ ~Behind(q)) \/ item[q] = "failed")
  <2>1. q \in again => item[q] = "failed"
    BY DEF Typed, TypeOK, Items
  <2>2. Due(q) => item[q] = "queued"
    BY DEF Due
  <2>3. (Due(q) /\ ~Behind(q)) \/ q \in again
    BY <1>2 DEF Turn
  <2> QED BY <2>1, <2>2, <2>3
<1>4. CASE item[o] = "filtered"
  <2>1. KeptChains
    BY <1>2 DEF Chains
  <2> QED BY <1>2, <1>3, <1>4, <2>1 DEF KeptChains
<1>5. CASE faults = 0 /\ item[o] \in {"queued", "deferred"}
           /\ \E p \in Object : o \in Facts[p].needs /\ item[p] \in {"queued", "deferred"}
  <2>1. PICK p \in Object : q \in Facts[p].needs /\ item[p] \in {"queued", "deferred"}
    BY <1>2, <1>5
  <2>2. HeldChains
    BY <1>2, <1>5 DEF Chains
  <2>3. item[q] # "failed"
    BY <2>1, <2>2 DEF HeldChains, Unasked
  <2> QED BY <1>3, <2>1, <2>3, NeededIsNotDue
<1> QED BY <1>2, <1>4, <1>5

\* planDependents, HandleWaitDependency and ensure: whatever fails, and in whatever order the
\* resources were listed, nothing that a kept resource needs, directly or further along, is
\* scheduled while it stands; and without a failure the same holds for what is deferred.
THEOREM KeptIsNotCutOff == Spec => KeptKeepsItsChain
<1>1. ASSUME Typed, Calls, Staked, Chains, [Next]_vars, NEW h \in Object, item[h] = "filtered",
             NEW o \in Chain(h), life[o] = "active"
      PROVE  life'[o] = "active"
  <2> DEFINE K == {p \in Object : item[p] = "filtered" \/ phase # "sweep"}
  <2>1. o \in K
    <3>1. \A p \in K : \A n \in Facts[p].needs : item[n] # "none" => n \in K
      BY <1>1, NeedsAre DEF Chains, KeptChains
    <3>2. K \in SUBSET Object /\ h \in K
      BY <1>1
    <3> HIDE DEF K
    <3> QED BY <1>1, <3>1, <3>2, ChainWithin
  <2>2. TypeOf(o) \in {"CertificateAuthority", "Key", "Vault"}
    BY <1>1, NeededTypes
  <2> QED BY <1>1, <2>1, <2>2, NeededStays
<1>2. ASSUME Typed, Calls, Staked, Chains, [Next]_vars, NEW h \in Object, item[h] = "deferred", faults' = 0,
             NEW o \in Chain(h), life[o] = "active"
      PROVE  life'[o] = "active"
  <2> DEFINE needed(p) == item[p] = "filtered"
                            \/ (item[p] \in {"queued", "deferred"}
                                 /\ \E g \in Object : p \in Facts[g].needs /\ item[g] \in {"queued", "deferred"})
             K == {p \in Object : p = h \/ needed(p) \/ phase # "sweep"}
  <2>1. faults = 0
    BY <1>2, ItemsInASweep
  <2>2. o \in K \ {h}
    <3> HIDE DEF needed
    <3>1. ASSUME NEW p \in K, NEW n \in Facts[p].needs, item[n] # "none", phase = "sweep" PROVE needed(n)
      <4>1. n \in Object /\ KeptChains /\ HeldChains
        BY <1>2, <2>1, <3>1, NeedsAre DEF Chains
      <4>2. CASE item[p] = "filtered"
        BY <3>1, <4>1, <4>2 DEF KeptChains, needed
      <4>3. CASE item[p] \in {"queued", "deferred"}
        BY <3>1, <4>1, <4>3 DEF HeldChains, Unasked, needed
      <4> QED BY <1>2, <3>1, <4>2, <4>3 DEF needed
    <3>2. \A p \in K : \A n \in Facts[p].needs : item[n] # "none" => n \in K
      BY <3>1, NeedsAre
    <3>3. K \in SUBSET Object /\ h \in K
      BY <1>2
    <3> HIDE DEF K
    <3> QED BY <1>2, <3>2, <3>3, ChainWithin
  <2>3. TypeOf(o) \in {"CertificateAuthority", "Key", "Vault"}
    BY <1>2, NeededTypes
  <2> QED BY <1>2, <2>1, <2>2, <2>3, NeededStays
<1>3. Typed /\ Calls /\ Staked /\ Chains /\ [Next]_vars =>
        [\A h \in Object :
           /\ There(h)
           /\ item[h] = "filtered" \/ (item[h] = "deferred" /\ faults' = 0)
           => \A o \in Chain(h) : life[o] = "active" => life'[o] = "active"]_vars
  BY <1>1, <1>2
<1> QED BY <1>3, AlwaysChains, PTL DEF Spec, KeptKeepsItsChain

-----------------------------------------------------------------------------
(* What a clean end leaves behind. *)

\* Every lister makes the selection its type is found by, and leaves out nothing that is active.
LEMMA ListsEnough ==
  /\ \A t \in TypeName : "active" \notin Registered[t].skips
  /\ \A t \in TypeName \ (SharedTypes \cup {"RouteTable", "OrphanedVnic", "DnsZone", "Log", "Key"}) :
       "compartment" \in Registered[t].lists
  /\ "tables" \in Registered["RouteTable"].lists /\ "orphans" \in Registered["OrphanedVnic"].lists
  /\ "inVaults" \in Registered["Key"].lists
<1> DEFINE Shown(t) == "active" \notin Registered[t].skips
           Whole(t) == "compartment" \in Registered[t].lists
<1>1. /\ Shown("Vcn") /\ Shown("Subnet") /\ Shown("NetworkSecurityGroup")
      /\ Shown("InternetGateway") /\ Shown("NatGateway") /\ Shown("ServiceGateway")
      /\ Shown("LoadBalancer") /\ Shown("NetworkLoadBalancer") /\ Shown("OkeNodePool")
      /\ Shown("OkeCluster") /\ Shown("ContainerInstance") /\ Shown("BlockVolume")
      /\ Shown("Bucket") /\ Shown("BuildPipeline") /\ Shown("DeployPipeline") /\ Shown("BuildRun")
      /\ Shown("DevopsRepository") /\ Shown("DevopsProject") /\ Shown("LogGroup")
      /\ Shown("OnsTopic") /\ Shown("Certificate") /\ Shown("CertificateAuthority")
      /\ Shown("Vault") /\ Shown("RouteTable") /\ Shown("OrphanedVnic") /\ Shown("DnsZone")
      /\ Shown("Log") /\ Shown("Key") /\ Shown("User") /\ Shown("Group") /\ Shown("DynamicGroup")
      /\ Shown("CustomerSecretKey") /\ Shown("Policy")
  BY DEF Registered, Plain, After, Scheduled, Shared, Vcn, Subnet, NetworkSecurityGroup,
         InternetGateway, NatGateway, ServiceGateway, LoadBalancer, NetworkLoadBalancer,
         OkeNodePool, OkeCluster, ContainerInstance, BlockVolume, Bucket, BuildPipeline,
         DeployPipeline, BuildRun, DevopsRepository, DevopsProject, LogGroup, OnsTopic, Certificate,
         CertificateAuthority, Vault, RouteTable, OrphanedVnic, DnsZone, Log, Key, User, Group,
         DynamicGroup, CustomerSecretKey, Policy
<1>2. /\ Whole("Vcn") /\ Whole("Subnet") /\ Whole("NetworkSecurityGroup")
      /\ Whole("InternetGateway") /\ Whole("NatGateway") /\ Whole("ServiceGateway")
      /\ Whole("LoadBalancer") /\ Whole("NetworkLoadBalancer") /\ Whole("OkeNodePool")
      /\ Whole("OkeCluster") /\ Whole("ContainerInstance") /\ Whole("BlockVolume")
      /\ Whole("Bucket") /\ Whole("BuildPipeline") /\ Whole("DeployPipeline") /\ Whole("BuildRun")
      /\ Whole("DevopsRepository") /\ Whole("DevopsProject") /\ Whole("LogGroup")
      /\ Whole("OnsTopic") /\ Whole("Certificate") /\ Whole("CertificateAuthority")
      /\ Whole("Vault")
  BY DEF Registered, Plain, After, Scheduled, Shared, Vcn, Subnet, NetworkSecurityGroup,
         InternetGateway, NatGateway, ServiceGateway, LoadBalancer, NetworkLoadBalancer,
         OkeNodePool, OkeCluster, ContainerInstance, BlockVolume, Bucket, BuildPipeline,
         DeployPipeline, BuildRun, DevopsRepository, DevopsProject, LogGroup, OnsTopic, Certificate,
         CertificateAuthority, Vault, RouteTable, OrphanedVnic, DnsZone, Log, Key, User, Group,
         DynamicGroup, CustomerSecretKey, Policy
<1>3. /\ "tables" \in Registered["RouteTable"].lists /\ "orphans" \in Registered["OrphanedVnic"].lists
      /\ "inVaults" \in Registered["Key"].lists
  BY DEF Registered, Plain, After, Scheduled, RouteTable, OrphanedVnic, Key
<1> HIDE DEF Shown, Whole
<1>4. \A t \in TypeName : Shown(t)
  BY <1>1, TypesAre DEF SharedTypes
<1>5. \A t \in TypeName \ (SharedTypes \cup {"RouteTable", "OrphanedVnic", "DnsZone", "Log", "Key"}) : Whole(t)
  BY <1>2, TypesAre
<1> QED BY <1>3, <1>4, <1>5 DEF Shown, Whole

\* At stake and there to be removed; not a VNIC that is in use or may come loose meanwhile.
Standing(o) == Ours(o) /\ life[o] = "active" /\ ~Facts[o].fixed /\ Facts[o].instance = "none"

\* A log stands in a group that stands, a key in such a vault.
Sheltered ==
  \A o \in Object : TypeOf(o) \in {"Log", "Key"} /\ life[o] = "active" =>
    \A c \in Facts[o].inside : life[c] = "active"
Reads ==
  /\ \A v \in attached \cup noted["OrphanedVnic"] : Facts[v].instance # "none"
  /\ \A r \in noted["RouteTable"] : TypeOf(r) = "RouteTable" => Facts[r].fixed

\* While no call has failed the run has, or is about to have, everything in its queue.
Unmissed ==
  /\ phase = "start" => \A o \in Object : Standing(o) => TypeOf(o) \in unread
  /\ phase = "scan" => \A o \in Object : Standing(o) => TypeOf(o) \in unread \/ item[o] # "none"
  /\ phase = "sweep" => \A o \in Object : Standing(o) => item[o] # "none"
FinishedGoes == \A o \in Object : item[o] = "finished" => ~Standing(o)
Unforgotten == Sheltered /\ Reads /\ FinishedGoes /\ (faults = 0 => Unmissed)

LEMMA StandingFacts ==
  ASSUME Typed, NEW o \in Object, Standing(o)
  PROVE  /\ TypeOf(o) \in TypeName \cap Scanned
         /\ FilterSays(o) = "no"
         /\ InReach(cmd, o) /\ (TypeOf(o) = "DnsZone" => ~Facts[o].fixed)
<1>1. o \in Candidates[cmd] /\ cmd \in Commands
  BY OursAreCandidates DEF Standing
<1>2. /\ ~Rejected(cmd) /\ TypeOf(o) \in TypeName /\ AskedFor(cmd, TypeOf(o)) /\ ~Spared(cmd, o)
      /\ TypeOf(o) = "DnsZone" => ~Facts[o].fixed
      /\ InReach(cmd, o)
  BY <1>1 DEF Candidates
<1> QED BY <1>2, ScannedAreAskedFor, NoneSpeaks

\* The listers together miss nothing: whatever the command may reach, and is not the service's, is
\* selected by the lister of its type.
LEMMA StandingIsListed ==
  ASSUME Typed, Sheltered, NEW o \in Object, Standing(o), NEW note,
         TypeOf(o) \in {"RouteTable", "OrphanedVnic"} => o \notin note
  PROVE  o \in Listed(TypeOf(o), note)
<1> DEFINE t == TypeOf(o)
<1>1. t \in TypeName /\ InReach(cmd, o) /\ life[o] = "active" /\ ~Facts[o].fixed
  BY StandingFacts DEF Standing
<1>2. o \in OfType(t) /\ life[o] \notin Skipped(t)
  BY <1>1, OfTypeIs, ListsEnough DEF Skipped
<1>3. \E how \in Registered[t].lists : Selects(how, o, note)
  <2>1. ASSUME t \notin SharedTypes PROVE Home(o) = cmd.target
    <3>1. t \notin NamesForScope("tenancy")
      BY <2>1, <1>1, ScopesAre DEF NamesForScope
    <3>2. t # "Policy"
      BY <2>1 DEF SharedTypes
    <3> QED BY <1>1, <3>1, <3>2, ScopesAre DEF InReach, Home, NamesForScope, SharedTypes
  <2>2. CASE t \notin SharedTypes \cup {"RouteTable", "OrphanedVnic", "DnsZone", "Log", "Key"}
    BY <1>1, <2>1, <2>2, ListsEnough DEF Selects
  <2>3. CASE t = "RouteTable"
    BY <2>1, <2>3, ListsEnough DEF Selects, SharedTypes
  <2>4. CASE t = "OrphanedVnic"
    BY <2>1, <2>4, ListsEnough DEF Selects, SharedTypes
  <2>5. CASE t = "DnsZone"
    <3>1. Home(o) = cmd.target
      BY <2>1, <2>5 DEF SharedTypes
    <3> QED BY <1>1, <2>5, <3>1, ListsAre DEF Selects
  <2>6. CASE t \in {"Log", "Key"}
    <3>1. Home(o) = cmd.target
      BY <2>1, <2>6 DEF SharedTypes
    <3>2. PICK c \in Facts[o].inside : c \in Object /\ Home(c) = Home(o)
      BY <2>6, FactsOf, ListingAssumption
    <3>3. InActive(o, cmd.target)
      BY <1>1, <2>6, <3>1, <3>2 DEF InActive, Sheltered
    <3>4. "inVaults" \in Registered["Key"].lists /\ "inGroups" \in Registered["Log"].lists
      BY ListsEnough, ListsAre
    <3> QED BY <2>6, <3>1, <3>3, <3>4 DEF Selects
  <2>7. CASE t = "CustomerSecretKey"
    <3>1. Home(o) = cmd.user /\ MatchesPrefix(cmd, o, "entigo-infralib-%s")
      BY <1>1, <2>7, ScopesAre DEF InReach, Home, NamesForScope, SharedTypes
    <3> QED BY <2>7, <3>1, ListsAre DEF Selects
  <2>8. CASE t = "Policy"
    <3>1. \/ Home(o) = "root" /\ MatchesPrefix(cmd, o, "%s-")
          \/ Home(o) = cmd.target /\ cmd.target # "root"
      BY <1>1, <2>8, ScopesAre DEF InReach, Home, NamesForScope, SharedTypes
    <3> QED BY <2>8, <3>1, ListsAre DEF Selects
  <2>9. CASE t \in {"User", "Group", "DynamicGroup"}
    <3>1. Home(o) = "root" /\ MatchesPrefix(cmd, o, "%s-")
      BY <1>1, <2>9, ScopesAre DEF InReach, Home, NamesForScope, SharedTypes
    <3> QED BY <2>9, <3>1, ListsAre DEF Selects
  <2> QED BY <2>2, <2>3, <2>4, <2>5, <2>6, <2>7, <2>8, <2>9 DEF SharedTypes
<1> QED BY <1>2, <1>3 DEF Listed

\* What is listed through something else leaves before it, or with it.
LEMMA ShelteredStep ==
  ASSUME Typed, Calls, KeysFollow', Sheltered, [Next]_vars
  PROVE  Sheltered'
<1>a. life \in [Object -> {"absent", "active", "going", "scheduled", "gone"}]
  BY DEF Typed, TypeOK
<1> SUFFICES ASSUME NEW o \in Object, TypeOf(o) \in {"Log", "Key"}, life'[o] = "active", NEW c \in Facts[o].inside
             PROVE  life'[c] = "active"
  BY DEF Sheltered, TypeOf, Facts
<1>1. /\ c \in Object
      /\ TypeOf(o) = "Log" => TypeOf(c) = "LogGroup" /\ c \in Facts[o].holds
      /\ TypeOf(o) = "Key" => TypeOf(c) = "Vault" /\ o \in Facts[c].takes
  BY FactsOf, ListingAssumption
<1>2. life[o] = "active" /\ life[c] = "active"
  <2>1. Facts[o].instance = "none"
    BY FactsOf, AccountAssumption
  <2> QED BY <2>1, LifeMoves DEF Sheltered
<1> SUFFICES ASSUME life'[c] # "active" PROVE FALSE
  OBVIOUS
<1>3. CASE TypeOf(o) = "Key"
  <2>1. c \in GoesWith(o) /\ TypeOf(c) = "Vault"
    BY <1>1, <1>3 DEF GoesWith
  <2>2. GoesWith(c) = {}
    BY <1>3, <2>1, WhatGoesAlong
  <2>3. Schedule(c)
    BY <1>1, <1>2, <2>1, <2>2, NeededLeaves
  <2>4. life'[c] = "scheduled"
    BY <1>a, <1>1, <1>2, <2>3 DEF Schedule, Fails, world
  <2> QED BY <1>1, <1>3, <2>1, <2>4 DEF KeysFollow, TypeOf, Facts, GoesWith
<1>4. CASE TypeOf(o) = "Log"
  <2>1. TypeOf(c) = "LogGroup" /\ o \in Holders(c)
    BY <1>1, <1>2, <1>4 DEF Holders, There
  <2>2. GoesWith(c) = {}
    BY <2>1, <1>1, FactsOf, ListingAssumption, ChainAssumption DEF GoesWith
  <2>3. Removal(c) = "request"
    BY <2>1 DEF Removal, Registered, LogGroup, After, Plain
  <2>4. Remove(c)
    BY <1>1, <1>2, <2>2, ActiveLeaves
  <2>5. Request(c)
    BY <2>3, <2>4, <1>1
       DEF Remove, Request, Schedule, Detach, Clear, DeleteTable, DeleteAndPoll, Poll, Undelegate, StartStages,
           ListStages, DeleteStage, PassEnds, DeleteAfter, Calls, InCall
  <2>6. Deletable(c)
    BY <2>5, <1>2 DEF Request, Delete, Fails, world
  <2> QED BY <2>1, <2>6 DEF Deletable
<1> QED BY <1>3, <1>4

\* What is attached when, and what the first reads may return.
LEMMA ReadsStep ==
  ASSUME Typed, Calls, Staked, Reads, [Next]_vars
  PROVE  Reads'
<1>1. attached' \subseteq attached \/ \E v \in Object : Facts[v].instance # "none" /\ attached' = attached \cup {v}
  <2>1. ASSUME NEW o \in Object, Remove(o) PROVE attached' = attached
    BY <2>1 DEF Remove, Request, Schedule, Detach, Clear, DeleteTable, DeleteAndPoll, Poll, Undelegate, StartStages,
                ListStages, DeleteStage, PassEnds, DeleteAfter, Delete, Fails, world
  <2>2. ASSUME NEW o \in Object, Completes(o) PROVE attached' \subseteq attached
    BY <2>2 DEF Completes
  <2>3. ASSUME NEW o \in Object, Launch(o)
        PROVE  Facts[o].instance # "none" /\ attached' = attached \cup {o}
    BY <2>3 DEF Launch
  <2>4. ASSUME ~\E o \in Object : Remove(o) \/ Completes(o) \/ Launch(o) PROVE attached' = attached
    BY <2>4 DEF Next, Tool, InQueue, Engine, Start, Plan, RetryFailed, GiveUp, Complete, WaitedTooLong, Over,
                RunAgain, Interrupt, ReadFirst, List, ListFails, FilterBreaks, PutOff, StillThere, Finish,
                vars, world
  <2> QED BY <2>1, <2>2, <2>3, <2>4
<1>2. \/ noted' = noted
      \/ noted' = [t \in TwoReads |-> {}]
      \/ \E t \in TwoReads : noted' = [noted EXCEPT ![t] = FirstRead(t)]
  <2>1. ASSUME NEW o \in Object, Remove(o) PROVE noted' = noted
    BY <2>1, RemovesTakenOn DEF scan
  <2> QED BY <2>1 DEF Next, Tool, InQueue, Engine, Start, Plan, RetryFailed, GiveUp, Complete, WaitedTooLong, Over,
                RunAgain, Interrupt, Forgotten, ReadFirst, List, ListFails, FilterBreaks, PutOff, StillThere, Finish,
                Completes, Launch, vars, scan
<1>3. noted \in [TwoReads -> SUBSET Object]
  BY DEF Typed, TypeOK
<1>4. \A v \in FirstRead("OrphanedVnic") : v \in attached
  BY DEF FirstRead
<1>5. \A r \in FirstRead("RouteTable") : TypeOf(r) = "RouteTable" => Facts[r].fixed
  <2>1. ASSUME NEW r \in FirstRead("RouteTable") PROVE \E v \in Object : r \in Facts[v].takes
    <3>1. "Vcn" \in TypeName
      BY NetworkTypes
    <3> QED BY <2>1, <3>1, OfTypeIs DEF FirstRead
  <2>2. ASSUME NEW v \in Object, NEW r \in Facts[v].takes, TypeOf(r) = "RouteTable" PROVE Facts[r].fixed
    BY <2>2, FactsOf, ListingAssumption, AccountAssumption
  <2> QED BY <2>1, <2>2
<1>6. \A v \in attached' \cup noted'["OrphanedVnic"] : Facts[v].instance # "none"
  BY <1>1, <1>2, <1>3, <1>4 DEF Reads, TwoReads
<1>7. \A r \in noted'["RouteTable"] : TypeOf(r) = "RouteTable" => Facts[r].fixed
  BY <1>2, <1>3, <1>5 DEF Reads, TwoReads
<1> QED BY <1>6, <1>7 DEF Reads, TypeOf, Facts

LEMMA StandingStays ==
  ASSUME Typed, [Next]_vars, NEW o \in Object
  PROVE  Standing(o)' => Standing(o)
<1>1. cmd' = cmd
  BY ItemMoves
<1> QED BY <1>1, CandidatesStay, LifeMoves DEF Standing, Facts

\* An item is only finished when its lister no longer returns it.
LEMMA FinishedGoesStep ==
  ASSUME Typed, Calls, Staked, Sheltered, Reads, FinishedGoes, [Next]_vars
  PROVE  FinishedGoes'
<1>a. item \in [Object -> ItemState]
  BY DEF Typed, TypeOK
<1> SUFFICES ASSUME NEW o \in Object, item'[o] = "finished", Standing(o) PROVE FALSE
  BY StandingStays DEF FinishedGoes
<1>1. item[o] # "finished"
  BY DEF FinishedGoes
<1>2. Finish(o)
  <2>1. ASSUME NEW q \in Object, Remove(q) PROVE FALSE
    BY <2>1, <1>1, <1>a, RemoveMoves
  <2>2. ASSUME NEW q \in Object, PutOff(q) \/ StillThere(q) \/ Completes(q) \/ Launch(q) PROVE FALSE
    BY <2>2, <1>1, <1>a DEF PutOff, StillThere, Completes, Launch
  <2>3. ASSUME NEW q \in Object, Finish(q) PROVE q = o
    BY <2>3, <1>1, <1>a DEF Finish
  <2>4. CASE Interrupt \/ UNCHANGED vars
    BY <2>4, <1>1 DEF Interrupt, Forgotten, vars
  <2>5. CASE Engine
    BY <2>5, <1>1 DEF Engine, Start, Plan, RetryFailed, GiveUp, Complete, WaitedTooLong, Over,
                      RunAgain, Forgotten, ReadFirst, List, ListFails, FilterBreaks
  <2> QED BY <2>1, <2>2, <2>3, <2>4, <2>5 DEF Next, Tool, InQueue
<1>3. TypeOf(o) \in {"RouteTable", "OrphanedVnic"} => o \notin FirstRead(TypeOf(o))
  <2>1. CASE TypeOf(o) = "OrphanedVnic"
    BY <2>1 DEF FirstRead, Reads, Standing
  <2>2. CASE TypeOf(o) = "RouteTable"
    <3>1. ASSUME o \in FirstRead("RouteTable") PROVE \E v \in Object : o \in Facts[v].takes
      <4>1. "Vcn" \in TypeName
        BY NetworkTypes
      <4> QED BY <3>1, <4>1, OfTypeIs DEF FirstRead
    <3> QED BY <2>2, <3>1, FactsOf, ListingAssumption DEF Standing
  <2> QED BY <2>1, <2>2
<1>4. o \in Listed(TypeOf(o), FirstRead(TypeOf(o)))
  BY <1>3, StandingIsListed
<1> QED BY <1>2, <1>4 DEF Finish, Unlisted

\* While no call fails, a run reads every list that what is at stake is on, to the end.
LEMMA ScanMoves ==
  ASSUME Typed, Calls, Staked, [Next]_vars, faults' = 0
  PROVE  /\ phase' = "start" => RunAgain \/ (phase = "start" /\ unread' = unread)
         /\ phase' = "scan" => \/ phase \in {"start", "scan"} /\ unread' = unread /\ item' = item
                               \/ \E t \in unread : List(t)
         /\ phase' = "sweep" => \/ Plan
                                \/ phase = "sweep" /\ \A o \in Object : item[o] # "none" => item'[o] # "none"
<1>a. item \in [Object -> ItemState] /\ faults \in Nat
  BY AccountAssumption DEF Typed, TypeOK
<1>f. ~Fault
  BY <1>a DEF Fault
<1>1. ASSUME NEW q \in Object, Remove(q)
      PROVE  phase = "sweep" /\ phase' = "sweep" /\ \A o \in Object : item[o] # "none" => item'[o] # "none"
  BY <1>1, <1>a, RemovesTakenOn, RemoveMoves
<1>2. ASSUME NEW q \in Object, PutOff(q) \/ StillThere(q) \/ Finish(q)
      PROVE  phase = "sweep" /\ phase' = "sweep" /\ \A o \in Object : item[o] # "none" => item'[o] # "none"
  BY <1>2, <1>a DEF PutOff, StillThere, Finish, Due, ToJudge
<1>3. ASSUME \/ \E q \in Object : Completes(q) \/ Launch(q)
             \/ UNCHANGED vars
      PROVE  phase' = phase /\ unread' = unread /\ item' = item
  BY <1>3 DEF Completes, Launch, vars, scan
<1>4. ASSUME NEW t \in unread, ReadFirst(t)
      PROVE  phase = "scan" /\ phase' = phase /\ unread' = unread /\ item' = item
  BY <1>4 DEF ReadFirst
<1>5. ASSUME NEW t \in unread, FilterBreaks(t) PROVE phase' = "over"
  BY <1>5 DEF FilterBreaks
<1>6. ASSUME NEW t \in unread, List(t) PROVE phase' = "scan"
  BY <1>6 DEF List
<1>7. ASSUME NEW t \in unread, ListFails(t) PROVE FALSE
  BY <1>7, <1>f DEF ListFails
<1>8. CASE Start
  BY <1>8 DEF Start, scan
<1>9. CASE Plan
  BY <1>9 DEF Plan
<1>10. CASE RetryFailed
  BY <1>10 DEF RetryFailed, OnlyFailures
<1>11. CASE GiveUp \/ Complete \/ WaitedTooLong
  BY <1>11 DEF GiveUp, Complete, WaitedTooLong, Over
<1>12. CASE RunAgain
  BY <1>12 DEF RunAgain
<1>13. ~Interrupt
  BY <1>f DEF Interrupt
<1>14. CASE \E q \in Object : Remove(q) \/ PutOff(q) \/ StillThere(q) \/ Finish(q)
  BY <1>1, <1>2, <1>14
<1>15. CASE (\E q \in Object : Completes(q) \/ Launch(q)) \/ UNCHANGED vars
  BY <1>3, <1>15
<1>16. CASE \E t \in unread : ReadFirst(t) \/ List(t) \/ ListFails(t) \/ FilterBreaks(t)
  BY <1>4, <1>5, <1>6, <1>7, <1>16
<1> QED BY <1>8, <1>9, <1>10, <1>11, <1>12, <1>13, <1>14, <1>15, <1>16 DEF Next, Tool, Engine, InQueue

LEMMA UnmissedStep ==
  ASSUME Typed, Calls, Staked, Sheltered, Reads, Unmissed, [Next]_vars, faults' = 0
  PROVE  Unmissed'
<1>a. item \in [Object -> ItemState] /\ faults \in Nat
  BY AccountAssumption DEF Typed, TypeOK
<1>b. \A o \in Object : TypeOf(o)' = TypeOf(o)
  BY DEF TypeOf, Facts
<1>1. ASSUME phase' = "start", NEW o \in Object, Standing(o)' PROVE TypeOf(o) \in unread'
  <2>1. Standing(o)
    BY <1>1, StandingStays
  <2>2. CASE RunAgain
    <3>1. unread' = ToRead
      BY <2>2 DEF RunAgain, Forgotten
    <3>2. TypeOf(o) \in TypeName \cap Scanned /\ o \in OfType(TypeOf(o)) /\ life[o] = "active"
      BY <2>1, StandingFacts, OfTypeIs DEF Standing
    <3> QED BY <3>1, <3>2 DEF ToRead
  <2>3. CASE phase = "start" /\ unread' = unread
    BY <2>1, <2>3 DEF Unmissed
  <2> QED BY <1>1, <2>2, <2>3, ScanMoves
<1>2. ASSUME phase' = "scan", NEW o \in Object, Standing(o)' PROVE TypeOf(o) \in unread' \/ item'[o] # "none"
  <2>1. Standing(o)
    BY <1>2, StandingStays
  <2>2. CASE phase \in {"start", "scan"} /\ unread' = unread /\ item' = item
    BY <2>1, <2>2 DEF Unmissed
  <2>3. ASSUME NEW t \in unread, List(t) PROVE TypeOf(o) \in unread' \/ item'[o] # "none"
    <3>1. PICK found \in SUBSET Found(t) :
            /\ IF found = Found(t) THEN UNCHANGED faults ELSE Fault
            /\ \A p \in found : FilterSays(p) # "error"
            /\ item' = [p \in Object |->
                          IF p \notin found THEN item[p]
                          ELSE IF FilterSays(p) = "yes" THEN "filtered" ELSE "queued"]
      BY <2>3 DEF List
    <3>2. found = Found(t)
      BY <1>a, <3>1 DEF Fault
    <3>3. phase = "scan" /\ unread' = unread \ {t}
      BY <2>3 DEF List
    <3>4. CASE TypeOf(o) # t
      BY <2>1, <3>1, <3>3, <3>4 DEF Unmissed
    <3>5. CASE TypeOf(o) = t
      <4>1. \A note : (t \in {"RouteTable", "OrphanedVnic"} => o \notin note) => o \in Listed(t, note)
        BY <2>1, <3>5, StandingIsListed
      <4>2. t \in TwoReads => o \notin noted[t]
        BY <2>1, <3>5 DEF Reads, Standing, TwoReads
      <4>3. o \in Found(t)
        BY <4>1, <4>2 DEF Found, TwoReads
      <4> QED BY <3>1, <3>2, <4>3
    <3> QED BY <3>4, <3>5
  <2> QED BY <1>2, <2>2, <2>3, ScanMoves
<1>3. ASSUME phase' = "sweep", NEW o \in Object, Standing(o)' PROVE item'[o] # "none"
  <2>1. Standing(o)
    BY <1>3, StandingStays
  <2>2. CASE Plan
    <3>1. item[o] # "none"
      BY <2>1, <2>2 DEF Plan, Unmissed
    <3>2. PICK plan \in Plans :
            item' = [p \in Object |-> IF item[p] # "queued" THEN item[p]
                                      ELSE IF p \in plan.kept THEN "filtered"
                                      ELSE IF p \in plan.deferred THEN "deferred" ELSE "queued"]
      BY <2>2 DEF Plan
    <3> QED BY <3>1, <3>2
  <2>3. CASE phase = "sweep" /\ \A p \in Object : item[p] # "none" => item'[p] # "none"
    BY <2>1, <2>3 DEF Unmissed
  <2> QED BY <1>3, <2>2, <2>3, ScanMoves
<1> QED BY <1>b, <1>1, <1>2, <1>3 DEF Unmissed

LEMMA UnforgottenInit == ASSUME Init PROVE Unforgotten
<1>1. PICK c \in Cases :
        /\ cmd = c.command
        /\ life = [o \in Object |-> IF o \in c.has THEN "active" ELSE "absent"]
        /\ attached = {v \in c.has : Facts[v].instance # "none"}
        /\ phase = "start" /\ unread = ToRead /\ noted = [t \in TwoReads |-> {}]
        /\ item = [o \in Object |-> "none"]
  BY DEF Init
<1>2. Sheltered
  <2>1. ASSUME NEW o \in c.has, TypeOf(o) \in {"Log", "Key"}, o \in Object, NEW b \in Facts[o].inside
        PROVE  b \in c.has /\ b \in Object
    BY <2>1, FactsOf, ListingAssumption
  <2> QED BY <1>1, <2>1 DEF Sheltered
<1>3. Reads
  BY <1>1 DEF Reads, TwoReads
<1>4. FinishedGoes
  BY <1>1 DEF FinishedGoes
<1>5. Unmissed
  <2>1. ASSUME NEW o \in Object, Standing(o) PROVE TypeOf(o) \in ToRead
    <3>1. TypeOf(o) \in TypeName \cap Scanned /\ o \in OfType(TypeOf(o)) /\ life[o] = "active"
      BY <2>1, TypedInit, StandingFacts, OfTypeIs DEF Standing
    <3> QED BY <3>1 DEF ToRead
  <2> QED BY <1>1, <2>1 DEF Unmissed
<1> QED BY <1>2, <1>3, <1>4, <1>5 DEF Unforgotten

LEMMA AlwaysUnforgotten == Spec => [](Typed /\ Calls /\ Staked /\ Chains /\ Unforgotten)
<1>1. Init => Unforgotten
  BY UnforgottenInit
<1>2. Typed /\ Calls /\ Staked /\ Chains /\ Unforgotten /\ [Next]_vars => Unforgotten'
  <2> SUFFICES ASSUME Typed, Calls, Staked, Chains, Unforgotten, [Next]_vars PROVE Unforgotten'
    OBVIOUS
  <2>1. Sheltered'
    BY ChainsStep, ShelteredStep DEF Chains, Unforgotten
  <2>2. Reads' /\ FinishedGoes'
    BY ReadsStep, FinishedGoesStep DEF Unforgotten
  <2>3. faults' = 0 => Unmissed'
    BY ItemsInASweep, UnmissedStep DEF Unforgotten
  <2> QED BY <2>1, <2>2, <2>3 DEF Unforgotten
<1> QED BY <1>1, <1>2, AlwaysChains, PTL DEF Spec

\* Run, to its last line: when it returns no error, and no call has failed, then all that the
\* command line and the configuration put at stake is gone or going, was kept or put off.  Only
\* VNICs of instances and pods are left out, as those can come loose while the run goes on.
THEOREM CleanEndIsClean ==
  Spec => [][Complete /\ faults = 0 =>
               \A o \in Object : Ours(o) /\ life[o] = "active" /\ Facts[o].instance = "none" =>
                 Facts[o].fixed \/ item[o] \in {"filtered", "deferred"}]_vars
<1>1. ASSUME Typed, Unforgotten, Complete, faults = 0,
             NEW o \in Object, Ours(o), life[o] = "active", Facts[o].instance = "none", ~Facts[o].fixed
      PROVE  item[o] \in {"filtered", "deferred"}
  <2>1. Standing(o)
    BY <1>1 DEF Standing
  <2>2. phase = "sweep" /\ item[o] \notin {"queued", "asked", "failed"}
    BY <1>1 DEF Complete, Items
  <2>3. item[o] \notin {"none", "finished"}
    BY <1>1, <2>1, <2>2 DEF Unforgotten, Unmissed, FinishedGoes
  <2>4. item[o] \in ItemState
    BY <1>1 DEF Typed, TypeOK
  <2> QED BY <2>2, <2>3, <2>4 DEF ItemState
<1>2. Typed /\ Unforgotten =>
        [Complete /\ faults = 0 =>
           \A o \in Object : Ours(o) /\ life[o] = "active" /\ Facts[o].instance = "none" =>
             Facts[o].fixed \/ item[o] \in {"filtered", "deferred"}]_vars
  BY <1>1
<1> QED BY <1>2, AlwaysUnforgotten, PTL

\* Where there are no instances and pods, that is everything.
THEOREM CleanWithoutInstances ==
  ASSUME \A o \in Object : Inventory[o].instance = "none"
  PROVE  Spec => CleanExit
<1>1. \A o \in Object : Facts[o].instance = "none"
  BY FactsOf
<1>2. [Complete /\ faults = 0 =>
         \A o \in Object : Ours(o) /\ life[o] = "active" /\ Facts[o].instance = "none" =>
           Facts[o].fixed \/ item[o] \in {"filtered", "deferred"}]_vars
      => [Complete /\ faults = 0 =>
            \A o \in Object : Ours(o) /\ life[o] = "active" =>
              Facts[o].fixed \/ item[o] \in {"filtered", "deferred"}]_vars
  BY <1>1
<1> QED BY <1>2, CleanEndIsClean, PTL DEF CleanExit
=============================================================================
