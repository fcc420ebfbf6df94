------------------------------ MODULE Account ------------------------------
(***************************************************************************)
(* The tool as its operator knows it: a command line, a configuration, a   *)
(* tenancy shared with others, and runs repeated until nothing is left to  *)
(* sweep.  What the listers select and which calls a Remove makes is       *)
(* looked up in the catalogue, what is kept in Selection.  Scanner,        *)
(* planner and engine are reduced to what they promise each other: the     *)
(* queue of what was listed, the plan closed under the links, the order    *)
(* of removals and when a run ends.                                        *)
(***************************************************************************)
EXTENDS Catalogue, Selection

CONSTANTS
  Object,      \* whatever the tenancy may hold
  Inventory,   \* object -> what never changes about it: a record of the fields below
  Cases,       \* the command lines, each with the objects there are when it is first given
  Extends,     \* <<format, p, d>>: names of deployment d start with the format filled in with p
  MaxFaults    \* bound: what fails for no reason of the resource's: an API call, the process

\*   type        its resource type, or "Stage", of which there is none
\*   home        its compartment; of a VNIC its subnet's; of a secret key its user
\*   name        the deployment its name begins with
\*   shows       its properties, by name; "" is what it is called
\*   holds       objects the service does not delete while this one exists
\*   needs       the issuer, signing key or vault that Blocks() names, as a set
\*   takes       objects the service deletes along with it
\*   parts       the stages of a pipeline
\*   nodes       the VNICs of a node pool's pods
\*   inside      the vault or log group it is in, as a set
\*   parents     the zone that encloses a zone, as a set
\*   global      a zone of the GLOBAL DNS scope
\*   fixed       the service refuses to delete it: a VCN's default table, a protected zone
\*   instance    the compartment of the instance a VNIC is for, or "none"
Field == {"type", "home", "name", "shows", "holds", "needs", "takes", "parts", "nodes", "inside", "parents",
          "global", "fixed", "instance"}

ASSUME AccountAssumption ==
  /\ \A o \in Object :
       /\ DOMAIN Inventory[o] = Field
       /\ Inventory[o].type \in TypeName \cup {"Stage"}
       /\ Inventory[o].takes \cup Inventory[o].parts \cup Inventory[o].nodes \subseteq Object
       /\ Inventory[o].instance # "none" => Inventory[o].type = "OrphanedVnic"
  /\ \A c \in Cases : c.has \subseteq Object
  /\ MaxFaults \in Nat

\* A zone of the GLOBAL scope goes on its own, and so do those above it.
ASSUME ZoneAssumption ==
  \A z \in Object : Inventory[z].global =>
    /\ Inventory[z].type = "DnsZone"
    /\ \A p \in Inventory[z].parents : p \in Object /\ Inventory[p].global
    /\ \A o \in Object : z \notin Inventory[o].takes \cup Inventory[o].parts \cup Inventory[o].nodes

\* What goes along with something takes nothing along itself: keys, default tables, private
\* zones, stages, VNICs.  A log is created in its group, and in the compartment of that.
ASSUME AlongAssumption ==
  /\ \A o \in Object : \A p \in Inventory[o].takes \cup Inventory[o].parts \cup Inventory[o].nodes :
       Inventory[p].takes \cup Inventory[p].parts \cup Inventory[p].nodes = {}
  /\ \A o \in Object : Inventory[o].type = "Log" =>
       \A g \in Inventory[o].inside : g \in Object /\ Inventory[g].home = Inventory[o].home

\* What something needs waits for it: an issuer, its key and the key's vault are of types that
\* depend on the type that names them.  Of these only keys go along, with the vault they name.
ASSUME ChainAssumption ==
  /\ \A h \in Object : \A o \in Inventory[h].needs :
       /\ o \in Object /\ Inventory[o].type \in TypeName
       /\ Inventory[h].type \in Implementing("Blocks") \cap DependencyGraph[Inventory[o].type]
  /\ \A v \in Object :
       /\ \A k \in Inventory[v].takes :
            /\ Inventory[k].type \notin {"CertificateAuthority", "Vault"}
            /\ Inventory[k].type = "Key" => v \in Inventory[k].needs
       /\ \A s \in Inventory[v].parts : Inventory[s].type = "Stage"
       /\ \A n \in Inventory[v].nodes : Inventory[n].type = "OrphanedVnic"

\* What is listed through something else stands with it: a log, which keeps its group from being
\* deleted, and a key, which goes with its vault.  The tables a VCN takes along are default
\* tables, which nothing else deletes.
ASSUME ListingAssumption ==
  /\ \A o \in Object : Inventory[o].type \in {"Log", "Key"} =>
       /\ Inventory[o].inside # {}
       /\ \A c \in Inventory[o].inside :
            /\ c \in Object /\ Inventory[c].home = Inventory[o].home
            /\ Inventory[o].type = "Log" => Inventory[c].type = "LogGroup" /\ c \in Inventory[o].holds
            /\ Inventory[o].type = "Key" => Inventory[c].type = "Vault" /\ o \in Inventory[c].takes
  /\ \A c \in Cases : \A o \in c.has : Inventory[o].type \in {"Log", "Key"} => Inventory[o].inside \subseteq c.has
  /\ \A v \in Object : \A o \in Inventory[v].takes :
       /\ Inventory[o].type # "LogGroup"
       /\ Inventory[o].type = "RouteTable" => Inventory[o].fixed

\* The tenancy.
VARIABLES
  life,        \* object -> "absent", "active", "going", "scheduled" or "gone"
  ruled,       \* route tables that have rules
  attached,    \* VNICs with a live attachment
  delegated    \* zones whose NS records stand in the zone that encloses them

\* The runs.
VARIABLES
  cmd,         \* the command line, the same every time
  phase,       \* "start", "scan", "sweep" or "over"
  unread,      \* types whose lister has not returned
  halfway,     \* types whose lister has made the first of its two reads
  noted,       \* what that read returned
  item,        \* object -> its ItemState
  asDefault,   \* tables queued with IsDefault
  call,        \* the Remove in progress: its object, as a set, and where it is
  again, lap,  \* failed items this pass has still to retry; passes that had nothing else to do
  faults

world == <<life, ruled, attached, delegated>>
scan == <<unread, halfway, noted, asDefault>>
vars == <<world, cmd, phase, scan, item, call, again, lap, faults>>

ItemState == {"none", "filtered", "queued", "deferred", "asked", "finished", "failed"}

TwoReads == {"RouteTable", "OrphanedVnic"}
Call ==
  [of : {{}} \cup {{o} : o \in Object}, step : {"none", "poll", "stages", "pass", "delete"},
   left : SUBSET Object, progress : BOOLEAN]
NoCall == [of |-> {}, step |-> "none", left |-> {}, progress |-> FALSE]
AtStep(o, step) == [NoCall EXCEPT !.of = {o}, !.step = step]

Facts == [o \in Object |-> Inventory[o]]
TypeOf(o) == Facts[o].type
OfTypes == [t \in TypeName \cup {"Stage"} |-> {o \in Object : TypeOf(o) = t}]
OfType(t) == OfTypes[t]
GoesWith(o) == {p \in Object : o \in Facts[p].takes \cup Facts[p].parts \cup Facts[p].nodes}
There(o) == life[o] \in {"active", "going"}
Fault == faults < MaxFaults /\ faults' = faults + 1

-----------------------------------------------------------------------------
(* What there is to scan, and what a lister returns. *)

\* The run does not begin: the compartment is not declared, a preset is unknown, or a filter
\* of the account is for no property and no value.
Rejected(c) ==
  \/ ConfigError(c.config, c.target)
  \/ ~Validate(FiltersOf(c.config, c.target))

Commands == {c.command : c \in Cases}

\* The type lists and the filters of a configuration that concern a command.
TypeLists(c) == {c.config.types, c.config.accounts[c.target].types}
FilterLists(c) ==
  {c.config.accounts[c.target].filters}
    \cup {c.config.presets[name].filters : name \in Elements(c.config.accounts[c.target].presets)}

\* What a configuration file can hold: presets and the filters under a key are lists.
ASSUME ConfigAssumption ==
  \A c \in Commands : ~ConfigError(c.config, c.target) =>
    /\ IsList(c.config.accounts[c.target].presets)
    /\ \A filters \in FilterLists(c) : \A key \in DOMAIN filters : IsList(filters[key])
    /\ NamesItself(c.includes, TypeName) /\ NamesItself(c.excludes, TypeName)
    /\ \A l \in TypeLists(c) : NamesItself(GetIncludes(l), TypeName) /\ NamesItself(l.excludes, TypeName)

ScannedBy ==
  [c \in Commands |-> IF Rejected(c) THEN {}
                      ELSE UNION {TypesToScan(NamesForScope(scope), c) : scope \in {"compartment", "tenancy"}}]
Scanned == ScannedBy[cmd]

\* What the filters say of an object: "yes", it is kept, "no", or "error".
Says ==
  [c \in Commands |->
     LET filters == IF Rejected(c) THEN <<>> ELSE FiltersOf(c.config, c.target)
     IN  [o \in Object |-> Filter(filters, TypeOf(o), Facts[o].shows)]]
FilterSays(o) == Says[cmd][o]

MatchesPrefix(c, o, format) ==
  \E p \in c.prefixes : Facts[o].name = p \/ <<format, p, Facts[o].name>> \in Extends

Home(o) == Facts[o].home
InActive(o, compartment) ==
  \E c \in Facts[o].inside : Home(c) = compartment /\ life[c] = "active"

\* One selection of a lister.  note is what the first of two reads returned: the default
\* tables of the compartment's VCNs, or the VNICs attached in it.
Selects(how, o, note) ==
  \/ how = "compartment"  /\ Home(o) = cmd.target
  \/ how = "tables"       /\ Home(o) = cmd.target /\ (o \in note => o \in ruled)
  \/ how = "orphans"      /\ Home(o) = cmd.target /\ o \notin note
  \/ how = "globalZones"  /\ Home(o) = cmd.target /\ Facts[o].global /\ ~Facts[o].fixed
  \/ how = "privateZones" /\ Home(o) = cmd.target /\ ~Facts[o].global /\ ~Facts[o].fixed
  \/ how = "inGroups"     /\ InActive(o, cmd.target)
  \/ how = "inVaults"     /\ Home(o) = cmd.target /\ InActive(o, cmd.target)
  \/ how = "prefixed"     /\ Home(o) = "root" /\ MatchesPrefix(cmd, o, "%s-")
  \/ how = "belowRoot"    /\ Home(o) = cmd.target /\ cmd.target # "root"
  \/ how = "ownKeys"      /\ Home(o) = cmd.user /\ MatchesPrefix(cmd, o, "entigo-infralib-%s")

Skipped(t) == {"absent", "gone"} \cup Registered[t].skips

\* Mutant: the default tables are listed as long as they exist.
ListedForever(t, note) ==
  {o \in OfType(t) :
     /\ life[o] \notin Skipped(t)
     /\ \E how \in Registered[t].lists :
          Selects(how, o, IF t = "RouteTable" THEN {} ELSE note)}

Listed(t, note) ==
  {o \in OfType(t) :
     /\ life[o] \notin Skipped(t)
     /\ \E how \in Registered[t].lists : Selects(how, o, note)}

FirstRead(t) ==
  IF t = "RouteTable"
  THEN UNION {Facts[v].takes : v \in {w \in OfType("Vcn") : Home(w) = cmd.target /\ There(w)}}
  ELSE {v \in attached : t = "OrphanedVnic" /\ Facts[v].instance = cmd.target}

-----------------------------------------------------------------------------
(* The scan. *)

\* The configuration is read and the run confirmed.
Start ==
  /\ phase = "start"
  /\ phase' = IF Rejected(cmd) THEN "over" ELSE "scan"
  /\ UNCHANGED <<world, cmd, scan, item, call, again, lap, faults>>

\* Someone starts an instance in a subnet of the compartment, or a node pool a pod.
Launch(v) ==
  /\ phase = "scan"
  /\ life[v] = "absent" /\ Facts[v].instance # "none"
  /\ \A s \in Facts[v].holds \cup GoesWith(v) : life[s] = "active"
  /\ life' = [life EXCEPT ![v] = "active"]
  /\ attached' = attached \cup {v}
  /\ UNCHANGED <<ruled, delegated, cmd, phase, scan, item, call, again, lap, faults>>

\* Types of which there can be nothing are left out: listing them changes nothing.
ToRead ==
  {t \in TypeName \cap Scanned :
     \E o \in OfType(t) : life[o] # "gone" /\ (life[o] = "absent" => Facts[o].instance # "none")}

ReadFirst(t) ==
  /\ phase = "scan"
  /\ t \in (unread \cap TwoReads) \ halfway
  /\ noted' = [noted EXCEPT ![t] = FirstRead(t)]
  /\ halfway' = halfway \cup {t}
  /\ UNCHANGED <<world, cmd, phase, unread, asDefault, item, call, again, lap, faults>>

\* The lister returns, and the filters are applied to all that the channel has room for.
Found(t) == Listed(t, IF t \in TwoReads THEN noted[t] ELSE {})

List(t) ==
  /\ phase = "scan"
  /\ t \in unread /\ (t \in TwoReads => t \in halfway)
  /\ \E found \in SUBSET Found(t) :
       /\ IF found = Found(t) THEN UNCHANGED faults ELSE Fault
       /\ \A o \in found : FilterSays(o) # "error"
       /\ item' = [o \in Object |->
                     IF o \notin found THEN item[o]
                     ELSE IF FilterSays(o) = "yes" THEN "filtered" ELSE "queued"]
       /\ asDefault' = asDefault \cup (IF t = "RouteTable" THEN found \cap noted[t] ELSE {})
  /\ unread' = unread \ {t}
  /\ UNCHANGED <<world, cmd, phase, halfway, noted, call, again, lap>>

\* A filter that cannot be matched ends the run.
FilterBreaks(t) ==
  /\ phase = "scan"
  /\ t \in unread /\ (t \in TwoReads => t \in halfway)
  /\ \E o \in Found(t) : FilterSays(o) = "error"
  /\ phase' = "over"
  /\ UNCHANGED <<world, cmd, scan, item, call, again, lap, faults>>

\* A lister that fails is logged, and its type is not swept in this run.
ListFails(t) ==
  /\ phase = "scan"
  /\ t \in unread
  /\ Fault
  /\ unread' = unread \ {t}
  /\ UNCHANGED <<world, cmd, phase, halfway, noted, asDefault, item, call, again, lap>>

-----------------------------------------------------------------------------
(* The plan. *)

\* What keeps o from being deleted.  A route table is in the way of a gateway by its rules; a
\* certificate or authority that is only scheduled is still in its issuer's, and is gone only
\* when certificateBlocksIssuer no longer counts it.
Holders(o) ==
  {h \in Object :
     /\ o \in Facts[h].holds
     /\ There(h) \/ (TypeOf(o) = "CertificateAuthority" /\ life[h] = "scheduled")
     /\ TypeOf(h) = "RouteTable" /\ TypeOf(o) # "Vcn" => h \in ruled}

\* Blocks(): what a certificate, an authority or a key needs as long as it stands.
Blocks(h) == IF TypeOf(h) \in Implementing("Blocks") THEN Facts[h].needs ELSE {}
BlockLinks == [h \in Object |-> Blocks(h)]
DependsOnIt(o, h) == TypeOf(h) \in DependencyGraph[TypeOf(o)]

\* Along the links, as many steps as there are types that have links: the longest chain.
Along(steps, links, from, among) ==
  LET reached[n \in 0..steps] ==
        IF n = 0 THEN from
        ELSE LET before == reached[n - 1]
             IN  before \cup ((UNION {links[h] : h \in before}) \cap among)
  IN  reached[steps]
Links == Cardinality(Implementing("Blocks"))

\* Mutant: one sweep over the queue, which follows a single link.
KeptByOneSweep ==
  LET filtered == {o \in Object : item[o] = "filtered"}
  IN  Along(1, BlockLinks, filtered, {o \in Object : item[o] = "queued"})

\* planDependents: what a filtered item blocks is filtered.
KeptByThePlan ==
  LET filtered == {o \in Object : item[o] = "filtered"}
  IN  Along(Links, BlockLinks, filtered, {o \in Object : item[o] = "queued"})

\* CertificateAuthority.Defer: it has issued what still exists, in its own compartment.
DefersItself(o) ==
  /\ "Defer" \in Registered[TypeOf(o)].implements
  /\ \E h \in Holders(o) : Facts[h].home = cmd.target

\* planDependents: what the plan keeps, and what of the rest defers itself or is blocked by what
\* does.  A Defer that fails is taken for a no.
Plans ==
  LET kept   == KeptByThePlan
      queued == {o \in Object : item[o] = "queued"} \ kept
      defers == {o \in queued : DefersItself(o)}
  IN  {[kept |-> kept, deferred |-> Along(Links, BlockLinks, said, queued), queued |-> queued,
        sound |-> said = defers] : said \in SUBSET defers}

\* The end of runScanner: without anything to remove, or without --no-dry-run, the run is over.
Plan ==
  /\ phase = "scan" /\ unread = {}
  /\ \E plan \in Plans :
       /\ IF plan.sound THEN UNCHANGED faults ELSE Fault
       /\ item' = [o \in Object |-> IF item[o] # "queued" THEN item[o]
                                    ELSE IF o \in plan.kept THEN "filtered"
                                    ELSE IF o \in plan.deferred THEN "deferred" ELSE "queued"]
       /\ phase' = IF plan.queued \ plan.deferred # {} /\ cmd.noDryRun THEN "sweep" ELSE "over"
  /\ UNCHANGED <<world, cmd, scan, call, again, lap>>

-----------------------------------------------------------------------------
(* The calls of a Remove.  The engine is one goroutine: one at a time.      *)

StillQueued(t) == \E o \in OfType(t) : item[o] \in {"queued", "asked"}

\* HandleWaitDependency: nothing its type depends on is left in the queue.
Due(o) ==
  /\ phase = "sweep" /\ call = NoCall
  /\ item[o] = "queued" /\ \A t \in DependencyGraph[TypeOf(o)] : ~StillQueued(t)

Behind(o) ==
  \E h \in Object :
    /\ item[h] = "deferred" /\ DependsOnIt(o, h)
    /\ TypeOf(h) \in Implementing("Blocks") => o \in Blocks(h)

PutOff(o) ==
  /\ Due(o) /\ Behind(o)
  /\ item' = [item EXCEPT ![o] = "deferred"]
  /\ UNCHANGED <<world, cmd, phase, scan, call, again, lap, faults>>

\* The engine turns to an item that is due, or has failed and is tried again.
Turn(o) ==
  /\ phase = "sweep" /\ call = NoCall
  /\ (Due(o) /\ ~Behind(o)) \/ o \in again
  /\ again' = again \ {o}
  /\ UNCHANGED <<cmd, phase, scan, lap>>

InCall(o, step) ==
  /\ call.of = {o} /\ call.step = step
  /\ UNCHANGED <<cmd, phase, scan, again, lap>>

Returns(o, outcome) ==
  /\ item' = [item EXCEPT ![o] = outcome]
  /\ call' = NoCall

Fails(o) == Fault /\ Returns(o, "failed") /\ UNCHANGED world

Deletable(o) == life[o] = "active" /\ Holders(o) = {} /\ ~Facts[o].fixed

\* One request to delete: accepted, refused, or failed.
Delete(o) ==
  \/ /\ Deletable(o)
     /\ life' = [life EXCEPT ![o] = "going"]
     /\ Returns(o, "asked")
     /\ UNCHANGED <<ruled, attached, delegated, faults>>
  \/ ~Deletable(o) /\ Returns(o, "failed") /\ UNCHANGED <<world, faults>>
  \/ Fails(o)

Removal(o) == Registered[TypeOf(o)].removal

Request(o) ==
  /\ Removal(o) \in {"request", "versionsFirst"}
  /\ Turn(o)
  /\ Delete(o)

\* ensure.  What is scheduled already or gone needs no request, a vault takes its keys along,
\* and an authority whose certificates still exist defers itself.
Schedule(o) ==
  /\ Removal(o) = "schedule"
  /\ Turn(o)
  /\ \/ /\ life[o] = "active" => Holders(o) = {}
        /\ life' = [p \in Object |->
                      IF p \in {o} \cup Facts[o].takes /\ life[o] = "active" /\ life[p] = "active"
                      THEN "scheduled" ELSE life[p]]
        /\ Returns(o, "asked")
        /\ UNCHANGED <<ruled, attached, delegated, faults>>
     \/ /\ life[o] = "active" /\ Holders(o) # {}
        /\ Returns(o, "deferred")
        /\ UNCHANGED <<world, faults>>
     \/ Fails(o)

\* PrivateIpVnicDetach: an address that is gone is no error.
Detach(o) ==
  /\ Removal(o) = "detach"
  /\ Turn(o)
  /\ \/ /\ life' = [life EXCEPT ![o] = IF @ = "active" THEN "going" ELSE @]
        /\ Returns(o, "asked")
        /\ UNCHANGED <<ruled, attached, delegated, faults>>
     \/ Fails(o)

Clear(o) ==
  /\ Removal(o) = "clear" /\ o \in asDefault
  /\ Turn(o)
  /\ \/ life[o] = "active" /\ ruled' = ruled \ {o} /\ Returns(o, "asked") /\ UNCHANGED faults
     \/ life[o] # "active" /\ Returns(o, "failed") /\ UNCHANGED <<ruled, faults>>
     \/ Fault /\ Returns(o, "failed") /\ UNCHANGED ruled
  /\ UNCHANGED <<life, attached, delegated>>

DeleteTable(o) ==
  /\ Removal(o) = "clear" /\ o \notin asDefault
  /\ Turn(o)
  /\ Delete(o)

\* A load balancer: Remove polls until it is gone.
\* Mutant: Remove returns when the request is accepted.
DeleteAndReturn(o) ==
  /\ Removal(o) = "poll"
  /\ Turn(o)
  /\ Delete(o)

DeleteAndPoll(o) ==
  /\ Removal(o) = "poll"
  /\ Turn(o)
  /\ \/ /\ Deletable(o)
        /\ life' = [life EXCEPT ![o] = "going"]
        /\ call' = AtStep(o, "poll")
        /\ UNCHANGED <<ruled, attached, delegated, item, faults>>
     \/ ~Deletable(o) /\ Returns(o, "failed") /\ UNCHANGED <<world, faults>>
     \/ Fails(o)

\* A read that fails and the deadline of ten minutes count as faults.
Poll(o) ==
  /\ InCall(o, "poll")
  /\ \/ life[o] = "gone" /\ Returns(o, "asked") /\ UNCHANGED <<world, faults>>
     \/ Fails(o)

\* A public zone: the delegation in the nearest zone above it goes first.
\* Mutant: an error does not keep the zone from being deleted.
UndelegateOrNot(o) ==
  /\ Removal(o) = "delegationFirst"
  /\ Turn(o)
  /\ \/ delegated' = delegated \ {o} /\ UNCHANGED faults
     \/ Facts[o].global /\ Fault /\ UNCHANGED delegated
  /\ call' = AtStep(o, "delete")
  /\ UNCHANGED <<life, ruled, attached, item>>

Undelegate(o) ==
  /\ Removal(o) = "delegationFirst"
  /\ Turn(o)
  /\ LET above == {p \in Facts[o].parents :
                   Facts[o].global /\ Home(p) = cmd.target /\ life[p] = "active"} IN
     \/ /\ delegated' = IF above = {} THEN delegated ELSE delegated \ {o}
        /\ call' = AtStep(o, "delete")
        /\ UNCHANGED <<life, ruled, attached, item, faults>>
     \/ Facts[o].global /\ Fails(o)

\* A pipeline: what stages there are, a pass over them, another one if that made progress.
StartStages(o) ==
  /\ Removal(o) = "stagesFirst"
  /\ Turn(o)
  /\ call' = AtStep(o, "stages")
  /\ UNCHANGED <<world, item, faults>>

ListStages(o) ==
  /\ InCall(o, "stages")
  /\ LET stages == {s \in Facts[o].parts : life[s] = "active"} IN
     \/ /\ call' = IF stages = {} THEN AtStep(o, "delete")
                   ELSE [AtStep(o, "pass") EXCEPT !.left = stages]
        /\ UNCHANGED <<world, item, faults>>
     \/ Fails(o)

DeleteStage(o) ==
  /\ InCall(o, "pass")
  /\ \E s \in call.left :
       \/ /\ Deletable(s)
          /\ life' = [life EXCEPT ![s] = "going"]
          /\ call' = [call EXCEPT !.left = @ \ {s}, !.progress = TRUE]
          /\ UNCHANGED faults
       \/ ~Deletable(s) /\ call' = [call EXCEPT !.left = @ \ {s}] /\ UNCHANGED <<life, faults>>
       \/ Fault /\ call' = [call EXCEPT !.left = @ \ {s}] /\ UNCHANGED life
  /\ UNCHANGED <<ruled, attached, delegated, item>>

\* Mutant: the loop ends only when there is no stage left.
PassWithout(o) ==
  /\ InCall(o, "pass") /\ call.left = {}
  /\ call' = AtStep(o, "stages")
  /\ UNCHANGED <<world, item, faults>>

PassEnds(o) ==
  /\ InCall(o, "pass") /\ call.left = {}
  /\ \/ call.progress /\ call' = AtStep(o, "stages") /\ UNCHANGED item
     \/ ~call.progress /\ Returns(o, "failed")
  /\ UNCHANGED <<world, faults>>

\* The last call of a Remove that makes several.
DeleteAfter(o) == InCall(o, "delete") /\ Delete(o)

Remove(o) ==
  \/ Request(o) \/ Schedule(o) \/ Detach(o) \/ Clear(o) \/ DeleteTable(o)
  \/ DeleteAndPoll(o) \/ Poll(o) \/ Undelegate(o)
  \/ StartStages(o) \/ ListStages(o) \/ DeleteStage(o) \/ PassEnds(o) \/ DeleteAfter(o)

-----------------------------------------------------------------------------
(* What becomes of an item, and of the run. *)

\* HandleWait of what was asked to go, and of what failed again in this pass.
ToJudge(o) ==
  /\ phase = "sweep" /\ call = NoCall
  /\ item[o] = "asked" \/ (item[o] = "failed" /\ lap > 0 /\ o \notin again)

\* The resource's own hook keeps it waiting as long as it exists.
Hooked(o) == "HandleWait" \in Registered[TypeOf(o)].implements /\ There(o)

StillThere(o) ==
  /\ ToJudge(o) /\ item[o] = "failed"
  /\ Hooked(o)
  /\ item' = [item EXCEPT ![o] = "asked"]
  /\ UNCHANGED <<world, cmd, phase, scan, call, again, lap, faults>>

\* The lister is called anew, and no longer returns it.
Unlisted(o) == o \notin Listed(TypeOf(o), FirstRead(TypeOf(o)))

Finish(o) ==
  /\ ToJudge(o)
  /\ ~Hooked(o) /\ Unlisted(o)
  /\ item' = [item EXCEPT ![o] = "finished"]
  /\ UNCHANGED <<world, cmd, phase, scan, call, again, lap, faults>>

Items(s) == {o \in Object : item[o] = s}
OnlyFailures ==
  /\ phase = "sweep" /\ call = NoCall /\ again = {}
  /\ Items("queued") \cup Items("asked") = {} /\ Items("failed") # {}

\* Mutant: the count of passes is compared once too late.
RetryOnceMore ==
  /\ OnlyFailures /\ lap <= 2
  /\ lap' = lap + 1
  /\ again' = Items("failed")
  /\ UNCHANGED <<world, cmd, phase, scan, item, call, faults>>

\* handleFailure: two more passes over what failed, and the run is over.
RetryFailed ==
  /\ OnlyFailures /\ lap < 2
  /\ lap' = lap + 1
  /\ again' = Items("failed")
  /\ UNCHANGED <<world, cmd, phase, scan, item, call, faults>>

Over ==
  /\ phase' = "over"
  /\ UNCHANGED <<world, cmd, scan, item, call, again, lap, faults>>

GiveUp == OnlyFailures /\ lap = 2 /\ Over

\* Mutant: what has failed does not count as unfinished.
CompleteAnyway ==
  /\ phase = "sweep" /\ call = NoCall
  /\ Items("queued") \cup Items("asked") = {}
  /\ Over

Complete ==
  /\ phase = "sweep" /\ call = NoCall
  /\ Items("queued") \cup Items("asked") \cup Items("failed") = {}
  /\ Over

\* handleWaiting: max wait retries.  The service is faster than their twenty minutes.
WaitedTooLong ==
  /\ phase = "sweep" /\ call = NoCall /\ again = {}
  /\ Items("asked") # {} /\ \A o \in Object : life[o] # "going"
  /\ \A o \in Items("asked") : Hooked(o) \/ ~Unlisted(o)
  /\ \A o \in Items("queued") : \E t \in DependencyGraph[TypeOf(o)] : StillQueued(t)
  /\ Over

\* All a run knows is in memory.
Forgotten ==
  /\ unread' = ToRead
  /\ halfway' = {} /\ noted' = [t \in TwoReads |-> {}] /\ asDefault' = {}
  /\ item' = [o \in Object |-> "none"]
  /\ call' = NoCall /\ again' = {} /\ lap' = 0

\* The operator gives the same command again.
RunAgain ==
  /\ phase = "over"
  /\ phase' = "start"
  /\ Forgotten
  /\ UNCHANGED <<world, cmd, faults>>

\* Between any two calls: the operator does not confirm, or the process is killed.
Interrupt ==
  /\ phase \in {"start", "scan", "sweep"}
  /\ Fault
  /\ phase' = "over"
  /\ Forgotten
  /\ UNCHANGED <<world, cmd>>

Engine ==
  \/ Start \/ Plan \/ RetryFailed \/ GiveUp \/ Complete \/ WaitedTooLong \/ RunAgain
  \/ \E t \in unread : ReadFirst(t) \/ List(t) \/ ListFails(t) \/ FilterBreaks(t)

InQueue == {o \in Object : item[o] # "none"}
Tool == Engine \/ \E o \in InQueue : Remove(o) \/ PutOff(o) \/ StillThere(o) \/ Finish(o)

-----------------------------------------------------------------------------
(* The service. *)

\* A deletion completes, or its date comes: what goes along is gone too, and a node pool may
\* leave VNICs of its pods behind, with nothing they are attached to.
Completes(o) ==
  /\ life[o] \in {"going", "scheduled"}
  /\ \E left \in SUBSET Facts[o].nodes :
       LET with == {o} \cup Facts[o].takes \cup (Facts[o].nodes \ left) IN
       /\ life' = [p \in Object |->
                     IF p \in with /\ life[p] # "absent" THEN "gone" ELSE life[p]]
       /\ attached' = attached \ (with \cup Facts[o].nodes)
       /\ ruled' = ruled \ with
  /\ UNCHANGED <<delegated, cmd, phase, scan, item, call, again, lap, faults>>

Next == Tool \/ Interrupt \/ \E o \in Object : Completes(o) \/ Launch(o)

Init ==
  \E c \in Cases :
    /\ cmd = c.command
    /\ life = [o \in Object |-> IF o \in c.has THEN "active" ELSE "absent"]
    /\ ruled = c.has \cap OfType("RouteTable")
    /\ attached = {v \in c.has : Facts[v].instance # "none"}
    /\ delegated = {z \in c.has : Facts[z].global /\ Facts[z].parents \cap c.has # {}}
    /\ phase = "start"
    /\ unread = ToRead
    /\ halfway = {} /\ noted = [t \in TwoReads |-> {}] /\ asDefault = {}
    /\ item = [o \in Object |-> "none"]
    /\ call = NoCall /\ again = {} /\ lap = 0
    /\ faults = 0

Spec == Init /\ [][Next]_vars

\* Every call returns, the command is given again after every run, and every deletion that
\* was accepted completes.
FairSpec == Spec /\ WF_vars(Tool) /\ WF_vars(\E o \in Object : Completes(o))

-----------------------------------------------------------------------------
(* Properties. *)

TypeOK ==
  /\ life \in [Object -> {"absent", "active", "going", "scheduled", "gone"}]
  /\ ruled \subseteq Object /\ attached \subseteq Object /\ delegated \subseteq Object
  /\ \E c \in Cases : cmd = c.command
  /\ phase \in {"start", "scan", "sweep", "over"}
  /\ unread \subseteq TypeName /\ halfway \subseteq TwoReads
  /\ noted \in [TwoReads -> SUBSET Object] /\ asDefault \subseteq OfType("RouteTable")
  /\ item \in [Object -> ItemState]
  /\ call \in Call
  /\ again \subseteq Items("failed")
  /\ lap \in 0..2 /\ faults \in 0..MaxFaults

\* What a command puts at stake, said without the order of anything: nothing, unless it is a
\* valid one that is no dry run.  Then, of the types that each include list with something in it
\* names and no exclude list does, what no filter under its type or under all of them speaks for
\* or chokes on, in the account's own list or in one of its presets, by where it is and what it
\* is called: all of the compartment's but what is the service's; of what all of the tenancy
\* shares only what bears one of the prefixes, even if the root is the compartment to sweep, and
\* of secret keys only the user's own.
Names(list, t) == \E p \in list : t \in p.matches
AskedFor(c, t) ==
  /\ c.includes = {} \/ Names(c.includes, t)
  /\ \A l \in TypeLists(c) : l.includes \cup l.targets = {} \/ Names(l.includes \cup l.targets, t)
  /\ ~Names(c.excludes, t) /\ \A l \in TypeLists(c) : ~Names(l.excludes, t)

Spared(c, o) ==
  \E filters \in FilterLists(c), key \in {"__global__", TypeOf(o)} :
    /\ key \in DOMAIN filters
    /\ \E i \in DOMAIN filters[key] :
         LET f == filters[key][i]
         IN  Answer(f, GetProperty(Facts[o].shows, f.property)) # "no"

InReach(c, o) ==
  \/ /\ TypeOf(o) \notin NamesForScope("tenancy") \/ (TypeOf(o) = "Policy" /\ c.target # "root")
     /\ Facts[o].home = c.target
  \/ /\ TypeOf(o) \in NamesForScope("tenancy") \ {"CustomerSecretKey"}
     /\ Facts[o].home = "root" /\ MatchesPrefix(c, o, "%s-")
  \/ /\ TypeOf(o) = "CustomerSecretKey"
     /\ Facts[o].home = c.user /\ MatchesPrefix(c, o, "entigo-infralib-%s")

AtStake ==
  [c \in Commands |->
     {o \in Object :
        /\ c.noDryRun /\ ~Rejected(c)
        /\ TypeOf(o) \in TypeName /\ AskedFor(c, TypeOf(o))
        /\ ~Spared(c, o)
        /\ TypeOf(o) = "DnsZone" => ~Facts[o].fixed
        /\ InReach(c, o)}]
Ours(o) == o \in AtStake[cmd]

\* Nothing ever disappears but what is ours, or goes with something of ours: whatever the
\* target, the user and the prefixes, in however many runs.
OnlyOurs ==
  [][\A o \in Object :
       life[o] = "active" /\ life'[o] # "active" =>
         Ours(o) \/ \E p \in GoesWith(o) : Ours(p)]_vars

\* What places VNICs in a subnet or a security group "must be gone first": neither is asked to
\* go before those of them the run took on are gone, or their removal has failed, however long
\* their deletion takes the service and whatever fails.
AskedInThisStep(o) == item[o] = "queued" /\ item'[o] \in {"asked", "failed"}
VnicOwnersGoneFirst ==
  [][\A o \in OfType("Subnet") \cup OfType("NetworkSecurityGroup") :
       AskedInThisStep(o) =>
         \A h \in Object :
           /\ TypeOf(h) \in VnicOwners /\ o \in Facts[h].holds
           /\ item[h] \notin {"none", "filtered", "deferred", "failed"}
           => ~There(h)]_vars

\* A zone that is gone leaves no delegation behind in a zone of its compartment that stays,
\* whichever call failed on the way: "recreating the zone fails on the one already there".
NoDanglingDelegation ==
  \A z \in delegated :
    life[z] = "gone" => \A p \in Facts[z].parents : Home(p) = Home(z) => life[p] # "active"

\* Each run ends: no Remove loops for ever, none waits for what cannot come, and a queue of
\* failures is given up.
RunEnds == phase = "start" ~> phase = "over"

\* What keeps a thing from ever being swept: an instance in its subnet, something in its way
\* that is not ours to delete and has no rules to clear, or that needs it and is not ours, or a
\* filter that stops every run.
InTheWay(o) == Holders(o) \cup {h \in Object : There(h) /\ o \in Facts[h].needs}
Hopeless ==
  \/ attached # {}
  \/ \E o \in Object : There(o) /\ TypeOf(o) \in Scanned /\ FilterSays(o) = "error"
  \/ \E o \in Object : Ours(o) /\ \E h \in InTheWay(o) :
       \/ Facts[h].fixed /\ TypeOf(h) # "RouteTable"
       \/ ~(Ours(h) \/ \E p \in GoesWith(h) : Ours(p))

\* Given again and again, the command sweeps all that is ours, also what a run that failed
\* left, what its own removals set free, and what is hidden behind a default table or a zone
\* that only goes with its VCN.
Swept ==
  \A o \in Object :
    Ours(o) /\ There(o) => Facts[o].fixed /\ \A p \in GoesWith(o) : ~(There(p) /\ Ours(p))
SweptInTheEnd == <>[](Swept \/ Hopeless)

\* What a filter keeps, keeps what it needs, along the whole chain: as long as it stands, nothing
\* that the run has listed on the way from it is scheduled.  The same holds for what is
\* deferred, while nothing fails: the authority that has to wait finds its key and vault there.
Chain(o) ==
  Along(Links, [h \in Object |-> Facts[h].needs], {o}, {p \in Object : item[p] # "none"}) \ {o}
KeptKeepsItsChain ==
  [][\A h \in Object :
       /\ There(h)
       /\ item[h] = "filtered" \/ (item[h] = "deferred" /\ faults' = 0)
       => \A o \in Chain(h) : life[o] = "active" => life'[o] = "active"]_vars

\* A run that ends well, after no call has ever failed, has left nothing standing that is at
\* stake but what it named: what is deferred, and what the plan keeps for what a filter keeps.
CleanExit ==
  [][Complete /\ faults = 0 =>
       \A o \in Object : Ours(o) /\ life[o] = "active" =>
         Facts[o].fixed \/ item[o] \in {"filtered", "deferred"}]_vars

\* "exactly the ones with no attachment (never a VNIC still in use)".
NeverInUse ==
  [][\A v \in OfType("OrphanedVnic") :
       life[v] = "active" /\ life'[v] = "going" => v \notin attached]_vars
=============================================================================
