------------------------------ MODULE Catalogue ------------------------------
(***************************************************************************)
(* The resource types, one definition per file of src/resources: the scope *)
(* a type is registered in, the types it is registered to depend on, how   *)
(* its lister selects objects, the states it leaves out, how Remove works, *)
(* and the optional interfaces of resource.go it implements.               *)
(***************************************************************************)
EXTENDS Integers, FiniteSets

(***************************************************************************)
(* A lister makes one or more selections, and leaves out what is being     *)
(* deleted ("going": DELETING, TERMINATING) or is due to be ("scheduled"). *)
(* Nearly every type is like this one: all of the compartment, one request *)
(* to delete, nothing more.                                                *)
(***************************************************************************)
Plain ==
  [scope |-> "compartment", dependsOn |-> {}, lists |-> {"compartment"},
   skips |-> {"going"}, removal |-> "request", implements |-> {}]

After(types) == [Plain EXCEPT !.dependsOn = types]

-----------------------------------------------------------------------------
(* The network. *)

VnicOwners == {"OkeCluster", "OkeNodePool", "LoadBalancer", "NetworkLoadBalancer"}

Vcn ==
  After({"DnsZone", "Subnet", "RouteTable", "InternetGateway", "NatGateway",
         "ServiceGateway", "NetworkSecurityGroup"})
Subnet == After(VnicOwners \cup {"OrphanedVnic"})
NetworkSecurityGroup == After(VnicOwners)
InternetGateway == After({"RouteTable"})
NatGateway == After({"RouteTable"})
ServiceGateway == After({"RouteTable"})

\* A default route table is cleared, not deleted, and not listed once it has no rules.
RouteTable ==
  [After({"Subnet"}) EXCEPT !.lists = {"tables"}, !.removal = "clear"]

\* A VNIC without an attachment is found by its private address and released by it.
OrphanedVnic ==
  [After(VnicOwners) EXCEPT !.lists = {"orphans"}, !.skips = {}, !.removal = "detach"]

\* Their Remove returns when the load balancer is gone.
LoadBalancer == [Plain EXCEPT !.removal = "poll"]
NetworkLoadBalancer == [Plain EXCEPT !.removal = "poll"]

\* Protected zones are left out, in either DNS scope.
DnsZone ==
  [Plain EXCEPT !.lists = {"globalZones", "privateZones"}, !.removal = "delegationFirst"]

-----------------------------------------------------------------------------
(* Compute, storage, DevOps, logging and notifications. *)

OkeNodePool == [Plain EXCEPT !.implements = {"HandleWait"}]
OkeCluster == [After({"OkeNodePool"}) EXCEPT !.implements = {"HandleWait"}]
ContainerInstance == Plain
BlockVolume == After({"OkeNodePool"})
Bucket == [Plain EXCEPT !.skips = {}, !.removal = "versionsFirst"]

BuildPipeline == [Plain EXCEPT !.removal = "stagesFirst"]
DeployPipeline == [Plain EXCEPT !.removal = "stagesFirst"]
BuildRun == Plain
DevopsRepository == Plain
DevopsProject == After({"DeployPipeline", "BuildPipeline", "DevopsRepository"})

Log == [Plain EXCEPT !.lists = {"inGroups"}]
LogGroup == After({"Log"})
OnsTopic == Plain

-----------------------------------------------------------------------------
(* What is only scheduled for deletion. *)

Scheduled(types) ==
  [After(types) EXCEPT !.skips = {"going", "scheduled"}, !.removal = "schedule"]

Certificate == [Scheduled({}) EXCEPT !.implements = {"Blocks"}]
CertificateAuthority ==
  [Scheduled({"Certificate"}) EXCEPT !.implements = {"Blocks", "Defer"}]
Key ==
  [Scheduled({"CertificateAuthority"}) EXCEPT !.lists = {"inVaults"}, !.implements = {"Blocks"}]
Vault == Scheduled({"Key"})

-----------------------------------------------------------------------------
(* The tenancy's own: shared with everybody else, so selected by name.     *)

Shared(selections) == [Plain EXCEPT !.scope = "tenancy", !.lists = selections]

User == Shared({"prefixed"})
Group == [Shared({"prefixed"}) EXCEPT !.dependsOn = {"User"}]
DynamicGroup == Shared({"prefixed"})
CustomerSecretKey == Shared({"ownKeys"})

\* Mutant: the compartment is listed even if it is the root.
PolicyTwice == Shared({"prefixed", "compartment"})

\* Those of the root by name, and all of the compartment, unless that is the root.
Policy == Shared({"prefixed", "belowRoot"})

-----------------------------------------------------------------------------
(* What the init functions leave in the registry. *)

Registered ==
  [Vcn |-> Vcn, Subnet |-> Subnet, NetworkSecurityGroup |-> NetworkSecurityGroup,
   InternetGateway |-> InternetGateway, NatGateway |-> NatGateway,
   ServiceGateway |-> ServiceGateway, RouteTable |-> RouteTable, OrphanedVnic |-> OrphanedVnic,
   LoadBalancer |-> LoadBalancer, NetworkLoadBalancer |-> NetworkLoadBalancer,
   DnsZone |-> DnsZone, OkeNodePool |-> OkeNodePool, OkeCluster |-> OkeCluster,
   ContainerInstance |-> ContainerInstance, BlockVolume |-> BlockVolume, Bucket |-> Bucket,
   BuildPipeline |-> BuildPipeline, DeployPipeline |-> DeployPipeline, BuildRun |-> BuildRun,
   DevopsRepository |-> DevopsRepository, DevopsProject |-> DevopsProject, Log |-> Log,
   LogGroup |-> LogGroup, OnsTopic |-> OnsTopic, Certificate |-> Certificate,
   CertificateAuthority |-> CertificateAuthority, Key |-> Key, Vault |-> Vault, User |-> User,
   Group |-> Group, DynamicGroup |-> DynamicGroup, CustomerSecretKey |-> CustomerSecretKey,
   Policy |-> Policy]

TypeName == DOMAIN Registered
NamesForScope(scope) == {t \in TypeName : Registered[t].scope = scope}
Implementing(interface) == {t \in TypeName : interface \in Registered[t].implements}
DependencyGraph == [t \in TypeName |-> Registered[t].dependsOn]

\* Every type something depends on is registered, in the same scope: the engine holds nothing
\* back for a type that no scanner looks for.
ASSUME DependenciesAreRegistered ==
  \A t \in TypeName : Registered[t].dependsOn \subseteq NamesForScope(Registered[t].scope)

\* No type waits for itself: every set of types has one that depends on none of the others.
\* Two levels of VnicOwners at most lie below a type, so nine rounds of taking away reach all.
Free(types) == {t \in types : DependencyGraph[t] \cap types = {}}
Without[n \in 0..9] == IF n = 0 THEN TypeName ELSE Without[n - 1] \ Free(Without[n - 1])
ASSUME NoTypeWaitsForItself == Without[9] = {}

\* A type that others depend on without naming what it blocks depends on no type that does: what
\* planDependents assumes of the chains it follows.
ASSUME NamelessAreNotNamed ==
  \A t \in TypeName \ Implementing("Blocks") :
    (\E u \in TypeName : t \in DependencyGraph[u]) => DependencyGraph[t] \cap Implementing("Blocks") = {}
=============================================================================
