----------------------------- MODULE MCAccount -----------------------------
(***************************************************************************)
(* Corners of a tenancy, one for each way a Remove works, and the commands *)
(* and configurations that tell them apart.                                *)
(***************************************************************************)
EXTENDS Account

Thing(type, home) ==
  [type |-> type, home |-> home, name |-> "none", shows |-> [Name |-> "some"], holds |-> {},
   needs |-> {}, takes |-> {}, parts |-> {},
   nodes |-> {}, inside |-> {}, parents |-> {}, global |-> FALSE, fixed |-> FALSE,
   instance |-> "none"]

Team(type, held) == [Thing(type, "team") EXCEPT !.holds = held]
Needing(type, needs) ==
  [Team(type, {}) EXCEPT !.needs = needs, !.inside = IF type = "Key" THEN needs ELSE {}]
Shares(type, name) == [Thing(type, "root") EXCEPT !.name = name]

Everything ==
  [vcn       |-> [Team("Vcn", {}) EXCEPT !.takes = {"table", "label"}],
   table     |-> [Team("RouteTable", {"gateway"}) EXCEPT !.fixed = TRUE],
   label     |-> [Team("DnsZone", {}) EXCEPT !.fixed = TRUE],
   gateway   |-> Team("InternetGateway", {"vcn"}),
   subnet    |-> Team("Subnet", {"vcn"}),
   pool      |-> [Team("OkeNodePool", {"subnet"}) EXCEPT !.nodes = {"pod"}],
   pod       |-> [Team("OrphanedVnic", {"subnet"}) EXCEPT !.instance = "team"],
   spare     |-> Team("RouteTable", {}),
   annex     |-> Team("Subnet", {"spare"}),
   guest     |-> [Team("OrphanedVnic", {"annex"}) EXCEPT !.instance = "team"],
   balancer  |-> Team("LoadBalancer", {"annex"}),
   above     |-> [Team("DnsZone", {}) EXCEPT !.global = TRUE, !.shows = [Name |-> "above"]],
   below     |-> [Team("DnsZone", {}) EXCEPT !.global = TRUE, !.parents = {"above"}],
   project   |-> Team("DevopsProject", {}),
   pipeline  |-> [Team("BuildPipeline", {"project"}) EXCEPT !.parts = {"first", "last"}],
   first     |-> Team("Stage", {"pipeline"}),
   last      |-> Team("Stage", {"pipeline", "first"}),
   jammed    |-> [Team("DeployPipeline", {}) EXCEPT !.parts = {"stuck"}],
   stuck     |-> [Team("Stage", {"jammed"}) EXCEPT !.fixed = TRUE],
   group     |-> Team("LogGroup", {}),
   log       |-> [Team("Log", {"group"}) EXCEPT !.inside = {"group"}],
   vault     |-> [Team("Vault", {}) EXCEPT !.takes = {"key"}],
   key       |-> Needing("Key", {"vault"}),
   hsm       |-> [Team("Vault", {}) EXCEPT !.takes = {"signer"}],
   signer    |-> Needing("Key", {"hsm"}),
   issuer    |-> Needing("CertificateAuthority", {"signer"}),
   sub       |-> [Needing("CertificateAuthority", {"signer"}) EXCEPT !.holds = {"issuer"}],
   wildcard  |-> [Needing("Certificate", {"sub"}) EXCEPT !.holds = {"sub"}, !.shows = [Name |-> "wildcard"]],
   foreign   |-> [Thing("Certificate", "other") EXCEPT !.holds = {"issuer"}, !.needs = {"issuer"}],
   job       |-> [Team("ContainerInstance", {"annex"}) EXCEPT !.shows = [Tag |-> "job"]],
   ours      |-> Shares("Policy", "dev"),
   theirs    |-> Shares("Policy", "ops"),
   app       |-> Team("Policy", {}),
   loki      |-> [Shares("User", "dev") EXCEPT !.takes = {"lokikey"}],
   members   |-> Shares("Group", "dev"),
   members2  |-> Shares("Group", "dev2"),
   lokikey   |-> [Thing("CustomerSecretKey", "loki") EXCEPT !.name = "dev"],
   mykey     |-> [Thing("CustomerSecretKey", "me") EXCEPT !.name = "dev"],
   mykey2    |-> [Thing("CustomerSecretKey", "me") EXCEPT !.name = "dev2"],
   opskey    |-> [Thing("CustomerSecretKey", "me") EXCEPT !.name = "ops"]]

Things == DOMAIN Everything

\* dev2 goes on where dev ends: no name of it starts with "dev-", but its secret keys do with
\* "entigo-infralib-dev".
Longer == {<<"entigo-infralib-%s", "dev", "dev2">>}

NoTypes == [targets |-> {}, includes |-> {}, excludes |-> {}]
NoFilters == <<>>
Declared == [filters |-> NoFilters, presets |-> <<>>, types |-> NoTypes]

Filtering(type, property, value) ==
  [type |-> type, property |-> property, value |-> value, values |-> {value}, breaks |-> {}, invert |-> FALSE]
Named(name) == Filtering("exact", "Name", name)
Unmatchable == [Filtering("pattern", "Name", "some") EXCEPT !.breaks = {"some"}]
NotTagged(tag) == [Filtering("exact", "Tag", tag) EXCEPT !.invert = TRUE]

Keeping == [keep |-> [filters |-> [__global__ |-> <<Filtering("In", "Name", "wildcard")>>]]]

Sweep ==
  [target |-> "team", user |-> "me", prefixes |-> {"dev"}, includes |-> {}, excludes |-> {},
   noDryRun |-> TRUE,
   config |-> [accounts |-> [team |-> Declared, root |-> Declared], presets |-> Keeping, types |-> NoTypes]]
With(filters) == [Sweep EXCEPT !.config.accounts.team.filters = filters]
Case(command, has) == [command |-> command, has |-> has]

Iam == {"ours", "theirs", "app", "loki", "lokikey", "members", "mykey", "opskey"}

\* A corner for each way a resource is removed.
Removals ==
  {Case(Sweep, {"vcn", "table", "label", "gateway"}),
   Case(Sweep, {"vcn", "subnet", "pool", "pod"}),
   Case(Sweep, {"annex", "balancer"}),
   Case(Sweep, {"annex", "job"}),
   Case(Sweep, {"above", "below"}),
   Case(Sweep, {"project", "pipeline", "first", "last"}),
   Case(Sweep, {"jammed", "stuck"}),
   Case(Sweep, {"theirs", "app", "members2", "mykey", "mykey2", "opskey"}),
   Case([Sweep EXCEPT !.target = "root", !.user = "nobody"], Iam),
   Case(Sweep, {"wildcard", "sub", "issuer", "signer", "hsm"}),
   Case(Sweep, {"foreign", "issuer", "signer", "hsm"})}

\* The configurations.
Lists ==
  {Case([Sweep EXCEPT !.excludes = {Matching({"Vault"})}], {"group", "log", "vault", "key"}),
   Case([Sweep EXCEPT !.includes = {Matching({"Policy", "Group"})}], {"ours", "loki", "members"}),
   Case([Sweep EXCEPT !.includes = {Typo("Grop")}], {"annex"}),
   Case([Sweep EXCEPT !.includes = {Matching({"Subnet"})},
                      !.excludes = {Typo("Subnt")},
                      !.config.types.targets = {Matching({"Subnet", "NatGateway"})},
                      !.config.accounts.team.types.excludes = {Matching({"NatGateway"})}],
        {"annex", "spare"})}

Filtered ==
  {Case(With([DnsZone |-> <<Named("other"), Named("above")>>]), {"above", "below"}),
   Case([Sweep EXCEPT !.config.accounts.team.presets = <<"keep">>],
        {"wildcard", "sub", "signer", "hsm"}),
   Case(With([__global__ |-> <<NotTagged("job")>>]), {"annex", "job"}),
   Case(With([LoadBalancer |-> <<Unmatchable>>]), {"annex", "balancer"}),
   Case(With([LoadBalancer |-> <<Named("some"), Unmatchable>>]), {"annex", "balancer"})}

Refused ==
  {Case([Sweep EXCEPT !.noDryRun = FALSE], {"annex"}),
   Case([Sweep EXCEPT !.target = "other"], {"foreign"}),
   Case([Sweep EXCEPT !.config.accounts.team.presets = <<"keep", "kept">>], {"annex"}),
   Case(With([Vcn |-> <<Filtering("In", "", "")>>]), {"annex"})}

Corners == Removals \cup Lists \cup Filtered \cup Refused

JustAnnex == {Case(Sweep, {"annex"})}
=============================================================================
