# A verification development for oci-nuke

oci-nuke deletes what an OCI compartment holds: it lists every resource of the
compartment, plans what to keep, asks once, and then removes the rest pass by
pass until nothing is left or nothing moves any more. What makes it hard to test
is that almost nothing it does takes effect at once. Services accept a deletion
and finish it minutes or days later, refuse it while something else stands,
forget answers, and list what is already going; the program has one loop, one
listing and three counters to make sense of all that.

The modules here model that program: the run engine, the planner in front of it,
the scanner in front of that, the two removals that have a protocol of their
own, scheduled deletions and buckets, the catalogue of resource types, the type
lists and filters of a configuration, and what the tool as a whole does to a
tenancy when it is run until nothing is left. TLC checks them on small
instances. All safety properties of the passing runs are proved for every
instance, two of them under a condition (section 4); the engine is proved to
implement an abstract teardown, and to start from whatever the planner can hand
to it.

All paths are relative to the repository. `nuke.go`, `item.go` and `scan.go`
stand for the files of `src/third_party/libnuke/pkg`, the engine the program is
built on, and `nuke.go` alone for `pkg/nuke/nuke.go`.

## 1. The system

    registry + config --> types, filters
                            |
    Scanner.Run --Items--> runScanner --> planDependents --> prompt --> run loop
      one goroutine          filter,        filter and         |       HandleQueue
      per type               Defer          deferral spread    |       HandleFailure
                                                               v       HandleWaiting
                                              lister / Remove / HandleWait of each type
                                                               |
                                                            OCI APIs

### Components

| component | state it keeps | operations | modelled |
|---|---|---|---|
| removal queue and items (`pkg/queue`) | each item's state, of ten | count by state and type, Blocks, Equals | `Queue` |
| run engine (`pkg/nuke`) | the queue, failedCount, waitingCount, a listing cache per pass | Run, HandleQueue, HandleRemove, HandleWaitDependency, HandleWait, the checks that end a pass | `Nuke` |
| planner (`pkg/nuke`) | the queue while it is filled | runScanner's loop, Filter, checkDefer, planDependents | `Plan` |
| scanner (`pkg/scanner`) | semaphore, channel, goroutines | Run, list | `Scanner` |
| scheduled deletion (`scheduled_deletion.go`; certificates, authorities, vaults, keys) | none: it reads the service's | ensure, settled, the listers' skip rule | `ScheduledDeletion` |
| bucket (`bucket.go`) | two channels, a worker pool | Remove | `Bucket` |
| OKE cluster, node pool | none | HandleWait | the hook in `Nuke` |
| load balancers | none | Remove, which polls until the balancer is gone | `Account` |
| build and deploy pipelines | none | Remove: stages by passes, then the pipeline | `Account` |
| DNS zone | none | Remove: the parent's delegation, then the zone | `Account` |
| orphaned VNIC, default route table | none | listers of two reads; a Remove that detaches, one that clears | `Account` |
| the catalogue of types (`src/resources`) | none | per type: scope, DependsOn, a lister, a Remove, optional interfaces | `Catalogue` |
| tenancy-wide types | none | listers by name prefix or user | `Catalogue`, `Account` |
| registry | maps filled at init | Register, names by scope, the dependency graph | `Catalogue` |
| filters (`pkg/filter`) | none | Match, Validate, Append, Get; groups, dates | `Selection`, without groups |
| configuration, type resolution | none after start | type lists, presets, accounts; reading the file | `Selection` |
| command, prompt, main | none | execute; flags, credentials, exit code | `Start`, `Interrupt` in `Account`; `Confirm` in `Nuke` |
| clients, helpers | none | API clients, property maps, logs | no |

### How they interact

* The **scanner** starts one goroutine per type, as many at a time as its
  semaphore allows, and all send on one buffered channel. Nobody reads it until
  Run has closed it, so a full channel cannot block and drops instead.
* The **planner** reads the closed channel, lets filters and the resource's own
  Defer withdraw items, and then spreads both withdrawals along the links between
  resources: a resource that a kept one names, must stay; a resource that a
  deferred one blocks, must wait for a later run.
* The **engine** is one goroutine. It walks the queue, calls Remove on what is
  new, held or failed, and lists again to see whether what is pending has gone.
  The types' DependsOn graph decides when an item may be tried at all. Every
  call is a point where the cloud moves on.
* A **resource** answers Remove with nil, an error, a hold or a deferral, and may
  have a HandleWait that is asked before the listing is.
* The **cloud** is the other actor: it completes deletions, refuses them, lets
  somebody else delete, loses answers.

### What is hard, and what makes each part correct

The hazards are listed one by one, with their lines, in `PROJECT.json`. In short:

* *Engine.* State is read from a listing that may be as old as the pass, acted on
  after other calls were made, and overwritten by the next handler. It is correct
  when nothing is tried before what stands on it is out of the way, nothing is
  called finished that the cloud still keeps, success leaves nothing behind,
  failure was earned by three attempts, what a filter keeps is never touched, a
  deferral stays, and every run ends.
* *Planner.* Two withdrawals spread in one loop and one of them overrides the
  other. It is correct when the plan depends on the answers only and not on the
  order of the queue: it is the least one closed under the links.
* *Scanner.* A channel closed too early panics or loses resources; a permit lost
  hangs Run. It is correct when the close comes last, the limit holds, nothing is
  dropped while there is room, and Run returns.
* *Scheduled deletion.* The service is asynchronous and keeps dates of its own. It
  is correct when success means the date is right, no request is sent into a
  transition, and no way out leaves the resource with no deletion scheduled.
* *Bucket.* A pool, two channels and an error path. It is correct when the bucket
  is only deleted empty, no version is handed out twice, and Remove returns.
* *The tool as a whole.* Listers fail, removals fail half-way, processes are killed, and
  a run's own removals set free what its scan could not see. It is correct when nothing
  disappears but what command line and configuration mean, what a filter keeps keeps what
  it needs, what holds a subnet goes before the subnet, no half-way removal leaves the
  world in a state the next run cannot mend, every run ends, a clean end is clean, and
  running it again and again leaves nothing behind.

## 2. The modules

### Queue

The operators the engine and the planner share: states, `DependenciesOf`,
`InTheWay` (a deferred or kept item blocks by the links it names, or by type if
it names none), `PlanClosed` and `PlanSupported`, which say of a plan what
planDependents establishes, and `IsPlan`, which is what the engine's runs start from.
Items are `1..N`, in queue order.

### Nuke: the run engine

| in the code | in the module |
|---|---|
| Run after the scan, the prompt | `Confirm` |
| HandleQueue's switch | `Dispatch` and its five disjuncts |
| HandleRemove | `HandleRemove(i)`, one disjunct per answer of the API |
| HandleWaitDependency | `HandleWaitDependency(i)` |
| HandleWait: the resource's hook, the listing, the verdict | `Hook`, then `List` |
| handleFailure, handleWaiting, the loop | `HandleFailure`, `HandleWaiting`, `Loop` |
| the cloud | `DeletionCompletes`, `Vanishes` |

One step is the engine's code between two API calls, so the cloud may move
between any two of them and nowhere else. `entered` is the state HandleQueue
found the item in, which it needs after HandleWait has returned, because it
overwrites what HandleWait decided for an item that was pending.

`cloud` says of each item whether it is present, deleting or gone. `Holders` says
what makes the cloud refuse a removal. It is deliberately not derived from
DependsOn: the dependency graph is the program's idea of the order and the
holders are the cloud's, and the properties compare the two. A type is immediate
(Remove returns when it is gone), lingering (the listing shows it while it is
being deleted) or scheduled (gone only days later). Lingering stands for a listing that is behind, since
the listers of this program leave out what is being deleted; and no Remove of this
program answers with a hold, so HoldTypes only exercises a branch the engine has. Names are values of their own,
because Equals compares them and two resources may share one.

`attempts` and `everFailed` are observers: no guard reads them.

Left out: SettingsGetter, unique keys and the second Filter call in HandleWait,
which no resource of this program implements; resources that appear during the
run, which the queue never sees; a resource whose lifecycle ends in FAILED.

### Plan: the planner

`ScanItem` is the body of runScanner's loop on the next item: a filter matches, or
Defer says yes, or neither, or the filter cannot be evaluated and the run stops.
`Sweep` and `PlanItem` are planDependents, one item a step, since a sweep sees
what it has itself changed earlier. `matched` and `ownDeferred` record the answers,
so that the result can be compared with a definition of the plan made from the
answers alone (`Kept`, `Deferred`: least sets closed under the links).

That the result depends on the answers alone rests on `ChainsAreNamed`: a type that others
depend on but that names nothing depends on no type that does. Otherwise such an item could
defer its dependents in one sweep and be kept in the next, and in another order of the queue
be kept first. The registry as it is satisfies it (`NamelessAreNotNamed` of `Catalogue`).

### Scanner

`Start`, `Close` are Run; `ListReturns`, `ListFails`, `ListPanics`, `Enqueue`,
`Drop`, `Finish` are the goroutine of a type. The resources are counted, not
named. The type order is a map's, so any type may start next. ctx is cancelled
only after Run has returned, so cancellation is not modelled.

### ScheduledDeletion

One certificate, authority or vault (a key behaves as a vault) from the scan that
lists it to the end of the run. ensure's loop is `Settled` (a read, repeated while
the service is in a transition, up to a deadline) and `Act` (what it does with what
it read); between the two the service moves. Around it are the engine's steps on this
one item: retry, and HandleWait's listing with the lister's own rule for what it
leaves out. Dates are near, late or none: near is within scheduledDeletionSlack of
what ensure asked for, the only comparison the code makes.

### Bucket

The caller (`ListPage`, `Send`, `PageDone`, `WaitDone`, `Check`, `DeleteBucket`) and
the workers (`Take`, `DeleteObject`, `DeleteFails`, `Report`, `Exit`) over two
bounded channels. The order of a channel does not matter to what is checked, so one
is a set and the other, of errors, a number.

### Teardown: what a run promises

The abstract specification of the engine: every resource has a fate, from planned to
asked, troubled, put off, deferred, kept or done, and a run a verdict. There are no
passes, listings, caches or counters in it. Its rules are the promises: a resource is
asked to go only when what depends on it is out of the way, kept and deferred and done
are for good, done is only what is gone, and each verdict says what became of the
whole queue. `Nuke` defines the mapping (`FateOf`, from state, attempts and everFailed)
and `ImplementsTeardown`.

### Catalogue: the resource types

One definition per file of `src/resources`, a record of what the engine and the tool
see of a type: `scope` and `dependsOn` from its init function, `lists` (the selections
of its lister), `skips` (the life it leaves out), `removal` (how Remove works) and
`implements` (HandleWait, Blocks, Defer). `Registered` is what the init functions leave
in the registry. Three assumptions are evaluated by every run of `MCAccount`:
every dependency is registered, in the same scope; no set of types waits for itself; and
the one of the planner on types that name nothing.
MCNuke and MCPlan take their graph and their interfaces from here.

### Selection: what is asked for, and what is kept

Operators, no state. Type lists: a pattern is what was written and the type names it
matches, so that a typo is one that matches nothing; `Expand`, `IncludeOnly`, `Exclude`
and `ResolveResourceTypes` are Collection's and utils.go's, `TypesToScan` execute's use of
them for either scope. Filters: `Match` and `Answer` for one filter and one value, where
globs, regular expressions, prefixes and dates are the values they accept and those they
cannot be matched with; `Validate`; `FiltersOf`, the account's with its presets' appended;
`Get`, those for every type before those for one; `Filter`, where the first filter that
speaks decides. The configuration is a record of accounts, presets and type lists.

### Account: the tool as its operator knows it

| in the code | in the module |
|---|---|
| the command line: compartment, user, prefixes, lists, `--no-dry-run`; the configuration | `cmd` |
| execute up to the scan, and what makes it return an error | `Start`, `Rejected` |
| a lister: its selections, and the life it leaves out | `Listed(t, note)`, `Selects` |
| a lister that reads two lists (route tables, orphaned VNICs) | `ReadFirst`, then `List` |
| a lister that fails, in the scan; a channel that drops | `ListFails`; the part of `Found` that `List` takes |
| Filter on what was listed; a filter that cannot be matched | `List`, `FilterBreaks` |
| Defer and planDependents; nothing to delete; a dry run | `Plan` |
| a deferral that reaches a dependent in the run | `PutOff` |
| Remove by one request; by a schedule; by a detach; by clearing a table | `Request`, `Schedule`, `Detach`, `Clear`, `DeleteTable` |
| a load balancer's Remove | `DeleteAndPoll`, `Poll` |
| a DNS zone's Remove | `Undelegate`, `DeleteAfter` |
| a pipeline's Remove | `StartStages`, `ListStages`, `DeleteStage`, `PassEnds`, `DeleteAfter` |
| HandleWait | `Finish`, `StillThere` |
| handleFailure, handleWaiting, the end of run | `RetryFailed`, `GiveUp`, `WaitedTooLong`, `Complete` |
| the operator: does not confirm, kills the process, gives the command again | `Interrupt`, `RunAgain` |
| the services, and others in the tenancy | `Completes`, `Launch` |

The tenancy is a set of objects, each with facts that never change (type, compartment,
name, the properties it shows to filters, what it keeps from being deleted, what it needs,
what goes with it) and a life: absent, active, going, scheduled, gone. The facts decide
what a service accepts (`Deletable`), the catalogue decides what the tool does, and the
properties compare the two. A configuration and a command line come from `Cases`, with the
objects there are when they are first given.

The engine is reduced to what matters between types and between runs: the order of
DependsOn, one call at a time, three attempts, the wait limit, deferrals. Its passes are
not there: a failed item is retried when nothing else is left, where the code also retries
it in passes in between, and a listing that fails inside HandleWait, which only makes
an item failed, is left to `Nuke`. The planner is its result: `Plans` are the fixpoints
`Plan` computes sweep by sweep, one for each set of Defer calls that may have failed.
`StillThere` is the path of `nuke_hook_unaccepted` of section 5, so that what it does to a
run is part of what is checked.

Left out: a DNS zone's enclosing zones are one zone at most, and taking the delegation out
is one step for a search and a delete that nothing can come between. A certificate that is
deleted but retained stays with its issuer for as long as it is scheduled, so the time
certificateBlocksIssuer goes on counting it is part of that life. Scheduled deletion is one
request here; what ensure does is in `ScheduledDeletion`.

### Proof and model modules

`NukeProofs`, `PlanProofs`, `ScannerProofs`, `BucketProofs`, `ScheduledDeletionProofs`,
`SelectionProofs`, `AccountProofs` and `NukeRefinement` hold the theorems. `MCNuke`, `MCPlan`, `MCScanner`, `MCBucket`, `MCAccount` give the
constants their values; ScheduledDeletion needs none. A definition whose comment begins with *Mutant* is not
part of the model: it is a plausible bug, with which the property it is listed
under is found violated.

## 3. What is checked

| run | instance | shows |
|---|---|---|
| `nuke_net` | subnet, cluster (with a hook), VCN; any number of failing calls; six waits | order of removal, finished means gone, the hook holds dependents back, only what is going is waited for, three attempts before failure, the run ends once calls stop failing |
| `nuke_mixed` | cluster and subnet, certificate, authority and key; one failing call; no wait limit | deferrals beside waits: the run implements Teardown, success means swept, kept is never touched, without failures everything goes, what is gone is noticed |
| `plan_chain` | vault, key, two authorities, two certificates, dependents first | the plan is the least fixpoint, under all filter and Defer answers |
| `deletion_service` | services that keep dates or keep late ones, settle in time or not; three failures | success means the date is right and no request is sent in a transition, whatever the service; with one that keeps dates and settles in time the date is always reached, from every state a resource was left in |
| `bucket_pool` | two workers, five versions, pages and channels of two, five failures | only an empty bucket is deleted, nothing twice, when Remove returns |
| `scanner_run` | three types, two permits, a channel of three | the limit, the close, the drops, the end |
| `account_reruns` | 24 corners of a tenancy, a command line and a configuration each; two failures in all, a killed process among them; any number of runs | nothing disappears but what both mean or what goes with it; what a filter keeps or a deferral spares keeps its issuers and keys; what holds a subnet goes first; no delegation is left dangling; each run ends, a clean end leaves nothing unnamed; in the end all is swept |

Five more runs show a disagreement and are expected to find it; see section 5.

### The bounds, and why they are enough

* *Queue.* The order of removals is a matter of an item, what it depends on and
  what depends on that: three types in a chain. The position in the queue matters
  too, so neither chain is in its natural order: in the net the dependent comes
  first and the cluster second, so that the hook's answer comes after the subnet was
  looked at; the crypto chain has the key, which must be deferred last, first.
* *MaxWaitRetries* is 240 in the program. Six is enough for the net queue to end
  in every way it can, "ok" among them, and small enough for the limit to be met.
* *MaxFaults and FaultsRecur.* In `nuke_net` there is no bound on failing calls: with
  FaultsRecur the count starts over, and its two values only tell one failure from the
  next. One in `nuke_mixed`, where the question is what a failure does to a deferral
  and the chain is longer: with no bound its states are too many.
* *AttemptCap* is 3, the number FailsAfterThreeAttempts asks about.
* *Plan.* A chain of four types with dependents first is the longest the sweeps
  meet, one link per sweep; the second authority's key is not in the queue, so that one
  chain names its blocker and another blocks by type.
* *ScheduledDeletion.* Attempts is the code's six. Two reads stand for the many a
  deadline allows: one that finds the transition, one that finds it again. Three
  Remove calls are what a run with nothing else to do makes.
* *Bucket.* Two workers and channels of two stand for twenty and twenty: the hang
  needs more failures than there is room, and the bound of failures, five, exceeds
  room and workers together.
* *Account.* A corner per way a Remove works, per selection and per kind of
  configuration, small because corners do not interact. *Removals* (11): a VCN with its
  default table, label zone and gateway; a VCN with a subnet and a node pool with a pod; a
  subnet with a load balancer; one with a container instance; two zones, one in the other;
  a pipeline of two stages in a project; one whose stage never goes; the tenancy's own,
  swept from a compartment and from the root; a certificate, two authorities, a key and a
  vault in one chain; and an authority another compartment has a certificate of. *Lists*
  (4): an excluded type whose contents are swept, one include list, one that is a typo, and
  lists of command line, configuration and account at once. *Filtered* (5): a zone kept by
  name, a certificate kept by a preset's filter for all types, an inverted filter on a
  property some types lack, a filter that cannot be matched, and one that comes after a
  match. *Refused* (4): a dry run, an undeclared compartment, an unknown preset, an empty
  filter. Two failures are what a type with a hook needs to come to the path of
  `StillThere`, what load balancer and zone need to fail in either of their calls, and what
  lets a run be killed after a call that failed. What can be launched is launched at most
  once.
* *Scanner.* Three types and two permits make one type wait; a channel of three
  and up to two resources a type make it fill up in the middle of a type.

### Fairness

* *Engine, planner, ensure:* weak fairness of the goroutine as a whole. It is a
  sequential loop of which every call returns (the SDK's clients have timeouts);
  the bucket is the exception, and has its own module because of it.
* *Failures:* calls may fail at any time, but not for ever (`FaultsCease`, a conjunct of
  `FairSpec` and `LiveSpec`). The code does not guarantee this, and it needs it: section 5
  has the run that never ends without it. How many calls fail before they cease is not
  bounded in `nuke_net`. In the other modules with failures the bound on their number
  (`MaxFaults`, or the failures a bucket's deletes can have) is what makes them cease, and
  their liveness properties are checked for up to that many.
* *Cloud:* the services finish each deletion they accepted, each item on its own.
  `Terminates` does not assume this: the run ends against a cloud that never moves,
  by its counters. `SweepsAll` and `GoneIsNoticed` do, as without it the resources
  may simply stay.
* *Scheduled deletion:* the service finishes transitions. It is not assumed to reach
  a deletion date during the run.
* *Account:* weak fairness of the tool, operator included, as a whole, and of the services:
  each call returns, the command is given again, and what is accepted completes. Nobody
  is made to start or stop an instance.
* *Goroutines of scanner and pool:* weak fairness each; Go's scheduler is preemptive
  and a goroutine that can run will.

## 4. What is proved

tlapm checks these for every queue, catalogue, cloud, number of workers,
versions, types and permits, from the named assumptions on the constants alone;
FinishedMeansDated and CleanWithoutInstances name one condition more. TLC
evaluates each of those assumptions on the instances of section 3.

* **Nuke** (`NukeProofs`): `TypeCorrect`, `OrderKept`, `FinishedMeansGone`,
  `SuccessSweeps`, `KeptStaysUntouched`, `HookHoldsBack`, `WaitsForTheGoing`,
  `GivesUpLast`.

  DependencyOrder is not inductive. What HandleWait concludes from the listing
  cache is right because the cache is never newer than the cloud and an item
  missing from it can only have gone further since; that is `SeenInv`. That an
  item in a given state is one that was accepted, failed, or withdrawn at the
  plan is `ItemInv`; what the queue looks like before it is confirmed and after
  each way to end is `Stopped`. `IInv` is their conjunction with
  DependencyOrder, and the first six theorems follow from it. The argument needs
  no assumption on DependsOn, not even that it has no cycle: with a cycle the
  items wait for each other and no promise is broken but liveness.

  For what the run waits for, `GoingInv` adds the state HandleWait was entered
  in: only a hook can make a failed item a waiting one, so without a hook
  nothing is waited for that the cloud has not accepted. For the three attempts,
  `RetryInv` follows a pass through the queue. Once a pass has been counted as
  one of failures only, nothing can be new or waiting again before the next, and
  each failed item has been asked once more than there were such passes, or as
  often if the walk has yet to come to it; `AheadOfCount` and `BehindCount` say
  so of the items before and after the one it is at.

* **Nuke implements Teardown** (`NukeRefinement`): `RunImplementsTeardown`.
  Initial states map to initial states; each handler's step is one abstract step
  or a stutter. The heart is `FirstAsk`: wherever HandleRemove meets an item for
  the first time, the gate of HandleWaitDependency was open, and by `IInv` an
  open gate means that every item it depends on has a fate Teardown calls out of
  the way. What an end says of the queue comes from `Stopped`.

* **Plan** (`PlanProofs`): `TypeKept`, `EndsClosed`,
  `EndsAtTheFixpoint`, `DeferralsHaveReasons`, `HandsOver`. The invariant for
  the closure is that while `changed` is FALSE no rule applies to any item
  already passed, for the filtered items that they contain the matched ones and
  lie in every closed set that does. The deferred ones need more (`DeferInv`),
  since a deferral may be overridden: each has its reason, which is its own
  Defer, or one in its way that is deferred, or one in its way by name that has
  been filtered since, which will have it filtered too. Here `ChainsAreNamed` is
  needed, and without it the plan does depend on the order. All directions of
  the least fixpoints are proved, without induction on them: a least set is
  defined as an intersection. `HandsOver` joins the two modules: every plan is
  an initial state of `Nuke`, so what is proved of a run holds of every plan
  there can be.

* **Bucket** (`BucketProofs`): `TypeCorrect`, `EmptiedFirst`, `TakenOnce`. Every
  stored version is still to be listed, in the page, in the channel, in a
  worker's hands or among the failures that errs or listErr tell of, and in one
  of these places only.

* **Scheduled deletion** (`ScheduledDeletionProofs`): `TypeKept`,
  `SentOnlySettled`, `SuccessMeansTheDate`, `FinishedMeansDated`. While ensure
  is between its read and its request, what it has seen is settled, and a
  settled state only changes by ensure's own requests or by the date coming; so
  what is sent finds the resource settled, or gone, and what was read as done is
  still done when Remove has returned. The last of them, which takes the
  listing's word, holds for three attempts and more (`scheduledDeletionAttempts`
  is six): with an obliging service ensure needs two requests at most, and
  whatever has the run retry is the one failing call, or comes after the date
  was set (`DatedInv`). RequestsSpareTheDated says why a retry cannot undo it.

* **Selection** (`SelectionProofs`): `TypesScanned`, `FiltersTogether`,
  `FilterSaysNo`, what the folds of the code compute, for lists of any length:
  the types scanned are those every include list names, if it has something in
  it, and no exclude list does; the filters of a run are the account's and all
  its presets', whatever keys they share; an item is left in exactly if no
  filter speaks for it. These are inductions over data. The installed provers
  cannot use the induction theorems, which take the predicate as a parameter, so
  the proofs take a least counterexample instead: `LeastNumber` gets it from the
  well-foundedness of the order on numbers.

* **Account** (`AccountProofs`): `TypeKept`, `NothingDangles`, `OwnersGoFirst`,
  `NothingElseGoes`, `KeptIsNotCutOff`, `CleanEndIsClean`,
  `CleanWithoutInstances`, for any tenancy, catalogue of commands and
  configurations, number of faults and runs. `LifeMoves` says what a step can do
  to a resource, `CallMoves` which Remove a half-done call belongs to,
  `ActiveLeaves` what makes a resource begin to go.

  *Delegations.* The invariant (`Zones`) is that a zone about to be deleted, or
  no longer active, is not delegated or has no zone above it that stays: a kill
  between the two calls, or in the next run before the zone is listed, cannot
  break it, because `delegated` only shrinks and nothing becomes active again.

  *Subnets.* The invariant (`Owners`) is that what finishes in the first pass is
  gone: by its hook for clusters and pools, by its own poll for balancers; with
  the engine's gate that leaves only failed owners standing.

  *Nothing else goes.* The invariant (`Staked`) is that what is taken on, or has
  begun to go, is at stake or goes along with what is. That a lister returns
  nothing out of reach is `ListedIsInReach`, that the listers asked are those of
  the types asked for and that the filters leave in what nothing speaks for are
  the theorems about Selection. `AtStake` is written without any of the folds,
  so the theorem compares two different accounts of the configuration.

  *Chains.* The chain from a certificate to the vault of its issuer's key has
  three links (`LinksAre`), so three sweeps find its end (`NeededIsKept`). The
  invariant (`Chains`) is that in a sweep what a kept resource needs is kept,
  and that while nothing has failed what a queued or deferred resource needs has
  not been asked to go, because the gate is closed for it (`NeededIsNotDue`). A
  failure opens the gate, which is why the property promises the second only
  without one.

  *A clean end.* The invariant (`Unforgotten`) is that until a call fails
  everything at stake has its list still to be read or is in the queue, and that
  what has finished does not stand; `StandingIsListed` is the converse of
  ListedIsInReach. CleanExit itself is true of the corners, but not of every
  tenancy: VNICs that a run's own removals leave behind, or that belong to an
  instance, stay behind a clean end if nothing the run removes needs their
  subnet gone. It is therefore proved for tenancies without instances and pods,
  and in any tenancy for all but their VNICs.

  The assumptions are facts of the services: only a VNIC is ever launched, and
  no public zone goes along with something else (`AccountAssumption`,
  `ZoneAssumption`); what goes along takes nothing along, and a log is where its
  group is (`AlongAssumption`); what is needed is of a type that depends on the
  type that needs it, and takes no other part of the chain along than keys
  (`ChainAssumption`); a log keeps its group, a key goes with its vault, a VCN
  takes only default tables (`ListingAssumption`); and one of the configuration,
  that the name of a type, taken as a pattern, matches that type
  (`ConfigAssumption`).

* **Scanner** (`ScannerProofs`): `TypeCorrect`, `ParallelBounded`, `ClosesLast`,
  `NothingElseLost`. Permits and working goroutines add up to ParallelQueries
  until Close takes them all.

KeptUntouched, VnicOwnersGoneFirst, OnlyOurs, KeptKeepsItsChain and CleanExit
are properties of steps, not of states, and are proved as such.

Only model-checked: every liveness property, as TLAPS proves none under fairness
(Terminates, SweepsAll, GoneIsNoticed, PlanTerminates, RunReturns,
RemoveReturns, AlwaysTakesTheDate, RunEnds, SweptInTheEnd), and CleanExit where
there are instances.

## 5. Where the code and its promises part

Each has a run whose trace shows it.

* `bucket_hangs`: more failed deletes than the error channel has room for and Remove
  never returns (`resources/bucket.go:98-133`); the run's one goroutine with it.
* `nuke_hook_unaccepted`: HandleQueue asks HandleWait about a failed item even if the
  retry failed as well. With a hook, the item becomes waiting, and a cluster whose
  deletion was never accepted is waited for until the wait limit (`nuke.go:724-727`,
  `836-838`).
* `nuke_deferred_again`: the same path takes a deferral back when the listing after it
  fails (`nuke.go:726`, against `errors.go:30-33`).
* `deletion_unscheduled`: ensure's sixth attempt is a cancel, so that giving up leaves
  no deletion scheduled (`resources/scheduled_deletion.go:118`).
* `account_vnic_in_use`: an instance that starts between the two reads of the orphan
  lister loses its VNIC's address (`resources/orphaned_vnic.go:46`, against lines 20-21).
  The attachments of instances in other compartments are not read at all (lines 100-103).

Met while modelling, with no run of their own:

* `README.md:84-88` says that a run that leaves an authority behind ends as failed; the
  code defers it and the run succeeds.
* No limit ends a run whose calls never stop failing. A resource that never goes is
  waiting; a List that fails makes it failed (`nuke.go:856-858`) and the wait counter starts
  over (`nuke.go:334`); the Remove that is accepted next makes it waiting again and the
  failure counter starts over (`nuke.go:304`). `handleWaiting` is to "determine if there
  have been too many wait retries and exit accordingly" (`nuke.go:310-311`). With
  `FaultsCease` taken out of `FairSpec`, TLC shows this loop as a counterexample to
  `Terminates` in `nuke_net`; with it the property holds.
* `nuke.go:36` describes MaxWaitRetries as retries of a resource; the code has one
  counter for the run, reset when anything is new.
* The listers of vaults and keys leave out every pending deletion, also one due later
  than necessary, which `scheduled_deletion.go:28-32` wants listed. `VaultListed` models it.
* An item in the middle of being scheduled is left out by its lister, so HandleWait may
  call it finished before the service has kept a date; with a service that keeps late
  dates it then has the late one. FinishedIsDated therefore assumes that dates are kept.
* Finished means not listed, which for most types is already so while the deletion is
  in progress. Dependents are then tried early, refused, and have three attempts, five
  seconds apart, before the run fails.
* Secret keys are matched by `entigo-infralib-%s` with no dash after the prefix
  (`resources/customer_secret_key.go:53`): given `--prefix dev`, those of the user's
  deployment dev2 are deleted as well, which `README.md:172` does not lead to expect.
  `Extends` carries this, so OnlyOurs accepts it for keys, and for keys alone.
* A load balancer whose poll gives up is asked again, refused, and then finished, because
  its lister leaves out what is going; its subnet does not wait for it. VnicOwnersGoneFirst
  therefore leaves out what has failed.
* The blocklist, which `config.go:25-27` documents as safeguarding compartments, is consulted
  by nobody: ValidateAccount and InBlocklist have no caller in the program.
* `filter.go:207` says that the filters of a group are combined by AND; the code takes the
  first that matches. No run gets there, since nothing sets UseFilterGroups.
* The prompt asks twice (`nuke.go:202`, `231`), and the first time also in a dry run, before
  anything is scanned; `src/pkg/nuke/prompt.go:16` says it is called before a run that is not dry.
* A filter of type In or NotIn on the resource's own name is refused by Validate, which
  wants a property or a value.
* A typo in an include list sweeps nothing; one in an exclude list excludes nothing, with no
  warning in either case (`Typo` in the cases).
* Excluding keys but not vaults does not keep the keys: they go with their vault.
* A container instance holds a VNIC in its subnet, like the types `subnet.go:22-26` lists,
  but is not one of them: the subnet is tried while the instance stands.
* A subordinate authority that a filter keeps does not keep its parent, as authorities block
  no authority; the parent defers itself in every run.
* The configuration's `alternatives` are read and never used.
* Equals compares names (`item.go:137-142`): a resource stays waiting as long as a
  namesake of its type is listed, also one a filter keeps.

## 6. What is left, in order

1. *Composition* of scanner, planner and engine over one queue. HandsOver joins planner and
   engine; the scanner's channel and the planner's queue are not joined yet. Account composes
   their promises, and that its engine is one that Teardown allows is not checked as a refinement.
2. *DNS zones in detail*: a chain of several enclosing zones, of which only some are in the
   compartment.

### Not modelled

Reading the configuration file and the command line, the SDK's clients and their retries,
logging, properties and printing change no state the properties speak of. Filter groups,
alternatives, deprecations, settings and the topological sort of the registry are code no
run of this program reaches. Nothing is persisted, so a crash is the end of a run and the
next one starts from the services' state (`Interrupt`).
