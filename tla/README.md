# A TLA+ model of Shipper

Shipper rolls out releases of an application to several Kubernetes clusters,
step by step, following a strategy. This directory models its controllers, the
store of clients they share, the process around them and the command that
enrols clusters; model-checks them with TLC on small instances; and proves with
TLAPS, for every value of the constants, safety properties of rollouts,
scheduling, applications, installation, the client store (with the refinement
of its abstract specification) and enrolment.

## 1. Inventory

All controllers run in one process (`cmd/shipper/main.go`), each with a work
queue and a few workers, and share one informer factory with a resync period of
30 s. They talk to each other only through API objects in the management
cluster: each reads cached copies and writes to the API server. A merge
`Patch` is always applied; an `Update` is refused if the object has changed
since the copy was cached. Application clusters are reached through clients
that the client store builds and replaces.

| Part | State it keeps | Operations | Hard because | Correct when | Module |
|---|---|---|---|---|---|
| application controller | Application: template, high water mark of generations, conditions; the set of Releases | create the first or next Release, abort, clean up, update the Application | two caches that lag differently, several API calls per sync, conflicts, crashes | generations are distinct; only real deletions abort; the final template gets a release | `Applications` |
| release scheduler (`scheduler.go`, `release_controller.go`) | a Release's clusters and Scheduled condition; the three target objects | choose clusters, create or repair the target objects, mark the Release | two rounds over lagging caches, cached objects modified in place, names used again | a scheduled release owns its targets; clusters are chosen once; every release gets scheduled | `Scheduling` |
| choice of clusters (`computeTargetClusters`, `weighted_preflist.go`) | none | weighted rendezvous hashing, regions, capabilities | clusters come and go; weights of 0; ties | the best eligible clusters are taken, and few move | `ClusterChoice` |
| strategy executor (`executor.go`, `checks.go`, `application.go`) | Release status: strategy conditions, state, achievedStep, Complete | five phases: installation, contender capacity, contender traffic, incumbent traffic, incumbent capacity; wrap up | judges by cached statuses, patches partial lists, users change the target step at any time | no capacity or traffic is lost; steps are done in lock-step; every rollout converges | `Rollout` |
| strategy conditions | the condition map | set, summarise | a condition set by an earlier sync stays | users are asked for a command only when the step is done | `StrategyConditions` |
| installation controller | InstallationTarget status; objects in application clusters | install the chart, cluster by cluster, object by object | per-cluster failures, objects shared by releases | a cluster is Installed only when it is | `Rollout`, `Anchors` |
| janitor | anchors in application clusters | delete what a deleted target left | missed deletions, dropped items, names used again | orphans go, the others stay | `Anchors` |
| capacity controller | CapacityTarget status; Deployments' replicas | scale, report | in-place rebuild of the status list, unreachable clusters | the status says what the clusters have | `Rollout`, `CapacityStatus` |
| traffic controller | TrafficTarget status; pod labels | relabel pods of all releases by weight, report | rounding, several TrafficTargets per sync, failing patches | traffic follows the weights and never drops on the way | `Rollout` |
| cluster client store | a map of clients with their informers, served by a goroutine over channels | sync Cluster, sync Secret, fetch a client | unbuffered channels, entries replaced while they fill | an atomic register; exactly the served client's informers run; the right client is served in the end | `ClientStore`, `ClientRegistry` |
| process set-up | what has been started | start, register callbacks, stop on a signal | the order of starts; goroutines that wait for each other at the end | every client has all callbacks; a signal ends the process | `Process` |
| cluster secret controller | one Secret per Cluster | create, update | two files read one after the other; errors that are not retried | a Cluster has its Secret | `ClusterSecrets` |
| `shipperctl admin clusters apply` | none of its own | twenty stages against two API servers | stops anywhere, is run again, races the secret controller | it can be run until it succeeds, and success means all is there | `Apply` |
| chart cache | chart files | store with eviction, fetch | concurrent stores without a lock | a fetch returns the chart or a miss | `Charts` |
| chart rendering, webhook, CRDs, metrics, capacity reports, generated client | none | decode, validate, observe | - | not modelled, see section 8 | - |

The hazards of this code, each with its line, are listed in `PROJECT.json`
together with the properties aimed at them, or the reason why there is none.

## 2. Plan

Done, in this order: `Rollout` over `StrategyConditions`, the behaviour Shipper
exists for, and `RolloutProofs` on top; `CapacityStatus`, the rebuild of a list
that `Rollout` abstracts; `Applications`; `ClusterChoice` and, over it,
`Scheduling`; `ClientRegistry`, the abstract specification, `ClientStore`,
which implements it, and `Process` around it; `ClusterSecrets` and `Apply`
around that; `Anchors`; `Charts`; then the proofs, a module each, for `Process`
with the client store, `Scheduling`, `Apply`, `Applications` and `Anchors`, and
last `AdvanceProofs`, on rollouts that advance.

Left:

1. Weaker hypotheses in `AdvanceProofs`: raises of a weight that rounding can
   hide are excluded, as are failing pod patches, although the run with four
   pods finds no violation with the latter.
2. A composition of `Scheduling` with `Rollout`, so that a target object's
   values and its list of clusters are one object: a repair resets the values
   (hazard at `scheduler.go:225`).
3. Stale pod caches and two concurrent workers in the traffic controller.

## 3. Modules

### How an API object is modelled

Where caches matter, an object is its *history*: the sequence of versions from
the cached one to the stored one. A write appends a version, a watch event
(`Deliver...`) drops the oldest. A merge patch is computed from the cached
version and applied to the stored one; an update is refused unless the two
coincide. In `Rollout` and `Applications`, writing what is stored already
creates no version, as in the API server. In `Scheduling` the cached object is
kept apart from the log, because the code changes cached objects in place.

### Rollout, StrategyConditions: one rollout of a contender over an incumbent

| Variable | In the code |
|---|---|
| `rel` | the contender's `spec.targetStep`, `status.achievedStep`, Complete, `status.strategy` |
| `it` | InstallationTarget `status.clusters` of the contender |
| `ct`, `tt` | CapacityTarget and TrafficTarget of each release: percent or weight, and available replicas or achieved traffic, for each cluster listed |
| `charts` | the clusters that have the contender's objects |
| `dep` | a release's Deployment in a cluster: replicas wanted, pods available, pods labelled for traffic |

`Execute` is one run of `syncOneApplicationHandler`: it stops at the first
phase that is not met and sends the patch of the target object, if there is
one to send, and then the patch of the Release; the second may fail after the
first has landed. `InstallationSync`, `CapacitySync` and `TrafficSync` are one
run each of the handlers, with the clusters or pods that fail chosen freely.
`SetTargetStep` is a user; `DeploymentProgress` and `PodLoss` are Kubernetes.

Abstractions worth knowing:

- A condition type is the number of its phase, so "the phases before k" is an
  interval.
- A pod exists when it is available. The traffic controller's pod cache is up
  to date, and one sync is one step. Of each release any number of its pods may
  fail to be patched, independently of the others.
- The last patch of a target object and that of the Release
  (`application.go:126-145`) are one step: nothing that the executor does
  depends on what happens between them, and a failure of the second is a choice
  of its own.
- `CapacitySync` reads a Deployment's availability as it is, the code from the
  application cluster's informer cache (`capacity_controller.go:243`, `:396`).
  A late report says too little of a contender that grows and too much of an
  incumbent that shrinks, so while a rollout advances the executor only waits
  longer. On a retreat, or after a lost pod, it could be taken for the truth
  for a while; the informer brings the right number in the end.
- `calculateReleasePodTarget` and the achieved weight use exact rationals.
  Float error can shift a share by one pod for some large pod counts
  (`float64(w)/float64(total)*100` may end just above an integer); this is not
  modelled.
- With more than one cluster nothing is assumed about what the capacity
  controller reports (`Reports`): the list it rebuilds is corrupted, as
  `CapacityStatus` shows. A list with a duplicate is read by `checkCapacity` as
  one in which the missing cluster has no pods, so lists of one value per
  cluster cover it.
- The working pair does not change during the rollout, both releases are on the
  same clusters and have the same replica count. How the pair is chosen, and
  that it can change, is in `Scheduling`.

### CapacityStatus: one CapacityTarget's status list, entry by entry

The loop of `capacityTargetSyncHandler` with its pointer into a slice that is
then shifted.

### Applications: one application and its releases

`app` is the Application (template, highest observed generation, Aborting);
`rels` the set of its Releases, as one history because one watch delivers
them. A sync is a chain of steps, because it makes several API calls: it reads
both caches and creates at most one Release (`SyncApplication`), deletes
superseded ones one by one (`CleanUpRelease`, the deferred clean up), then
updates the Application unless it has changed (`UpdateApplication`). `Crash`
may interrupt it anywhere; a failed Update is the same step. The two listings
of Releases in one sync are read as one. Releases of equal generation are sorted
either way, so `Doomed` is the set of all outcomes, and `NextDoomed` the release
that comes next in the two loops. `reverts` counts the Updates that copied an
older release's environment over the stored template.

### ClusterChoice: which clusters

Pure operators. `PrefLists` is the *set* of lists `buildPrefList` may return,
since clusters of equal score (all those of weight 0) come in the order of a Go
map. The hash is any number. `Best` says what a choice should be, without lists.

### Scheduling: from a Release to its target objects

`rel` and `tgt` are Releases and target objects, `job` the run of
`syncOneReleaseHandler` under way: the deep copy it works on, the targets it has
yet to look at, whether something failed, whether the copy is still of the
stored version (`fresh`) and whether the object it came from is still the cached
one (`held`). `pair` is the working pair the executor last used.
`ListClusters`, which takes the copy and lists the clusters, and
`ChooseClusters`, the Update with what was chosen of that list, are the first
round; a cluster can be cordoned between the two. `StartScheduling`, then for
each target `CreateTarget`, `CheckTarget` or `RepairTarget`, then
`MarkScheduled` or `MarkUnscheduled` are the second. `exec` is the run of
`syncOneApplicationHandler` under way: `ExecuteStrategy` picks the working pair
from the cache and keeps what it read of the contender, and `PatchContender`
patches the contender later, by name, so that the patch may land on a release
made again under that name. `mixed` remembers for which releases it did.
Releases are deleted and made again under the same name; garbage is collected
whenever Kubernetes gets to it. Any write by the release controller or the
scheduler may fail, the one that marks a release as not scheduled included.

### ClientRegistry, ClientStore, Process: the clients

`ClientRegistry` says what a caller may rely on: a register that holds a client
or none, and calls that take effect at one moment. `ClientStore` has the
goroutine of `cache/server.go` at its `select`, its channels (a call is a
goroutine whose `pc` is the channel it sends on; `resp` is what the server is
about to send), the entries with the goroutine that fills each one's informers,
and the two workers, each of which reads, asks the cache and decides later on
what it read. `Registry` is the refinement mapping: the register holds the host
and checksum of the entry in the map. `Process` adds the order in which `main`
starts things, the signals and the return of everything. A signal may find the
webhook serving a request (`request`), and `server.Shutdown` has no deadline:
its Run returns after `EndRequest`.

One cluster is modelled: clusters share nothing but the server. Entries that
nobody can reach are forgotten (`Collect`), so that three identities are enough.
A secret without a checksum makes `create` panic (`store.go:265`): the worker's
lister is not filtered, the event handlers are. The model has that step; the run
leaves such secrets out (`Secrets`).

### ClusterSecrets, Apply: enrolling a cluster

`ClusterSecrets` is the controller's queue and worker, with the two reads of
`tls.Pair.GetAll` as two steps, and what administrators do to the Cluster, the
Secret and the files. A failing sync is retried, but for the errors that
`KubeclientError.ShouldRetry` excludes; `CreateForbidden` is one of them that
always threatens, because the role made by `CreateClusterRole` has no `create`
on secrets. `dropped` remembers that the last sync ended in such an error,
`removed` that an administrator has removed the Cluster or the Secret. `Apply`
adds `shipperctl admin clusters apply`: `at` is the stage the command is at;
`made` the objects it has created. Stages that
create an object or are content with the one that is there are one action,
`Create`; the others have an action each.

### Anchors: installation controller and janitor on the same objects

`it` and `seen` are the uid of each release's InstallationTarget, real and
cached; `anchor` the uid each cluster's anchor ConfigMap is stamped with; `svc`
the Service, whose name all releases share, with its label and owners; `dep` the
Deployments. `work` is the installation worker of each release, one API call per
step; `queue` the janitor's items. An owner reference names the anchor that
exists or dangles, and the garbage collector removes an object all of whose
owners dangle. A deletion can be missed by the watch, in which case
`MetaNamespaceKeyFunc` fails on the tombstone and nothing is queued.

### Charts: the cache on disk

Files are inodes, so that a descriptor opened before a rename still writes the
renamed file. `Stat`, `ReadFile`, `Load`, `Download` fetch; `List`, `Evict`,
`OpenTmp`, `Write`, `Rename` store.

### MC modules and proof modules

`RolloutProofs`, `SchedulingProofs`, `ApplicationsProofs`, `ProcessProofs`,
`ApplyProofs` and `AnchorsProofs` extend the module they are named after;
`AdvanceProofs` extends `RolloutProofs`.

`MCRollout`, `MCScheduling`, `MCApply` and `MCAnchors` give values to the
constants. `Vanguard` is that of the end-to-end tests with another step,
`ThreeSteps` is the shortest with a shared step. `FourClusters` has two
regions, two clusters of equal score, one that lacks a capability and one of
weight 0.

## 4. Runs

Runs that pass:

| Run | Instance | Shows |
|---|---|---|
| RolloutForward | 1 cluster, 4 steps, 4 pods, 2 commands or 1 and a fault | `TypeOK`, `InstalledFirst`, `NoCapacityLoss`, `NoServingLoss`, `LockStep`, `CommandMeansConverged` while users advance, even without waiting for a step and to steps that do not exist |
| RolloutRetreat | 3 steps, 2 pods, back and forth, one fault of five kinds | `RolloutConverges` |
| AppPrompt | 2 templates, 3 edits, 2 deletions, 1 crash or failed call, stale Application cache | `GenerationsUnique`, `RevertsWarranted`, `TemplateReleased` if Release events arrive before the next sync |
| Scheduling | 1 name used twice, 1 target, 4 clusters, Release cache up to 2 versions behind, 1 event (edit, cordon, failure, restart) | `ScheduledOwnsTargets`, `AssignedOnce`, `AssignedBest`, `EventuallyScheduled` |
| Process | 2 hosts, 2 checksums, 1 reader, a controller and the webhook, 1 change, failure or signal | `OnlyServedRun`, `AllSubscribed`, `CacheAtomic` (the refinement), `StoreConverges`, `ExitsOnSignal` |
| Enrolment | 2 Clusters in succession, 3 changes, 1 interruption outside the signing of the certificate | `AppliedIsComplete`, `SecretRestored`, `ApplySucceeds` |
| Anchors | 2 releases, targets made twice, 3 changes | `ServiceKept`, `OrphansRemoved`, `InstalledConverges` |

Runs that exhibit a disagreement between the code and what its documentation
or comments say (each has an entry under "findings" in `PROJECT.json`):

| Run | Property refuted | In short |
|---|---|---|
| Rollback | `NoUncommandedRollback` | a sync that fails (the chart cannot be fetched or rendered) on the complete, newest release makes the executor roll back to an older one |
| FalseAbort | `AbortIsReal` | a late Release event makes an edit look aborted, and reverts it |
| CapacityTwoClusters | `StatusFaithful` | the status list loses one cluster and doubles another |
| PartialChart | `NoPartialHit` | two stores of one version share a temporary file, and a third fetch reads part of a chart |
| ApplyRerun | `ApplySucceeds` | a command stopped while its signing request is pending fails again and again, as long as the request is there |

Every property of a passing run has a mutant in `PROJECT.json`: a variant of a
definition, kept next to it and marked "Faulty variant", with which TLC finds
the property violated.

### Bounds

- `MaxLag`, `AppLag`, `RelLag`, `TgtLag` bound how far a cache is behind. One
  version separates stale from fresh; two let a stale write overtake another.
- `Total`: two pods tell a share from all or nothing; three make the rounding
  of both the capacities and the weights matter; four are the fewest with which
  a Deployment that shrinks can remove pods in rotation and keep others, so
  `RolloutForward` has four.
- `MaxCommands`: two commands are needed to skip a step or to go back.
- `MaxFaults`: one fault at any point; convergence after it shows that the
  system needs no fault-free past. `MaxDisturbed` bounds commands and faults
  together.
- One cluster suffices for what is said cluster by cluster; that a patch leaves
  out none of several clusters is the theorem `NoClusterEverDropped`, for any
  number of them (two clusters, two steps and no incumbent, 1.3 million states,
  have been checked too). `CapacityTwoClusters` has two, the fewest for which entries
  are shifted. `MaxEntries` bounds the corrupted list that is synced again.
- `AppPrompt`: two deletions are two aborts, one of which may be computed again
  after a conflict or a crash.
- `Scheduling`: `MaxUid` 2 is a name used again, and `RelLag` 2 the least with
  which the cache still shows a release that has been deleted and made again.
  One kind of target objects: the targets of a release are written one after
  the other and do not depend on each other, and the theorems hold for any
  number (`Rollback` has two). One `Event` at any moment, between the listing
  of the clusters and the Update too; `MaxTouches` is another controller's write
  to a target, without which a conflict never happens.
- `Process`: three identities of entries are one in the map and one in the hands
  of each worker. The one change can come at any moment, before or after the
  caches are full, and the initial states have every combination of Cluster and
  Secret, so that two objects can appear and one of them change. The Secret of a
  Cluster that is gone goes without a change, as garbage, so that both can be
  gone after a client was served. Host and secret of one cluster do not both take
  new values in one behaviour, which would need two changes and a state space of
  many more than 600 000 states; the safety properties are proved for any number.
- `Enrolment`: two Clusters in succession are a Cluster that is made again while
  the Secret of the first is still there; three changes let a secret be lost
  between a failure and its retry after that.
- `Anchors`: three changes are a target that is deleted, made again and
  disturbed once; a check with four (688 000 states with `MaxQueued` 1) passes
  too. `MaxQueued` 2: an item can be worked on early and, as a second copy, late.
  One cluster: `AlwaysKept` is proved for any number, and its invariant has been
  checked with two.

## 5. Fairness

Weak fairness of every controller's sync *without fault* (of a handler that has
begun, to its end), of requests to the webhook once they are accepted, of watch events and
of what Kubernetes does (Deployments, garbage collection, signing). The code
justifies it: whatever becomes of an attempt, and even when a key has been
dropped after `maxRetries`, the informers' resync queues every object again
each 30 s; only finitely many faults happen. Users, crashes and faults are under
no fairness. Two places need more:

- `Process`: strong fairness of each channel of the server's `select`. Go
  chooses at random among the channels that are ready, so one that is ready
  again and again is served.
- `Scheduling`: strong fairness of each release's turn. The single `job` stands
  for the workers, which take keys from a first-in first-out queue; each key
  comes up between the others.

The cluster secret controller and the janitor's deletion handler are different:
nothing repeats their work, so their queues are explicit and the fairness is
only that a queued item is taken. The janitor's resync of anchors is what
`OrphansRemoved` rests on. `Apply` assumes that a failed command is run again.

## 6. Proofs

`RolloutProofs` proves, from `StrategyAssumption` (a non-empty sequence of
steps whose values are percentages) and `ParameterAssumption` (a finite
non-empty set of clusters, the kinds of the other parameters):

- **TypeCorrect**: `Spec => []TypeOK`. The part that takes an argument is that
  no more pods are labelled for traffic than exist: `PodTarget` is clamped,
  `Shifted` lies between the present number and the target, and a pod that goes
  away takes its label with it.
- **NoClusterEverDropped**: `Spec => []NoClusterDropped`. A patch lists only
  the clusters whose *cached* value differs from the step's and replaces the
  whole *stored* list. Not inductive as it stands: one needs that the cached
  version has one value for all clusters, so that a patch lists all or none.
  The inductive invariant `UniformSpecs` says so of every version in the
  history, cached, stored or in between.
- **AlwaysInstalledFirst**: `Spec => []InstalledFirst`. The inductive invariant
  `NothingMoved` says that while a cluster lacks the chart, no version of the
  InstallationTarget anywhere in the history has all clusters installed, and
  every version of every target object still has its starting value.

Facts about histories (`HistoryLemma`) and the types of the operators are
lemmas.

`AdvanceProofs` is about rollouts that users advance, for every number of pods
and any lag. Its hypotheses are those of the theorems and not assumptions of
the module, since `Rollout` has other behaviours too:

- `Forward`: target steps only rise, no pod is lost, and there is one cluster;
  with more, nothing is known about the capacity controller's reports.
- `CapacityPlan`: from step to step the contender's percentage does not fall and
  the incumbent's does not rise, and at each step they add up to 100 or more.
- `TrafficPlan`: the same for the weights, which are within the capacities; and
  the contender's weight is raised either from 0 or by enough for rounding not
  to hide it (`Coarse`). A weight is turned into whole pods, rounded up, and
  these into an achieved weight, rounded again, which stays in the status when
  the weight is patched. With 130 pods and a weight of 1 two are labelled, and
  while the incumbent has all of its own these two of 132, at a total weight of
  101, count as 2: a raise to 2, for which three are needed, looks met before
  anything is done. `Coarse` is sufficient and simple rather than exact.
- No failing pod patch where weights matter: with 200 pods a weight of 1 means
  two, and if one of them cannot be labelled the other counts as 1.

The strategy of the user guide (`docs/user/rolling-out.rst`) satisfies both
plans for every number of pods; that of the end-to-end tests and `Vanguard` for
three and more. All other faults are allowed.

- **NoCapacityEverLost**: `Forward`, `CapacityPlan` prove
  `Spec => []NoCapacityLoss`. `CapacityInv` orders the versions of each object:
  the contender's specs rise (`Rising`) and no version of its status says more
  than there is, the incumbent's fall (`Falling`) and no version asks for less
  than the contender makes up for. So the executor, which waits for the
  contender before it asks the incumbent for less, may act on any old version.
- **NoServingEverLost** and **AlwaysLockStep**: with `TrafficPlan` and no failing
  pod patch, `Spec => []NoServingLoss` and `Spec => []LockStep`. `TrafficInv`
  adds that a contender's weight found met is the weight in the cache, with as
  many pods in rotation, which is where `Coarse` is needed; and that the
  incumbent's weight falls after that and before its capacity. The lemmas
  `ShareFloor`, `AchievedCeiling` and `RaiseShows` are the arithmetic of shares
  and rounding.
- **StatusTellsTheTruth**: `Spec => []CommandMeansConverged`. `StatusInv` says of
  every version of the Release, not only the stored one, that each phase it has
  as done is done (`Truthful`): a patch may carry an old version's conditions
  over a newer one's, and what such a condition says must last (`Holds`).

`SchedulingProofs`, from `SchedulingAssumption` (`Kinds` is a sequence, the
bounds are numbers; nothing about fleet, hash or requirement):

- **AlwaysOwnsTargets**: `Spec => []ScheduledOwnsTargets`, for every release but
  those that an executor's patch meant for a deleted namesake has hit (`mixed`):
  they say Scheduled because their namesake was, and nothing else can break it.
  The difficulty is that a name is used again while the caches still show, and
  handlers still work on, the previous owner. The proof has two layers. `Inv` is
  about all versions the cache has yet to see. `Releases`: a release gets
  clusters only once it is cached, and is made again only once the cache has
  seen it go, so a version that has clusters is the only owner in sight.
  `Targets`: once a target has the stored owner, later versions keep it. `Work`
  is about the copy in the handler's hands: the targets it has dealt with are
  its owner's, or the owner is gone. On top of it, `Marks`: whoever says that an
  owner is Scheduled, any version of the release or the executor with what it
  read before, may say so of that owner (`Vouched`).
- **ClustersAssignedOnce**: `Spec => AssignedOnce`, from the same invariant: a
  patch of clusters comes from a copy without clusters whose version is still
  the one stored, or meets another owner and is refused.

`ApplicationsProofs`:

- **AlwaysUnique**: `Prompt => (Spec => []GenerationsUnique)`. `Prompt` is the
  constant that makes Release events arrive before the next sync; it is a
  hypothesis and not an assumption because without it the theorems are false
  (`FalseAbort` has an abort that nobody caused). The Application's cache may lag
  at will. The inductive invariant is `Shapes`, distinct generations and names
  (`Distinct`), and that a release to be cleaned up is what its name still stands
  for (`DoomedKnown`); `ReleasesStep` says that the stored set only ever grows by
  a release newer than all of it, which needs that the newest release the handler
  lists is the newest stored.
- **RevertsNeedDeletions**: `Prompt => (Spec => []RevertsWarranted)`. Each abort is
  paid for by a deletion: `Warranted` counts those done, one the handler is about
  to write (`Reverting`), and one that is due (`Owing`), because a high water mark
  that is stored, or about to be, or that the clean up would leave behind, is
  above every release (`Lost`). What takes an argument is that the deletions
  *not* made by users, of the clean up, never leave a mark lost, for the newest
  release is spared; and that an Update that is refused leaves its abort due,
  and does not make another.

`ProcessProofs`, from `StoreAssumption` (the values that stand for "none" are not
ordinary ones, readers are neither of the workers, hosts and secrets exist) and
`ProcessAssumption` (those that subscribe are controllers):

- **AlwaysSubscribed**: `Spec => []AllSubscribed`. `StartUp` relates the steps
  of `main`: callbacks, then informers, then the store's goroutine and workers,
  so an entry can be made only when no callback is missing.
- **OnlyServedEverRun**: `Spec => []OnlyServedRun`. `Holdings` is the ownership
  argument: an entry under construction is in the hands of one worker and its
  informers have not been started; every other goroutine holds only entries that
  have been in the map. `Requests` says a worker that is about to build a client
  has both halves of what it needs.
- **CacheIsAtomic**: `Spec => CacheAtomic`, the refinement of `ClientRegistry`.
  `Answers` is the heart: while an answer is under way exactly one goroutine
  waits for it and the map does not change, so the answer can be taken to be
  decided when it is received. `KeepsClients` says that no step turns an entry
  in use into another client. There is one step per case of the server's
  `select`; the others stutter, or are the start of a call.

`ApplyProofs`, from the tables of stages alone:

- **AlwaysComplete**: `Spec => []AppliedIsComplete`. `Passed` is about the
  command: every stage behind it has left its object, and what the webhook's
  secret lets it skip leaves nothing else. `Enrolled` is about what the command
  shares with the secret controller and holds until an administrator
  removes one of the two (`~removed`), which is also where the property makes
  its claim about the Secret: whoever writes it first writes it for the Cluster
  that exists, and no failed sync, edit, rotation or restart takes it away.

`AnchorsProofs`, from `AnchorsAssumption` (a non-empty list of clusters;
releases are positive numbers, as 0 stands for none):

- **AlwaysKept**: `Spec => []ServiceKept`. Two phases for each release. Before
  its target is first made nothing names it (`Unmade`). While the first target
  stays, everything that names the release was made for that target (`First`):
  no queued item of the janitor removes its anchor, a worker owns what it makes
  (`WorksForFirst`), a Service with its label has it among its owners. The
  lemma `Elsewhere` disposes of the steps taken for other releases, which share
  only the Service and add to its owners.

What is model-checked only, and why:

- Everything under fairness (`RolloutConverges`, `TemplateReleased`,
  `EventuallyScheduled`, `StoreConverges`, `ExitsOnSignal`, `SecretRestored`,
  `ApplySucceeds`, `OrphansRemoved`, `InstalledConverges`): liveness and ENABLED
  are out of the prover's reach.
- `AssignedBest`: the operators of `ClusterChoice` filter and
  permute sequences by recursion, and facts about those for every input need an
  induction the installed provers cannot instantiate.
- `NoServingLoss`, `LockStep` and `CommandMeansConverged` with a failing pod
  patch: `RolloutForward` includes it, the theorems exclude it.
- The runs that expect a violation, and with them `CapacityStatus` and `Charts`.

`NoClusterDropped` goes the other way: with the one cluster of the Rollout runs it
cannot be violated, so no run checks it and only the theorem speaks of it.

## 7. Reading the results

*Rollouts.* The forward direction is sound: advancing loses neither capacity nor
traffic although every decision rests on stale copies, because each phase waits
for a status written after the spec it compares with, and updates built from
stale copies are refused. The scope of the properties is part of the result:

- Backwards the order of the phases is wrong: the contender's capacity is taken
  away first (`executor.go:124`), before the incumbent has got its own back, so
  a retreat may leave a cluster with no pod in rotation for a while, though the
  rollout still converges. Hence
  `NoCapacityLoss` and `NoServingLoss` are claimed for rollouts that advance.
- Pods in rotation can be fewer than the incumbent had while its Deployment
  shrinks: Deployments know nothing of the traffic label and may remove
  labelled pods and keep the others until the next sync of the traffic
  controller. `NoServingLoss` says how far this goes: never below half.
- `LockStep` is claimed for rollouts that advance, because the one-sided traffic
  comparisons of `checks.go` are met too early on a retreat. It says nothing of
  the incumbent's traffic: the weight 0 reported for an unreachable cluster
  meets that comparison although no pod was relabelled.
- `CommandMeansConverged` is claimed for rollouts that advance without lost pods
  and leaves out the incumbent's traffic: `AsReleaseStrategyState` does not
  report an incumbent that waits for traffic while its capacity condition is
  still True, and rounding can bring that condition back to False.
- A status patch built from a stale Release can take `achievedStep` back
  (`executor.go:379`); the next sync repairs it, which is part of
  `RolloutConverges`.

*Applications.* `AppPrompt` and `FalseAbort` together say what the application
controller relies on: that a Release it created is visible before it looks
again. With it, a template is overwritten no more often than users delete
releases (`RevertsWarranted`), though an abort's Update may be refused and the
abort made again; without it, an edit is reverted with no deletion at all, and
generations need not be distinct either. The clean-up can
delete a release that was completed after it was listed
(`application_controller.go:466`): nothing in the code prevents it.

*Scheduling.* A release never ends up with the target objects of a deleted
namesake, because the owner's uid is compared. The executor has no such check:
it reads the contender from the cache (`application.go:91`) and patches its status
later by name (`application.go:132`), so that a release made again under the name
can be marked Scheduled, and Complete, on its namesake's account, before it has
clusters or target objects, while `docs/api-reference/porcelain/release.rst:166`
says that the condition indicates "whether the ``clusterRequirements`` were
satisfied and a concrete set of clusters selected for this *Release*". Such releases
(`mixed`) are excepted from `ScheduledOwnsTargets`; without the exception TLC finds
the case. They get their targets all the same (`EventuallyScheduled`).

Clusters are the best of the fleet as the handler listed it (`AssignedBest`); one
that is cordoned before the Update is assigned nevertheless, as the Update is
checked against the Release only. Clusters of equal score come in the order of a
map, so two releases of an application may get different ones of them, although
`weighted_preflist.go:36` says that it will be scheduled "to the same set of
clusters from Release to Release": all clusters of weight 0 are equal.

`RepairFails` is FALSE in the
passing run: if a repair fails for another reason than a conflict, the cached
target already has the new clusters (`scheduler.go:309`), every later sync finds
nothing to do, and the repair is lost until the object changes. With it, `Rollback`
shows what the Scheduled condition of a complete release can do to the working
pair.

*Clients.* The register is atomic only because the server waits for its answer
to be taken before it looks at another channel: without that (the mutant of
`CacheAtomic`) one goroutine gets the answer meant for another, as the response
channel is shared. A signal ends the process although calls to a stopped server
never return, because `main` does not wait for those goroutines.

*Enrolment.* A lost Secret is written again, whatever is refused or restarted
(`SecretRestored`), with two exceptions that are facts of the code. An error that
is not retried leaves the Cluster without its Secret until its next event or a
restart; one that always threatens is the creation of the Secret itself, for
which the role that the command makes grants no right (`cluster.go:88-92`). And
the Secret of a deleted Cluster, if it is still there when a Cluster of the same
name is made, is taken for that Cluster's; when Kubernetes then collects it, its
event names an owner that is gone (`clustersecret_controller.go:243`), and nobody
writes another. Without either exception TLC finds the case.

The command never waits for the token of the service account:
`IsSecretNotPopulatedError` (`errors.go:21`) asserts a value type while a
pointer is returned, so it fails and is run again. The owner reference that
`CopySecret` writes has the API version `shipper.booking.com/v1`
(`cluster.go:183`), which is not the version of the scheme; the model takes the
reference to work. `SecretRestored` says that a
Secret exists and is owned, not that it has the certificate on disk: the two
files are read one after the other, so a rotation in between yields a mixed
pair, and without an event of the Secret nobody looks again.

*Anchors.* A target that is deleted and made again may lose its objects for a
while: they carry its label, so they are not given to the new anchor, and go
with the old one. They come back (`InstalledConverges`). A tombstone also breaks
the type assertion in the filter of the janitor's anchor handler; the informers
that could send one are of the application clusters.

*Charts.* `PartialChart` assumes that a reader can see a file between two writes
to it, or after a truncation and before the first write, as POSIX allows.

## 8. Not modelled

- Capacity reports and sad pods, metrics, events, log messages, reasons and
  messages of conditions: output that nothing in the system reads.
- Chart rendering: Helm's, without state. That it can fail is in `Scheduling`
  and `Anchors`.
- Webhook and CRD schemas: decoding and validation without state; that the
  webhook's server takes part in the shutdown is in `Process`.
- The generated client, informers, listers and deep copies: generated code. Its
  caching is in the histories, the copies where aliasing matters.
- `create-cluster-secret`: prints one object.
- Values of target objects in `Scheduling`, and stale pod caches in `Rollout`
  (plan, points 2 and 3).

## 9. Running

    tlc -workers 2 -config RolloutForward.cfg MCRollout
    tlc -workers 2 -config RolloutRetreat.cfg MCRollout
    tlc -workers 2 -config AppPrompt.cfg Applications
    tlc -workers 2 -config FalseAbort.cfg Applications
    tlc -workers 2 -config CapacityTwoClusters.cfg CapacityStatus
    tlc -workers 2 -config Scheduling.cfg MCScheduling
    tlc -workers 2 -config Rollback.cfg MCScheduling
    tlc -workers 2 -config Process.cfg Process
    tlc -workers 2 -config Enrolment.cfg MCApply
    tlc -workers 2 -config ApplyRerun.cfg MCApply
    tlc -workers 2 -config Anchors.cfg MCAnchors
    tlc -workers 2 -config PartialChart.cfg Charts
    tlapm RolloutProofs.tla
    tlapm AdvanceProofs.tla
    tlapm SchedulingProofs.tla
    tlapm ApplicationsProofs.tla
    tlapm ProcessProofs.tla
    tlapm ApplyProofs.tla
    tlapm AnchorsProofs.tla
