------------------------------ MODULE Rollout ------------------------------
(***************************************************************************)
(* One rollout: the release controller's strategy executor                 *)
(* (pkg/controller/release/executor.go, checks.go, application.go) driving *)
(* the target objects of a contender and, unless this is the first         *)
(* release, of an incumbent, and the installation, capacity and traffic    *)
(* controllers that act on those objects in the application clusters and   *)
(* report back through their statuses.                                     *)
(*                                                                         *)
(* Every API object is a history: the non-empty sequence of its versions   *)
(* from the one in the informer cache (Head) to the one stored by the API  *)
(* server (Last).  The controllers of a shipper process share one informer *)
(* factory, read the Head, and write to the server; a watch event moves    *)
(* the cache one version forward.  A Patch always lands.  An Update lands  *)
(* only if the cached version is the stored one (resourceVersion check).   *)
(***************************************************************************)
EXTENDS Integers, Sequences, FiniteSets, StrategyConditions

CONSTANTS
    Cluster,       \* the application clusters chosen for both releases
    Steps,         \* the contender's strategy: <<[cc, ci, tc, ti], ...>>
    Total,         \* totalReplicaCount, the same in every cluster
    HasIncumbent,  \* FALSE on an application's first rollout
    TargetSteps,   \* the values users write to .spec.targetStep
    StepBack,      \* may users retreat a rollout, or only advance it?
    MaxCommands,   \* bound: how many times users change the target step
    Faults,        \* the kinds of fault that may happen
    MaxFaults,     \* bound: how many faults may happen
    MaxDisturbed,  \* bound: how many commands and faults there are together
    MaxLag         \* bound: how many versions a cache may be behind

\* A step's capacities and weights are percentages; the strategy has a step.
ASSUME StrategyAssumption ==
    /\ Steps \in Seq([cc : 0 .. 100, ci : 0 .. 100, tc : 0 .. 100, ti : 0 .. 100])
    /\ Steps # << >>

ASSUME ParameterAssumption ==
    /\ Cluster # {} /\ IsFiniteSet(Cluster)
    /\ Total \in Nat
    /\ HasIncumbent \in BOOLEAN
    /\ TargetSteps \subseteq Nat
    /\ StepBack \in BOOLEAN
    /\ MaxCommands \in Nat
    /\ Faults \subseteq {"patch", "install", "unreachable", "podpatch", "podloss"}
    /\ MaxFaults \in Nat
    /\ MaxDisturbed \in Nat
    /\ MaxLag \in Nat

VARIABLES
    rel,      \* history of the contender Release
    it,       \* history of the contender InstallationTarget's status
    ct,       \* history of each release's CapacityTarget
    tt,       \* history of each release's TrafficTarget
    charts,   \* clusters in which the contender's objects exist
    dep,      \* each release's Deployment in each cluster: the pods wanted,
              \* those available, and of these the ones labelled for traffic
    faults,   \* how many faults have happened
    commands  \* how many times the target step has been changed

vars == <<rel, it, ct, tt, charts, dep, faults, commands>>

-----------------------------------------------------------------------------
(* Objects and caches.                                                      *)

Rel == IF HasIncumbent THEN {"contender", "incumbent"} ELSE {"contender"}

NoStep == -1                    \* .status.achievedStep is nil

LastStep == Len(Steps) - 1

\* CalculateDesiredReplicaCount: rounded up to a whole pod.
Replicas(percent) == (Total * percent + 99) \div 100

Last(h) == h[Len(h)]

\* The cluster list of a spec or status: a value for each cluster listed.
Absent == -1

Lists(S) == [Cluster -> S \union {Absent}]

Listed(f) == {c \in Cluster : f[c] # Absent}

NoReport == [c \in Cluster |-> Absent]

\* A write to the API server.  Writing what is stored already makes no version.
Write(h, v) == IF v = Last(h) THEN h ELSE Append(h, v)

\* An Update: the write is refused unless the cached version is the stored one.
Update(h, v) == IF Len(h) = 1 THEN Write(h, v) ELSE h

\* No cache falls more than MaxLag versions behind.
Bounded(h) == Len(h) <= MaxLag + 1

Fault(kind) ==
    /\ kind \in Faults
    /\ faults < MaxFaults /\ commands + faults < MaxDisturbed
    /\ faults' = faults + 1

-----------------------------------------------------------------------------
(* The checks (checks.go), each on the cached version of an object.         *)

Step(s) == Steps[s + 1]

\* checkInstallation: every cluster of the spec is reported Installed.
InstallationReady(status) == \A c \in Cluster : status[c] = "Installed"

\* The early returns of checkCapacity and checkTraffic: the status does not
\* list exactly the clusters of the spec, so there is nothing to compare.
Comparable(v) == Listed(v.status) = Listed(v.spec)

\* Faulty variant: the capacity asked for counts as available.
CapacityMetUnseen(v, percent) == Comparable(v) /\ \A c \in Listed(v.spec) : v.spec[c] = percent

\* checkCapacity: is the step's capacity asked for, and available, everywhere?
CapacityMet(v, percent) ==
    /\ Comparable(v)
    /\ \A c \in Listed(v.spec) : v.spec[c] = percent /\ v.status[c] = Replicas(percent)

\* Faulty variants: the weight asked for counts as achieved; a comparison is strict.
TrafficMetUnseen(v, weight) == Comparable(v) /\ \A c \in Listed(v.spec) : v.spec[c] = weight

ContenderTrafficMetStrict(v, weight) ==
    /\ Comparable(v)
    /\ \A c \in Listed(v.spec) : v.spec[c] = weight /\ v.status[c] > weight

\* checkTraffic with contenderTrafficComparison and incumbentTrafficComparison.
ContenderTrafficMet(v, weight) ==
    /\ Comparable(v)
    /\ \A c \in Listed(v.spec) : v.spec[c] = weight /\ v.status[c] >= weight

IncumbentTrafficMet(v, weight) ==
    /\ Comparable(v)
    /\ \A c \in Listed(v.spec) : v.spec[c] = weight /\ v.status[c] <= weight

\* The newSpec of checkCapacity and checkTraffic: the clusters whose spec is
\* not the step's, and only those; empty when there is nothing to patch.
NewSpec(v, value) ==
    [c \in Cluster |-> IF Comparable(v) /\ v.spec[c] \notin {Absent, value}
                        THEN value ELSE Absent]

-----------------------------------------------------------------------------
(* Executor.Execute: the phases of a step, and the patches of each outcome. *)

Phases == IF HasIncumbent THEN 1 .. 5 ELSE 1 .. 3

Met(k) ==
    LET step == Step(Head(rel).target)
    IN  CASE k = Installation      -> InstallationReady(Head(it))
          [] k = ContenderCapacity -> CapacityMet(Head(ct["contender"]), step.cc)
          [] k = ContenderTraffic  -> ContenderTrafficMet(Head(tt["contender"]), step.tc)
          [] k = IncumbentTraffic  -> IncumbentTrafficMet(Head(tt["incumbent"]), step.ti)
          [] k = IncumbentCapacity -> CapacityMet(Head(ct["incumbent"]), step.ci)

\* "no step %d in strategy": such a target step is an unrecoverable error.
StepExists == Head(rel).target < Len(Steps)

\* Faulty variant: a phase that is not met does not end the execution.
BlockedAnyway(k) == StepExists /\ ~Met(k)

\* Execution stops at the first phase that is not met.
Blocked(k) == StepExists /\ ~Met(k) /\ \A j \in 1 .. (k - 1) : Met(j)

\* Every phase is met as far as the caches show.
SeenComplete == StepExists /\ \A k \in Phases : Met(k)

\* The status patch carries a copy of the cached status.  achievedStep is
\* omitted when nil, which leaves the stored one alone; the conditions list,
\* which holds Complete, is replaced by the cached one.
StatusPatch(conds, achieved, complete) ==
    LET s == Head(rel).target
    IN  [Last(rel) EXCEPT
            !.conds    = conds,
            !.state    = AsReleaseStrategyState(conds, s, HasIncumbent, s = LastStep),
            !.achieved = IF achieved = NoStep THEN @ ELSE achieved,
            !.complete = complete]

\* buildContenderStrategyConditionsPatch for an execution blocked at phase k.
ConditionsPatch(k) ==
    LET s       == Head(rel).target
        verdict == IF k = Installation /\ (\E c \in Cluster : Head(it)[c] = "Absent")
                   THEN "Unknown" ELSE "False"
        before  == SetAll(Head(rel).conds, 1 .. (k - 1), "True", s)
    IN  StatusPatch(SetAll(before, {k}, verdict, s), Head(rel).achieved, Head(rel).complete)

\* The step wrap up, reached when every phase is met.
WrapUpPatch ==
    LET s == Head(rel).target
    IN  StatusPatch(SetAll(Head(rel).conds, Phases, "True", s), s,
                    Head(rel).complete \/ s = LastStep)

\* The merge patch that replaces the cluster list of a target object's spec.
PatchSpec(h, value) ==
    LET new == NewSpec(Head(h), value)
    IN  IF Listed(new) = {} THEN h ELSE Write(h, [Last(h) EXCEPT !.spec = new])

\* The patches are sent one by one: an error on the last one, the Release's,
\* leaves the target object patched.
PatchRelease(v, sent) ==
    \/ sent /\ rel' = Write(rel, v) /\ Bounded(rel') /\ UNCHANGED faults
    \/ ~sent /\ Fault("patch") /\ UNCHANGED rel

WaitForInstallation(sent) ==
    /\ Blocked(Installation)
    /\ PatchRelease(ConditionsPatch(Installation), sent)
    /\ UNCHANGED <<it, ct, tt, charts, dep, commands>>

AdjustCapacity(r, k, percent, sent) ==
    /\ Blocked(k)
    /\ ct' = [ct EXCEPT ![r] = PatchSpec(ct[r], percent)]
    /\ Bounded(ct'[r])
    /\ PatchRelease(ConditionsPatch(k), sent)
    /\ UNCHANGED <<it, tt, charts, dep, commands>>

AdjustTraffic(r, k, weight, sent) ==
    /\ Blocked(k)
    /\ tt' = [tt EXCEPT ![r] = PatchSpec(tt[r], weight)]
    /\ Bounded(tt'[r])
    /\ PatchRelease(ConditionsPatch(k), sent)
    /\ UNCHANGED <<it, ct, charts, dep, commands>>

WrapUp(sent) ==
    /\ SeenComplete
    /\ PatchRelease(WrapUpPatch, sent)
    /\ UNCHANGED <<it, ct, tt, charts, dep, commands>>

\* syncOneApplicationHandler for the working pair of releases.
Execute(sent) ==
    LET step == Step(Head(rel).target)
    IN  \/ WaitForInstallation(sent)
        \/ AdjustCapacity("contender", ContenderCapacity, step.cc, sent)
        \/ AdjustTraffic("contender", ContenderTraffic, step.tc, sent)
        \/ HasIncumbent /\ AdjustTraffic("incumbent", IncumbentTraffic, step.ti, sent)
        \/ HasIncumbent /\ AdjustCapacity("incumbent", IncumbentCapacity, step.ci, sent)
        \/ WrapUp(sent)

-----------------------------------------------------------------------------
(* The installation controller: processInstallation for the contender.      *)

\* installManifests in each cluster of ok: objects that are missing are
\* created, those stamped with this release already are skipped.
InstallManifests(ok) == charts' = charts \union ok

\* The release is installed in the clusters of ok, and fails in the others.
InstallationSync(ok) ==
    /\ IF ok = Cluster THEN UNCHANGED faults ELSE Fault("install")
    /\ InstallManifests(ok)
    /\ it' = Update(it, [c \in Cluster |-> IF c \in ok THEN "Installed" ELSE "Failed"])
    /\ Bounded(it')
    /\ UNCHANGED <<rel, ct, tt, dep, commands>>

-----------------------------------------------------------------------------
(* The capacity controller: capacityTargetSyncHandler, and the Deployments. *)

\* Clusters in which findTargetDeploymentForClusterSpec has one to find.
Deployed(r) == IF r = "contender" THEN charts ELSE Cluster

\* The status list the handler leaves behind.  With one cluster it is that
\* cluster's availability, or nothing if its Deployment was not found.  With
\* more, the loop that rebuilds the list overwrites entries it still aliases
\* (module CapacityStatus), and nothing is assumed about what it reports.
Reports(r, spec, found) ==
    IF \E c \in Cluster : Cluster = {c}
    THEN {[c \in Cluster |-> IF c \in Listed(spec) \intersect found
                             THEN dep[r][c].avail ELSE Absent]}
    ELSE Lists(0 .. Total)

\* The Deployments found are scaled, unless the patch fails, and the pods
\* they had available before that are reported.
CapacitySync(r, found, scaled) ==
    LET spec == Head(ct[r]).spec
    IN  /\ IF found = Deployed(r) /\ scaled = found THEN UNCHANGED faults
                                                    ELSE Fault("unreachable")
        /\ dep' = [dep EXCEPT ![r] = [c \in Cluster |->
                      IF c \in Listed(spec) \intersect scaled
                      THEN [dep[r][c] EXCEPT !.want = Replicas(spec[c])]
                      ELSE dep[r][c]]]
        /\ \E report \in Reports(r, spec, found) :
              ct' = [ct EXCEPT ![r] = Update(ct[r], [Head(ct[r]) EXCEPT !.status = report])]
        /\ Bounded(ct'[r])
        /\ UNCHANGED <<rel, it, tt, charts, commands>>

\* One pod less: it may have been labelled for traffic or not.
OneLess(d) ==
    {[d EXCEPT !.avail = @ - 1, !.serving = n] :
        n \in {d.serving - 1, d.serving} \intersect 0 .. (d.avail - 1)}

\* A Deployment adds a pod, not labelled for traffic, or removes one.
DeploymentProgress(r, c) ==
    LET d == dep[r][c]
    IN  /\ d.avail # d.want
        /\ \E e \in IF d.avail < d.want THEN {[d EXCEPT !.avail = @ + 1]} ELSE OneLess(d) :
              dep' = [dep EXCEPT ![r][c] = e]
        /\ UNCHANGED <<rel, it, ct, tt, charts, faults, commands>>

\* A pod is lost; its Deployment will replace it.
PodLoss(r, c) ==
    /\ dep[r][c].avail > 0
    /\ Fault("podloss")
    /\ \E e \in OneLess(dep[r][c]) : dep' = [dep EXCEPT ![r][c] = e]
    /\ UNCHANGED <<rel, it, ct, tt, charts, commands>>

-----------------------------------------------------------------------------
(* The traffic controller: syncHandler and podLabelShifter.SyncCluster.     *)

\* Clusters with the application's production Service.
Serviced == IF HasIncumbent THEN Cluster ELSE charts

\* clusterReleaseWeights: the cached weights of all the application's
\* TrafficTargets, which every sync works from.
Weight(q, c) == Head(tt[q]).spec[c]

Weighted(q, c) == c \in Listed(Head(tt[q]).spec)

TotalWeight(c) ==
    LET w(q) == IF q \in Rel /\ Weighted(q, c) THEN Weight(q, c) ELSE 0
    IN  w("contender") + w("incumbent")

TotalPods(c) ==
    LET n(q) == IF q \in Rel THEN dep[q][c].avail ELSE 0
    IN  n("contender") + n("incumbent")

\* Faulty variant: not clamped to the pods the release has.
PodTargetUnclamped(pods, weight, totalPods, totalWeight) ==
    IF totalWeight = 0 THEN 0 ELSE (totalPods * weight + totalWeight - 1) \div totalWeight

\* calculateReleasePodTarget: the weight's share of all the pods, rounded up
\* and clamped to the pods the release has.
PodTarget(pods, weight, totalPods, totalWeight) ==
    LET share == IF totalWeight = 0 THEN 0
                 ELSE (totalPods * weight + totalWeight - 1) \div totalWeight
    IN  IF share < pods THEN share ELSE pods

Target(q, c) == PodTarget(dep[q][c].avail, Weight(q, c), TotalPods(c), TotalWeight(c))

\* Pods are labelled or unlabelled until the target is met, but for those
\* whose patch fails: at most n of them.
Shifted(q, c, n) ==
    LET now == dep[q][c].serving
        missed(gap) == IF gap < n THEN gap ELSE n
    IN  IF now < Target(q, c) THEN Target(q, c) - missed(Target(q, c) - now)
                              ELSE Target(q, c) + missed(now - Target(q, c))

\* The achieved weight: the desired one if no pod needed a change, else the
\* share of all the pods that get traffic now, as a rounded weight.
Achieved(q, c, n) ==
    IF dep[q][c].serving = Target(q, c) THEN Weight(q, c)
    ELSE (2 * Shifted(q, c, n) * TotalWeight(c) + TotalPods(c)) \div (2 * TotalPods(c))

\* Syncing one TrafficTarget relabels the pods of every release of the
\* application; patches of pods fail independently of each other.  A cluster
\* that cannot be reached, or has no Service, is left alone, and 0 is reported
\* for it.
TrafficSync(r, gone, unpatched) ==
    LET reached == Serviced \ gone
    IN  /\ IF \A q \in Rel, c \in Cluster : unpatched[q][c] = 0
           THEN IF gone = {} THEN UNCHANGED faults ELSE Fault("unreachable")
           ELSE gone = {} /\ Fault("podpatch")
        /\ dep' = [q \in Rel |-> [c \in Cluster |->
                      IF c \in reached /\ Weighted(q, c)
                      THEN [dep[q][c] EXCEPT !.serving = Shifted(q, c, unpatched[q][c])]
                      ELSE dep[q][c]]]
        /\ tt' = [tt EXCEPT ![r] = Update(tt[r], [Head(tt[r]) EXCEPT
                      !.status = [c \in Cluster |->
                          CASE ~Weighted(r, c)                  -> Absent
                            [] Weighted(r, c) /\ c \in reached  -> Achieved(r, c, unpatched[r][c])
                            [] OTHER                            -> 0]])]
        /\ Bounded(tt'[r])
        /\ UNCHANGED <<rel, it, ct, charts, commands>>

-----------------------------------------------------------------------------
(* Users and the informers.                                                 *)

\* A user writes .spec.targetStep, without waiting for the current step.
SetTargetStep(s) ==
    /\ s # Last(rel).target
    /\ ~StepBack => s > Last(rel).target
    /\ commands < MaxCommands /\ commands + faults < MaxDisturbed
    /\ commands' = commands + 1
    /\ rel' = Append(rel, [Last(rel) EXCEPT !.target = s])
    /\ Bounded(rel')
    /\ UNCHANGED <<it, ct, tt, charts, dep, faults>>

\* A watch event brings the next version of an object into the cache.
DeliverRelease ==
    /\ Len(rel) > 1 /\ rel' = Tail(rel)
    /\ UNCHANGED <<it, ct, tt, charts, dep, faults, commands>>

DeliverInstallation ==
    /\ Len(it) > 1 /\ it' = Tail(it)
    /\ UNCHANGED <<rel, ct, tt, charts, dep, faults, commands>>

DeliverCapacity(r) ==
    /\ Len(ct[r]) > 1 /\ ct' = [ct EXCEPT ![r] = Tail(ct[r])]
    /\ UNCHANGED <<rel, it, tt, charts, dep, faults, commands>>

DeliverTraffic(r) ==
    /\ Len(tt[r]) > 1 /\ tt' = [tt EXCEPT ![r] = Tail(tt[r])]
    /\ UNCHANGED <<rel, it, ct, charts, dep, faults, commands>>

-----------------------------------------------------------------------------
\* The contender has just been scheduled: its target objects exist, with
\* every percentage and weight 0 and no status.  The incumbent is complete.
Init ==
    LET everywhere(x) == [c \in Cluster |-> x]
        pick(a, b)    == [r \in Rel |-> IF r = "contender" THEN a ELSE b]
    IN  /\ rel = <<[target |-> 0, achieved |-> NoStep, complete |-> FALSE,
                     conds |-> NoConditions, state |-> NoState]>>
        /\ it = <<everywhere("Absent")>>
        /\ ct = pick(<<[spec |-> everywhere(0), status |-> NoReport]>>,
                      <<[spec |-> everywhere(100), status |-> everywhere(Total)]>>)
        /\ tt = pick(<<[spec |-> everywhere(0), status |-> NoReport]>>,
                      <<[spec |-> everywhere(100), status |-> everywhere(100)]>>)
        /\ charts = {}
        /\ dep = pick(everywhere([want |-> 0, avail |-> 0, serving |-> 0]),
                       everywhere([want |-> Total, avail |-> Total, serving |-> Total]))
        /\ faults = 0
        /\ commands = 0

Next ==
    \/ \E s \in TargetSteps : SetTargetStep(s)
    \/ \E sent \in BOOLEAN : Execute(sent)
    \/ \E ok \in SUBSET Cluster : InstallationSync(ok)
    \/ \E r \in Rel :
          \/ \E found \in SUBSET Deployed(r) : \E scaled \in SUBSET found :
                CapacitySync(r, found, scaled)
          \/ \E c \in Cluster : DeploymentProgress(r, c) \/ PodLoss(r, c)
          \/ \E gone \in SUBSET Cluster, unpatched \in [Rel -> [Cluster -> 0 .. Total]] :
                TrafficSync(r, gone, unpatched)
          \/ DeliverCapacity(r)
          \/ DeliverTraffic(r)
    \/ DeliverRelease
    \/ DeliverInstallation

Spec == Init /\ [][Next]_vars

\* Every object is synced again at least once per resync period whatever
\* became of earlier attempts, watch events arrive, and Deployments progress.
Fairness ==
    /\ WF_vars(Execute(TRUE))
    /\ WF_vars(InstallationSync(Cluster))
    /\ WF_vars(DeliverRelease)
    /\ WF_vars(DeliverInstallation)
    /\ \A r \in Rel :
          /\ WF_vars(CapacitySync(r, Deployed(r), Deployed(r)))
          /\ WF_vars(TrafficSync(r, {}, [q \in Rel |-> [c \in Cluster |-> 0]]))
          /\ WF_vars(DeliverCapacity(r))
          /\ WF_vars(DeliverTraffic(r))
          /\ \A c \in Cluster : WF_vars(DeploymentProgress(r, c))

FairSpec == Spec /\ Fairness

-----------------------------------------------------------------------------
(* Properties.                                                              *)

ReleaseVersion ==
    [target   : Nat,
     achieved : Nat \union {NoStep},
     complete : BOOLEAN,
     conds    : Conditions,
     state    : StrategyState]

\* A CapacityTarget or a TrafficTarget.
TargetVersion == [spec : Lists(0 .. 100), status : Lists(Nat)]

\* Only a pod that is there can be labelled for traffic.
Deployment == {d \in [want : Nat, avail : Nat, serving : Nat] : d.serving <= d.avail}

History(S) == Seq(S) \ {<< >>}

\* The type invariant.
TypeOK ==
    /\ rel \in History(ReleaseVersion)
    /\ it \in History([Cluster -> {"Absent", "Failed", "Installed"}])
    /\ ct \in [Rel -> History(TargetVersion)]
    /\ tt \in [Rel -> History(TargetVersion)]
    /\ charts \subseteq Cluster
    /\ dep \in [Rel -> [Cluster -> Deployment]]
    /\ faults \in Nat
    /\ commands \in Nat

\* The executor's merge patch replaces a target object's whole cluster list
\* with the outdated clusters only (checks.go).  Whatever the caches show and
\* whichever way the rollout is moved, no cluster ever leaves a spec by that.
NoClusterDropped ==
    \A r \in Rel : Listed(Last(ct[r]).spec) = Cluster /\ Listed(Last(tt[r]).spec) = Cluster

\* Capacity and traffic are not moved, for either release, before the
\* contender's chart is installed in every cluster.
InstalledFirst ==
    charts # Cluster =>
        \A c \in Cluster :
            /\ Last(ct["contender"]).spec[c] = 0
            /\ Last(tt["contender"]).spec[c] = 0
            /\ HasIncumbent => /\ Last(ct["incumbent"]).spec[c] = 100
                               /\ Last(tt["incumbent"]).spec[c] = 100

\* The application clusters have what the strategy asks for at step s: the
\* contender the pods, and enough of them in rotation for its weight, and the
\* incumbent no more pods than it is left.
Reached(s) ==
    \A c \in Cluster :
        /\ dep["contender"][c].avail >= Replicas(Step(s).cc)
        /\ dep["contender"][c].serving >= Replicas(Step(s).tc)
        /\ HasIncumbent => dep["incumbent"][c].avail <= Replicas(Step(s).ci)

\* While a rollout advances, a step is found complete only when all clusters
\* have reached it and no capacity is beyond it, although the executor goes by
\* statuses and caches that may be out of date.
LockStep ==
    SeenComplete =>
        LET s == Head(rel).target
        IN  /\ Reached(s)
            /\ \A c \in Cluster :
                  /\ dep["contender"][c].avail <= Replicas(Step(s).cc)
                  /\ HasIncumbent => dep["incumbent"][c].avail >= Replicas(Step(s).ci)

\* While a rollout advances, the two releases together never have fewer pods
\* available in a cluster than the incumbent had alone.
NoCapacityLoss ==
    HasIncumbent =>
        \A c \in Cluster : dep["contender"][c].avail + dep["incumbent"][c].avail >= Total

\* While a rollout advances, for every pod that the incumbent has given up one
\* of the contender gets traffic; and each pod given up takes at most itself
\* out of rotation.  (A Deployment that shrinks may remove pods in rotation and
\* keep others: until the next relabelling fewer than Total pods may get
\* traffic, but never fewer than half.)
NoServingLoss ==
    HasIncumbent =>
        \A c \in Cluster :
            LET contender == dep["contender"][c]
                incumbent == dep["incumbent"][c]
            IN  /\ contender.serving + incumbent.avail >= Total
                /\ contender.serving + incumbent.serving >= incumbent.avail

\* While a rollout advances, what its status tells users is true of the
\* clusters: the achieved step has been reached, and so has the step for which
\* a command is waited for.
CommandMeansConverged ==
    /\ Last(rel).achieved # NoStep => Reached(Last(rel).achieved)
    /\ Last(rel).state.waitingForCommand => Reached(Last(rel).conds[Installation].step)

\* A rollout left alone at an existing step achieves it and stays there, and
\* the release is complete if it was the last.
RolloutConverges ==
    <>[](Last(rel).target < Len(Steps) =>
            /\ Last(rel).achieved = Last(rel).target
            /\ Last(rel).target = LastStep => Last(rel).complete)

=============================================================================
