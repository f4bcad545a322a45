----------------------------- MODULE Scheduling -----------------------------
(***************************************************************************)
(* The release controller's two work queues (pkg/controller/release):      *)
(* scheduling a Release (scheduler.go, release_controller.go) and choosing *)
(* the pair of releases the strategy executor works on (application.go).   *)
(*                                                                         *)
(* Releases are numbered by generation.  An API object is [cache, log]:    *)
(* what the informer cache holds, and the stored versions from the one the *)
(* cache was filled with (log[1]) to the latest.  cache and log[1] differ  *)
(* where the code modifies a cached object in place.  An Update lands only *)
(* if the writer's copy is of the latest version; a Patch always does.     *)
(***************************************************************************)
EXTENDS ClusterChoice

CONSTANTS
    Gens,           \* how many generations of releases there may be
    Kinds,          \* the target objects of a release, in the order created
    Fleet,          \* the clusters of the management cluster
    Req,            \* .spec.environment.clusterRequirements
    RepairFails,    \* may the Update of a target fail but for a conflict?
    MaxUid,         \* bound: how often a release name is used
    MaxEvents,      \* bound: how often a call fails, a process crashes or an
                    \* operator interferes
    MaxTouches,     \* bound: how often other controllers write a target
    RelLag,         \* bound: how many versions the Release cache is behind
    TgtLag          \* bound: how many versions the target caches are behind

ASSUME SchedulingAssumption ==
    /\ Gens \in Nat \ {0} /\ RepairFails \in BOOLEAN
    /\ Kinds \in Seq(ToSet(Kinds))
    /\ MaxUid \in Nat /\ MaxEvents \in Nat /\ MaxTouches \in Nat /\ RelLag \in Nat /\ TgtLag \in Nat

VARIABLES
    rel,     \* the Release of each generation
    tgt,     \* the target objects of each generation
    fleet,   \* the Cluster objects, as the cache has them
    job,     \* the sync of a release in progress, with its deep copy
    exec,    \* the sync of the application in progress, with what it read
    mixed,   \* history: did a patch meant for a deleted namesake land on it?
    pair,    \* the generations the executor worked on last
    uids,    \* how often each release was created
    events,  \* how many disturbances there were
    touches  \* how often other controllers wrote a target

vars == <<rel, tgt, fleet, job, exec, mixed, pair, uids, events, touches>>

Gen == 1 .. Gens

Kind == {Kinds[i] : i \in 1 .. Len(Kinds)}

Absent == [uid |-> 0]

Stored(o) == o.log[Len(o.log)]

Append1(o, v) == [o EXCEPT !.log = Append(@, v)]

\* A write of what is stored already makes no version.
Put(o, v) == IF v = Stored(o) THEN o ELSE Append1(o, v)

Current(o) == Len(o.log) = 1

Next1(o) == [cache |-> o.log[2], log |-> Tail(o.log)]

Bounded(o, lag) == Len(o.log) <= lag + 1

Event == events < MaxEvents /\ events' = events + 1

Idle == [busy |-> FALSE]

None == 0

-----------------------------------------------------------------------------
(* syncOneReleaseHandler: the first round assigns clusters.                 *)

\* Writing a release invalidates the copy a handler has of it.
WriteRel(r, o) ==
    /\ rel' = [rel EXCEPT ![r] = o]
    /\ Bounded(o, RelLag)
    /\ job' = IF job.busy /\ job.r = r /\ o # rel[r] THEN [job EXCEPT !.fresh = FALSE] ELSE job

\* The handler takes a deep copy and lists the clusters.
ListClusters(r) ==
    /\ ~job.busy
    /\ rel[r].cache # Absent /\ rel[r].cache.clusters = {}
    /\ job' = [busy |-> TRUE, r |-> r, copy |-> rel[r].cache, choosing |-> TRUE,
               listed |-> fleet, failed |-> FALSE, todo |-> << >>,
               fresh |-> Current(rel[r]), held |-> TRUE]
    /\ UNCHANGED <<rel, tgt, fleet, exec, mixed, pair, uids, events, touches>>

Choosing == job.busy /\ job.choosing

\* Faulty variant: the clusters are written whatever version they were chosen for.
ChooseClustersBlindly ==
    /\ Choosing
    /\ job' = Idle
    /\ \E pref \in PrefLists(job.listed) :
          rel' = [rel EXCEPT ![job.r] =
                    IF Refused(Req, pref) \/ Stored(@) = Absent THEN @
                    ELSE Put(@, [Stored(@) EXCEPT !.clusters = TargetClusters(Req, pref)])]
    /\ Bounded(rel'[job.r], RelLag)
    /\ UNCHANGED <<tgt, fleet, exec, mixed, pair, uids, events, touches>>

\* ChooseClusters: one Update of the copy.  Too few clusters, a newer version
\* of the release or a failing call, and nothing changes; it is retried.
ChooseClusters ==
    /\ Choosing
    /\ job' = Idle
    /\ \E pref \in PrefLists(job.listed) :
          \/ /\ ~Refused(Req, pref) /\ job.fresh
             /\ rel' = [rel EXCEPT ![job.r] =
                           Put(@, [job.copy EXCEPT !.clusters = TargetClusters(Req, pref)])]
             /\ Bounded(rel'[job.r], RelLag)
             /\ UNCHANGED events
          \/ /\ Refused(Req, pref) \/ ~job.fresh
             /\ UNCHANGED <<rel, events>>
          \/ Event /\ UNCHANGED rel
    /\ UNCHANGED <<tgt, fleet, exec, mixed, pair, uids, touches>>

-----------------------------------------------------------------------------
(* The second round: ScheduleRelease on a deep copy.                        *)

\* The copy is taken and the chart fetched and rendered, or that fails.
StartScheduling(r) ==
    /\ ~job.busy
    /\ rel[r].cache # Absent /\ rel[r].cache.clusters # {}
    /\ \E ok \in BOOLEAN :
          /\ IF ok THEN UNCHANGED events ELSE Event
          /\ job' = [busy |-> TRUE, r |-> r, copy |-> rel[r].cache, choosing |-> FALSE,
                     listed |-> {}, failed |-> ~ok, todo |-> IF ok THEN Kinds ELSE << >>,
                     fresh |-> Current(rel[r]),  \* is the copy of the stored version?
                     held |-> TRUE]              \* is the object read still the cached one?
    /\ UNCHANGED <<rel, tgt, fleet, exec, mixed, pair, uids, touches>>

\* The next target object becomes o; ok tells whether the step succeeded.
TargetDone(k, o, ok) ==
    /\ tgt' = [tgt EXCEPT ![job.r][k] = o]
    /\ Bounded(o, TgtLag)
    /\ job' = [job EXCEPT !.todo = Tail(@), !.failed = @ \/ ~ok]
    /\ UNCHANGED <<rel, fleet, exec, mixed, pair, uids, touches>>

NewTarget == [uid |-> job.copy.uid, clusters |-> job.copy.clusters]

Working(k) == job.busy /\ job.todo # << >> /\ Head(job.todo) = k

\* CreateOrUpdate*Target: not in the cache, so it is created.
CreateTarget(k) ==
    /\ Working(k)
    /\ LET o == tgt[job.r][k]
       IN  /\ o.cache = Absent
           /\ \/ Stored(o) = Absent /\ TargetDone(k, Append1(o, NewTarget), TRUE) /\ UNCHANGED events
              \/ Stored(o) # Absent /\ TargetDone(k, o, FALSE) /\ UNCHANGED events
              \/ Event /\ TargetDone(k, o, FALSE)

\* Faulty variant: the owner is not compared.
CheckTargetUnowned(k) ==
    /\ Working(k)
    /\ LET o == tgt[job.r][k]
       IN  /\ o.cache # Absent /\ o.cache.clusters = job.copy.clusters
           /\ TargetDone(k, o, TRUE)
    /\ UNCHANGED events

\* ... or it is another release's, or it is as it should be.
CheckTarget(k) ==
    /\ Working(k)
    /\ LET o == tgt[job.r][k]
       IN  /\ o.cache # Absent
           /\ o.cache.uid # job.copy.uid \/ o.cache.clusters = job.copy.clusters
           /\ TargetDone(k, o, o.cache.uid = job.copy.uid)
    /\ UNCHANGED events

\* ... or its clusters are not the release's: the cached object is changed in
\* place, and written.
RepairTarget(k) ==
    /\ Working(k)
    /\ LET o    == tgt[job.r][k]
           mine == [o EXCEPT !.cache = NewTarget]
       IN  /\ o.cache # Absent /\ o.cache.uid = job.copy.uid
           /\ o.cache.clusters # job.copy.clusters
           /\ \/ Current(o) /\ TargetDone(k, Put(mine, NewTarget), TRUE) /\ UNCHANGED events
              \/ ~Current(o) /\ TargetDone(k, mine, FALSE) /\ UNCHANGED events
              \/ RepairFails /\ Event /\ TargetDone(k, mine, FALSE)

Finished == job.busy /\ ~job.choosing /\ job.todo = << >>

\* Faulty variant: a release whose scheduling failed once is not marked again.
MarkScheduledOnce ==
    /\ Finished /\ ~job.failed
    /\ LET r == job.r
           marked == [job.copy EXCEPT !.sched = "True"]
       IN  rel' = [rel EXCEPT ![r] = IF job.copy.sched = "none" /\ job.fresh THEN Put(@, marked) ELSE @]
    /\ Bounded(rel'[job.r], RelLag)
    /\ job' = Idle
    /\ UNCHANGED <<tgt, fleet, exec, mixed, pair, uids, events, touches>>

\* All is there: a release that is neither Scheduled nor Complete is marked.
MarkScheduled ==
    /\ Finished /\ ~job.failed
    /\ LET r == job.r
           marked == [job.copy EXCEPT !.sched = "True"]
           due == job.copy.sched # "True" /\ ~job.copy.complete
       IN  \/ /\ ~due
              /\ job' = Idle
              /\ UNCHANGED <<rel, events>>
           \/ /\ due /\ job.fresh
              /\ rel' = [rel EXCEPT ![r] = Put(@, marked)]
              /\ Bounded(rel'[r], RelLag)
              /\ job' = Idle
              /\ UNCHANGED events
           \/ /\ due
              /\ IF job.fresh THEN Event ELSE UNCHANGED events
              /\ job' = [job EXCEPT !.failed = TRUE]
              /\ UNCHANGED rel
    /\ UNCHANGED <<tgt, fleet, exec, mixed, pair, uids, touches>>

\* Something failed: Scheduled becomes False on the cached object itself,
\* which is then written.  The write may be refused as stale, or fail.
MarkUnscheduled ==
    /\ Finished /\ job.failed
    /\ LET r == job.r
           unmarked == [job.copy EXCEPT !.sched = "False"]
           o == IF job.held THEN [rel[r] EXCEPT !.cache = unmarked] ELSE rel[r]
       IN  \/ /\ job.fresh
              /\ rel' = [rel EXCEPT ![r] = Put(o, unmarked)]
              /\ Bounded(rel'[r], RelLag)
              /\ UNCHANGED events
           \/ /\ IF job.fresh THEN Event ELSE UNCHANGED events
              /\ rel' = [rel EXCEPT ![r] = o]
    /\ job' = Idle
    /\ UNCHANGED <<tgt, fleet, exec, mixed, pair, uids, touches>>

-----------------------------------------------------------------------------
(* syncOneApplicationHandler.                                               *)

Listed == {r \in Gen : rel[r].cache # Absent}

\* getWorkingReleasePair: the newest release that is scheduled, and the
\* newest complete one besides it.
Contender ==
    LET s == {r \in Listed : rel[r].cache.sched = "True"}
    IN  IF s = {} THEN None ELSE Max(s)

Incumbent ==
    LET s == {r \in Listed \ {Contender} : rel[r].cache.complete}
    IN  IF s = {} THEN None ELSE Max(s)

\* buildReleaseInfo finds the target objects.
HasInfo(r) == \A k \in Kind : tgt[r][k].cache # Absent

\* The executor runs on the cached releases and target objects (see Rollout)
\* and builds the contender's patch: all the conditions of the release it read,
\* and Complete if it finds the last step achieved.
ExecuteStrategy ==
    /\ ~exec.busy
    /\ Contender # None
    /\ HasInfo(Contender) /\ (Incumbent # None => HasInfo(Incumbent))
    /\ pair' = [contender |-> Contender, incumbent |-> Incumbent]
    /\ LET v == rel[Contender].cache
       IN  \E done \in BOOLEAN :
              exec' = [busy |-> TRUE, r |-> Contender, uid |-> v.uid,
                       sched |-> v.sched, complete |-> v.complete \/ done]
    /\ UNCHANGED <<rel, tgt, fleet, job, mixed, uids, events, touches>>

\* Then it patches the contender's status, by name.  It may have nothing to
\* patch, or fail on a target before.
PatchContender ==
    /\ exec.busy
    /\ exec' = Idle
    /\ LET r == exec.r
           v == Stored(rel[r])
       IN  \/ /\ v # Absent
              /\ WriteRel(r, Put(rel[r], [v EXCEPT !.sched = exec.sched, !.complete = exec.complete]))
              /\ mixed' = [mixed EXCEPT ![r] = @ \/ v.uid # exec.uid]
           \/ UNCHANGED <<rel, job, mixed>>
    /\ UNCHANGED <<tgt, fleet, pair, uids, events, touches>>

-----------------------------------------------------------------------------
(* Users, operators and the rest of the system.                             *)

\* The application controller creates a release.  It lists releases through
\* the same cache, so it has seen the deletion of the name's last owner.
CreateRelease(r) ==
    /\ uids[r] < MaxUid
    /\ rel[r].cache = Absent /\ Stored(rel[r]) = Absent
    /\ \A q \in 1 .. r - 1 : rel[q].cache # Absent
    /\ \A q \in Gen : q > r => rel[q].cache = Absent
    /\ uids' = [uids EXCEPT ![r] = @ + 1]
    /\ WriteRel(r, Append1(rel[r], [uid |-> uids'[r], clusters |-> {}, sched |-> "none",
                                    complete |-> FALSE]))
    /\ mixed' = [mixed EXCEPT ![r] = FALSE]
    /\ UNCHANGED <<tgt, fleet, exec, pair, events, touches>>

\* Users abort a rollout by deleting the newest release.
DeleteRelease(r) ==
    /\ Stored(rel[r]) # Absent /\ uids[r] < MaxUid
    /\ \A q \in Gen : q > r => Stored(rel[q]) = Absent
    /\ WriteRel(r, Append1(rel[r], Absent))
    /\ UNCHANGED <<tgt, fleet, exec, mixed, pair, uids, events, touches>>

\* Kubernetes deletes the objects whose owner is gone.
CollectGarbage(r, k) ==
    /\ Stored(tgt[r][k]) # Absent
    /\ Stored(tgt[r][k]).uid # Stored(rel[r]).uid
    /\ tgt' = [tgt EXCEPT ![r][k] = Append1(@, Absent)]
    /\ Bounded(tgt'[r][k], TgtLag)
    /\ UNCHANGED <<rel, fleet, job, exec, mixed, pair, uids, events, touches>>

\* Another controller writes a target's status.
TouchTarget(r, k) ==
    /\ touches < MaxTouches /\ touches' = touches + 1
    /\ Stored(tgt[r][k]) # Absent
    /\ tgt' = [tgt EXCEPT ![r][k] = Append1(@, Stored(@))]
    /\ Bounded(tgt'[r][k], TgtLag)
    /\ UNCHANGED <<rel, fleet, job, exec, mixed, pair, uids, events>>

\* Operators edit the annotation that holds a release's clusters.
EditClusters(r) ==
    /\ Event
    /\ Stored(rel[r]) # Absent /\ Stored(rel[r]).clusters # {}
    /\ \E c \in fleet : WriteRel(r, Put(rel[r], [Stored(rel[r]) EXCEPT !.clusters = {c.name}]))
    /\ UNCHANGED <<tgt, fleet, exec, mixed, pair, uids, touches>>

\* Operators cordon a cluster, or make it schedulable again.
Cordon(c) ==
    /\ Event
    /\ fleet' = (fleet \ {c}) \union {[c EXCEPT !.unschedulable = ~@]}
    /\ UNCHANGED <<rel, tgt, job, exec, mixed, pair, uids, touches>>

DeliverRelease(r) ==
    /\ ~Current(rel[r])
    /\ rel' = [rel EXCEPT ![r] = Next1(@)]
    /\ job' = IF job.busy /\ job.r = r THEN [job EXCEPT !.held = FALSE] ELSE job
    /\ UNCHANGED <<tgt, fleet, exec, mixed, pair, uids, events, touches>>

DeliverTarget(r, k) ==
    /\ ~Current(tgt[r][k])
    /\ tgt' = [tgt EXCEPT ![r][k] = Next1(@)]
    /\ UNCHANGED <<rel, fleet, job, exec, mixed, pair, uids, events, touches>>

\* Shipper crashes: its caches are filled anew.
Restart ==
    /\ Event
    /\ rel' = [r \in Gen |-> [cache |-> Stored(rel[r]), log |-> <<Stored(rel[r])>>]]
    /\ tgt' = [r \in Gen |-> [k \in Kind |->
                  [cache |-> Stored(tgt[r][k]), log |-> <<Stored(tgt[r][k])>>]]]
    /\ job' = Idle /\ exec' = Idle
    /\ UNCHANGED <<fleet, mixed, pair, uids, touches>>

-----------------------------------------------------------------------------
Init ==
    /\ rel = [r \in Gen |-> [cache |-> Absent, log |-> <<Absent>>]]
    /\ tgt = [r \in Gen |-> [k \in Kind |-> [cache |-> Absent, log |-> <<Absent>>]]]
    /\ fleet = Fleet
    /\ job = Idle /\ exec = Idle
    /\ mixed = [r \in Gen |-> FALSE]
    /\ pair = [contender |-> None, incumbent |-> None]
    /\ uids = [r \in Gen |-> 0]
    /\ events = 0 /\ touches = 0

ScheduleRelease(r) == ListClusters(r) \/ StartScheduling(r)

EnsureTarget == \E k \in Kind : CreateTarget(k) \/ CheckTarget(k) \/ RepairTarget(k)

Next ==
    \/ \E r \in Gen : ScheduleRelease(r)
    \/ ChooseClusters \/ EnsureTarget
    \/ MarkScheduled \/ MarkUnscheduled
    \/ ExecuteStrategy \/ PatchContender
    \/ \E r \in Gen :
          \/ CreateRelease(r) \/ DeleteRelease(r) \/ EditClusters(r) \/ DeliverRelease(r)
          \/ \E k \in Kind : CollectGarbage(r, k) \/ TouchTarget(r, k) \/ DeliverTarget(r, k)
    \/ \E c \in fleet : Cordon(c)
    \/ Restart

Spec == Init /\ [][Next]_vars

\* Every release is synced at least once per resync period, a handler runs to
\* its end, watch events arrive, and Kubernetes collects its garbage.  The
\* work queue serves all releases: each gets its turn between the others.
FairSpec ==
    /\ Spec
    /\ \A r \in Gen :
          /\ SF_vars(ScheduleRelease(r))
          /\ WF_vars(DeliverRelease(r))
          /\ \A k \in Kind : WF_vars(DeliverTarget(r, k)) /\ WF_vars(CollectGarbage(r, k))
    /\ WF_vars(ChooseClusters) /\ WF_vars(EnsureTarget)
    /\ WF_vars(MarkScheduled) /\ WF_vars(MarkUnscheduled)

-----------------------------------------------------------------------------
(* Properties.                                                              *)

\* A release that is stored as Scheduled has all its target objects stored,
\* and they are its own: not those of a deleted release of the same name.  The
\* one exception is a release that the executor took for its namesake: it
\* patches by name what it read of a release that has been replaced since.
ScheduledOwnsTargets ==
    \A r \in Gen : Stored(rel[r]) # Absent /\ Stored(rel[r]).sched = "True" /\ ~mixed[r] =>
        \A k \in Kind : Stored(tgt[r][k]).uid = Stored(rel[r]).uid

\* Clusters are assigned to a release once, whatever the caches say: only an
\* operator's edit changes them.
AssignedOnce ==
    [][\A r \in Gen :
          LET v == Stored(rel[r])
              w == Stored(rel'[r])
          IN  v # Absent /\ w.uid = v.uid /\ v.clusters # {} /\ ~EditClusters(r) =>
                  w.clusters = v.clusters]_vars

\* The executor shifts pods from an older release to a newer one.  It goes
\* back only after an abort, when the newer release has been deleted.
NoUncommandedRollback ==
    [][LET p == pair'
       IN  p # pair /\ p.incumbent > p.contender => Stored(rel[p.incumbent]) = Absent]_vars

\* The clusters a release is assigned are the best ones that meet its
\* requirements, of the clusters as they were when the handler listed them.
AssignedBest ==
    [][\A r \in Gen :
          LET v == Stored(rel[r])
              w == Stored(rel'[r])
          IN  v # Absent /\ w.uid = v.uid /\ v.clusters = {} /\ w.clusters # {} =>
                  job.r = r /\ Best(Req, job.listed, w.clusters)]_vars

\* A release is scheduled, and its target objects list its clusters.
Settled(r) ==
    LET v == Stored(rel[r])
    IN  /\ v # Absent
        /\ v.sched = "True" \/ v.complete
        /\ \A k \in Kind : Stored(tgt[r][k]) = [uid |-> v.uid, clusters |-> v.clusters]

\* A release that stays and has been assigned clusters is scheduled in the
\* end, and its target objects list its clusters.
EventuallyScheduled ==
    \A r \in Gen :
        <>[](Stored(rel[r]) # Absent /\ Stored(rel[r]).clusters # {}) => <>[]Settled(r)

=============================================================================
