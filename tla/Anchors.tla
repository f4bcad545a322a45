------------------------------ MODULE Anchors ------------------------------
(***************************************************************************)
(* The installation controller and the janitor, which share no lock and no *)
(* queue but write the same objects of an application cluster: the anchor  *)
(* ConfigMap of a release, found by NAME and stamped with the uid of the   *)
(* InstallationTarget that made it, and the objects of the release's       *)
(* chart, which the anchor owns.  Deleting the anchor lets the cluster's   *)
(* garbage collector remove every object that no other anchor owns.        *)
(*                                                                         *)
(* A chart is a Service, whose name is the same in every release of the    *)
(* application, and a Deployment of the release's own.  An anchor's uid is *)
(* not kept: an owner reference either names the anchor that exists now    *)
(* (the release is in .owners, or the Deployment is "owned") or one that   *)
(* is gone ("dangling").                                                   *)
(***************************************************************************)
EXTENDS Integers, Sequences, FiniteSets

CONSTANTS Releases,     \* the application's releases, numbers by age
          Clusters,     \* the clusters of every release, in the order tried
          MaxUid,       \* how often a release's InstallationTarget is made
          MaxQueued,    \* how many copies of a work item wait at once
          MaxChanges    \* creations, deletions, failed calls, missed
                        \* deletions and restarts

ASSUME AnchorsAssumption ==
    /\ Releases \subseteq Nat \ {0}
    /\ Clusters \in Seq({Clusters[i] : i \in DOMAIN Clusters}) /\ Clusters # << >>
    /\ MaxUid \in Nat /\ MaxQueued \in Nat /\ MaxChanges \in Nat

VARIABLES rels,     \* the releases that exist
          it,       \* the uid of each InstallationTarget, 0 for none
          made,     \* the last uid given to it
          seen,     \* the uid the informer's cache holds
          status,   \* the clusters its status reports as Installed
          anchor,   \* the uid each cluster's anchor is stamped with, 0: none
          svc,      \* each cluster's Service
          dep,      \* each cluster's Deployments
          queue,    \* the janitor's work items, and how many of each
          work,     \* the installation worker of each release
          changes

shared  == <<svc, dep, anchor>>
targets == <<rels, it, made>>
vars    == <<rels, it, made, seen, status, anchor, svc, dep, queue, work, changes>>

Names == {Clusters[i] : i \in DOMAIN Clusters}
Uids  == 1..MaxUid

NoService == [label |-> 0, owners |-> {}, dangling |-> FALSE]
Exists(s) == s.label # 0

\* The janitor's two kinds of work item.
TargetItem(r)       == <<"target", r>>
AnchorItem(c, r, u) == <<"anchor", c, r, u>>
Items == {TargetItem(r) : r \in Releases}
           \cup {AnchorItem(c, r, u) : c \in Names, r \in Releases, u \in Uids}

Idle == [at |-> "idle", uid |-> 0, n |-> 1, own |-> FALSE, fresh |-> FALSE,
         done |-> {}]

AnchorsInit ==
    /\ rels = {}
    /\ it = [r \in Releases |-> 0]
    /\ made = it
    /\ seen = it
    /\ status = [r \in Releases |-> {}]
    /\ anchor = [c \in Names |-> it]
    /\ svc = [c \in Names |-> NoService]
    /\ dep = [c \in Names |-> [r \in Releases |-> "none"]]
    /\ queue = [i \in Items |-> 0]
    /\ work = [r \in Releases |-> Idle]
    /\ changes = 0

Change == changes < MaxChanges /\ changes' = changes + 1

-----------------------------------------------------------------------------
(* Management cluster: releases and their InstallationTargets.             *)

\* The release scheduler makes the InstallationTarget of a new release, or
\* makes again one that somebody deleted, under the release's name.
CreateTarget(r) ==
    /\ Change
    /\ it[r] = 0 /\ made[r] < MaxUid
    /\ \/ r \in rels
       \/ made[r] = 0 /\ \A q \in Releases : q < r => made[q] > 0
    /\ rels' = rels \cup {r}
    /\ made' = [made EXCEPT ![r] = @ + 1]
    /\ it' = [it EXCEPT ![r] = made'[r]]
    /\ status' = [status EXCEPT ![r] = {}]
    /\ UNCHANGED <<seen, shared, queue, work>>

\* A user, or the application controller's clean-up, deletes a release.
DeleteRelease(r) ==
    /\ Change
    /\ r \in rels
    /\ rels' = rels \ {r}
    /\ UNCHANGED <<it, made, seen, status, shared, queue, work>>

TargetGone(r) ==
    /\ it[r] # 0
    /\ it' = [it EXCEPT ![r] = 0]
    /\ status' = [status EXCEPT ![r] = {}]
    /\ UNCHANGED <<rels, made, seen, shared, queue, work>>

\* The target goes with its release; a user may also delete it alone.
CollectTarget(r) == r \notin rels /\ TargetGone(r) /\ UNCHANGED changes
DeleteTarget(r)  == r \in rels /\ TargetGone(r) /\ Change

-----------------------------------------------------------------------------
(* The janitor's event handlers.                                           *)

Enqueue(i) == queue' = IF queue[i] < MaxQueued THEN [queue EXCEPT ![i] = @ + 1] ELSE queue

\* The DeleteFunc of InstallationTargets: the item has all that is needed to
\* remove the anchor, by name, from every cluster of the target.
OnTargetDeleted(r) == Enqueue(TargetItem(r))

\* The informer catches up.  A watch reports every deletion.  A deletion the
\* watch missed shows in the next list only: as a tombstone, of which
\* MetaNamespaceKeyFunc makes an error and the handler nothing; or, if the
\* target exists again by then, as an update.
ObserveTarget(r) ==
    /\ seen[r] # it[r]
    /\ seen' = [seen EXCEPT ![r] = it[r]]
    /\ \/ /\ IF seen[r] # 0 THEN OnTargetDeleted(r) ELSE UNCHANGED queue
          /\ UNCHANGED changes
       \/ seen[r] # 0 /\ Change /\ UNCHANGED queue
    /\ UNCHANGED <<targets, status, shared, work>>

\* Faulty variant: a resync, which changes nothing, is not an update.
OnAnchorUpdatedIfChanged(c, r) == anchor[c][r] # 0 /\ UNCHANGED vars

\* The UpdateFunc of anchors, which every resync of the informer calls.
OnAnchorUpdated(c, r) ==
    /\ anchor[c][r] # 0
    /\ queue[AnchorItem(c, r, anchor[c][r])] < MaxQueued
    /\ Enqueue(AnchorItem(c, r, anchor[c][r]))
    /\ UNCHANGED <<targets, seen, status, shared, work, changes>>

-----------------------------------------------------------------------------
(* The janitor's worker.                                                   *)

\* What the anchors of r in the clusters D leave behind: dangling references,
\* in the objects and in the hands of a worker that is installing there.
RemoveAnchor(D, r) ==
    LET gone == {c \in D : anchor[c][r] # 0} IN
    /\ anchor' = [c \in Names |->
           IF c \in gone THEN [anchor[c] EXCEPT ![r] = 0] ELSE anchor[c]]
    /\ svc' = [c \in Names |->
           IF c \in gone /\ r \in svc[c].owners
             THEN [svc[c] EXCEPT !.owners = @ \ {r}, !.dangling = TRUE]
             ELSE svc[c]]
    /\ dep' = [c \in Names |->
           IF c \in gone /\ dep[c][r] = "owned"
             THEN [dep[c] EXCEPT ![r] = "dangling"] ELSE dep[c]]
    /\ work' = IF work[r].own /\ Clusters[work[r].n] \in gone
                 THEN [work EXCEPT ![r].own = FALSE] ELSE work

Forget(i) == queue' = [queue EXCEPT ![i] = @ - 1]

\* A call to a cluster failed: the item is put back, or dropped for good when
\* it was tried too often.
RetryOrDrop(i) == Change /\ (UNCHANGED queue \/ Forget(i))

\* Clusters are taken in order and the first error ends the sync.
SyncInstallationTarget(r) ==
    LET i == TargetItem(r) IN
    /\ queue[i] > 0
    /\ \E n \in 0..Len(Clusters) :
         /\ RemoveAnchor({Clusters[k] : k \in 1..n}, r)
         /\ IF n = Len(Clusters) THEN Forget(i) /\ UNCHANGED changes
                                 ELSE RetryOrDrop(i)
    /\ UNCHANGED <<targets, seen, status>>

\* Faulty variant: any target of that name keeps the anchor.
SyncAnchorByName(c, r, u) ==
    LET i == AnchorItem(c, r, u) IN
    /\ queue[i] > 0 /\ Forget(i)
    /\ IF seen[r] # 0 THEN UNCHANGED <<shared, work>> ELSE RemoveAnchor({c}, r)
    /\ UNCHANGED <<targets, seen, status, changes>>

\* The anchor stays while the cache holds the very target it was made for.
SyncAnchor(c, r, u) ==
    LET i == AnchorItem(c, r, u) IN
    /\ queue[i] > 0
    /\ \/ seen[r] = u /\ Forget(i) /\ UNCHANGED <<shared, work, changes>>
       \/ seen[r] # u /\ RemoveAnchor({c}, r) /\ Forget(i) /\ UNCHANGED changes
       \/ seen[r] # u /\ RetryOrDrop(i) /\ UNCHANGED <<shared, work>>
    /\ UNCHANGED <<targets, seen, status>>

-----------------------------------------------------------------------------
(* The installation controller: one worker at a time for each target.      *)

Contender(r) == r \in rels /\ \A q \in rels : q <= r
Here(r) == Clusters[work[r].n]

\* processInstallation, up to the first cluster; every resync starts it again.
ProcessInstallation(r) ==
    /\ work[r].at = "idle" /\ seen[r] # 0 /\ Contender(r)
    /\ work' = [work EXCEPT ![r] = [Idle EXCEPT !.at = "anchor", !.uid = seen[r]]]
    /\ UNCHANGED <<targets, seen, status, shared, queue, changes>>

\* The cluster is dealt with, and the next one, or the status, follows.
Leave(w, ok) ==
    [w EXCEPT !.n = IF w.n < Len(Clusters) THEN @ + 1 ELSE @,
              !.at = IF w.n < Len(Clusters) THEN "anchor" ELSE "status",
              !.own = FALSE, !.fresh = FALSE,
              !.done = IF ok THEN @ \cup {Clusters[w.n]} ELSE @]

\* installManifests finds the anchor by name, whichever target made it, or
\* makes it.
FindAnchor(r) ==
    /\ work[r].at = "anchor"
    /\ anchor' = [anchor EXCEPT ![Here(r)][r] = IF @ = 0 THEN work[r].uid ELSE @]
    /\ work' = [work EXCEPT ![r].at = "service", ![r].own = TRUE]
    /\ UNCHANGED <<targets, seen, status, svc, dep, queue, changes>>

\* The Service is fetched: it is to be made, or is left alone if it carries
\* the release's label already, or is to be updated.
GetService(r) ==
    /\ work[r].at = "service"
    /\ work' = [work EXCEPT
                  ![r].at = CASE ~Exists(svc[Here(r)])    -> "create"
                              [] svc[Here(r)].label = r -> "deployment"
                              [] OTHER                  -> "update",
                  ![r].fresh = TRUE]
    /\ UNCHANGED <<targets, seen, status, shared, queue, changes>>

\* The Service is written; whoever read it before now holds an old version.
PutService(r, s) ==
    /\ svc' = [svc EXCEPT ![Here(r)] = s]
    /\ work' = [q \in Releases |->
           IF q = r THEN [work[r] EXCEPT !.at = "deployment"]
           ELSE IF Here(q) = Here(r) THEN [work[q] EXCEPT !.fresh = FALSE]
           ELSE work[q]]

\* Faulty variant: the owner reference replaces those that are there.
UpdatedReplacing(r) ==
    [label |-> r, owners |-> IF work[r].own THEN {r} ELSE {},
     dangling |-> ~work[r].own]

\* The owner reference is added to those of the other releases' anchors.
Updated(r) ==
    LET s == svc[Here(r)] IN
    [label |-> r, owners |-> s.owners \cup (IF work[r].own THEN {r} ELSE {}),
     dangling |-> s.dangling \/ ~work[r].own]

CreateService(r) ==
    /\ work[r].at = "create"
    /\ IF Exists(svc[Here(r)])
         THEN work' = [work EXCEPT ![r] = Leave(@, FALSE)] /\ UNCHANGED svc
         ELSE PutService(r, [label |-> r, owners |-> IF work[r].own THEN {r} ELSE {},
                             dangling |-> ~work[r].own])
    /\ UNCHANGED <<targets, seen, status, anchor, dep, queue, changes>>

\* An update of a version that is no longer the current one is refused.
UpdateService(r) ==
    /\ work[r].at = "update"
    /\ IF work[r].fresh
         THEN PutService(r, Updated(r))
         ELSE work' = [work EXCEPT ![r] = Leave(@, FALSE)] /\ UNCHANGED svc
    /\ UNCHANGED <<targets, seen, status, anchor, dep, queue, changes>>

\* Only this release has a Deployment of this name, and one that exists
\* carries its label: it is left alone, whoever its owner is.
InstallDeployment(r) ==
    /\ work[r].at = "deployment"
    /\ dep' = [dep EXCEPT ![Here(r)][r] =
                 IF @ # "none" THEN @ ELSE IF work[r].own THEN "owned" ELSE "dangling"]
    /\ work' = [work EXCEPT ![r] = Leave(@, TRUE)]
    /\ UNCHANGED <<targets, seen, status, anchor, svc, queue, changes>>

\* The cluster has no client, the chart cannot be had or is refused, or a
\* call fails: the rest of the cluster's objects are not tried.
InstallFails(r) ==
    /\ work[r].at \notin {"idle", "status"}
    /\ Change
    /\ work' = [work EXCEPT ![r] = Leave(@, FALSE)]
    /\ UNCHANGED <<targets, seen, status, shared, queue>>

\* The status is written if the target is still the one that was read.
UpdateStatus(r) ==
    /\ work[r].at = "status"
    /\ status' = IF it[r] = work[r].uid THEN [status EXCEPT ![r] = work[r].done]
                                        ELSE status
    /\ work' = [work EXCEPT ![r] = Idle]
    /\ UNCHANGED <<targets, seen, shared, queue, changes>>

-----------------------------------------------------------------------------
(* The application clusters' garbage collector, and restarts.              *)

CollectService(c) ==
    /\ svc[c].dangling
    /\ svc' = [svc EXCEPT ![c] = IF svc[c].owners = {} THEN NoService
                                 ELSE [@ EXCEPT !.dangling = FALSE]]
    /\ work' = [q \in Releases |-> IF Here(q) = c THEN [work[q] EXCEPT !.fresh = FALSE]
                                                  ELSE work[q]]
    /\ UNCHANGED <<targets, seen, status, anchor, dep, queue, changes>>

CollectDeployment(c, r) ==
    /\ dep[c][r] = "dangling"
    /\ dep' = [dep EXCEPT ![c][r] = "none"]
    /\ UNCHANGED <<targets, seen, status, anchor, svc, queue, work, changes>>

\* Work items live in memory only; what was deleted meanwhile is never
\* reported.
Restart ==
    /\ Change
    /\ seen' = it
    /\ queue' = [i \in Items |-> 0]
    /\ work' = [r \in Releases |-> Idle]
    /\ UNCHANGED <<targets, status, shared>>

-----------------------------------------------------------------------------
Install(r) ==
    \/ FindAnchor(r) \/ GetService(r) \/ CreateService(r) \/ UpdateService(r)
    \/ InstallDeployment(r) \/ UpdateStatus(r)

Janitor ==
    \/ \E r \in Releases : SyncInstallationTarget(r)
    \/ \E c \in Names, r \in Releases, u \in Uids : SyncAnchor(c, r, u)

Next ==
    \/ \E r \in Releases :
          \/ CreateTarget(r) \/ DeleteRelease(r)
          \/ DeleteTarget(r) \/ CollectTarget(r)
          \/ ObserveTarget(r) \/ ProcessInstallation(r) \/ Install(r)
          \/ InstallFails(r)
    \/ \E c \in Names, r \in Releases : OnAnchorUpdated(c, r) \/ CollectDeployment(c, r)
    \/ \E c \in Names : CollectService(c)
    \/ Janitor
    \/ Restart

Spec == AnchorsInit /\ [][Next]_vars

\* Informers deliver and resync, queues are served, calls return, and the
\* clusters' garbage collectors run.
FairSpec ==
    /\ Spec
    /\ \A r \in Releases :
         /\ WF_vars(CollectTarget(r)) /\ WF_vars(ObserveTarget(r))
         /\ WF_vars(ProcessInstallation(r)) /\ WF_vars(Install(r))
         /\ WF_vars(SyncInstallationTarget(r))
    /\ \A c \in Names :
         /\ WF_vars(CollectService(c))
         /\ \A r \in Releases :
              /\ WF_vars(OnAnchorUpdated(c, r)) /\ WF_vars(CollectDeployment(c, r))
              /\ \A u \in Uids : WF_vars(SyncAnchor(c, r, u))

-----------------------------------------------------------------------------
(* Properties.                                                             *)

\* A Service shared by the releases is never taken away from a release that
\* is reported as installed, however many others come, go or roll back: only
\* a target that was deleted and made again (uid above 1) can lose it, since
\* the objects that carry its label are not given to its new anchor.
ServiceKept ==
    \A r \in Releases, c \in Names :
        it[r] = 1 /\ c \in status[r] => Exists(svc[c]) /\ dep[c][r] = "owned"

\* Nothing of a deleted target stays in a cluster for ever, although the
\* deletion may be missed, the work item dropped, and the anchor made anew by
\* an installation that was under way.
OrphansRemoved ==
    \A r \in Releases : <>[](it[r] = 0) =>
        <>[](\A c \in Names : anchor[c][r] = 0 /\ dep[c][r] = "none")

\* The objects of the contender come back and stay, with an anchor of its own
\* target, although the janitor may delete a new anchor for an old item and
\* the installation may take an old anchor for its own.
InstalledConverges ==
    <>[](\A r \in Releases, c \in Names : Contender(r) /\ it[r] # 0 =>
           /\ anchor[c][r] = it[r]
           /\ svc[c].label = r
           /\ dep[c][r] = "owned")
=============================================================================
