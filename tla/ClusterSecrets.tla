--------------------------- MODULE ClusterSecrets ---------------------------
(***************************************************************************)
(* The cluster secret controller (pkg/controller/clustersecret): it writes *)
(* the certificate that is on disk (pkg/tls) into a Secret for each        *)
(* Cluster object, and writes it again when the Secret is lost or spoilt.  *)
(*                                                                         *)
(* One cluster, so one key in the queue and one worker on it.  A checksum  *)
(* stands for the data it was computed from.  An Update carries the        *)
(* version that was read: it is refused once the Secret has changed.       *)
(***************************************************************************)
EXTENDS Integers

CONSTANTS
    MaxUid,      \* bound on the Cluster objects made in succession
    MaxChanges   \* bound on what administrators do, and on failures

ASSUME SecretsAssumption == MaxUid \in Nat \ {0} /\ MaxChanges \in Nat

\* Stand for: no Secret; a Secret without the checksum annotation; one with
\* the checksum of a service account's token.
None == 0
NoSum == 1
TokenSum == 2

VARIABLES
    cluster,  \* the uid of the Cluster object, 0 if there is none
    uid,      \* of the last Cluster object
    secret,   \* the checksum in the Secret, NoSum or None
    owner,    \* the uid in the Secret's owner reference
    disk,     \* the certificate and the key on disk
    queued,   \* is the cluster in the controller's queue?
    work,     \* the worker: where it is, and what it has read
    changes,  \* what administrators did and what failed, counted
    dropped,  \* history: did the last sync end in an error that is not retried?
    removed   \* history: has an administrator removed the Cluster or the Secret?

objects == <<cluster, uid, secret, owner>>

history == <<dropped, removed>>

vars == <<objects, disk, queued, work, changes, history>>

IdleWork == [pc |-> "idle", seen |-> None, uid |-> 0, crt |-> 0, key |-> 0, fresh |-> TRUE]

Change == changes < MaxChanges /\ changes' = changes + 1

\* tls.Pair.GetAll computes it from the two files.
Checksum(crt, key) == 10 * crt + key

\* What every write to the Secret does to an Update that is under way.
Outdated(w) == IF w.pc = "idle" THEN w ELSE [w EXCEPT !.fresh = FALSE]

\* enqueueSecret and resolveOwnerRef: the events of the Secret reach the queue
\* if the Cluster that owns it exists.
Owned == cluster # 0 /\ owner = cluster

-----------------------------------------------------------------------------
(* The controller.                                                          *)

\* syncOne, and processCluster up to reading the files.
SyncOne ==
    /\ queued /\ work.pc = "idle"
    /\ queued' = FALSE
    /\ work' = IF cluster = 0 THEN IdleWork
               ELSE [IdleWork EXCEPT !.pc = "crt", !.seen = secret, !.uid = cluster]
    /\ dropped' = FALSE
    /\ UNCHANGED <<objects, disk, changes, removed>>

\* GetAll reads the certificate, and then the key.
ReadCrt ==
    /\ work.pc = "crt"
    /\ work' = [work EXCEPT !.pc = "key", !.crt = disk.crt]
    /\ UNCHANGED <<objects, disk, queued, changes, history>>

\* A Secret with the right checksum is left alone.
ReadKey ==
    /\ work.pc = "key"
    /\ work' = IF work.seen = Checksum(work.crt, disk.key) THEN IdleWork
               ELSE [work EXCEPT !.pc = "write", !.key = disk.key]
    /\ UNCHANGED <<objects, disk, queued, changes, history>>

\* createSecretForCluster.
CreateSecretForCluster ==
    /\ work.pc = "write" /\ work.seen = None /\ secret = None
    /\ secret' = Checksum(work.crt, work.key)
    /\ owner' = work.uid
    /\ work' = IdleWork
    /\ UNCHANGED <<cluster, uid, disk, queued, changes, history>>

\* updateClusterSecret.  The write comes back as an event.
UpdateClusterSecret ==
    /\ work.pc = "write" /\ work.seen # None /\ work.fresh
    /\ secret' = Checksum(work.crt, work.key)
    /\ work' = IdleWork
    /\ queued' = (queued \/ Owned)
    /\ UNCHANGED <<cluster, uid, owner, disk, changes, history>>

Retried == work' = IdleWork /\ queued' = TRUE

\* The API server refuses: AlreadyExists and Conflict are retried, NotFound is
\* not.
WriteRefused ==
    /\ work.pc = "write"
    /\ \/ work.seen = None /\ secret # None /\ Retried
       \/ work.seen # None /\ ~work.fresh /\ secret # None /\ Retried
       \/ work.seen # None /\ secret = None /\ work' = IdleWork /\ UNCHANGED queued
    /\ UNCHANGED <<objects, disk, changes, history>>

\* The role that shipperctl makes does not grant the creation of secrets.  In
\* an installation that grants no more the Create is Forbidden, which is not
\* retried.
CreateForbidden ==
    /\ work.pc = "write" /\ work.seen = None
    /\ work' = IdleWork /\ dropped' = TRUE
    /\ UNCHANGED <<objects, disk, queued, changes, removed>>

\* Faulty variant: an error while there is no Secret yet is not retried.
SyncFailsForgotten ==
    /\ Change /\ work.pc # "idle"
    /\ work' = IdleWork
    /\ queued' = (queued \/ work.pc = "write")
    /\ UNCHANGED <<objects, disk, history>>

\* Something fails.  It is retried, unless a file cannot be read and there is
\* a Secret already, or the write is a BadRequest, Forbidden or Invalid.
SyncFails ==
    /\ Change /\ work.pc # "idle"
    /\ work' = IdleWork
    /\ \/ queued' = (queued \/ work.pc = "write" \/ work.seen = None) /\ UNCHANGED dropped
       \/ work.pc = "write" /\ UNCHANGED queued /\ dropped' = TRUE
    /\ UNCHANGED <<objects, disk, removed>>

-----------------------------------------------------------------------------
(* The garbage collector, and the administrators.                           *)

\* A Secret is written, or deleted, by somebody else.
WriteSecret(s, o) ==
    /\ secret' = s /\ owner' = o
    /\ work' = Outdated(work)

\* The Secret of a Cluster that is gone is deleted.  Its event finds no owner.
CollectSecret ==
    /\ secret # None /\ ~(cluster # 0 /\ owner = cluster)
    /\ WriteSecret(None, 0)
    /\ UNCHANGED <<cluster, uid, disk, queued, changes, history>>

\* The Add event queues the cluster.
AddCluster ==
    /\ cluster = 0 /\ uid < MaxUid
    /\ uid' = uid + 1 /\ cluster' = uid + 1
    /\ queued' = TRUE

RemoveCluster ==
    /\ Change /\ cluster # 0
    /\ cluster' = 0
    /\ queued' = TRUE
    /\ removed' = TRUE
    /\ UNCHANGED <<uid, secret, owner, disk, work, dropped>>

RemoveSecret ==
    /\ Change /\ secret # None
    /\ WriteSecret(None, 0)
    /\ queued' = (queued \/ Owned)
    /\ removed' = TRUE
    /\ UNCHANGED <<cluster, uid, disk, dropped>>

\* Someone edits the Secret, which is not theirs.
SpoilSecret ==
    /\ Change /\ secret # None
    /\ WriteSecret(NoSum, owner)
    /\ queued' = (queued \/ Owned)
    /\ UNCHANGED <<cluster, uid, disk, history>>

\* The certificate is replaced, one file after the other.
RotateCrt ==
    /\ Change /\ disk.crt = disk.key
    /\ disk' = [disk EXCEPT !.crt = 3 - @]
    /\ UNCHANGED <<objects, queued, work, history>>

RotateKey ==
    /\ disk.crt # disk.key
    /\ disk' = [disk EXCEPT !.key = disk.crt]
    /\ UNCHANGED <<objects, queued, work, changes, history>>

\* The process is restarted: the Cluster is added to the queue again.
Restart ==
    /\ Change
    /\ work' = IdleWork
    /\ queued' = (cluster # 0)
    /\ UNCHANGED <<objects, disk, history>>

-----------------------------------------------------------------------------
SecretsInit ==
    /\ cluster = 0 /\ uid = 0
    /\ secret = None /\ owner = 0
    /\ disk = [crt |-> 1, key |-> 1]
    /\ queued = FALSE /\ work = IdleWork
    /\ changes = 0 /\ dropped = FALSE /\ removed = FALSE

Work ==
    \/ SyncOne \/ ReadCrt \/ ReadKey
    \/ CreateSecretForCluster \/ UpdateClusterSecret \/ WriteRefused \/ CreateForbidden

Disturb ==
    \/ SyncFails \/ RemoveCluster \/ RemoveSecret \/ SpoilSecret
    \/ RotateCrt \/ Restart

SecretsStep == Work \/ Disturb \/ RotateKey \/ CollectSecret

-----------------------------------------------------------------------------
\* As long as a Cluster object stays, its Secret comes to exist and belongs to
\* that Cluster: a Secret that is deleted is written again, whatever writes are
\* refused and whenever the process is restarted.  There are two exceptions:
\* the last sync ended in an error that is not retried; or the Cluster is a
\* second one of its name and found the Secret of the first, which is then
\* collected without an event that the controller would react to.
SecretRestored ==
    \A u \in 1 .. MaxUid :
        <>[](cluster = u) /\ [](cluster = u => owner \in {0, u}) =>
            <>[](secret # None /\ owner = u) \/ <>[]dropped

=============================================================================
