--------------------------- MODULE CapacityStatus ---------------------------
(***************************************************************************)
(* The status list of a CapacityTarget, as capacityTargetSyncHandler       *)
(* (pkg/controller/capacity/capacity_controller.go) rebuilds it in place.  *)
(*                                                                         *)
(* For every cluster of the spec the handler looks its entry up, keeps a   *)
(* pointer to the entry's slot, removes the entry by shifting the rest of  *)
(* the slice down, fills in the entry through the pointer and appends what *)
(* the pointer points to.  After the shift the pointer points to the entry *)
(* that followed, if there was one.                                        *)
(*                                                                         *)
(* Clusters are numbered in the order of their names.                      *)
(***************************************************************************)
EXTENDS Integers, Sequences, FiniteSets, SequencesExt

CONSTANTS
    N,           \* the number of clusters in the spec
    MaxPods,     \* bound: the most pods a cluster has available
    MaxEntries,  \* bound: the longest list that is synced again
    Unreachable  \* may a cluster's Deployment be out of reach?

VARIABLES
    order,   \* the clusters as the spec lists them
    avail,   \* the pods available in each cluster
    list,    \* .status.clusters: a sequence of [name, avail]
    synced,  \* the pods available at the last sync
    clean    \* the last sync found every Deployment

vars == <<order, avail, list, synced, clean>>

Cluster == 1 .. N

Orders == {s \in [Cluster -> Cluster] : \A i, j \in Cluster : s[i] = s[j] => i = j}

-----------------------------------------------------------------------------
\* The index of the first entry of a cluster; 0 if it has none.
Lookup(s, c) == LET at == {i \in 1 .. Len(s) : s[i].name = c}
                IN  IF at = {} THEN 0 ELSE CHOOSE i \in at : \A j \in at : i <= j

\* One iteration: cluster c, with n pods available.  If its Deployment is not
\* found the entry is gone and none is appended.
Process(s, c, n, found) ==
    LET i    == Lookup(s, c)
        rest == RemoveAt(s, i)
    IN  CASE i = 0 /\ ~found               -> s
          [] i = 0 /\ found                -> Append(s, [name |-> c, avail |-> n])
          [] i > 0 /\ ~found               -> rest
          [] i > 0 /\ found /\ i = Len(s)  -> Append(rest, [s[i] EXCEPT !.avail = n])
          [] OTHER -> LET entry == [rest[i] EXCEPT !.avail = n]
                      IN  Append([rest EXCEPT ![i] = entry], entry)

\* The loop over the clusters of the spec.
Loop(reached) ==
    LET after[k \in 0 .. N] ==
            IF k = 0 THEN list
            ELSE Process(after[k - 1], order[k], avail[order[k]], order[k] \in reached)
    IN  after[N]

\* sort.Sort(byClusterName(...)), which is an insertion sort for short lists.
ByClusterName(s) ==
    LET upTo[k \in 0 .. N] ==
            IF k = 0 THEN << >>
            ELSE upTo[k - 1] \o SelectSeq(s, LAMBDA e : e.name = k)
    IN  upTo[N]

-----------------------------------------------------------------------------
Init ==
    /\ order = [i \in Cluster |-> i]
    /\ avail \in [Cluster -> 0 .. MaxPods]
    /\ list = << >>
    /\ synced = avail
    /\ clean = FALSE

\* capacityTargetSyncHandler, on an up-to-date cache.
Sync(reached) ==
    /\ Unreachable \/ reached = Cluster
    /\ Len(list) <= MaxEntries
    /\ list' = ByClusterName(Loop(reached))
    /\ synced' = avail
    /\ clean' = (reached = Cluster)
    /\ UNCHANGED <<order, avail>>

\* A cluster gains or loses pods.
PodsChange(c, n) ==
    /\ avail[c] # n
    /\ avail' = [avail EXCEPT ![c] = n]
    /\ UNCHANGED <<order, list, synced, clean>>

\* The executor patches the spec: the clusters come in the order of a Go map.
PatchSpec(o) ==
    /\ o # order
    /\ order' = o
    /\ UNCHANGED <<avail, list, synced, clean>>

Next ==
    \/ \E reached \in SUBSET Cluster : Sync(reached)
    \/ \E c \in Cluster, n \in 0 .. MaxPods : PodsChange(c, n)
    \/ \E o \in Orders : PatchSpec(o)

Spec == Init /\ [][Next]_vars

-----------------------------------------------------------------------------
\* After a sync that met no error the status has one entry for each cluster
\* of the spec, with the pods that were available in that very cluster,
\* whatever the list was before and however clusters came and went from it.
StatusFaithful ==
    clean => list = [c \in Cluster |-> [name |-> c, avail |-> synced[c]]]

=============================================================================
