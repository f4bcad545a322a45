--------------------------- MODULE ClusterChoice ---------------------------
(***************************************************************************)
(* How a release's clusters are chosen: computeTargetClusters              *)
(* (pkg/controller/release/scheduler.go) over the preference list of       *)
(* weighted_preflist.go.                                                   *)
(*                                                                         *)
(* A fleet is a set of clusters                                            *)
(*   [name, region, caps, unschedulable, weight, distance]                 *)
(* where distance stands for -log(hash/max) of the application's and the   *)
(* cluster's identities: any fixed natural number.  Requirements are       *)
(*   [regions |-> <<[name, replicas], ...>>, caps |-> <<capability, ...>>] *)
(***************************************************************************)
EXTENDS Integers, Sequences, FiniteSets, SequencesExt

Unset == -1                 \* region.Replicas is nil

\* The score of weighted rendezvous hashing.
Score(c) == c.weight * c.distance

\* buildPrefList: highest score first.  The lister's order is a map's, so
\* clusters of equal score come in any order.
PrefLists(fleet) ==
    {p \in SetToSeqs(fleet) : \A i, j \in 1 .. Len(p) : i < j => Score(p[i]) >= Score(p[j])}

Wanted(region) == IF region.replicas = Unset THEN 1 ELSE region.replicas

\* The map regionReplicas: the last entry of a region counts.
RegionReplicas(req, name) ==
    Wanted(req.regions[SelectLastInSeq(req.regions, LAMBDA r : r.name = name)])

RegionNames(req) == {req.regions[i].name : i \in 1 .. Len(req.regions)}

Matched(pref, name) == SelectSeq(pref, LAMBDA c : ~c.unschedulable /\ c.region = name)

Capable(req, pref, name) == SelectSeq(Matched(pref, name), LAMBDA c : ToSet(req.caps) \subseteq c.caps)

\* validateClusterRequirements: a capability listed twice is an error.
DuplicateCapability(req) == Len(req.caps) # Cardinality(ToSet(req.caps))

\* What keeps computeTargetClusters from an answer: no regions, a repeated
\* capability, or a region with too few (capable) clusters.
Refused(req, pref) ==
    \/ req.regions = << >>
    \/ DuplicateCapability(req)
    \/ \E i \in 1 .. Len(req.regions) :
          Wanted(req.regions[i]) > Len(Matched(pref, req.regions[i].name))
    \/ \E n \in RegionNames(req) : RegionReplicas(req, n) > Len(Capable(req, pref, n))

\* Faulty variant: capabilities are not looked at when clusters are taken.
TargetClustersAny(req, pref) ==
    UNION {{c.name : c \in ToSet(SubSeq(Matched(pref, n), 1, RegionReplicas(req, n)))} :
              n \in RegionNames(req)}

\* The first clusters of each region's preference list.
TargetClusters(req, pref) ==
    UNION {{c.name : c \in ToSet(SubSeq(Capable(req, pref, n), 1, RegionReplicas(req, n)))} :
              n \in RegionNames(req)}

-----------------------------------------------------------------------------
(* What a choice should be, said without the lists.                         *)

Eligible(req, fleet, name) ==
    {c \in fleet : ~c.unschedulable /\ c.region = name /\ ToSet(req.caps) \subseteq c.caps}

\* Every region gets the clusters it asks for, all of them eligible, and no
\* cluster left out scores higher than one taken.
Best(req, fleet, chosen) ==
    LET taken == {c \in fleet : c.name \in chosen}
    IN  /\ Cardinality(taken) = Cardinality(chosen)
        /\ \A c \in taken : c.region \in RegionNames(req)
        /\ \A n \in RegionNames(req) :
              LET here == {c \in taken : c.region = n}
              IN  /\ here \subseteq Eligible(req, fleet, n)
                  /\ Cardinality(here) = RegionReplicas(req, n)
                  /\ \A c \in here, d \in Eligible(req, fleet, n) \ here : Score(c) >= Score(d)

=============================================================================
