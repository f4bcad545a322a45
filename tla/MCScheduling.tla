---------------------------- MODULE MCScheduling ----------------------------
(* Model values for the Scheduling runs. *)
EXTENDS Scheduling

MCCluster(n, region, caps, weight, distance) ==
    [name |-> n, region |-> region, caps |-> caps, unschedulable |-> FALSE,
     weight |-> weight, distance |-> distance]

\* Two regions; two clusters have the same score, one lacks a capability, one
\* has weight 0.
FourClusters == {MCCluster("a", "eu", {"ssd"}, 100, 2), MCCluster("b", "eu", {"ssd"}, 50, 4),
                 MCCluster("c", "eu", {}, 100, 9), MCCluster("d", "us", {"ssd"}, 0, 1)}

\* One cluster of each region, the second region's count left out.
EuAndUs == [regions |-> <<[name |-> "eu", replicas |-> 1], [name |-> "us", replicas |-> Unset]>>,
            caps |-> <<"ssd">>]

\* The smallest fleet with a choice.
TwoClusters == {MCCluster("a", "eu", {}, 100, 2), MCCluster("b", "eu", {}, 100, 1)}

Eu == [regions |-> <<[name |-> "eu", replicas |-> 1]>>, caps |-> << >>]

TwoKinds == <<"it", "ct">>

OneKind == <<"it">>
=============================================================================
