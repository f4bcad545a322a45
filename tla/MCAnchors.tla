----------------------------- MODULE MCAnchors -----------------------------
(* Instances of Anchors.                                                   *)
EXTENDS Anchors

OneCluster == <<"c1">>
=============================================================================
