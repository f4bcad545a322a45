------------------------------ MODULE MCApply ------------------------------
(* Values for the constants of Apply, for TLC. *)
EXTENDS Apply

AnyStage == {Stages[n] : n \in DOMAIN Stages}

\* All but the stages between the signing request and the webhook's secret.
SafeStages == AnyStage \ {"approveCSR", "fetchCertificate", "createWebhookSecret"}

=============================================================================
