------------------------------- MODULE Apply -------------------------------
(***************************************************************************)
(* shipperctl admin clusters apply (cmd/shipperctl): the command goes      *)
(* through a list of stages against the API servers and gives up at the    *)
(* first error; it is run again until it succeeds.  It runs beside the     *)
(* cluster secret controller, which reacts to the Cluster object it makes. *)
(* One management cluster, one application cluster.                        *)
(***************************************************************************)
EXTENDS ClusterSecrets, Sequences

CONSTANTS
    MaxInterrupts,  \* bound on the times the command is interrupted
    Interruptible   \* the stages before which it may be

VARIABLES
    at,         \* the stage the command is at; 0 if it is not running
    applied,    \* has the command ever succeeded?
    made,       \* the objects the stages have created
    csr,        \* the CertificateSigningRequest
    token,      \* does the service account have its secret?
    copyFor,    \* the uid of the Cluster the secret is to be copied for
    interrupts  \* interruptions, counted

avars == <<at, applied, made, csr, token, copyFor, interrupts>>

\* What runApplyClustersCommand does, in order: setupManagementCluster,
\* setupApplicationCluster, joinClusters.
Stages ==
    <<"crds", "namespace", "account", "role", "roleBinding",
      "webhookSecretExists", "createCSR", "approveCSR", "fetchCertificate",
      "createWebhookSecret", "webhookConfiguration", "webhookService",
      "appNamespace", "appAccount", "appRoleBinding",
      "clusterObject", "shouldCopySecret", "fetchToken", "fetchCluster", "copySecret">>

\* Objects that are created, or updated, or skipped if they exist already: for
\* the management cluster, for the webhook, and for the application cluster.
ManagementObjects == {"crds", "namespace", "account", "role", "roleBinding"}
WebhookObjects == {"webhookConfiguration", "webhookService"}
ApplicationObjects == {"appNamespace", "appAccount", "appRoleBinding"}

Lenient == ManagementObjects \union WebhookObjects \union ApplicationObjects

Stage == IF at = 0 THEN "none" ELSE Stages[at]

Number(stage) == CHOOSE n \in DOMAIN Stages : Stages[n] = stage

Continue == at' = at + 1 /\ UNCHANGED applied

Succeed == at' = 0 /\ applied' = TRUE

Fail == at' = 0 /\ UNCHANGED applied

\* The user runs the command, until it has succeeded.
Start ==
    /\ at = 0 /\ ~applied
    /\ at' = 1
    /\ UNCHANGED <<vars, applied, made, csr, token, copyFor, interrupts>>

\* Faulty variant: an object that exists already is an error.
CreateStrict ==
    /\ Stage \in Lenient
    /\ made' = made \union {Stage}
    /\ IF Stage \in made THEN Fail ELSE Continue
    /\ UNCHANGED <<vars, csr, token, copyFor, interrupts>>

Create ==
    /\ Stage \in Lenient
    /\ made' = made \union {Stage}
    /\ Continue
    /\ UNCHANGED <<vars, csr, token, copyFor, interrupts>>

\* createValidatingWebhookSecret skips the rest if the secret exists.
WebhookSecretExists ==
    /\ Stage = "webhookSecretExists"
    /\ at' = IF "webhookSecret" \in made THEN Number("webhookConfiguration") ELSE at + 1
    /\ UNCHANGED <<vars, applied, made, csr, token, copyFor, interrupts>>

\* There is no special case for a request that exists already.
CreateCertificateSigningRequest ==
    /\ Stage = "createCSR"
    /\ csr' = IF csr = "none" THEN "pending" ELSE csr
    /\ IF csr = "none" THEN Continue ELSE Fail
    /\ UNCHANGED <<vars, made, token, copyFor, interrupts>>

ApproveShipperCSR ==
    /\ Stage = "approveCSR"
    /\ csr' = "approved"
    /\ Continue
    /\ UNCHANGED <<vars, made, token, copyFor, interrupts>>

\* Ten tries, a second apart; running out of them is an interruption.
FetchCertificateFromCSR ==
    /\ Stage = "fetchCertificate" /\ csr = "signed"
    /\ Continue
    /\ UNCHANGED <<vars, made, csr, token, copyFor, interrupts>>

CreateValidatingWebhookSecret ==
    /\ Stage = "createWebhookSecret"
    /\ made' = made \union {"webhookSecret"}
    /\ IF "webhookSecret" \in made THEN Fail ELSE Continue
    /\ UNCHANGED <<vars, csr, token, copyFor, interrupts>>

\* CreateOrUpdateClusterWithConfig.
CreateOrUpdateCluster ==
    /\ Stage = "clusterObject"
    /\ Continue
    /\ \/ AddCluster
       \/ cluster # 0 /\ UNCHANGED <<cluster, uid, queued>>
    /\ UNCHANGED <<secret, owner, disk, work, changes, history, made, csr, token, copyFor, interrupts>>

ShouldCopySecret ==
    /\ Stage = "shouldCopySecret"
    /\ IF secret = None THEN Continue ELSE Succeed
    /\ UNCHANGED <<vars, made, csr, token, copyFor, interrupts>>

\* Faulty variant: without a token there is nothing to copy.
FetchSecretForServiceAccountSkip ==
    /\ Stage = "fetchToken"
    /\ IF token THEN Continue ELSE Succeed
    /\ UNCHANGED <<vars, made, csr, token, copyFor, interrupts>>

\* FetchSecretForServiceAccount.  The command is meant to wait for the token,
\* but does not recognise the error: it gives up.
FetchSecretForServiceAccount ==
    /\ Stage = "fetchToken"
    /\ IF token THEN Continue ELSE Fail
    /\ UNCHANGED <<vars, made, csr, token, copyFor, interrupts>>

FetchCluster ==
    /\ Stage = "fetchCluster"
    /\ copyFor' = cluster
    /\ IF cluster = 0 THEN Fail ELSE Continue
    /\ UNCHANGED <<vars, made, csr, token, interrupts>>

\* CopySecret: AlreadyExists is an error.
CopySecret ==
    /\ Stage = "copySecret"
    /\ \/ secret # None /\ Fail /\ UNCHANGED <<secret, owner, work>>
       \/ secret = None /\ Succeed /\ WriteSecret(TokenSum, copyFor)
    /\ UNCHANGED <<cluster, uid, disk, queued, changes, history,
                   made, csr, token, copyFor, interrupts>>

\* An API server answers with an error, or the command is killed.
Interrupt ==
    /\ Stage \in Interruptible /\ interrupts < MaxInterrupts
    /\ interrupts' = interrupts + 1
    /\ Fail
    /\ UNCHANGED <<vars, made, csr, token, copyFor>>

\* The application cluster gives the service account a secret, and the
\* management cluster signs what has been approved.
PopulateToken ==
    /\ "appAccount" \in made /\ ~token
    /\ token' = TRUE
    /\ UNCHANGED <<vars, at, applied, made, csr, copyFor, interrupts>>

SignCertificate ==
    /\ csr = "approved"
    /\ csr' = "signed"
    /\ UNCHANGED <<vars, at, applied, made, token, copyFor, interrupts>>

-----------------------------------------------------------------------------
Init ==
    /\ SecretsInit
    /\ at = 0 /\ applied = FALSE /\ made = {} /\ csr = "none"
    /\ token = FALSE /\ copyFor = 0 /\ interrupts = 0

Command ==
    \/ Start \/ Create \/ WebhookSecretExists
    \/ CreateCertificateSigningRequest \/ ApproveShipperCSR
    \/ FetchCertificateFromCSR \/ CreateValidatingWebhookSecret
    \/ CreateOrUpdateCluster \/ ShouldCopySecret
    \/ FetchSecretForServiceAccount \/ FetchCluster \/ CopySecret

Next ==
    \/ Command \/ Interrupt \/ PopulateToken \/ SignCertificate
    \/ SecretsStep /\ UNCHANGED avars

allVars == <<vars, avars>>

Spec == Init /\ [][Next]_allVars

\* The command makes progress and is run again when it fails; the worker, the
\* garbage collector and the clusters' own controllers keep running.
FairSpec ==
    /\ Spec
    /\ WF_allVars(Command) /\ WF_allVars(PopulateToken) /\ WF_allVars(SignCertificate)
    /\ WF_allVars(Work /\ UNCHANGED avars) /\ WF_allVars(CollectSecret /\ UNCHANGED avars)
    /\ WF_allVars(RotateKey /\ UNCHANGED avars)

-----------------------------------------------------------------------------
\* Run again and again, the command succeeds: nothing that it or the secret
\* controller left behind makes it fail for ever.  (If the Cluster is deleted
\* before it has, the bound on Cluster objects may keep it from going on.)
ApplySucceeds == <>(applied \/ (cluster = 0 /\ uid = MaxUid))

\* When the command has succeeded, all its objects exist, the webhook's secret
\* too; and the Cluster has a Secret of its own, if no administrator ever
\* removed either: failed syncs, restarts, rotated certificates and edits of
\* the Secret do not matter.
AppliedIsComplete ==
    applied =>
        /\ Lenient \union {"webhookSecret"} \subseteq made
        /\ ~removed => secret # None /\ owner = cluster /\ cluster # 0

=============================================================================
