---------------------------- MODULE ApplyProofs ----------------------------
(***************************************************************************)
(* Proof that shipperctl's apply command, once it has succeeded, leaves    *)
(* nothing half made, whatever stages it was interrupted at before and     *)
(* however it races with the cluster secret controller.                    *)
(*                                                                         *)
(* The invariant has two parts.  Passed is about the command alone: every  *)
(* stage below the one it is at has left its object behind, and the four   *)
(* stages that the webhook's secret lets it skip leave nothing else.       *)
(* Enrolled is about what it shares with the controller, as long as no     *)
(* administrator has removed the Cluster or the Secret: who writes the     *)
(* Secret first, the worker or the command, writes it for the Cluster that *)
(* exists, and what is written later, by whom and after whatever failures  *)
(* and restarts, leaves it with a Secret.                                  *)
(***************************************************************************)
EXTENDS Apply, TLAPS

At == 0 .. 20

\* The command is somewhere in the list of stages, and all the objects of the
\* stages that it has behind it exist.
Passed ==
    /\ at \in At
    /\ \A n \in 1 .. 20 : n < at /\ Stages[n] \in Lenient => Stages[n] \in made
    /\ at >= 11 => "webhookSecret" \in made
    /\ applied => Lenient \union {"webhookSecret"} \subseteq made

Works == [pc : {"idle", "crt", "key", "write"}, seen : Nat, uid : Nat,
          crt : Nat, key : Nat, fresh : BOOLEAN]

\* What the worker has read of the Cluster and of the Secret still holds, but
\* for a Secret that it has not seen yet.
WorkerUpToDate ==
    /\ work \in Works
    /\ work.pc # "idle" => work.uid = cluster /\ cluster # 0
    /\ work.pc # "idle" /\ work.seen # None => secret # None
    /\ work.pc \in {"key", "write"} => work.crt # 0
    /\ work.pc = "write" => work.key # 0

\* The command knows the Cluster whose Secret it is about to write.
CommandUpToDate ==
    /\ at >= 17 => cluster # 0
    /\ at = 20 => copyFor = cluster

\* The Secret belongs to the Cluster, and once the command has succeeded there
\* is one.
SecretOwned ==
    /\ secret # None => owner = cluster /\ cluster # 0
    /\ applied => secret # None

Enrolled ==
    /\ secret \in Nat /\ cluster \in Nat /\ uid \in Nat
    /\ disk \in [crt : {1, 2}, key : {1, 2}]
    /\ WorkerUpToDate /\ CommandUpToDate /\ SecretOwned

Inv == Passed /\ removed \in BOOLEAN /\ (~removed => Enrolled)

-----------------------------------------------------------------------------
(* Which stage is which.                                                    *)

\* The list of stages has twenty entries; these are the ones the proof names.
LEMMA StageTable ==
    /\ DOMAIN Stages = 1 .. 20
    /\ \A n \in 1 .. 20 :
          /\ Stages[n] = "webhookSecretExists" => n = 6
          /\ Stages[n] = "createCSR" => n = 7
          /\ Stages[n] = "approveCSR" => n = 8
          /\ Stages[n] = "fetchCertificate" => n = 9
          /\ Stages[n] = "createWebhookSecret" => n = 10
          /\ Stages[n] = "webhookConfiguration" <=> n = 11
          /\ Stages[n] = "clusterObject" => n = 16
          /\ Stages[n] = "shouldCopySecret" => n = 17
          /\ Stages[n] = "fetchToken" => n = 18
          /\ Stages[n] = "fetchCluster" => n = 19
          /\ Stages[n] = "copySecret" => n = 20
          /\ Stages[n] # "none"
  BY DEF Stages

\* The objects of the lenient stages come from the first five stages, and from
\* those from the webhook's configuration to the application cluster's binding.
LEMMA LenientStages ==
    /\ \A n \in 1 .. 20 : Stages[n] \in Lenient <=> n \in 1 .. 5 \union 11 .. 15
    /\ \A o \in Lenient : \E n \in 1 .. 15 : Stages[n] = o
    /\ "none" \notin Lenient
  <1>1. /\ \A n \in 1 .. 20 : Stages[n] \in Lenient <=> n \in 1 .. 5 \union 11 .. 15
        /\ "none" \notin Lenient
    BY DEF Stages, Lenient, ManagementObjects, WebhookObjects, ApplicationObjects
  <1>2. /\ Stages[1] = "crds" /\ Stages[2] = "namespace" /\ Stages[3] = "account"
        /\ Stages[4] = "role" /\ Stages[5] = "roleBinding"
        /\ Stages[11] = "webhookConfiguration" /\ Stages[12] = "webhookService"
        /\ Stages[13] = "appNamespace" /\ Stages[14] = "appAccount"
        /\ Stages[15] = "appRoleBinding"
    BY DEF Stages
  <1>3. \A o \in Lenient : \E n \in 1 .. 15 : Stages[n] = o
    BY <1>2 DEF Lenient, ManagementObjects, WebhookObjects, ApplicationObjects
  <1> QED  BY <1>1, <1>3

\* Where the command jumps to if the webhook has its secret.
LEMMA NumberOfConfiguration == Number("webhookConfiguration") = 11
  BY StageTable DEF Number

\* At a named stage the command is at its number.
LEMMA StageIs ==
    ASSUME at \in At, NEW s, Stage = s, s # "none"
    PROVE  at \in 1 .. 20 /\ Stages[at] = s
  BY DEF Stage, At

-----------------------------------------------------------------------------
(* The command alone.                                                       *)

\* Each stage moves on only once its object is there, and the command succeeds
\* only from the two stages behind all of them.
LEMMA PassedStep == ASSUME Passed, Next PROVE Passed'
  <1> USE StageTable, LenientStages DEF At
  <1>0. at \in At /\ Stages' = Stages /\ Lenient' = Lenient
    BY DEF Passed, Stages, Lenient, ManagementObjects, WebhookObjects, ApplicationObjects
  <1>same. ASSUME UNCHANGED <<at, applied, made>> PROVE Passed'
    BY <1>0, <1>same DEF Passed
  <1>stop. ASSUME Fail, made \subseteq made' PROVE Passed'
    BY <1>0, <1>stop DEF Passed, Fail
  <1>skip. ASSUME Continue, UNCHANGED made, at \in 1 .. 19, at \notin 1 .. 5 \union 10 .. 15
           PROVE  Passed'
    BY <1>0, <1>skip DEF Passed, Continue
  <1>done. ASSUME Succeed, UNCHANGED made, at >= 16 PROVE Passed'
    <2>1. Lenient \subseteq made
      <3> SUFFICES ASSUME NEW o \in Lenient PROVE o \in made
        OBVIOUS
      <3> PICK n \in 1 .. 15 : Stages[n] = o
        OBVIOUS
      <3> QED  BY <1>0, <1>done DEF Passed
    <2> QED  BY <1>0, <1>done, <2>1 DEF Passed, Succeed
  <1>1. CASE Start
    BY <1>1, <1>0 DEF Start, Passed
  <1>2. CASE Create
    <2>1. at \in 1 .. 5 \union 11 .. 15 /\ Stage = Stages[at]
      BY <1>2, <1>0, StageIs DEF Create, Stage
    <2> QED  BY <1>2, <1>0, <2>1 DEF Create, Continue, Passed
  <1>3. CASE WebhookSecretExists
    <2>1. at = 6
      BY <1>3, <1>0, StageIs DEF WebhookSecretExists
    <2> QED  BY <1>3, <1>0, <2>1, NumberOfConfiguration DEF WebhookSecretExists, Passed
  <1>4. CASE CreateCertificateSigningRequest
    <2>1. at = 7
      BY <1>4, <1>0, StageIs DEF CreateCertificateSigningRequest
    <2> QED  BY <1>4, <1>stop, <1>skip, <2>1 DEF CreateCertificateSigningRequest
  <1>5. CASE ApproveShipperCSR
    <2>1. at = 8
      BY <1>5, <1>0, StageIs DEF ApproveShipperCSR
    <2> QED  BY <1>5, <1>skip, <2>1 DEF ApproveShipperCSR
  <1>6. CASE FetchCertificateFromCSR
    <2>1. at = 9
      BY <1>6, <1>0, StageIs DEF FetchCertificateFromCSR
    <2> QED  BY <1>6, <1>skip, <2>1 DEF FetchCertificateFromCSR
  <1>7. CASE CreateValidatingWebhookSecret
    <2>1. at = 10
      BY <1>7, <1>0, StageIs DEF CreateValidatingWebhookSecret
    <2>2. CASE Continue
      BY <1>7, <1>0, <2>1, <2>2 DEF CreateValidatingWebhookSecret, Continue, Passed
    <2> QED  BY <1>7, <1>stop, <2>2 DEF CreateValidatingWebhookSecret
  <1>8. CASE CreateOrUpdateCluster
    <2>1. at = 16
      BY <1>8, <1>0, StageIs DEF CreateOrUpdateCluster
    <2> QED  BY <1>8, <1>skip, <2>1 DEF CreateOrUpdateCluster
  <1>9. CASE ShouldCopySecret
    <2>1. at = 17
      BY <1>9, <1>0, StageIs DEF ShouldCopySecret
    <2> QED  BY <1>9, <1>skip, <1>done, <2>1 DEF ShouldCopySecret
  <1>10. CASE FetchSecretForServiceAccount
    <2>1. at = 18
      BY <1>10, <1>0, StageIs DEF FetchSecretForServiceAccount
    <2> QED  BY <1>10, <1>skip, <1>stop, <2>1 DEF FetchSecretForServiceAccount
  <1>11. CASE FetchCluster
    <2>1. at = 19
      BY <1>11, <1>0, StageIs DEF FetchCluster
    <2> QED  BY <1>11, <1>skip, <1>stop, <2>1 DEF FetchCluster
  <1>12. CASE CopySecret
    <2>1. at = 20
      BY <1>12, <1>0, StageIs DEF CopySecret
    <2> QED  BY <1>12, <1>done, <1>stop, <2>1 DEF CopySecret
  <1>13. CASE Interrupt
    BY <1>13, <1>stop DEF Interrupt
  <1>14. CASE PopulateToken \/ SignCertificate
    BY <1>14, <1>same DEF PopulateToken, SignCertificate
  <1>15. CASE SecretsStep /\ UNCHANGED avars
    BY <1>15, <1>same DEF avars
  <1> QED
    BY <1>1, <1>2, <1>3, <1>4, <1>5, <1>6, <1>7, <1>8, <1>9, <1>10, <1>11, <1>12,
       <1>13, <1>14, <1>15 DEF Next, Command

-----------------------------------------------------------------------------
(* The command beside the controller, as long as nothing has been removed.  *)

\* What happens to an Update that is under way keeps the worker as it is.
LEMMA OutdatedWork ==
    ASSUME NEW w \in Works
    PROVE  /\ Outdated(w) \in Works
           /\ \A f \in {"pc", "seen", "uid", "crt", "key"} : Outdated(w)[f] = w[f]
  BY DEF Works, Outdated

\* The idle worker remembers nothing.
LEMMA IdleIsUpToDate == ASSUME work' = IdleWork PROVE WorkerUpToDate'
  BY DEF WorkerUpToDate, Works, IdleWork, None

\* The stages of the command: it writes the Secret only when it has just found
\* the Cluster, and leaves the worker's view of both alone.
LEMMA EnrolledCommand ==
    ASSUME at \in At, Enrolled, Command
    PROVE  Enrolled'
  <1> USE StageTable DEF At, Enrolled
  <1>quiet. ASSUME UNCHANGED vars, CommandUpToDate', applied' => secret # None
            PROVE  Enrolled'
    BY <1>quiet DEF vars, objects, WorkerUpToDate, SecretOwned
  <1>stop. ASSUME UNCHANGED vars, Fail PROVE Enrolled'
    BY <1>quiet, <1>stop DEF Fail, CommandUpToDate, SecretOwned
  <1>early. ASSUME UNCHANGED vars, UNCHANGED applied, at' \in 0 .. 16 PROVE Enrolled'
    BY <1>quiet, <1>early DEF CommandUpToDate, SecretOwned
  <1>1. CASE Start
    BY <1>1, <1>early DEF Start
  <1>2. CASE Create
    <2>1. at \in 1 .. 15
      BY <1>2, StageIs, LenientStages DEF Create
    <2> QED  BY <1>2, <1>early, <2>1 DEF Create, Continue
  <1>3. CASE WebhookSecretExists
    <2>1. at = 6
      BY <1>3, StageIs DEF WebhookSecretExists
    <2> QED  BY <1>3, <1>early, <2>1, NumberOfConfiguration DEF WebhookSecretExists
  <1>4. CASE CreateCertificateSigningRequest
    <2>1. at = 7
      BY <1>4, StageIs DEF CreateCertificateSigningRequest
    <2> QED  BY <1>4, <1>stop, <1>early, <2>1 DEF CreateCertificateSigningRequest, Continue
  <1>5. CASE ApproveShipperCSR
    <2>1. at = 8
      BY <1>5, StageIs DEF ApproveShipperCSR
    <2> QED  BY <1>5, <1>early, <2>1 DEF ApproveShipperCSR, Continue
  <1>6. CASE FetchCertificateFromCSR
    <2>1. at = 9
      BY <1>6, StageIs DEF FetchCertificateFromCSR
    <2> QED  BY <1>6, <1>early, <2>1 DEF FetchCertificateFromCSR, Continue
  <1>7. CASE CreateValidatingWebhookSecret
    <2>1. at = 10
      BY <1>7, StageIs DEF CreateValidatingWebhookSecret
    <2> QED  BY <1>7, <1>stop, <1>early, <2>1 DEF CreateValidatingWebhookSecret, Continue
  <1>8. CASE CreateOrUpdateCluster
    <2>1. at = 16 /\ at' = 17 /\ UNCHANGED <<applied, secret, owner, disk, work>>
      BY <1>8, StageIs DEF CreateOrUpdateCluster, Continue
    <2>2. cluster' \in Nat /\ cluster' # 0 /\ uid' \in Nat /\ (cluster # 0 => cluster' = cluster)
      BY <1>8 DEF CreateOrUpdateCluster, AddCluster
    <2>3. WorkerUpToDate'
      BY <2>1, <2>2 DEF WorkerUpToDate
    <2> QED  BY <2>1, <2>2, <2>3 DEF CommandUpToDate, SecretOwned
  <1>9. CASE ShouldCopySecret
    <2>1. at = 17 /\ UNCHANGED vars
      BY <1>9, StageIs DEF ShouldCopySecret
    <2>2. CASE Continue
      BY <1>quiet, <2>1, <2>2 DEF Continue, CommandUpToDate, SecretOwned, vars, objects
    <2>3. CASE Succeed /\ secret # None
      BY <1>quiet, <2>1, <2>3 DEF Succeed, CommandUpToDate
    <2> QED  BY <1>9, <2>2, <2>3 DEF ShouldCopySecret
  <1>10. CASE FetchSecretForServiceAccount
    <2>1. at = 18 /\ UNCHANGED vars
      BY <1>10, StageIs DEF FetchSecretForServiceAccount
    <2>2. CASE Continue
      BY <1>quiet, <2>1, <2>2 DEF Continue, CommandUpToDate, SecretOwned, vars, objects
    <2> QED  BY <1>10, <1>stop, <2>1, <2>2 DEF FetchSecretForServiceAccount
  <1>11. CASE FetchCluster
    <2>1. at = 19 /\ UNCHANGED vars /\ copyFor' = cluster
      BY <1>11, StageIs DEF FetchCluster
    <2>2. CASE Continue
      BY <1>quiet, <2>1, <2>2 DEF Continue, CommandUpToDate, SecretOwned, vars, objects
    <2> QED  BY <1>11, <1>stop, <2>1, <2>2 DEF FetchCluster
  <1>12. CASE CopySecret
    <2>1. at = 20 /\ cluster # 0 /\ copyFor = cluster
      BY <1>12, StageIs DEF CopySecret, CommandUpToDate
    <2>2. CASE secret # None /\ Fail /\ UNCHANGED <<secret, owner, work>>
      BY <1>12, <1>stop, <2>2 DEF CopySecret, vars, objects
    <2>3. CASE secret = None /\ Succeed /\ WriteSecret(TokenSum, copyFor)
      <3>1. /\ secret' = TokenSum /\ owner' = cluster /\ work' = Outdated(work)
            /\ UNCHANGED <<cluster, uid, disk>> /\ at' = 0
        BY <1>12, <2>1, <2>3 DEF CopySecret, WriteSecret, Succeed
      <3>2. WorkerUpToDate'
        BY <3>1, <2>1, OutdatedWork DEF WorkerUpToDate, None, TokenSum
      <3> QED  BY <3>1, <3>2, <2>1 DEF CommandUpToDate, SecretOwned, TokenSum, None
    <2> QED  BY <1>12, <2>2, <2>3 DEF CopySecret
  <1> QED
    BY <1>1, <1>2, <1>3, <1>4, <1>5, <1>6, <1>7, <1>8, <1>9, <1>10, <1>11, <1>12
    DEF Command

\* The controller: it writes a Secret for the Cluster that it read, which is the
\* one that exists.  Nothing is collected, a Secret that is spoilt is still one,
\* and a worker that fails or is restarted only forgets.
LEMMA EnrolledSecrets ==
    ASSUME Enrolled, SecretsStep, UNCHANGED avars, removed' = FALSE
    PROVE  Enrolled'
  <1> USE DEF Enrolled
  <1>0. CommandUpToDate /\ SecretOwned /\ UNCHANGED <<at, applied, copyFor>>
    BY DEF avars
  <1>read. ASSUME UNCHANGED <<objects, disk>>, WorkerUpToDate' PROVE Enrolled'
    BY <1>0, <1>read DEF objects, CommandUpToDate, SecretOwned
  <1>forget. ASSUME UNCHANGED <<objects, disk>>, work' = IdleWork PROVE Enrolled'
    BY <1>read, <1>forget, IdleIsUpToDate
  <1>1. CASE SyncOne
    <2>1. UNCHANGED <<objects, disk>>
      BY <1>1 DEF SyncOne
    <2>2. CASE cluster # 0 /\ work' = [IdleWork EXCEPT !.pc = "crt", !.seen = secret, !.uid = cluster]
      <3>1. WorkerUpToDate'
        BY <2>1, <2>2 DEF WorkerUpToDate, IdleWork, Works, objects
      <3> QED  BY <1>read, <2>1, <3>1
    <2> QED  BY <1>1, <1>forget, <2>1, <2>2 DEF SyncOne
  <1>2. CASE ReadCrt
    <2>1. UNCHANGED <<objects, disk>> /\ work.pc = "crt"
          /\ work' = [work EXCEPT !.pc = "key", !.crt = disk.crt]
      BY <1>2 DEF ReadCrt
    <2>2. disk.crt \in Nat /\ disk.crt # 0
      OBVIOUS
    <2>3. WorkerUpToDate'
      BY <2>1, <2>2 DEF WorkerUpToDate, Works, objects
    <2> QED  BY <1>read, <2>1, <2>3
  <1>3. CASE ReadKey
    <2>1. UNCHANGED <<objects, disk>> /\ work.pc = "key"
      BY <1>3 DEF ReadKey
    <2>2. CASE work' = [work EXCEPT !.pc = "write", !.key = disk.key]
      <3>1. disk.key \in Nat /\ disk.key # 0
        OBVIOUS
      <3>2. WorkerUpToDate'
        BY <2>1, <2>2, <3>1 DEF WorkerUpToDate, Works, objects
      <3> QED  BY <1>read, <2>1, <3>2
    <2> QED  BY <1>3, <1>forget, <2>1, <2>2 DEF ReadKey
  <1>written. ASSUME work.pc = "write"
              PROVE  Checksum(work.crt, work.key) \in Nat /\ Checksum(work.crt, work.key) # None
    <2>1. work.crt \in Nat \ {0} /\ work.key \in Nat \ {0}
      BY <1>written DEF WorkerUpToDate, Works
    <2> QED  BY <2>1 DEF Checksum, None
  <1>4. CASE CreateSecretForCluster
    <2>1. /\ work.pc = "write" /\ work' = IdleWork /\ secret' = Checksum(work.crt, work.key)
          /\ owner' = work.uid /\ UNCHANGED <<cluster, uid, disk>>
      BY <1>4 DEF CreateSecretForCluster
    <2>2. owner' = cluster /\ cluster # 0
      BY <2>1 DEF WorkerUpToDate
    <2> QED  BY <1>0, <1>written, <2>1, <2>2, IdleIsUpToDate DEF CommandUpToDate, SecretOwned
  <1>5. CASE UpdateClusterSecret
    <2>1. /\ work.pc = "write" /\ work' = IdleWork /\ secret' = Checksum(work.crt, work.key)
          /\ work.seen # None /\ UNCHANGED <<cluster, uid, owner, disk>>
      BY <1>5 DEF UpdateClusterSecret
    <2>2. secret # None
      BY <2>1 DEF WorkerUpToDate
    <2> QED  BY <1>0, <1>written, <2>1, <2>2, IdleIsUpToDate DEF CommandUpToDate, SecretOwned
  <1>6. CASE WriteRefused \/ CreateForbidden \/ SyncFails \/ Restart
    BY <1>6, <1>forget DEF WriteRefused, Retried, CreateForbidden, SyncFails, Restart
  <1>7. CASE RemoveCluster \/ RemoveSecret
    BY <1>7 DEF RemoveCluster, RemoveSecret
  <1>8. CASE SpoilSecret
    <2>1. /\ secret # None /\ secret' = NoSum /\ owner' = owner /\ work' = Outdated(work)
          /\ UNCHANGED <<cluster, uid, disk>>
      BY <1>8 DEF SpoilSecret, WriteSecret
    <2>2. WorkerUpToDate'
      BY <2>1, OutdatedWork DEF WorkerUpToDate, None, NoSum
    <2> QED  BY <1>0, <2>1, <2>2 DEF CommandUpToDate, SecretOwned, None, NoSum
  <1>9. CASE RotateCrt \/ RotateKey
    <2>1. disk' \in [crt : {1, 2}, key : {1, 2}] /\ UNCHANGED <<objects, work>>
      BY <1>9 DEF RotateCrt, RotateKey
    <2> QED  BY <1>0, <2>1 DEF objects, CommandUpToDate, SecretOwned, WorkerUpToDate
  <1>10. CASE CollectSecret
    BY <1>10, <1>0 DEF CollectSecret, SecretOwned
  <1> QED
    BY <1>1, <1>2, <1>3, <1>4, <1>5, <1>6, <1>7, <1>8, <1>9, <1>10
    DEF SecretsStep, Work, Disturb

\* What has been removed is remembered.
LEMMA RemovalsStay ==
    ASSUME removed \in BOOLEAN, Next
    PROVE  removed' \in BOOLEAN /\ (removed => removed')
  <1>1. CASE Command
    BY <1>1 DEF Command, vars, history, Start, Create, WebhookSecretExists,
       CreateCertificateSigningRequest, ApproveShipperCSR, FetchCertificateFromCSR,
       CreateValidatingWebhookSecret, CreateOrUpdateCluster, ShouldCopySecret,
       FetchSecretForServiceAccount, FetchCluster, CopySecret
  <1>2. CASE Interrupt \/ PopulateToken \/ SignCertificate
    BY <1>2 DEF vars, history, Interrupt, PopulateToken, SignCertificate
  <1>3. CASE SecretsStep
    BY <1>3 DEF SecretsStep, Work, history, SyncOne, ReadCrt, ReadKey, CreateSecretForCluster,
       UpdateClusterSecret, WriteRefused, CreateForbidden, Disturb, SyncFails, RemoveCluster,
       RemoveSecret, SpoilSecret, RotateCrt, Restart, RotateKey, CollectSecret
  <1> QED  BY <1>1, <1>2, <1>3 DEF Next

-----------------------------------------------------------------------------
(* The invariant, and what follows from it.                                 *)

\* The invariant holds at first ...
LEMMA InvInit == Init => Inv
  <1> SUFFICES ASSUME Init PROVE Inv
    OBVIOUS
  <1>0. removed = FALSE
    BY DEF Init, SecretsInit
  <1>1. Passed
    BY DEF Init, Passed, At
  <1>2. WorkerUpToDate
    BY DEF Init, SecretsInit, WorkerUpToDate, Works, IdleWork, None
  <1>3. disk \in [crt : {1, 2}, key : {1, 2}] /\ secret = 0 /\ cluster = 0 /\ uid = 0
    BY DEF Init, SecretsInit, None
  <1>4. CommandUpToDate /\ SecretOwned
    BY <1>3 DEF Init, CommandUpToDate, SecretOwned, None
  <1> QED
    BY <1>0, <1>1, <1>2, <1>3, <1>4 DEF Inv, Enrolled

\* ... and every step keeps it.
LEMMA InvNext == Inv /\ [Next]_allVars => Inv'
  <1> SUFFICES ASSUME Inv, [Next]_allVars PROVE Inv'
    OBVIOUS
  <1>1. CASE UNCHANGED allVars
    BY <1>1 DEF allVars, vars, objects, history, avars, Inv, Passed, Enrolled, WorkerUpToDate,
       CommandUpToDate, SecretOwned
  <1>2. CASE Next
    <2>1. Passed' /\ removed' \in BOOLEAN
      BY <1>2, PassedStep, RemovalsStay DEF Inv
    <2>2. ASSUME removed' = FALSE PROVE Enrolled'
      <3>1. Enrolled /\ at \in At
        BY <1>2, <2>2, RemovalsStay DEF Inv, Passed
      <3>2. CASE Command
        BY <3>1, <3>2, EnrolledCommand
      <3>3. CASE Interrupt
        BY <3>1, <3>3 DEF Interrupt, Fail, Enrolled, vars, objects, WorkerUpToDate,
           CommandUpToDate, SecretOwned
      <3>4. CASE PopulateToken \/ SignCertificate
        BY <3>1, <3>4 DEF PopulateToken, SignCertificate, Enrolled, vars, objects,
           WorkerUpToDate, CommandUpToDate, SecretOwned
      <3>5. CASE SecretsStep /\ UNCHANGED avars
        BY <3>1, <3>5, <2>2, EnrolledSecrets
      <3> QED  BY <1>2, <3>2, <3>3, <3>4, <3>5 DEF Next
    <2> QED  BY <2>1, <2>2 DEF Inv
  <1> QED  BY <1>1, <1>2

\* For any number of Cluster objects, interruptions and interventions, and
\* whichever stages the command may be interrupted at (runApplyClustersCommand
\* in cmd/shipperctl/cmd/apply.go): a command that succeeded has made
\* all its objects, the webhook's secret too, and as long as no administrator
\* removes the Cluster or its Secret there is one, which belongs to the Cluster,
\* whatever syncs of the secret controller fail or are cut off.
THEOREM AlwaysComplete == Spec => []AppliedIsComplete
  <1>1. Inv => AppliedIsComplete
    BY DEF Inv, Passed, Enrolled, SecretOwned, AppliedIsComplete
  <1> QED  BY InvInit, InvNext, <1>1, PTL DEF Spec

=============================================================================
