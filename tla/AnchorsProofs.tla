--------------------------- MODULE AnchorsProofs ---------------------------
(***************************************************************************)
(* Proof that a release which is reported as installed keeps the objects   *)
(* of its chart, for any number of releases, clusters, targets made anew,  *)
(* queued items, failed calls and restarts.                                *)
(*                                                                         *)
(* The invariant follows each release through two phases.  As long as its  *)
(* InstallationTarget was never made, nothing in any cluster or queue      *)
(* names it.  From then until that first target is deleted, everything     *)
(* that names it was made for that target: so no item in the janitor's     *)
(* queue removes its anchor, a worker that installs it owns what it makes, *)
(* and a Service that carries its label names it as an owner.  The steps   *)
(* taken for other releases leave all that alone (Elsewhere); what they do *)
(* to the Service that is shared keeps the owners that are there.          *)
(***************************************************************************)
EXTENDS Anchors, TLAPS

Services == [label : Nat, owners : SUBSET Releases, dangling : BOOLEAN]

Stages == {"service", "create", "update", "deployment"}

Workers == [at : Stages \cup {"idle", "anchor", "status"}, uid : Nat, n : 1 .. Len(Clusters),
            own : BOOLEAN, fresh : BOOLEAN, done : SUBSET Names]

Types ==
    /\ it \in [Releases -> Nat] /\ made \in [Releases -> Nat] /\ seen \in [Releases -> Nat]
    /\ status \in [Releases -> SUBSET Names]
    /\ anchor \in [Names -> [Releases -> Nat]]
    /\ svc \in [Names -> Services]
    /\ dep \in [Names -> [Releases -> {"none", "owned", "dangling"}]]
    /\ queue \in [Items -> Nat]
    /\ work \in [Releases -> Workers]

\* What has owners exists.
OwnedExist == \A c \in Names : svc[c].owners # {} => Exists(svc[c])

Installed(r, c) == r \in svc[c].owners /\ dep[c][r] = "owned"

\* The target was never made: nothing names the release.
Unmade(r) ==
    /\ it[r] = 0 /\ seen[r] = 0 /\ status[r] = {} /\ work[r].at = "idle"
    /\ queue[TargetItem(r)] = 0
    /\ \A c \in Names, u \in Uids : queue[AnchorItem(c, r, u)] = 0
    /\ \A c \in Names : anchor[c][r] = 0 /\ dep[c][r] = "none" /\ svc[c].label # r

\* The worker installs for the first target, and what it has done is there.
WorksForFirst(r) ==
    work[r].at # "idle" =>
        /\ work[r].uid = 1 /\ seen[r] = 1
        /\ work[r].at \in Stages => work[r].own
        /\ work[r].at = "deployment" => r \in svc[Here(r)].owners
        /\ \A c \in work[r].done : Installed(r, c)

\* The target is the first that was made for the release.
First(r) ==
    /\ made[r] = 1 /\ seen[r] \in {0, 1}
    /\ queue[TargetItem(r)] = 0
    /\ \A c \in Names, u \in Uids : queue[AnchorItem(c, r, u)] > 0 => u = 1 /\ seen[r] = 1
    /\ \A c \in Names : anchor[c][r] # 0 => anchor[c][r] = 1 /\ seen[r] = 1
    /\ \A c \in Names : dep[c][r] # "dangling" /\ (svc[c].label = r => r \in svc[c].owners)
    /\ WorksForFirst(r)
    /\ \A c \in status[r] : Installed(r, c)

Phases(r) == (made[r] = 0 => Unmade(r)) /\ (it[r] = 1 => First(r))

Inv == Types /\ OwnedExist /\ \A r \in Releases : Phases(r)

-----------------------------------------------------------------------------
(* Names, work items and workers.                                           *)

LEMMA ClusterNames ==
    /\ Len(Clusters) \in Nat \ {0} /\ DOMAIN Clusters = 1 .. Len(Clusters)
    /\ \A n \in 1 .. Len(Clusters) : Clusters[n] \in Names
  <1>1. Clusters \in Seq(Names) /\ Clusters # << >>
    BY AnchorsAssumption DEF Names
  <1> QED  BY <1>1 DEF Names

LEMMA ItemNames ==
    /\ \A r \in Releases : TargetItem(r) \in Items
    /\ \A c \in Names, r \in Releases, u \in Uids : AnchorItem(c, r, u) \in Items
    /\ \A r, q : TargetItem(r) = TargetItem(q) => r = q
    /\ \A c, r, u, d, q, v : AnchorItem(c, r, u) = AnchorItem(d, q, v) => c = d /\ r = q /\ u = v
    /\ \A r, c, q, u : TargetItem(r) # AnchorItem(c, q, u)
  BY DEF Items, TargetItem, AnchorItem

LEMMA IdleWorker == Idle \in Workers /\ Idle.at = "idle"
  BY ClusterNames DEF Idle, Workers

\* Leaving a cluster: what was done there is added to what is done.
LEMMA LeaveFacts ==
    ASSUME NEW w \in Workers, NEW ok \in BOOLEAN
    PROVE  /\ Leave(w, ok) \in Workers /\ Leave(w, ok).at \in {"anchor", "status"}
           /\ Leave(w, ok).uid = w.uid
           /\ Leave(w, ok).done \subseteq w.done \cup {Clusters[w.n]}
           /\ ~ok => Leave(w, ok).done = w.done
  <1> DEFINE a == IF w.n < Len(Clusters) THEN "anchor" ELSE "status"
             m == IF w.n < Len(Clusters) THEN w.n + 1 ELSE w.n
             d == IF ok THEN w.done \cup {Clusters[w.n]} ELSE w.done
  <1> DEFINE F == {"at", "uid", "n", "own", "fresh", "done"}
             w1 == [w EXCEPT !.n = m]
             w2 == [w1 EXCEPT !.at = a]
             w3 == [w2 EXCEPT !.own = FALSE]
             w4 == [w3 EXCEPT !.fresh = FALSE]
             w5 == [w4 EXCEPT !.done = d]
  <1>0. Leave(w, ok) = w5
    BY DEF Leave
  <1> HIDE DEF a, m, d
  <1>1. /\ w5 = [f \in F |-> w5[f]] /\ w5.at = a /\ w5.uid = w.uid /\ w5.n = m
        /\ w5.own = FALSE /\ w5.fresh = FALSE /\ w5.done = d
    <2>0. w = [f \in F |-> w[f]]
      BY DEF Workers
    <2>1. w1 = [f \in F |-> w1[f]] /\ w1.n = m /\ w1.uid = w.uid
      BY <2>0
    <2> HIDE DEF w1
    <2>2. w2 = [f \in F |-> w2[f]] /\ w2.at = a /\ w2.n = m /\ w2.uid = w.uid
      BY <2>1
    <2> HIDE DEF w2
    <2>3. w3 = [f \in F |-> w3[f]] /\ w3.own = FALSE /\ w3.at = a /\ w3.n = m /\ w3.uid = w.uid
      BY <2>2
    <2> HIDE DEF w3
    <2>4. /\ w4 = [f \in F |-> w4[f]] /\ w4.fresh = FALSE /\ w4.own = FALSE /\ w4.at = a
          /\ w4.n = m /\ w4.uid = w.uid
      BY <2>3
    <2> HIDE DEF w4
    <2> QED  BY <2>4
  <1>2. /\ a \in {"anchor", "status"} /\ m \in 1 .. Len(Clusters)
        /\ d \in SUBSET Names /\ d \subseteq w.done \cup {Clusters[w.n]} /\ (~ok => d = w.done)
        /\ w.uid \in Nat
    BY ClusterNames DEF Workers, a, m, d
  <1> HIDE DEF w5
  <1> QED  BY <1>0, <1>1, <1>2 DEF Workers, Stages

-----------------------------------------------------------------------------
(* The types.                                                               *)

LEMMA HereIsName == ASSUME Types, NEW r \in Releases PROVE Here(r) \in Names /\ work[r] \in Workers
  BY ClusterNames DEF Types, Workers, Here

\* The shape of what a step leaves behind, variable by variable.
LEMMA RemoveAnchorTypes ==
    ASSUME Types, OwnedExist, NEW D, NEW r \in Releases, RemoveAnchor(D, r)
    PROVE  /\ anchor' \in [Names -> [Releases -> Nat]]
           /\ svc' \in [Names -> Services] /\ OwnedExist'
           /\ dep' \in [Names -> [Releases -> {"none", "owned", "dangling"}]]
           /\ work' \in [Releases -> Workers]
  <1>1. anchor' \in [Names -> [Releases -> Nat]]
    BY DEF RemoveAnchor, Types
  <1>2. svc' \in [Names -> Services] /\ OwnedExist'
    BY ZenonT(60) DEF RemoveAnchor, Types, Services, OwnedExist, Exists
  <1>3. dep' \in [Names -> [Releases -> {"none", "owned", "dangling"}]]
    BY DEF RemoveAnchor, Types
  <1>4. work' \in [Releases -> Workers]
    BY ZenonT(60) DEF RemoveAnchor, Types, Workers
  <1> QED  BY <1>1, <1>2, <1>3, <1>4

LEMMA PutServiceTypes ==
    ASSUME Types, OwnedExist, NEW r \in Releases, NEW s \in Services, Exists(s), PutService(r, s)
    PROVE  svc' \in [Names -> Services] /\ OwnedExist' /\ work' \in [Releases -> Workers]
  <1>1. svc' \in [Names -> Services] /\ OwnedExist'
    BY HereIsName DEF PutService, Types, OwnedExist
  <1>2. work' \in [Releases -> Workers]
    <2>1. \A q \in Releases : /\ [work[q] EXCEPT !.fresh = FALSE] \in Workers
                              /\ [work[q] EXCEPT !.at = "deployment"] \in Workers
      BY ZenonT(60) DEF Types, Workers, Stages
    <2> QED  BY <2>1 DEF PutService, Types
  <1> QED  BY <1>1, <1>2

\* Two edits of one worker.
Entered(w, r, a) == [w EXCEPT ![r].at = a, ![r].own = TRUE]

Fetched(w, r, a) == [w EXCEPT ![r].at = a, ![r].fresh = TRUE]

LEMMA TwoEdits ==
    ASSUME work \in [Releases -> Workers], NEW r \in Releases, NEW a \in Stages
    PROVE  /\ LET v == Entered(work, r, a)
               IN  /\ v \in [Releases -> Workers]
                   /\ v[r].at = a /\ v[r].own = TRUE /\ v[r].uid = work[r].uid
                   /\ v[r].n = work[r].n /\ v[r].done = work[r].done
                   /\ \A q \in Releases : q # r => v[q] = work[q]
           /\ LET v == Fetched(work, r, a)
               IN  /\ v \in [Releases -> Workers]
                   /\ v[r].at = a /\ v[r].own = work[r].own /\ v[r].uid = work[r].uid
                   /\ v[r].n = work[r].n /\ v[r].done = work[r].done
                   /\ \A q \in Releases : q # r => v[q] = work[q]
  <1> DEFINE v1 == [work EXCEPT ![r].at = a]
             v2 == [v1 EXCEPT ![r].own = TRUE]
             v3 == [v1 EXCEPT ![r].fresh = TRUE]
  <1>1. /\ v1 \in [Releases -> Workers]
        /\ v1[r].at = a /\ v1[r].own = work[r].own /\ v1[r].uid = work[r].uid
        /\ v1[r].n = work[r].n /\ v1[r].done = work[r].done
        /\ \A q \in Releases : q # r => v1[q] = work[q]
    BY DEF Workers
  <1> HIDE DEF v1
  <1>2. /\ v2 \in [Releases -> Workers]
        /\ v2[r].at = a /\ v2[r].own = TRUE /\ v2[r].uid = work[r].uid
        /\ v2[r].n = work[r].n /\ v2[r].done = work[r].done
        /\ \A q \in Releases : q # r => v2[q] = work[q]
    BY <1>1, ZenonT(60) DEF Workers
  <1>3. /\ v3 \in [Releases -> Workers]
        /\ v3[r].at = a /\ v3[r].own = work[r].own /\ v3[r].uid = work[r].uid
        /\ v3[r].n = work[r].n /\ v3[r].done = work[r].done
        /\ \A q \in Releases : q # r => v3[q] = work[q]
    BY <1>1, ZenonT(60) DEF Workers
  <1> QED  BY <1>2, <1>3 DEF v1, Entered, Fetched

\* What finding the anchor does.
LEMMA FindAnchorFacts ==
    ASSUME Types, NEW r \in Releases, FindAnchor(r)
    PROVE  /\ anchor' \in [Names -> [Releases -> Nat]] /\ work' \in [Releases -> Workers]
           /\ \A c \in Names, q \in Releases :
                 anchor'[c][q] = IF c = Here(r) /\ q = r /\ anchor[c][q] = 0
                                 THEN work[r].uid ELSE anchor[c][q]
           /\ work'[r].at = "service" /\ work'[r].own = TRUE /\ work'[r].uid = work[r].uid
           /\ work'[r].n = work[r].n /\ work'[r].done = work[r].done
           /\ \A q \in Releases : q # r => work'[q] = work[q]
           /\ UNCHANGED <<it, made, seen, status, svc, dep, queue>>
  <1>1. Here(r) \in Names /\ work[r].uid \in Nat /\ anchor \in [Names -> [Releases -> Nat]]
    BY HereIsName DEF Workers, Types
  <1> DEFINE h == Here(r)
             u == IF anchor[h][r] = 0 THEN work[r].uid ELSE anchor[h][r]
  <1>2. anchor' = [anchor EXCEPT ![h][r] = u] /\ u \in Nat
    BY <1>1 DEF FindAnchor
  <1> HIDE DEF h
  <1>3. anchor' \in [Names -> [Releases -> Nat]]
    <2> HIDE DEF u
    <2> QED  BY <1>1, <1>2 DEF h
  <1>4. \A c \in Names, q \in Releases :
          anchor'[c][q] = IF c = h /\ q = r /\ anchor[c][q] = 0 THEN work[r].uid ELSE anchor[c][q]
    BY <1>1, <1>2 DEF h
  <1>5. work' = Entered(work, r, "service")
        /\ UNCHANGED <<it, made, seen, status, svc, dep, queue>>
    BY DEF FindAnchor, targets, Entered
  <1>6. /\ work' \in [Releases -> Workers]
        /\ work'[r].at = "service" /\ work'[r].own = TRUE /\ work'[r].uid = work[r].uid
        /\ work'[r].n = work[r].n /\ work'[r].done = work[r].done
        /\ \A q \in Releases : q # r => work'[q] = work[q]
    <2>1. work \in [Releases -> Workers] /\ "service" \in Stages
      BY DEF Types, Stages
    <2> DEFINE v == Entered(work, r, "service")
    <2>2. /\ v \in [Releases -> Workers]
          /\ v[r].at = "service" /\ v[r].own = TRUE /\ v[r].uid = work[r].uid
          /\ v[r].n = work[r].n /\ v[r].done = work[r].done
          /\ \A q \in Releases : q # r => v[q] = work[q]
      BY <2>1, TwoEdits
    <2>3. work' = v
      BY <1>5
    <2> HIDE DEF v
    <2> QED  BY <2>2, <2>3
  <1> QED  BY <1>3, <1>4, <1>5, <1>6 DEF h

\* What fetching the Service does: it is left alone only if it has the label.
LEMMA GetServiceFacts ==
    ASSUME Types, NEW r \in Releases, GetService(r)
    PROVE  /\ work' \in [Releases -> Workers]
           /\ work'[r].at \in Stages /\ work'[r].own = work[r].own /\ work'[r].uid = work[r].uid
           /\ work'[r].n = work[r].n /\ work'[r].done = work[r].done
           /\ work'[r].at = "deployment" => svc[Here(r)].label = r
           /\ \A q \in Releases : q # r => work'[q] = work[q]
           /\ UNCHANGED <<it, made, seen, status, anchor, svc, dep, queue>>
  <1> DEFINE a == CASE ~Exists(svc[Here(r)])  -> "create"
                    [] svc[Here(r)].label = r -> "deployment"
                    [] OTHER                  -> "update"
  <1>1. work' = Fetched(work, r, a)
        /\ UNCHANGED <<it, made, seen, status, anchor, svc, dep, queue>>
    BY DEF GetService, targets, shared, Fetched
  <1>2. a \in Stages /\ (a = "deployment" => svc[Here(r)].label = r)
    <2>1. CASE ~Exists(svc[Here(r)])
      BY <2>1, AnchorsAssumption DEF Stages, Exists
    <2>2. CASE Exists(svc[Here(r)]) /\ svc[Here(r)].label = r
      BY <2>2 DEF Stages
    <2>3. CASE Exists(svc[Here(r)]) /\ svc[Here(r)].label # r
      BY <2>3 DEF Stages
    <2> QED  BY <2>1, <2>2, <2>3
  <1> HIDE DEF a
  <1>3. work \in [Releases -> Workers]
    BY DEF Types
  <1>4. /\ work' \in [Releases -> Workers]
        /\ work'[r].at = a /\ work'[r].own = work[r].own /\ work'[r].uid = work[r].uid
        /\ work'[r].n = work[r].n /\ work'[r].done = work[r].done
        /\ \A q \in Releases : q # r => work'[q] = work[q]
    <2> DEFINE v == Fetched(work, r, a)
    <2>1. /\ v \in [Releases -> Workers]
          /\ v[r].at = a /\ v[r].own = work[r].own /\ v[r].uid = work[r].uid
          /\ v[r].n = work[r].n /\ v[r].done = work[r].done
          /\ \A q \in Releases : q # r => v[q] = work[q]
      BY <1>2, <1>3, TwoEdits, ZenonT(60)
    <2>2. work' = v
      BY <1>1
    <2> HIDE DEF v
    <2> QED  BY <2>1, <2>2
  <1> QED  BY <1>1, <1>2, <1>4

\* What installing the Deployment does.
LEMMA InstallDeploymentFacts ==
    ASSUME Types, NEW r \in Releases, InstallDeployment(r)
    PROVE  /\ dep' \in [Names -> [Releases -> {"none", "owned", "dangling"}]]
           /\ work' = [work EXCEPT ![r] = Leave(work[r], TRUE)]
           /\ \A c \in Names, q \in Releases :
                 dep'[c][q] = IF c = Here(r) /\ q = r /\ dep[c][q] = "none"
                              THEN IF work[r].own THEN "owned" ELSE "dangling" ELSE dep[c][q]
           /\ UNCHANGED <<it, made, seen, status, anchor, svc, queue>>
  <1> DEFINE T == {"none", "owned", "dangling"}
             h == Here(r)
             o == IF work[r].own THEN "owned" ELSE "dangling"
             u == IF dep[h][r] # "none" THEN dep[h][r] ELSE o
  <1>1. h \in Names /\ dep \in [Names -> [Releases -> T]] /\ o \in T
    BY HereIsName DEF Types
  <1>2. dep' = [dep EXCEPT ![h][r] = u] /\ work' = [work EXCEPT ![r] = Leave(work[r], TRUE)]
        /\ UNCHANGED <<it, made, seen, status, anchor, svc, queue>>
    BY DEF InstallDeployment, targets
  <1> HIDE DEF h, o, T
  <1>3. u \in T
    BY <1>1
  <1>4. dep' \in [Names -> [Releases -> T]]
    <2> HIDE DEF u
    <2> QED  BY <1>1, <1>2, <1>3
  <1>5. \A c \in Names, q \in Releases :
          dep'[c][q] = IF c = h /\ q = r /\ dep[c][q] = "none" THEN o ELSE dep[c][q]
    BY <1>1, <1>2
  <1> QED  BY <1>2, <1>4, <1>5 DEF h, o, T

\* What every step but the ones above leaves of a queue.
LEMMA QueueTypes ==
    ASSUME Types, NEW i \in Items
    PROVE  /\ Enqueue(i) => queue' \in [Items -> Nat]
           /\ queue[i] > 0 /\ Forget(i) => queue' \in [Items -> Nat]
  <1>1. queue \in [Items -> Nat]
    BY DEF Types
  <1>2. ASSUME Enqueue(i) PROVE queue' \in [Items -> Nat]
    BY <1>1, <1>2 DEF Enqueue
  <1>3. ASSUME queue[i] > 0, Forget(i) PROVE queue' \in [Items -> Nat]
    <2>1. queue[i] - 1 \in Nat /\ queue' = [queue EXCEPT ![i] = queue[i] - 1]
      BY <1>1, <1>3 DEF Forget
    <2> QED  BY <1>1, <2>1
  <1> QED  BY <1>2, <1>3

\* Every step keeps the types.
LEMMA TypesStep == ASSUME Types, OwnedExist, Next PROVE Types' /\ OwnedExist'
  <1>0. /\ it \in [Releases -> Nat] /\ made \in [Releases -> Nat] /\ seen \in [Releases -> Nat]
        /\ status \in [Releases -> SUBSET Names] /\ anchor \in [Names -> [Releases -> Nat]]
        /\ svc \in [Names -> Services]
        /\ dep \in [Names -> [Releases -> {"none", "owned", "dangling"}]]
        /\ queue \in [Items -> Nat] /\ work \in [Releases -> Workers]
    BY DEF Types
  <1>svc. UNCHANGED svc => OwnedExist'
    BY DEF OwnedExist
  <1>work. ASSUME NEW r \in Releases, NEW w \in Workers, work' = [work EXCEPT ![r] = w]
           PROVE  work' \in [Releases -> Workers]
    BY <1>0, <1>work
  <1>same. ASSUME UNCHANGED <<it, made, seen, status, anchor, svc, dep, queue>>,
                  work' \in [Releases -> Workers]
           PROVE  Types' /\ OwnedExist'
    BY <1>0, <1>same, <1>svc DEF Types
  <1>1. ASSUME NEW r \in Releases, CreateTarget(r) PROVE Types' /\ OwnedExist'
    <2>1. made' \in [Releases -> Nat] /\ it' \in [Releases -> Nat] /\ status' \in [Releases -> SUBSET Names]
      BY <1>0, <1>1 DEF CreateTarget
    <2>2. UNCHANGED <<seen, svc, dep, anchor, queue, work>>
      BY <1>1 DEF CreateTarget, shared
    <2> QED  BY <1>0, <1>svc, <2>1, <2>2 DEF Types
  <1>2. ASSUME NEW r \in Releases, DeleteRelease(r) PROVE Types' /\ OwnedExist'
    BY <1>0, <1>2, <1>same DEF DeleteRelease, shared
  <1>3. ASSUME NEW r \in Releases, DeleteTarget(r) \/ CollectTarget(r) PROVE Types' /\ OwnedExist'
    <2>0. it' = [it EXCEPT ![r] = 0] /\ status' = [status EXCEPT ![r] = {}]
      BY <1>3 DEF DeleteTarget, CollectTarget, TargetGone
    <2>1. it' \in [Releases -> Nat] /\ status' \in [Releases -> SUBSET Names]
      BY <1>0, <2>0
    <2>2. UNCHANGED <<made, seen, svc, dep, anchor, queue, work>>
      BY <1>3 DEF DeleteTarget, CollectTarget, TargetGone, shared
    <2> QED  BY <1>0, <1>svc, <2>1, <2>2 DEF Types
  <1>4. ASSUME NEW r \in Releases, ObserveTarget(r) PROVE Types' /\ OwnedExist'
    <2>1. seen' \in [Releases -> Nat] /\ UNCHANGED <<it, made, status, svc, dep, anchor, work>>
      BY <1>0, <1>4 DEF ObserveTarget, targets, shared
    <2>2. UNCHANGED queue \/ Enqueue(TargetItem(r))
      BY <1>4 DEF ObserveTarget, OnTargetDeleted
    <2>3. queue' \in [Items -> Nat]
      BY <1>0, <2>2, ItemNames, QueueTypes
    <2> QED  BY <1>0, <1>svc, <2>1, <2>3 DEF Types
  <1>5. ASSUME NEW r \in Releases, ProcessInstallation(r) PROVE Types' /\ OwnedExist'
    <2> DEFINE w == [Idle EXCEPT !.at = "anchor", !.uid = seen[r]]
    <2>1. w \in Workers
      BY <1>0, IdleWorker DEF Workers
    <2>2. work' = [work EXCEPT ![r] = w] /\ UNCHANGED <<it, made, seen, status, anchor, svc, dep, queue>>
      BY <1>5 DEF ProcessInstallation, targets, shared
    <2> HIDE DEF w
    <2> QED  BY <1>same, <1>work, <2>1, <2>2
  <1>6. ASSUME NEW r \in Releases, FindAnchor(r) PROVE Types' /\ OwnedExist'
    BY <1>0, <1>6, <1>svc, FindAnchorFacts DEF Types
  <1>7. ASSUME NEW r \in Releases, GetService(r) PROVE Types' /\ OwnedExist'
    BY <1>7, <1>same, GetServiceFacts
  <1>8. ASSUME NEW r \in Releases, CreateService(r) PROVE Types' /\ OwnedExist'
    <2> DEFINE s == [label |-> r, owners |-> IF work[r].own THEN {r} ELSE {},
                     dangling |-> ~work[r].own]
    <2>0. UNCHANGED <<it, made, seen, status, anchor, dep, queue>>
      BY <1>8 DEF CreateService, targets
    <2>1. CASE PutService(r, s)
      <3>1. s \in Services /\ Exists(s)
        BY AnchorsAssumption DEF Services, Exists
      <3> HIDE DEF s
      <3> QED  BY <1>0, <2>0, <2>1, <3>1, PutServiceTypes DEF Types
    <2>2. CASE work' = [work EXCEPT ![r] = Leave(@, FALSE)] /\ UNCHANGED svc
      BY <1>0, <1>same, <1>work, <2>0, <2>2, LeaveFacts
    <2> QED  BY <1>8, <2>1, <2>2 DEF CreateService
  <1>9. ASSUME NEW r \in Releases, UpdateService(r) PROVE Types' /\ OwnedExist'
    <2>0. UNCHANGED <<it, made, seen, status, anchor, dep, queue>>
      BY <1>9 DEF UpdateService, targets
    <2>1. CASE PutService(r, Updated(r))
      <3>1. Updated(r) \in Services /\ Exists(Updated(r))
        <4>1. svc[Here(r)] \in Services
          BY <1>0, HereIsName
        <4> QED  BY <4>1, AnchorsAssumption DEF Updated, Services, Exists
      <3> QED  BY <1>0, <2>0, <2>1, <3>1, PutServiceTypes DEF Types
    <2>2. CASE work' = [work EXCEPT ![r] = Leave(@, FALSE)] /\ UNCHANGED svc
      BY <1>0, <1>same, <1>work, <2>0, <2>2, LeaveFacts
    <2> QED  BY <1>9, <2>1, <2>2 DEF UpdateService
  <1>10. ASSUME NEW r \in Releases, InstallDeployment(r) PROVE Types' /\ OwnedExist'
    <2>1. work' \in [Releases -> Workers]
      BY <1>0, <1>10, <1>work, LeaveFacts, InstallDeploymentFacts
    <2> QED  BY <1>0, <1>10, <1>svc, <2>1, InstallDeploymentFacts DEF Types
  <1>11. ASSUME NEW r \in Releases, InstallFails(r) PROVE Types' /\ OwnedExist'
    BY <1>0, <1>11, <1>same, <1>work, LeaveFacts DEF InstallFails, targets, shared
  <1>12. ASSUME NEW r \in Releases, UpdateStatus(r) PROVE Types' /\ OwnedExist'
    <2>1. status' \in [Releases -> SUBSET Names]
      BY <1>0, <1>12 DEF UpdateStatus, Workers
    <2>2. work' \in [Releases -> Workers]
      BY <1>12, <1>work, IdleWorker DEF UpdateStatus
    <2> QED  BY <1>0, <1>12, <1>svc, <2>1, <2>2 DEF UpdateStatus, Types, targets, shared
  <1>13. ASSUME NEW c \in Names, NEW r \in Releases, OnAnchorUpdated(c, r) PROVE Types' /\ OwnedExist'
    <2> DEFINE i == AnchorItem(c, r, anchor[c][r])
    <2>0. UNCHANGED queue \/ queue' = [queue EXCEPT ![i] = @ + 1]
      BY <1>13 DEF OnAnchorUpdated, Enqueue
    <2> HIDE DEF i
    <2>1. queue' \in [Items -> Nat]
      <3>1. CASE i \in Items
        BY <1>0, <2>0, <3>1
      <3>2. CASE i \notin Items
        BY <1>0, <2>0, <3>2
      <3> QED  BY <3>1, <3>2
    <2> QED  BY <1>0, <1>13, <1>svc, <2>1 DEF OnAnchorUpdated, Types, targets, shared
  <1>14. ASSUME NEW c \in Names, NEW r \in Releases, CollectDeployment(c, r) PROVE Types' /\ OwnedExist'
    <2>1. dep' \in [Names -> [Releases -> {"none", "owned", "dangling"}]]
      BY <1>0, <1>14 DEF CollectDeployment
    <2> QED  BY <1>0, <1>14, <1>svc, <2>1 DEF CollectDeployment, Types, targets
  <1>15. ASSUME NEW c \in Names, CollectService(c) PROVE Types' /\ OwnedExist'
    <2>1. svc' \in [Names -> Services] /\ OwnedExist'
      BY <1>0, <1>15 DEF CollectService, Services, NoService, OwnedExist, Exists
    <2>2. work' \in [Releases -> Workers]
      <3>1. \A q \in Releases : [work[q] EXCEPT !.fresh = FALSE] \in Workers
        BY <1>0, ZenonT(60) DEF Workers
      <3> QED  BY <1>0, <1>15, <3>1 DEF CollectService
    <2> QED  BY <1>0, <1>15, <2>1, <2>2 DEF CollectService, Types, targets
  <1>16. ASSUME NEW r \in Releases, SyncInstallationTarget(r) PROVE Types' /\ OwnedExist'
    <2>1. \E D : RemoveAnchor(D, r)
      BY <1>16 DEF SyncInstallationTarget
    <2>2. queue' \in [Items -> Nat]
      BY <1>0, <1>16, ItemNames, QueueTypes DEF SyncInstallationTarget, RetryOrDrop
    <2> QED  BY <1>0, <1>16, <2>1, <2>2, RemoveAnchorTypes DEF SyncInstallationTarget, Types, targets
  <1>17. ASSUME NEW c \in Names, NEW r \in Releases, NEW u \in Uids, SyncAnchor(c, r, u)
         PROVE  Types' /\ OwnedExist'
    <2>1. UNCHANGED <<shared, work>> \/ RemoveAnchor({c}, r)
      BY <1>17 DEF SyncAnchor
    <2>2. queue' \in [Items -> Nat]
      BY <1>0, <1>17, ItemNames, QueueTypes DEF SyncAnchor, RetryOrDrop
    <2>3. UNCHANGED <<it, made, seen, status>>
      BY <1>17 DEF SyncAnchor, targets
    <2> QED  BY <1>0, <1>svc, <2>1, <2>2, <2>3, RemoveAnchorTypes DEF Types, shared
  <1>18. CASE Restart
    BY <1>0, <1>18, <1>svc, IdleWorker DEF Restart, Types, targets, shared
  <1> QED
    BY <1>1, <1>2, <1>3, <1>4, <1>5, <1>6, <1>7, <1>8, <1>9, <1>10, <1>11, <1>12, <1>13, <1>14,
       <1>15, <1>16, <1>17, <1>18 DEF Next, Install, Janitor

-----------------------------------------------------------------------------
(* Steps taken for another release, and steps after the first target.       *)

\* A worker but for the version of the Service that it holds.
SameWork(v, w) == v.at = w.at /\ v.uid = w.uid /\ v.n = w.n /\ v.own = w.own /\ v.done = w.done

\* What the step leaves alone of the release: its Service keeps it as an owner,
\* and does not come to carry its label.
Elsewhere(r) ==
    /\ it'[r] = it[r] /\ made'[r] = made[r] /\ seen'[r] = seen[r] /\ status'[r] = status[r]
    /\ \A c \in Names : anchor'[c][r] = anchor[c][r] /\ dep'[c][r] = dep[c][r]
    /\ \A c \in Names : /\ r \in svc[c].owners => r \in svc'[c].owners
                        /\ svc'[c].label = r => svc[c].label = r
    /\ queue'[TargetItem(r)] = queue[TargetItem(r)]
    /\ \A c \in Names, u \in Uids : queue'[AnchorItem(c, r, u)] = queue[AnchorItem(c, r, u)]
    /\ SameWork(work'[r], work[r])

LEMMA PhasesElsewhere ==
    ASSUME Types, NEW r \in Releases, Phases(r), Elsewhere(r)
    PROVE  Phases(r)'
  <1>0. status[r] \subseteq Names /\ work[r].done \subseteq Names /\ Here(r) \in Names
    BY HereIsName DEF Types, Workers
  <1>1. ASSUME Unmade(r) PROVE Unmade(r)'
    BY <1>1 DEF Unmade, Elsewhere, SameWork
  <1>2. ASSUME First(r) PROVE First(r)'
    <2>1. \A c \in Names : Installed(r, c) => Installed(r, c)'
      BY DEF Elsewhere, Installed
    <2>2. WorksForFirst(r)'
      <3>1. Here(r)' = Here(r)
        BY DEF Elsewhere, SameWork, Here
      <3> QED  BY <1>0, <1>2, <2>1, <3>1 DEF First, WorksForFirst, Elsewhere, SameWork
    <2> QED  BY <1>0, <1>2, <2>1, <2>2 DEF First, Elsewhere
  <1> QED  BY <1>1, <1>2 DEF Phases, Elsewhere

\* After the first target nothing is claimed.
LEMMA Later ==
    ASSUME NEW r \in Releases, made'[r] # 0, it'[r] # 1
    PROVE  Phases(r)'
  BY DEF Phases

\* Nothing but the release's own Service entry, anchor and Deployment goes with
\* its anchor, and a worker's claim to own them.
LEMMA RemovesElsewhere ==
    ASSUME Types, NEW q \in Releases, NEW D, RemoveAnchor(D, q), NEW r \in Releases, r # q
    PROVE  /\ \A c \in Names : anchor'[c][r] = anchor[c][r] /\ dep'[c][r] = dep[c][r]
           /\ \A c \in Names : /\ r \in svc[c].owners => r \in svc'[c].owners
                               /\ svc'[c].label = r => svc[c].label = r
           /\ SameWork(work'[r], work[r])
  <1>1. \A c \in Names : anchor'[c][r] = anchor[c][r]
    BY DEF RemoveAnchor, Types
  <1>2. \A c \in Names : dep'[c][r] = dep[c][r]
    BY DEF RemoveAnchor, Types
  <1>3. \A c \in Names : /\ r \in svc[c].owners => r \in svc'[c].owners
                         /\ svc'[c].label = r => svc[c].label = r
    BY DEF RemoveAnchor, Types, Services
  <1>4. SameWork(work'[r], work[r])
    BY DEF RemoveAnchor, Types, SameWork
  <1> QED  BY <1>1, <1>2, <1>3, <1>4

\* A Service that is written with the owners it had, and under the label of
\* the release that writes it.
LEMMA PutsElsewhere ==
    ASSUME Types, NEW q \in Releases, NEW s \in Services,
           s.label = q, svc[Here(q)].owners \subseteq s.owners, PutService(q, s)
    PROVE  /\ \A r \in Releases, c \in Names :
                 /\ r \in svc[c].owners => r \in svc'[c].owners
                 /\ r # q /\ svc'[c].label = r => svc[c].label = r
           /\ \A r \in Releases : r # q => SameWork(work'[r], work[r])
           /\ svc'[Here(q)] = s
           /\ work'[q].at = "deployment" /\ work'[q].uid = work[q].uid /\ work'[q].n = work[q].n
           /\ work'[q].own = work[q].own /\ work'[q].done = work[q].done
  <1>1. \A r \in Releases, c \in Names :
           /\ r \in svc[c].owners => r \in svc'[c].owners
           /\ r # q /\ svc'[c].label = r => svc[c].label = r
    BY HereIsName DEF PutService, Types
  <1>2. \A r \in Releases : r # q => SameWork(work'[r], work[r])
    BY DEF PutService, Types, SameWork, Workers
  <1>3. /\ svc'[Here(q)] = s
        /\ work'[q].at = "deployment" /\ work'[q].uid = work[q].uid /\ work'[q].n = work[q].n
        /\ work'[q].own = work[q].own /\ work'[q].done = work[q].done
    <2>0. svc'[Here(q)] = s
      BY HereIsName DEF PutService, Types
    <2>1. work'[q] = [work[q] EXCEPT !.at = "deployment"]
      BY DEF PutService
    <2>2. work[q] \in Workers
      BY DEF Types
    <2> QED  BY <2>0, <2>1, <2>2 DEF Workers
  <1> QED  BY <1>1, <1>2, <1>3

\* Items of other releases, and the release's own, when one item is queued or
\* forgotten.
LEMMA QueuedElsewhere ==
    ASSUME Types, NEW i, Enqueue(i) \/ Forget(i)
    PROVE  \A j \in Items : j # i => queue'[j] = queue[j]
  BY DEF Types, Enqueue, Forget

\* The release's own items are those of no other release.
LEMMA OtherItems ==
    ASSUME NEW r \in Releases, NEW q \in Releases, r # q, NEW c \in Names, NEW u,
           NEW i \in {TargetItem(q), AnchorItem(c, q, u)}, \A j \in Items : j # i => queue'[j] = queue[j]
    PROVE  /\ queue'[TargetItem(r)] = queue[TargetItem(r)]
           /\ \A d \in Names, v \in Uids : queue'[AnchorItem(d, r, v)] = queue[AnchorItem(d, r, v)]
  BY ItemNames

-----------------------------------------------------------------------------
(* The installation controller, for the release itself.                     *)

\* A worker that is not idle, or a target that is seen, has been made; and if
\* it is the first, then all that is known about the first holds.
LEMMA BusyIsMade ==
    ASSUME NEW r \in Releases, Phases(r), work[r].at # "idle" \/ seen[r] # 0
    PROVE  made[r] # 0
  BY DEF Phases, Unmade

\* Nothing changes for the release but its worker.
LEMMA WorkerMoves ==
    ASSUME Types, NEW r \in Releases, Phases(r), made[r] # 0,
           UNCHANGED <<it, made, seen, status, anchor, svc, dep, queue>>,
           First(r) => WorksForFirst(r)'
    PROVE  Phases(r)'
  <1>1. ASSUME First(r) PROVE First(r)'
    BY <1>1 DEF First, Installed
  <1> QED  BY <1>1 DEF Phases

\* What is left after a cluster on which the installation failed.
LEMMA LeavesForFirst ==
    ASSUME Types, NEW r \in Releases, First(r), work[r].at # "idle",
           work' = [work EXCEPT ![r] = Leave(work[r], FALSE)], UNCHANGED <<seen, svc, dep>>
    PROVE  WorksForFirst(r)'
  <1>1. work[r] \in Workers /\ work'[r] = Leave(work[r], FALSE)
    BY DEF Types
  <1>2. /\ work'[r].at \in {"anchor", "status"} /\ work'[r].uid = work[r].uid
        /\ work'[r].done = work[r].done
    BY <1>1, LeaveFacts
  <1> QED  BY <1>2 DEF First, WorksForFirst, Stages, Installed

\* A failed call: the cluster is left.
LEMMA FailsStep ==
    ASSUME Types, NEW r \in Releases, Phases(r), work[r].at # "idle",
           work' = [work EXCEPT ![r] = Leave(work[r], FALSE)],
           UNCHANGED <<it, made, seen, status, anchor, svc, dep, queue>>
    PROVE  Phases(r)'
  BY BusyIsMade, WorkerMoves, LeavesForFirst

LEMMA ProcessInstallationStep ==
    ASSUME Types, NEW r \in Releases, Phases(r), ProcessInstallation(r)
    PROVE  Phases(r)'
  <1>1. /\ work'[r] = [Idle EXCEPT !.at = "anchor", !.uid = seen[r]] /\ seen[r] # 0
        /\ UNCHANGED <<it, made, seen, status, anchor, svc, dep, queue>>
    BY DEF ProcessInstallation, Types, targets, shared
  <1>2. work'[r].at = "anchor" /\ work'[r].uid = seen[r] /\ work'[r].done = {}
    BY <1>1 DEF Idle
  <1>3. First(r) => WorksForFirst(r)'
    BY <1>1, <1>2 DEF First, WorksForFirst, Stages
  <1> QED  BY <1>1, <1>3, BusyIsMade, WorkerMoves

LEMMA FindAnchorStep ==
    ASSUME Types, NEW r \in Releases, Phases(r), FindAnchor(r)
    PROVE  Phases(r)'
  <1>0. work[r].at = "anchor" /\ made[r] # 0
    BY BusyIsMade DEF FindAnchor
  <1>1. ASSUME First(r) PROVE First(r)'
    <2>0. work[r].uid = 1 /\ seen[r] = 1 /\ seen' = seen
      BY <1>0, <1>1, FindAnchorFacts DEF First, WorksForFirst
    <2>1. \A c \in Names : anchor'[c][r] # 0 => anchor'[c][r] = 1
      BY <1>1, <2>0, FindAnchorFacts, ZenonT(60) DEF First
    <2>2. /\ work'[r].at = "service" /\ work'[r].own = TRUE /\ work'[r].uid = work[r].uid
          /\ work'[r].done = work[r].done
          /\ UNCHANGED <<it, made, seen, status, svc, dep, queue>>
      BY FindAnchorFacts
    <2>3. \A c \in work[r].done : Installed(r, c)
      BY <1>0, <1>1 DEF First, WorksForFirst
    <2>4. WorksForFirst(r)'
      BY <2>0, <2>2, <2>3 DEF WorksForFirst, Stages, Installed
    <2> QED  BY <1>1, <2>0, <2>1, <2>2, <2>4 DEF First, Installed
  <1> QED  BY <1>0, <1>1, FindAnchorFacts DEF Phases

LEMMA GetServiceStep ==
    ASSUME Types, NEW r \in Releases, Phases(r), GetService(r)
    PROVE  Phases(r)'
  <1>0. work[r].at = "service" /\ made[r] # 0
    BY BusyIsMade DEF GetService
  <1>1. ASSUME First(r) PROVE WorksForFirst(r)'
    <2>1. Here(r)' = Here(r) /\ Here(r) \in Names
      BY GetServiceFacts, HereIsName DEF Here
    <2>2. work[r].uid = 1 /\ seen[r] = 1 /\ work[r].own /\ \A c \in work[r].done : Installed(r, c)
      BY <1>0, <1>1 DEF First, WorksForFirst, Stages
    <2>3. work'[r].at = "deployment" => r \in svc[Here(r)].owners
      BY <1>1, <2>1, GetServiceFacts DEF First
    <2> QED  BY <2>1, <2>2, <2>3, GetServiceFacts DEF WorksForFirst, Installed
  <1> QED  BY <1>0, <1>1, GetServiceFacts, WorkerMoves

\* The Service is written by a worker that owns what it writes, or by one that
\* installs a later target.
LEMMA PutServiceStep ==
    ASSUME Types, NEW r \in Releases, Phases(r), NEW s \in Services,
           s.label = r, svc[Here(r)].owners \subseteq s.owners, work[r].own => r \in s.owners,
           work[r].at \in {"create", "update"}, PutService(r, s),
           UNCHANGED <<it, made, seen, status, anchor, dep, queue>>
    PROVE  Phases(r)'
  <1>0. made[r] # 0
    BY BusyIsMade
  <1>1. ASSUME First(r) PROVE First(r)'
    <2>0. /\ work[r].uid = 1 /\ seen[r] = 1 /\ work[r].own
          /\ \A c \in work[r].done : Installed(r, c)
      BY <1>1 DEF First, WorksForFirst, Stages
    <2>1. /\ Here(r)' = Here(r) /\ Here(r) \in Names /\ r \in svc'[Here(r)].owners
          /\ \A c \in Names : c # Here(r) => svc'[c] = svc[c]
      <3>1. work'[r].n = work[r].n /\ svc'[Here(r)] = s
        BY PutsElsewhere
      <3>2. \A c \in Names : c # Here(r) => svc'[c] = svc[c]
        BY DEF PutService, Types
      <3>3. Here(r)' = Here(r)
        BY <3>1 DEF Here
      <3> QED  BY <2>0, <3>1, <3>2, <3>3, HereIsName
    <2>2. \A c \in Names : Installed(r, c) => Installed(r, c)'
      BY PutsElsewhere DEF Installed
    <2>3. status[r] \subseteq Names /\ work[r].done \subseteq Names
      BY DEF Types, Workers
    <2>4. WorksForFirst(r)'
      BY <2>0, <2>1, <2>2, <2>3, PutsElsewhere DEF WorksForFirst, Stages
    <2>5. \A c \in Names : svc'[c].label = r => r \in svc'[c].owners
      BY <1>1, <2>1 DEF First
    <2> QED  BY <1>1, <2>2, <2>3, <2>4, <2>5 DEF First
  <1> QED  BY <1>0, <1>1 DEF Phases

LEMMA CreateServiceStep ==
    ASSUME Types, OwnedExist, NEW r \in Releases, Phases(r), CreateService(r)
    PROVE  Phases(r)'
  <1> DEFINE s == [label |-> r, owners |-> IF work[r].own THEN {r} ELSE {},
                   dangling |-> ~work[r].own]
  <1>0. work[r].at = "create" /\ UNCHANGED <<it, made, seen, status, anchor, dep, queue>>
    BY DEF CreateService, targets
  <1>1. CASE ~Exists(svc[Here(r)]) /\ PutService(r, s)
    <2>1. s \in Services /\ s.label = r /\ (work[r].own => r \in s.owners)
      BY AnchorsAssumption DEF Services
    <2>2. svc[Here(r)].owners = {}
      BY <1>1, HereIsName DEF OwnedExist
    <2> HIDE DEF s
    <2> QED  BY <1>0, <1>1, <2>1, <2>2, PutServiceStep
  <1>2. CASE work' = [work EXCEPT ![r] = Leave(@, FALSE)] /\ UNCHANGED svc
    BY <1>0, <1>2, FailsStep
  <1> QED  BY <1>1, <1>2 DEF CreateService

LEMMA UpdateServiceStep ==
    ASSUME Types, NEW r \in Releases, Phases(r), UpdateService(r)
    PROVE  Phases(r)'
  <1>0. work[r].at = "update" /\ UNCHANGED <<it, made, seen, status, anchor, dep, queue>>
    BY DEF UpdateService, targets
  <1>1. CASE PutService(r, Updated(r))
    <2>1. svc[Here(r)] \in Services
      BY HereIsName DEF Types
    <2>2. /\ Updated(r) \in Services /\ Updated(r).label = r
          /\ svc[Here(r)].owners \subseteq Updated(r).owners
          /\ work[r].own => r \in Updated(r).owners
      BY <2>1, AnchorsAssumption DEF Updated, Services
    <2> QED  BY <1>0, <1>1, <2>2, PutServiceStep
  <1>2. CASE work' = [work EXCEPT ![r] = Leave(@, FALSE)] /\ UNCHANGED svc
    BY <1>0, <1>2, FailsStep
  <1> QED  BY <1>1, <1>2 DEF UpdateService

LEMMA InstallDeploymentStep ==
    ASSUME Types, NEW r \in Releases, Phases(r), InstallDeployment(r)
    PROVE  Phases(r)'
  <1>0. work[r].at = "deployment" /\ made[r] # 0
    BY BusyIsMade DEF InstallDeployment
  <1>1. ASSUME First(r) PROVE First(r)'
    <2> DEFINE h == Here(r)
    <2>0. /\ work[r].uid = 1 /\ seen[r] = 1 /\ work[r].own /\ r \in svc[h].owners
          /\ \A c \in work[r].done : Installed(r, c)
      BY <1>0, <1>1 DEF First, WorksForFirst, Stages
    <2>1. h \in Names /\ dep[h][r] \in {"none", "owned"}
      BY <1>1, HereIsName DEF First, Types
    <2>2. dep'[h][r] = "owned" /\ svc' = svc
      BY <2>0, <2>1, InstallDeploymentFacts
    <2>3. \A c \in Names : dep'[c][r] # "dangling" /\ (Installed(r, c) => Installed(r, c)')
      BY <1>1, <2>0, <2>2, InstallDeploymentFacts DEF First, Installed
    <2>4. work[r] \in Workers /\ work'[r] = Leave(work[r], TRUE)
      BY InstallDeploymentFacts DEF Types
    <2>5. /\ work'[r].at \in {"anchor", "status"} /\ work'[r].uid = work[r].uid
          /\ work'[r].done \subseteq work[r].done \cup {h}
      BY <2>4, LeaveFacts DEF Here
    <2>6. status[r] \subseteq Names /\ work[r].done \subseteq Names
      BY <2>4 DEF Types, Workers
    <2>7. \A c \in work'[r].done : Installed(r, c)'
      BY <2>0, <2>1, <2>2, <2>3, <2>5, <2>6 DEF Installed
    <2>8. WorksForFirst(r)'
      BY <2>0, <2>5, <2>7, InstallDeploymentFacts DEF WorksForFirst, Stages
    <2> QED  BY <1>1, <2>2, <2>3, <2>6, <2>8, InstallDeploymentFacts DEF First
  <1> QED  BY <1>0, <1>1, InstallDeploymentFacts DEF Phases

LEMMA UpdateStatusStep ==
    ASSUME Types, NEW r \in Releases, Phases(r), UpdateStatus(r)
    PROVE  Phases(r)'
  <1>0. work[r].at = "status" /\ made[r] # 0
    BY BusyIsMade DEF UpdateStatus
  <1>1. /\ UNCHANGED <<it, made, seen, anchor, svc, dep, queue>>
        /\ work'[r].at = "idle" /\ status'[r] \in {status[r], work[r].done}
    BY IdleWorker DEF UpdateStatus, targets, shared, Types
  <1>2. ASSUME First(r) PROVE First(r)'
    <2>1. \A c \in status'[r] : Installed(r, c)
      BY <1>0, <1>1, <1>2 DEF First, WorksForFirst
    <2> QED  BY <1>1, <1>2, <2>1 DEF First, WorksForFirst, Installed
  <1> QED  BY <1>0, <1>1, <1>2 DEF Phases

-----------------------------------------------------------------------------
(* The other steps, for the release itself.                                 *)

LEMMA CreateTargetStep ==
    ASSUME Types, NEW r \in Releases, Phases(r), CreateTarget(r)
    PROVE  Phases(r)'
  <1>1. /\ made'[r] = made[r] + 1 /\ it'[r] = made[r] + 1 /\ status'[r] = {} /\ made[r] \in Nat
        /\ UNCHANGED <<seen, anchor, svc, dep, queue, work>>
    BY DEF CreateTarget, Types, shared
  <1>2. CASE made[r] = 0
    <2>1. Unmade(r) /\ made'[r] = 1 /\ it'[r] = 1
      BY <1>1, <1>2 DEF Phases
    <2>2. First(r)'
      BY <1>1, <2>1 DEF Unmade, First, WorksForFirst
    <2> QED  BY <2>1, <2>2 DEF Phases
  <1>3. CASE made[r] # 0
    BY <1>1, <1>3, Later
  <1> QED  BY <1>2, <1>3

LEMMA TargetGoneStep ==
    ASSUME Types, NEW r \in Releases, Phases(r), TargetGone(r)
    PROVE  Phases(r)'
  <1>1. it'[r] = 0 /\ made' = made /\ it[r] # 0
    BY DEF TargetGone, Types
  <1>2. made[r] # 0
    BY <1>1 DEF Phases, Unmade
  <1> QED  BY <1>1, <1>2, Later

LEMMA ObserveTargetStep ==
    ASSUME Types, NEW r \in Releases, Phases(r), ObserveTarget(r)
    PROVE  Phases(r)'
  <1>1. /\ seen'[r] = it[r] /\ seen[r] # it[r]
        /\ seen[r] = 0 => UNCHANGED queue
        /\ UNCHANGED <<it, made, status, anchor, svc, dep, work>>
    BY DEF ObserveTarget, Types, targets, shared
  <1>2. made[r] # 0
    BY <1>1 DEF Phases, Unmade
  <1>3. ASSUME it[r] = 1 PROVE First(r)'
    <2>1. First(r) /\ seen[r] = 0 /\ seen'[r] = 1 /\ UNCHANGED queue
      BY <1>1, <1>3 DEF Phases, First
    <2> QED  BY <1>1, <2>1 DEF First, WorksForFirst, Installed
  <1> QED  BY <1>1, <1>2, <1>3 DEF Phases

LEMMA OnAnchorUpdatedStep ==
    ASSUME Types, NEW r \in Releases, Phases(r), NEW c \in Names, OnAnchorUpdated(c, r)
    PROVE  Phases(r)'
  <1> DEFINE i == AnchorItem(c, r, anchor[c][r])
  <1>1. /\ UNCHANGED <<it, made, seen, status, anchor, svc, dep, work>>
        /\ anchor[c][r] # 0 /\ Enqueue(i)
    BY DEF OnAnchorUpdated, targets, shared
  <1>2. \A j \in Items : j # i => queue'[j] = queue[j]
    BY <1>1, QueuedElsewhere
  <1>3. made[r] # 0
    BY <1>1 DEF Phases, Unmade
  <1>4. ASSUME First(r) PROVE First(r)'
    <2>1. anchor[c][r] = 1 /\ seen[r] = 1
      BY <1>1, <1>4 DEF First
    <2>2. queue'[TargetItem(r)] = 0
      BY <1>2, <1>4, ItemNames DEF First
    <2>3. \A d \in Names, u \in Uids : queue'[AnchorItem(d, r, u)] > 0 => u = 1
      <3> SUFFICES ASSUME NEW d \in Names, NEW u \in Uids, u # 1
                   PROVE  queue'[AnchorItem(d, r, u)] = queue[AnchorItem(d, r, u)]
        BY <1>4 DEF First
      <3> QED  BY <1>2, <2>1, ItemNames
    <2> QED  BY <1>1, <1>4, <2>1, <2>2, <2>3 DEF First, WorksForFirst, Installed, Here
  <1> QED  BY <1>1, <1>3, <1>4 DEF Phases

\* A target item of the release says that its first target is gone.
LEMMA SyncInstallationTargetStep ==
    ASSUME Types, NEW r \in Releases, Phases(r), SyncInstallationTarget(r)
    PROVE  Phases(r)'
  <1>1. queue[TargetItem(r)] > 0 /\ UNCHANGED <<it, made>>
    BY DEF SyncInstallationTarget, targets
  <1>2. made[r] # 0 /\ it[r] # 1
    BY <1>1 DEF Phases, Unmade, First
  <1> QED  BY <1>1, <1>2, Later

\* An anchor item made for the first target does nothing while that is there.
LEMMA SyncAnchorStep ==
    ASSUME Types, NEW r \in Releases, Phases(r), NEW c \in Names, NEW u \in Uids,
           SyncAnchor(c, r, u)
    PROVE  Phases(r)'
  <1> DEFINE i == AnchorItem(c, r, u)
  <1>1. queue[i] > 0 /\ UNCHANGED <<it, made, seen, status>> /\ i \in Items
    BY ItemNames DEF SyncAnchor, targets
  <1>2. made[r] # 0
    BY <1>1 DEF Phases, Unmade
  <1>3. ASSUME First(r) PROVE First(r)'
    <2>1. u = 1 /\ seen[r] = 1
      BY <1>1, <1>3 DEF First
    <2>2. Forget(i) /\ UNCHANGED <<anchor, svc, dep, work>>
      BY <2>1 DEF SyncAnchor, shared
    <2>3. \A j \in Items : j # i => queue'[j] = queue[j]
      BY <2>2, QueuedElsewhere
    <2>4. queue'[TargetItem(r)] = 0
      BY <1>3, <2>3, ItemNames DEF First
    <2>5. \A d \in Names, v \in Uids : queue'[AnchorItem(d, r, v)] > 0 => v = 1
      <3> SUFFICES ASSUME NEW d \in Names, NEW v \in Uids, v # 1
                   PROVE  queue'[AnchorItem(d, r, v)] = queue[AnchorItem(d, r, v)]
        BY <1>3 DEF First
      <3> QED  BY <2>1, <2>3, ItemNames
    <2> QED  BY <1>1, <1>3, <2>1, <2>2, <2>4, <2>5 DEF First, WorksForFirst, Installed, Here
  <1> QED  BY <1>1, <1>2, <1>3 DEF Phases

LEMMA CollectDeploymentStep ==
    ASSUME Types, NEW r \in Releases, Phases(r), NEW c \in Names, CollectDeployment(c, r)
    PROVE  Phases(r)'
  <1>1. dep[c][r] = "dangling" /\ UNCHANGED <<it, made>>
    BY DEF CollectDeployment, targets
  <1>2. made[r] # 0 /\ it[r] # 1
    BY <1>1 DEF Phases, Unmade, First
  <1> QED  BY <1>1, <1>2, Later

LEMMA RestartStep ==
    ASSUME Types, NEW r \in Releases, Phases(r), Restart
    PROVE  Phases(r)'
  <1>1. /\ UNCHANGED <<it, made, status, anchor, svc, dep>> /\ seen' = it
        /\ work'[r].at = "idle" /\ \A i \in Items : queue'[i] = 0
    BY IdleWorker DEF Restart, targets, shared
  <1>2. /\ queue'[TargetItem(r)] = 0
        /\ \A c \in Names, u \in Uids : queue'[AnchorItem(c, r, u)] = 0
    BY <1>1, ItemNames
  <1>3. Unmade(r) => Unmade(r)'
    BY <1>1, <1>2 DEF Unmade
  <1>4. it[r] = 1 /\ First(r) => First(r)'
    BY <1>1, <1>2 DEF First, WorksForFirst, Installed
  <1> QED  BY <1>1, <1>3, <1>4 DEF Phases

-----------------------------------------------------------------------------
(* All the steps, for any release.                                          *)

\* Steps taken for one release, as another sees them.
LEMMA OthersStep ==
    ASSUME Types, OwnedExist, NEW q \in Releases, NEW r \in Releases, r # q,
           \/ CreateTarget(q) \/ DeleteTarget(q) \/ CollectTarget(q) \/ ObserveTarget(q)
           \/ ProcessInstallation(q) \/ Install(q) \/ InstallFails(q)
           \/ SyncInstallationTarget(q)
           \/ \E c \in Names : \/ OnAnchorUpdated(c, q) \/ CollectDeployment(c, q)
                               \/ \E u \in Uids : SyncAnchor(c, q, u)
    PROVE  Elsewhere(r)
  <1> DEFINE QueueSame == /\ queue'[TargetItem(r)] = queue[TargetItem(r)]
                          /\ \A c \in Names, u \in Uids :
                                queue'[AnchorItem(c, r, u)] = queue[AnchorItem(c, r, u)]
             SvcSame == \A c \in Names : /\ r \in svc[c].owners => r \in svc'[c].owners
                                         /\ svc'[c].label = r => svc[c].label = r
             ObjSame == \A c \in Names : anchor'[c][r] = anchor[c][r] /\ dep'[c][r] = dep[c][r]
             TgtSame == it'[r] = it[r] /\ made'[r] = made[r] /\ seen'[r] = seen[r] /\ status'[r] = status[r]
             WorkSame == SameWork(work'[r], work[r])
  <1>0. Names # {}
    BY ClusterNames
  <1>eq. /\ UNCHANGED queue => QueueSame
         /\ UNCHANGED svc => SvcSame
         /\ UNCHANGED <<anchor, dep>> => ObjSame
         /\ UNCHANGED <<it, made, seen, status>> => TgtSame
         /\ work'[r] = work[r] => WorkSame
    BY DEF SameWork
  <1>all. ASSUME QueueSame, SvcSame, ObjSame, TgtSame, WorkSame PROVE Elsewhere(r)
    BY <1>all DEF Elsewhere
  <1>i. ASSUME NEW c \in Names, NEW u, NEW i \in {TargetItem(q), AnchorItem(c, q, u)},
               Enqueue(i) \/ Forget(i) \/ UNCHANGED queue
        PROVE  QueueSame
    <2>1. \A j \in Items : j # i => queue'[j] = queue[j]
      BY <1>i, QueuedElsewhere
    <2> QED  BY <2>1, OtherItems
  <1>t. /\ it \in [Releases -> Nat] /\ made \in [Releases -> Nat] /\ seen \in [Releases -> Nat]
        /\ status \in [Releases -> SUBSET Names] /\ work \in [Releases -> Workers]
    BY DEF Types
  <1> HIDE DEF QueueSame, SvcSame, ObjSame, WorkSame
  <1>1. CASE CreateTarget(q)
    BY <1>1, <1>t, <1>eq, <1>all DEF CreateTarget, shared
  <1>2. CASE DeleteTarget(q) \/ CollectTarget(q)
    BY <1>2, <1>t, <1>eq, <1>all DEF DeleteTarget, CollectTarget, TargetGone, shared
  <1>3. CASE ObserveTarget(q)
    <2>1. QueueSame
      <3>1. UNCHANGED queue \/ Enqueue(TargetItem(q))
        BY <1>3 DEF ObserveTarget, OnTargetDeleted
      <3> QED  BY <1>0, <1>i, <3>1
    <2> QED  BY <1>3, <1>t, <1>eq, <1>all, <2>1 DEF ObserveTarget, targets, shared
  <1>4. CASE ProcessInstallation(q)
    BY <1>4, <1>t, <1>eq, <1>all DEF ProcessInstallation, targets, shared
  <1>5. CASE FindAnchor(q)
    <2>1. ObjSame
      BY <1>5, FindAnchorFacts, ZenonT(60) DEF ObjSame
    <2> QED  BY <1>5, <1>eq, <1>all, <2>1, FindAnchorFacts
  <1>6. CASE GetService(q)
    BY <1>6, <1>eq, <1>all, GetServiceFacts
  <1>put. ASSUME NEW s \in Services, s.label = q, svc[Here(q)].owners \subseteq s.owners,
                 PutService(q, s), UNCHANGED <<it, made, seen, status, anchor, dep, queue>>
          PROVE  Elsewhere(r)
    <2>1. SvcSame /\ WorkSame
      BY <1>put, PutsElsewhere DEF SvcSame, WorkSame
    <2> QED  BY <1>put, <1>eq, <1>all, <2>1
  <1>7. CASE CreateService(q)
    <2> DEFINE s == [label |-> q, owners |-> IF work[q].own THEN {q} ELSE {},
                     dangling |-> ~work[q].own]
    <2>0. UNCHANGED <<it, made, seen, status, anchor, dep, queue>>
      BY <1>7 DEF CreateService, targets
    <2>1. CASE ~Exists(svc[Here(q)]) /\ PutService(q, s)
      <3>1. s \in Services /\ s.label = q
        BY AnchorsAssumption DEF Services
      <3>2. svc[Here(q)].owners = {}
        BY <2>1, HereIsName DEF OwnedExist
      <3> HIDE DEF s
      <3> QED  BY <1>put, <2>0, <2>1, <3>1, <3>2
    <2>2. CASE work' = [work EXCEPT ![q] = Leave(@, FALSE)] /\ UNCHANGED svc
      BY <1>t, <1>eq, <1>all, <2>0, <2>2
    <2> QED  BY <1>7, <2>1, <2>2 DEF CreateService
  <1>8. CASE UpdateService(q)
    <2>0. UNCHANGED <<it, made, seen, status, anchor, dep, queue>>
      BY <1>8 DEF UpdateService, targets
    <2>1. CASE PutService(q, Updated(q))
      <3>1. svc[Here(q)] \in Services
        BY HereIsName DEF Types
      <3>2. /\ Updated(q) \in Services /\ Updated(q).label = q
            /\ svc[Here(q)].owners \subseteq Updated(q).owners
        BY <3>1, AnchorsAssumption DEF Updated, Services
      <3> QED  BY <1>put, <2>0, <2>1, <3>2
    <2>2. CASE work' = [work EXCEPT ![q] = Leave(@, FALSE)] /\ UNCHANGED svc
      BY <1>t, <1>eq, <1>all, <2>0, <2>2
    <2> QED  BY <1>8, <2>1, <2>2 DEF UpdateService
  <1>9. CASE InstallDeployment(q)
    <2>1. ObjSame
      BY <1>9, InstallDeploymentFacts DEF ObjSame
    <2>2. work'[r] = work[r]
      BY <1>9, <1>t, InstallDeploymentFacts
    <2> QED  BY <1>9, <1>eq, <1>all, <2>1, <2>2, InstallDeploymentFacts
  <1>10. CASE InstallFails(q)
    BY <1>10, <1>t, <1>eq, <1>all DEF InstallFails, targets, shared
  <1>11. CASE UpdateStatus(q)
    <2>1. work'[r] = work[r] /\ status'[r] = status[r]
      BY <1>11, <1>t DEF UpdateStatus
    <2> QED  BY <1>11, <1>eq, <1>all, <2>1 DEF UpdateStatus, targets, shared
  <1>12. CASE SyncInstallationTarget(q)
    <2>1. QueueSame
      <3>1. UNCHANGED queue \/ Forget(TargetItem(q))
        BY <1>12 DEF SyncInstallationTarget, RetryOrDrop
      <3> QED  BY <1>0, <1>i, <3>1
    <2>2. \E D : RemoveAnchor(D, q)
      BY <1>12 DEF SyncInstallationTarget
    <2>3. SvcSame /\ ObjSame /\ WorkSame
      BY <2>2, RemovesElsewhere DEF SvcSame, ObjSame, WorkSame
    <2> QED  BY <1>12, <1>eq, <1>all, <2>1, <2>3 DEF SyncInstallationTarget, targets
  <1>13. ASSUME NEW c \in Names, OnAnchorUpdated(c, q) PROVE Elsewhere(r)
    <2>1. QueueSame
      BY <1>13, <1>i DEF OnAnchorUpdated
    <2> QED  BY <1>13, <1>eq, <1>all, <2>1 DEF OnAnchorUpdated, targets, shared
  <1>14. ASSUME NEW c \in Names, CollectDeployment(c, q) PROVE Elsewhere(r)
    <2>1. ObjSame
      BY <1>14 DEF CollectDeployment, ObjSame, Types
    <2> QED  BY <1>14, <1>eq, <1>all, <2>1 DEF CollectDeployment, targets
  <1>15. ASSUME NEW c \in Names, NEW u \in Uids, SyncAnchor(c, q, u) PROVE Elsewhere(r)
    <2>1. QueueSame
      <3>1. UNCHANGED queue \/ Forget(AnchorItem(c, q, u))
        BY <1>15 DEF SyncAnchor, RetryOrDrop
      <3> QED  BY <1>i, <3>1
    <2>2. SvcSame /\ ObjSame /\ WorkSame
      <3>1. UNCHANGED <<anchor, svc, dep, work>> \/ RemoveAnchor({c}, q)
        BY <1>15 DEF SyncAnchor, shared
      <3> QED  BY <1>eq, <3>1, RemovesElsewhere DEF SvcSame, ObjSame, WorkSame
    <2> QED  BY <1>15, <1>eq, <1>all, <2>1, <2>2 DEF SyncAnchor, targets
  <1> QED
    BY <1>1, <1>2, <1>3, <1>4, <1>5, <1>6, <1>7, <1>8, <1>9, <1>10, <1>11, <1>12, <1>13,
       <1>14, <1>15 DEF Install

\* Steps that are taken for no release in particular.
LEMMA CollectServiceElsewhere ==
    ASSUME Types, NEW c \in Names, CollectService(c), NEW r \in Releases
    PROVE  Elsewhere(r)
  <1>1. UNCHANGED <<it, made, seen, status, anchor, dep, queue>>
    BY DEF CollectService, targets
  <1>2. \A d \in Names : /\ r \in svc[d].owners => r \in svc'[d].owners
                         /\ svc'[d].label = r => svc[d].label = r
    BY AnchorsAssumption DEF CollectService, Types, Services, NoService
  <1>3. SameWork(work'[r], work[r])
    BY DEF CollectService, Types, Workers, SameWork
  <1> QED  BY <1>1, <1>2, <1>3 DEF Elsewhere

\* Every step keeps the phases of every release.
LEMMA PhasesStep ==
    ASSUME Inv, Next, NEW r \in Releases
    PROVE  Phases(r)'
  <1>0. Types /\ OwnedExist /\ Phases(r)
    BY DEF Inv
  <1>1. ASSUME NEW q \in Releases,
               \/ CreateTarget(q) \/ DeleteTarget(q) \/ CollectTarget(q) \/ ObserveTarget(q)
               \/ ProcessInstallation(q) \/ Install(q) \/ InstallFails(q)
               \/ SyncInstallationTarget(q)
               \/ \E c \in Names : \/ OnAnchorUpdated(c, q) \/ CollectDeployment(c, q)
                                   \/ \E u \in Uids : SyncAnchor(c, q, u)
        PROVE  Phases(r)'
    <2>1. CASE q # r
      BY <1>0, <1>1, <2>1, OthersStep, PhasesElsewhere
    <2>2. CASE q = r
      <3>1. InstallFails(r) => Phases(r)'
        BY <1>0, FailsStep DEF InstallFails, targets, shared
      <3>2. Install(r) => Phases(r)'
        BY <1>0, FindAnchorStep, GetServiceStep, CreateServiceStep, UpdateServiceStep,
           InstallDeploymentStep, UpdateStatusStep DEF Install
      <3>3. DeleteTarget(r) \/ CollectTarget(r) => Phases(r)'
        BY <1>0, TargetGoneStep DEF DeleteTarget, CollectTarget
      <3> QED
        BY <1>0, <1>1, <2>2, <3>1, <3>2, <3>3, CreateTargetStep, ObserveTargetStep,
           ProcessInstallationStep, SyncInstallationTargetStep, OnAnchorUpdatedStep,
           CollectDeploymentStep, SyncAnchorStep
    <2> QED  BY <2>1, <2>2
  <1>2. ASSUME NEW q \in Releases, DeleteRelease(q) PROVE Phases(r)'
    <2>1. Elsewhere(r)
      BY <1>2 DEF DeleteRelease, shared, Elsewhere, SameWork
    <2> QED  BY <1>0, <2>1, PhasesElsewhere
  <1>3. ASSUME NEW c \in Names, CollectService(c) PROVE Phases(r)'
    BY <1>0, <1>3, CollectServiceElsewhere, PhasesElsewhere
  <1>4. CASE Restart
    BY <1>0, <1>4, RestartStep
  <1> QED
    BY <1>1, <1>2, <1>3, <1>4 DEF Next, Janitor

-----------------------------------------------------------------------------
(* The invariant, and what follows from it.                                 *)

\* The invariant holds at first ...
LEMMA InvInit == AnchorsInit => Inv
  <1> SUFFICES ASSUME AnchorsInit PROVE Inv
    OBVIOUS
  <1>1. Types
    BY IdleWorker DEF AnchorsInit, Types, Services, NoService
  <1>2. OwnedExist
    BY DEF AnchorsInit, OwnedExist, NoService
  <1>3. ASSUME NEW r \in Releases PROVE Phases(r)
    <2>1. r # 0
      BY AnchorsAssumption
    <2> QED  BY <2>1, ItemNames, IdleWorker DEF AnchorsInit, Phases, Unmade, NoService
  <1> QED  BY <1>1, <1>2, <1>3 DEF Inv

\* ... and every step keeps it.
LEMMA InvNext == Inv /\ [Next]_vars => Inv'
  <1> SUFFICES ASSUME Inv, [Next]_vars PROVE Inv'
    OBVIOUS
  <1>1. CASE Next
    BY <1>1, TypesStep, PhasesStep DEF Inv
  <1>2. CASE UNCHANGED vars
    BY <1>2 DEF vars, Inv, Types, OwnedExist, Phases, Unmade, First, WorksForFirst, Installed, Here
  <1> QED  BY <1>1, <1>2

\* For any releases, clusters and bounds: as long as the InstallationTarget of
\* a release is the first that was made for it, every cluster that its status
\* reports as installed has the Service and the release's own Deployment, owned
\* by the release's anchor, whatever the installations of other releases
\* (installer.go), the janitor's items for them (janitor_controller.go) and the
\* garbage collector do meanwhile.
THEOREM AlwaysKept == Spec => []ServiceKept
  <1>1. Inv => ServiceKept
    <2> SUFFICES ASSUME Inv, NEW r \in Releases, NEW c \in Names, it[r] = 1, c \in status[r]
                 PROVE  Exists(svc[c]) /\ dep[c][r] = "owned"
      BY DEF ServiceKept
    <2>1. Installed(r, c)
      BY DEF Inv, Phases, First
    <2> QED  BY <2>1 DEF Inv, OwnedExist, Installed
  <1> QED  BY InvInit, InvNext, <1>1, PTL DEF Spec

=============================================================================
