--------------------------- MODULE AdvanceProofs ---------------------------
(***************************************************************************)
(* What a rollout that users only advance guarantees for every strategy    *)
(* that shifts capacity and traffic monotonically, every number of pods    *)
(* and any lag of the caches: no capacity is lost, what the incumbent      *)
(* gives up the contender has in rotation, and what is reported as done is *)
(* done.                                                                   *)
(*                                                                         *)
(* The argument follows the versions of each object from the cached to the *)
(* stored one.  The contender's values only rise and the incumbent's only  *)
(* fall; so what an old version of a status says of the contender is still *)
(* there, and the executor, which waits for the contender before it asks   *)
(* the incumbent for less, may act on old versions.  The achieved weight   *)
(* is the delicate part: it is rounded, and a patch of the weight keeps    *)
(* the status of the weight before.  A raise that is worth more than the   *)
(* rounding (Coarse) cannot be met by such a status.                       *)
(*                                                                         *)
(* One cluster, because with more nothing is known about the capacity      *)
(* controller's reports (CapacityStatus); no lost pods, because nothing    *)
(* makes up for those before the next step.  Where weights matter, no      *)
(* failed patch of a pod: of 200 pods one labelled counts as a weight of   *)
(* 1, rounded, when two were meant.                                        *)
(***************************************************************************)
EXTENDS RolloutProofs

\* Users only advance the rollout, to one cluster, and no pod is lost.
Forward ==
    /\ ~StepBack /\ "podloss" \notin Faults
    /\ \E c \in Cluster : Cluster = {c}

\* From step to step the contender's capacity grows and the incumbent's
\* shrinks, and at each step the two make up a whole.
CapacityPlan ==
    \A s \in 0 .. LastStep :
        /\ Step(s).cc + Step(s).ci >= 100
        /\ \A t \in s .. LastStep : Step(s).cc <= Step(t).cc /\ Step(t).ci <= Step(s).ci

\* A weight raised from w to x is raised by enough for no rounding to hide it.
Coarse(w, x) ==
    \/ w = x
    \/ w < x /\ (w = 0 \/ (2 * (x - w) - 1) * Total >= 200)

\* The same for the weights, which are nowhere above the capacities.
\* (MCRollout's Vanguard satisfies both for three pods and more.)
TrafficPlan ==
    \A s \in 0 .. LastStep :
        /\ Step(s).tc <= Step(s).cc /\ Step(s).ti <= Step(s).ci
        /\ Step(s).tc + Step(s).ti >= 100
        /\ \A t \in s .. LastStep : Coarse(Step(s).tc, Step(t).tc) /\ Step(t).ti <= Step(s).ti

-----------------------------------------------------------------------------
(* The inductive invariant.                                                 *)

Versions(h) == 1 .. Len(h)

\* The steps the executor may still be asked for, as the cache shows.
Ahead == {t \in 0 .. LastStep : Head(rel).target <= t}

Rising(h, c) == \A i, j \in Versions(h) : i <= j => h[i].spec[c] <= h[j].spec[c]

Falling(h, c) == \A i, j \in Versions(h) : i <= j => h[j].spec[c] <= h[i].spec[c]

TargetsRise == \A i, j \in Versions(rel) : i <= j => rel[i].target <= rel[j].target

\* The contender grows, and no version of its status says more than is there.
ContenderGrows(c) ==
    LET h == ct["contender"]
        d == dep["contender"][c]
    IN  /\ Rising(h, c) /\ \A t \in Ahead : Last(h).spec[c] <= Step(t).cc
        /\ d.avail <= d.want /\ d.want <= Replicas(Head(h).spec[c])
        /\ \A i \in Versions(h) : h[i].status[c] <= d.avail

\* The incumbent shrinks, no version of its status says less than is there, and
\* no version of its spec asks for less than the contender makes up for.
IncumbentShrinks(c) ==
    LET h == ct["incumbent"]
        d == dep["incumbent"][c]
    IN  /\ Falling(h, c) /\ \A t \in Ahead : Step(t).ci <= Last(h).spec[c]
        /\ d.want <= d.avail /\ Replicas(Head(h).spec[c]) <= d.want /\ d.avail <= Total
        /\ \A i \in Versions(h) :
              /\ h[i].status[c] # Absent => d.avail <= h[i].status[c]
              /\ Replicas(h[i].spec[c]) + dep["contender"][c].avail >= Total

CapacityInv ==
    /\ TargetsRise
    /\ \A c \in Cluster : ContenderGrows(c) /\ (HasIncumbent => IncumbentShrinks(c))

\* The contender's weight rises within its capacity.  A status is above the
\* weight by less than the next raise, so a weight that is met is the cached
\* one, and as many pods are in rotation.
ContenderGains(c) ==
    LET h == tt["contender"]
        d == dep["contender"][c]
    IN  /\ Rising(h, c) /\ \A t \in Ahead : Coarse(Last(h).spec[c], Step(t).tc)
        /\ \A i \in Versions(h) :
              /\ Replicas(h[i].spec[c]) <= d.avail
              /\ h[i].spec[c] < h[i].status[c] =>
                    0 < h[i].spec[c] /\ (2 * (h[i].status[c] - h[i].spec[c]) - 1) * Total < 200
              /\ h[i].spec[c] <= h[i].status[c] =>
                    h[i].spec[c] = Head(h).spec[c] /\ Replicas(h[i].spec[c]) <= d.serving

\* The incumbent's weight falls, ahead of its capacity and after the rise of
\* the contender's; nothing is out of rotation without a replacement.
IncumbentYields(c) ==
    LET h == tt["incumbent"]
        w == Head(tt["contender"]).spec[c]
        serving == dep["contender"][c].serving
    IN  /\ Falling(h, c) /\ \A t \in Ahead : Step(t).ti <= Last(h).spec[c]
        /\ \A i \in Versions(h) : w + h[i].spec[c] >= 100
        /\ \A i \in Versions(ct["incumbent"]) :
              /\ Head(h).spec[c] <= ct["incumbent"][i].spec[c]
              /\ serving + Replicas(ct["incumbent"][i].spec[c]) >= Total
        /\ serving + dep["incumbent"][c].serving >= dep["incumbent"][c].avail

TrafficInv ==
    \A c \in Cluster : ContenderGains(c) /\ (HasIncumbent => IncumbentYields(c))

\* The phases whose outcome lasts: the incumbent's weight is rounded too, and
\* nothing makes up for a pod that this keeps in rotation.
Lasting == Phases \ {Installation, IncumbentTraffic}

\* Phase k of step s is done, and not to be undone by relabelling.
Holds(s, k) ==
    /\ s \in 0 .. LastStep
    /\ \A c \in Cluster :
          /\ k = ContenderCapacity => Replicas(Step(s).cc) <= dep["contender"][c].avail
          /\ k = ContenderTraffic =>
                /\ Replicas(Step(s).tc) <= dep["contender"][c].serving
                /\ Step(s).tc <= Head(tt["contender"]).spec[c]
          /\ k = IncumbentCapacity => dep["incumbent"][c].avail <= Replicas(Step(s).ci)

\* Every version of the Release tells the truth: about each phase that it says
\* is done, and about what it concludes from that.
Truthful(v) ==
    /\ \A s \in Nat, k \in Lasting : IsTrue(v.conds, s, k) => Holds(s, k)
    /\ v.achieved # NoStep => \A k \in Lasting : Holds(v.achieved, k)
    /\ v.state.waitingForCommand =>
          \A k \in Lasting : IsTrue(v.conds, v.conds[Installation].step, k)

StatusInv == \A i \in Versions(rel) : Truthful(rel[i])

-----------------------------------------------------------------------------
(* Whole pods.                                                              *)

\* Rounding up: a quotient is the least number whose multiple is enough.
LEMMA RoundUp ==
    ASSUME NEW n \in Nat, NEW d \in Nat \ {0}
    PROVE  LET q == (n + d - 1) \div d
           IN  q \in Nat /\ n <= d * q /\ d * q <= n + d - 1
<1> DEFINE m == n + d - 1
           q == m \div d
<1>1. m \in Nat
  OBVIOUS
<1> HIDE DEF m
<1>2. q \in Nat /\ d * q <= m /\ m < d * q + d
  BY <1>1
<1> HIDE DEF q
<1>3. d * q \in Nat
  BY <1>2
<1> QED
  BY <1>2, <1>3 DEF m, q

LEMMA ReplicasBounds ==
    ASSUME NEW p \in Nat
    PROVE  /\ Replicas(p) \in Nat
           /\ Total * p <= 100 * Replicas(p) /\ 100 * Replicas(p) <= Total * p + 99
<1> DEFINE n == Total * p
<1>1. n \in Nat
  BY ParameterAssumption
<1> HIDE DEF n
<1>2. LET q == (n + 100 - 1) \div 100 IN q \in Nat /\ n <= 100 * q /\ 100 * q <= n + 100 - 1
  BY <1>1, RoundUp
<1>3. n + 100 - 1 = n + 99
  BY <1>1
<1>4. Replicas(p) = (n + 99) \div 100
  BY DEF Replicas, n
<1>5. Replicas(p) \in Nat /\ n <= 100 * Replicas(p) /\ 100 * Replicas(p) <= n + 99
  BY <1>2, <1>3, <1>4
<1> QED
  BY <1>5 DEF n

\* A number of pods that is enough for a percentage is at least its replicas.
LEMMA EnoughPods ==
    ASSUME NEW p \in Nat, NEW k \in Nat, Total * p <= 100 * k
    PROVE  Replicas(p) <= k
<1>1. Total * p \in Nat
  BY ParameterAssumption
<1> QED
  BY <1>1, ReplicasBounds

LEMMA ReplicasMonotone ==
    ASSUME NEW p \in Nat, NEW q \in Nat, p <= q
    PROVE  Replicas(p) <= Replicas(q)
<1>1. Total * p <= Total * q
  BY ParameterAssumption
<1>2. Total * p \in Nat /\ Total * q \in Nat
  BY ParameterAssumption
<1> QED
  BY <1>1, <1>2, ReplicasBounds

LEMMA ReplicasWhole == Replicas(100) = Total /\ Replicas(0) = 0
<1>1. Total \in Nat
  BY ParameterAssumption
<1>2. Replicas(100) = Total
  <2>1. /\ Replicas(100) \in Nat
        /\ Total * 100 <= 100 * Replicas(100) /\ 100 * Replicas(100) <= Total * 100 + 99
    BY ReplicasBounds
  <2> QED
    BY <1>1, <2>1
<1>3. Replicas(0) = 0
  <2>1. Replicas(0) \in Nat /\ 100 * Replicas(0) <= Total * 0 + 99
    BY ReplicasBounds
  <2> QED
    BY <1>1, <2>1
<1> QED
  BY <1>2, <1>3

LEMMA ReplicasCover ==
    ASSUME NEW p \in Nat, NEW q \in Nat, p + q >= 100
    PROVE  Replicas(p) + Replicas(q) >= Total
<1> DEFINE a == Total * p
           b == Total * q
<1>1. Total \in Nat /\ a \in Nat /\ b \in Nat
  BY ParameterAssumption
<1>2. a + b = Total * (p + q)
  BY <1>1
<1>3. Total * (p + q) >= Total * 100
  BY <1>1
<1>4. a <= 100 * Replicas(p) /\ b <= 100 * Replicas(q) /\ Replicas(p) \in Nat /\ Replicas(q) \in Nat
  BY ReplicasBounds
<1>5. a + b >= Total * 100
  BY <1>2, <1>3
<1> HIDE DEF a, b
<1> QED
  BY <1>1, <1>4, <1>5

-----------------------------------------------------------------------------
(* Shares of the pods.                                                      *)

\* calculateReleasePodTarget: when the pods of a cluster cover the weights
\* (Total * W <= 100 * P), a release that has its weight's worth of pods gets
\* at least that many in rotation.
LEMMA ShareFloor ==
    ASSUME NEW a \in Nat, NEW w \in Nat, NEW P \in Nat, NEW W \in Nat,
           w <= W, Replicas(w) <= a, Total * W <= 100 * P
    PROVE  Replicas(w) <= PodTarget(a, w, P, W)
<1>1. CASE W = 0
  <2>1. w = 0 /\ Replicas(w) = 0
    BY <1>1, ReplicasWhole
  <2>2. PodTarget(a, w, P, W) \in Nat
    BY PodTargetType
  <2> QED
    BY <2>1, <2>2
<1>2. CASE W # 0
  <2> DEFINE n == P * w
             share == (n + W - 1) \div W
  <2>1. n \in Nat
    OBVIOUS
  <2>2. share \in Nat /\ n <= W * share
    <3> HIDE DEF n
    <3> QED
      BY <1>2, <2>1, RoundUp
  <2>3. Replicas(w) <= share
    <3> HIDE DEF share
    <3>1. W * (Total * w) <= W * (100 * share)
      <4>1. Total * W * w <= 100 * P * w
        <5>1. Total * W \in Nat /\ 100 * P \in Nat
          BY ParameterAssumption
        <5> QED
          BY <5>1
      <4>2. 100 * P * w = 100 * n
        OBVIOUS
      <4>3. 100 * n <= 100 * (W * share)
        <5>1. W * share \in Nat
          BY <2>2
        <5> HIDE DEF n
        <5> QED
          BY <2>1, <2>2, <5>1
      <4>4. Total * W * w = W * (Total * w)
        BY ParameterAssumption
      <4>5. 100 * (W * share) = W * (100 * share)
        BY <2>2
      <4> QED
        BY <4>1, <4>2, <4>3, <4>4, <4>5, ParameterAssumption, <2>1, <2>2
    <3>2. Total * w <= 100 * share
      <4> DEFINE x == Total * w
                 y == 100 * share
      <4>1. x \in Nat /\ y \in Nat /\ W * x <= W * y
        BY <2>2, <3>1, ParameterAssumption
      <4> HIDE DEF x, y
      <4>2. x <= y
        BY <4>1, <1>2
      <4> QED
        BY <4>2 DEF x, y
    <3> QED
      BY <2>2, <3>2, EnoughPods
  <2>4. PodTarget(a, w, P, W) = IF share < a THEN share ELSE a
    BY <1>2 DEF PodTarget
  <2> HIDE DEF share
  <2> QED
    BY <2>3, <2>4
<1> QED
  BY <1>1, <1>2

\* The achieved weight of SyncCluster is above the weight by less than one
\* pod's worth and the rounding; and is 0 for a weight of 0.
LEMMA AchievedCeiling ==
    ASSUME NEW a \in Nat, NEW w \in Nat, NEW P \in Nat \ {0}, NEW W \in Nat,
           w <= W, Total * W <= 100 * P,
           NEW A, A = (2 * PodTarget(a, w, P, W) * W + P) \div (2 * P), w < A
    PROVE  0 < w /\ (2 * (A - w) - 1) * Total < 200
<1> DEFINE S == PodTarget(a, w, P, W)
           m == S * W
           n == P * w
<1>1. S \in Nat /\ m \in Nat /\ n \in Nat
  <2>1. S \in Nat
    BY PodTargetType
  <2> HIDE DEF S
  <2> QED
    BY <2>1
<1>2. A \in Nat /\ 2 * P * A <= 2 * m + P
  <2>1. 2 * S * W = 2 * m
    BY <1>1
  <2> DEFINE z == 2 * m + P
             y == 2 * P
  <2>2. z \in Nat /\ y \in Nat \ {0} /\ A = z \div y
    BY <1>1, <2>1
  <2> HIDE DEF z, y
  <2>3. A \in Nat /\ y * A <= z
    BY <2>2
  <2> QED
    BY <2>3 DEF z, y
<1>3. W # 0
  <2>1. SUFFICES ASSUME W = 0 PROVE FALSE
    OBVIOUS
  <2>2. m = 0
    BY <1>1, <2>1
  <2> HIDE DEF m
  <2>3. 2 * P * A <= P /\ A >= 1
    BY <1>2, <2>2
  <2>4. 2 * P * A >= 2 * P
    BY <2>3, <1>2
  <2> QED
    BY <2>3, <2>4
<1>4. m <= n + W - 1
  <2> DEFINE share == (n + W - 1) \div W
  <2>1. share \in Nat /\ W * share <= n + W - 1
    <3> HIDE DEF n
    <3> QED
      BY <1>1, <1>3, RoundUp
  <2>2. S <= share
    <3>1. S = IF share < a THEN share ELSE a
      BY <1>3 DEF PodTarget
    <3> HIDE DEF share, S
    <3> QED
      BY <3>1, <2>1
  <2> HIDE DEF share, S, n
  <2>3. S * W <= share * W
    BY <1>1, <2>1, <2>2
  <2>4. share * W = W * share /\ W * share \in Nat
    BY <2>1
  <2>5. m <= W * share
    BY <2>3, <2>4
  <2> HIDE DEF m
  <2> QED
    BY <1>1, <2>1, <2>4, <2>5
<1>5. P * (2 * (A - w) - 1) < 2 * W
  <2>1. P * (2 * (A - w) - 1) = 2 * P * A - 2 * n - P
    BY <1>2
  <2> HIDE DEF m, n
  <2>2. 2 * P * A \in Nat
    BY <1>2
  <2> QED
    BY <1>1, <1>2, <1>4, <2>1, <2>2
<1> DEFINE d == 2 * (A - w) - 1
<1>6. d \in Nat /\ d >= 1
  BY <1>2
<1>7. d * Total < 200
  <2> HIDE DEF d
  <2>1. SUFFICES ASSUME d * Total >= 200 PROVE FALSE
    BY <1>6, ParameterAssumption
  <2>2. W * (d * Total) >= W * 200
    <3>1. d * Total \in Nat
      BY <1>6, ParameterAssumption
    <3> QED
      BY <2>1, <3>1
  <2>3. d * (Total * W) <= d * (100 * P)
    <3>1. Total * W \in Nat /\ 100 * P \in Nat
      BY ParameterAssumption
    <3> QED
      BY <1>6, <3>1
  <2>4. W * (d * Total) = d * (Total * W) /\ d * (100 * P) = 100 * (P * d)
    BY <1>6, ParameterAssumption
  <2>5. P * d < 2 * W /\ P * d \in Nat
    BY <1>5, <1>6 DEF d
  <2> DEFINE u == W * (d * Total)
             v == P * d
  <2>6. u >= W * 200 /\ u <= 100 * v /\ v < 2 * W /\ v \in Nat
    BY <2>2, <2>3, <2>4, <2>5
  <2>7. u \in Nat
    BY <1>6, ParameterAssumption
  <2> HIDE DEF u, v
  <2> QED
    BY <2>6, <2>7
<1>8. 0 < w
  <2>1. SUFFICES ASSUME w = 0 PROVE FALSE
    OBVIOUS
  <2>2. n = 0
    BY <2>1
  <2>3. (n + W - 1) \div W = 0
    BY <1>3, <2>2
  <2>4. S = 0
    BY <1>1, <1>3, <2>3 DEF PodTarget
  <2>5. m = 0
    BY <2>4
  <2> HIDE DEF m
  <2>6. 2 * P * A <= P /\ A >= 1
    BY <1>2, <2>5, <2>1
  <2>7. 2 * P * A >= 2 * P
    BY <2>6, <1>2
  <2> QED
    BY <2>6, <2>7
<1> QED
  BY <1>7, <1>8 DEF d

-----------------------------------------------------------------------------
(* Versions of objects.                                                     *)

Appended(h, g, v) == g = Append(h, v)

LEMMA AppendVersions ==
    ASSUME NEW S, NEW h \in History(S), NEW v \in S, NEW g, Appended(h, g, v)
    PROVE  /\ g \in History(S) /\ Len(g) = Len(h) + 1 /\ Last(g) = v /\ Head(g) = Head(h)
           /\ \A i \in Versions(h) : i \in Versions(g) /\ g[i] = h[i]
           /\ \A i \in Versions(g) : i \in Versions(h) \/ (i = Len(g) /\ g[i] = v)
<1>1. h \in Seq(S) /\ Len(h) \in Nat \ {0}
  BY HistoryLemma DEF History
<1>2. Append(h, v) \in History(S)
  BY HistoryLemma
<1> QED
  BY <1>1, <1>2 DEF Appended, Last, Versions

LEMMA TailVersions ==
    ASSUME NEW S, NEW h \in History(S), Len(h) > 1
    PROVE  LET g == Tail(h)
           IN  /\ g \in History(S) /\ Len(g) = Len(h) - 1 /\ Last(g) = Last(h) /\ Head(g) = h[2]
               /\ 2 \in Versions(h)
               /\ \A i \in Versions(g) : i + 1 \in Versions(h) /\ g[i] = h[i + 1]
<1>1. h \in Seq(S) /\ Len(h) \in Nat \ {0}
  BY HistoryLemma DEF History
<1>2. Tail(h) \in History(S)
  BY HistoryLemma
<1>3. Len(Tail(h)) = Len(h) - 1
  BY <1>1
<1>4. \A i \in 1 .. Len(Tail(h)) : Tail(h)[i] = h[i + 1]
  BY <1>1
<1>5. Head(Tail(h)) = Tail(h)[1]
  BY <1>2 DEF History
<1> QED
  BY <1>1, <1>2, <1>3, <1>4, <1>5 DEF Last, Versions

LEMMA VersionEnds ==
    ASSUME NEW S, NEW h \in History(S)
    PROVE  /\ 1 \in Versions(h) /\ h[1] = Head(h)
           /\ Len(h) \in Versions(h) /\ h[Len(h)] = Last(h)
           /\ Versions(h) \subseteq Nat \ {0}
           /\ \A i \in Versions(h) : 1 <= i /\ i <= Len(h) /\ h[i] \in S
<1>1. h \in Seq(S) /\ Len(h) \in Nat \ {0}
  BY HistoryLemma DEF History
<1> QED
  BY <1>1 DEF Last, Versions

Everywhere(x) == [c \in Cluster |-> x]

\* The target objects of a rollout that has dropped no cluster.
Object == History(Targets(Uniform))

LEMMA PercentIsNat == \A x \in 0 .. 100 : x \in Nat
OBVIOUS

LEMMA ObjectValues ==
    ASSUME NEW h \in Object, NEW i \in Versions(h), NEW c \in Cluster
    PROVE  h[i].spec[c] \in 0 .. 100 /\ h[i].status[c] \in Nat \union {Absent}
<1>1. h[i] \in Targets(Uniform)
  BY VersionEnds DEF Object
<1> QED
  BY <1>1 DEF Targets, Uniform, Lists

LEMMA ObjectEnds ==
    ASSUME NEW h \in Object, NEW c \in Cluster
    PROVE  /\ Head(h).spec[c] \in 0 .. 100 /\ Head(h).status[c] \in Nat \union {Absent}
           /\ Last(h).spec[c] \in 0 .. 100 /\ Last(h).status[c] \in Nat \union {Absent}
           /\ Listed(Head(h).spec) = Cluster
<1>1. Head(h) \in Targets(Uniform) /\ Last(h) \in Targets(Uniform)
  BY HistoryLemma DEF Object
<1>2. PICK p \in 0 .. 100 : Head(h).spec = [d \in Cluster |-> p]
  BY <1>1 DEF Targets, Uniform
<1>3. Listed(Head(h).spec) = Cluster
  BY <1>2 DEF Listed, Absent
<1>4. \A v \in Targets(Uniform) : v.spec[c] \in 0 .. 100 /\ v.status[c] \in Nat \union {Absent}
  BY DEF Targets, Uniform, Lists
<1> QED
  BY <1>1, <1>3, <1>4

\* What a step makes of a target object: the executor patches it to a value
\* everywhere, a controller reports, or the cache catches up.
Patched(h, g, x) == g = Append(h, [spec |-> Everywhere(x), status |-> Last(h).status])

Reported(h, g, report) ==
    Len(h) = 1 /\ g = Append(h, [spec |-> Head(h).spec, status |-> report])

CaughtUp(h, g) == Len(h) > 1 /\ g = Tail(h)

LEMMA PatchCases ==
    ASSUME NEW h \in Object, NEW x \in 0 .. 100
    PROVE  PatchSpec(h, x) = h \/ Patched(h, PatchSpec(h, x), x)
<1> DEFINE new == NewSpec(Head(h), x)
<1>1. Head(h) \in Targets(Uniform) /\ Last(h) \in Targets(Uniform)
  BY HistoryLemma DEF Object
<1>2. PICK p \in 0 .. 100 : Head(h).spec = [c \in Cluster |-> p]
  BY <1>1 DEF Targets, Uniform
<1>3. CASE Listed(new) # {}
  <2>1. PICK c \in Cluster : new[c] # Absent
    BY <1>3 DEF Listed
  <2>2. Comparable(Head(h)) /\ p # x
    BY <1>2, <2>1 DEF NewSpec
  <2>3. new = Everywhere(x)
    BY <1>2, <2>2 DEF NewSpec, Absent, Everywhere
  <2>4. [Last(h) EXCEPT !.spec = Everywhere(x)] = [spec |-> Everywhere(x), status |-> Last(h).status]
    BY <1>1 DEF Targets
  <2>5. PatchSpec(h, x) = Write(h, [Last(h) EXCEPT !.spec = Everywhere(x)])
    <3> HIDE DEF new
    <3> QED
      BY <1>3, <2>3 DEF PatchSpec, new
  <2> QED
    BY <2>4, <2>5 DEF Write, Patched
<1> QED
  BY <1>3 DEF PatchSpec

LEMMA ReportCases ==
    ASSUME NEW h \in Object, NEW report
    PROVE  LET g == Update(h, [Head(h) EXCEPT !.status = report])
           IN  g = h \/ Reported(h, g, report)
<1>1. Head(h) \in Targets(Uniform)
  BY HistoryLemma DEF Object
<1>2. [Head(h) EXCEPT !.status = report] = [spec |-> Head(h).spec, status |-> report]
  BY <1>1 DEF Targets
<1> QED
  BY <1>2 DEF Update, Write, Reported

-----------------------------------------------------------------------------
(* What a step does to the objects and the pods.                            *)

Base == TypeOK /\ UniformSpecs

LEMMA BaseObjects ==
    ASSUME Base, NEW r \in Rel
    PROVE  ct[r] \in Object /\ tt[r] \in Object
BY DEF Base, UniformSpecs, Object

\* The step the executor works on, as the cache shows it.
LEMMA CurrentStep ==
    ASSUME TypeOK, StepExists
    PROVE  /\ Head(rel).target \in Ahead /\ Head(rel).target \in 0 .. LastStep
           /\ Head(rel).target \in Nat /\ LastStep \in Nat
<1>1. Head(rel) \in ReleaseVersion
  BY HistoryLemma DEF TypeOK
<1>2. Head(rel).target \in Nat
  BY <1>1 DEF ReleaseVersion
<1>3. Len(Steps) \in Nat
  BY StrategyAssumption
<1> QED
  BY <1>2, <1>3 DEF StepExists, Ahead, LastStep

\* The executor's step: a patch of the Release, and one of a target object
\* that all the phases before it have prepared.
PatchesCapacity(r) ==
    LET x == IF r = "contender" THEN Step(Head(rel).target).cc ELSE Step(Head(rel).target).ci
    IN  /\ StepExists /\ ct'[r] = PatchSpec(ct[r], x)
        /\ r = "incumbent" => Met(ContenderCapacity) /\ Met(ContenderTraffic) /\ Met(IncumbentTraffic)

PatchesTraffic(r) ==
    LET x == IF r = "contender" THEN Step(Head(rel).target).tc ELSE Step(Head(rel).target).ti
    IN  /\ StepExists /\ tt'[r] = PatchSpec(tt[r], x)
        /\ Met(ContenderCapacity)
        /\ r = "incumbent" => Met(ContenderTraffic)

LEMMA ExecuteSteps ==
    ASSUME TypeOK, NEW sent \in BOOLEAN, Execute(sent)
    PROVE  /\ dep' = dep
           /\ \A r \in Rel : ct'[r] = ct[r] \/ PatchesCapacity(r)
           /\ \A r \in Rel : tt'[r] = tt[r] \/ PatchesTraffic(r)
           /\ \/ rel' = rel
              \/ \E k \in Phases : Blocked(k) /\ rel' = Append(rel, ConditionsPatch(k))
              \/ SeenComplete /\ rel' = Append(rel, WrapUpPatch)
<1> DEFINE step == Step(Head(rel).target)
<1>1. ct \in [Rel -> History(TargetVersion)] /\ tt \in [Rel -> History(TargetVersion)]
  BY DEF TypeOK
<1>2. \A v : PatchRelease(v, sent) => rel' = rel \/ rel' = Append(rel, v)
  BY DEF PatchRelease, Write
<1>3. "contender" # "incumbent"
  OBVIOUS
<1>4. CASE WaitForInstallation(sent)
  BY <1>2, <1>4 DEF WaitForInstallation, Phases, Installation
<1>5. CASE WrapUp(sent)
  BY <1>2, <1>5 DEF WrapUp
<1>6. CASE AdjustCapacity("contender", ContenderCapacity, step.cc, sent)
  <2>1. /\ Blocked(ContenderCapacity) /\ StepExists
        /\ ct' = [ct EXCEPT !["contender"] = PatchSpec(ct["contender"], step.cc)]
        /\ tt' = tt /\ dep' = dep /\ PatchRelease(ConditionsPatch(ContenderCapacity), sent)
    BY <1>6 DEF AdjustCapacity, Blocked
  <2>2. PatchesCapacity("contender")
    BY <1>1, <1>3, <2>1, RelFacts DEF PatchesCapacity
  <2>3. \A r \in Rel : r # "contender" => ct'[r] = ct[r]
    BY <1>1, <2>1
  <2>4. ContenderCapacity \in Phases
    BY DEF ContenderCapacity, Phases
  <2> QED
    BY <1>2, <2>1, <2>2, <2>3, <2>4
<1>7. CASE HasIncumbent /\ AdjustCapacity("incumbent", IncumbentCapacity, step.ci, sent)
  <2>1. /\ Blocked(IncumbentCapacity) /\ StepExists
        /\ ct' = [ct EXCEPT !["incumbent"] = PatchSpec(ct["incumbent"], step.ci)]
        /\ tt' = tt /\ dep' = dep /\ PatchRelease(ConditionsPatch(IncumbentCapacity), sent)
    BY <1>7 DEF AdjustCapacity, Blocked
  <2>2. Met(ContenderCapacity) /\ Met(ContenderTraffic) /\ Met(IncumbentTraffic)
    BY <2>1 DEF Blocked, ContenderCapacity, ContenderTraffic, IncumbentTraffic, IncumbentCapacity
  <2>3. PatchesCapacity("incumbent")
    BY <1>1, <1>3, <1>7, <2>1, <2>2, RelFacts DEF PatchesCapacity
  <2>4. \A r \in Rel : r # "incumbent" => ct'[r] = ct[r]
    BY <1>1, <2>1
  <2>5. IncumbentCapacity \in Phases
    BY <1>7 DEF IncumbentCapacity, Phases
  <2> QED
    BY <1>2, <2>1, <2>3, <2>4, <2>5
<1>8. CASE AdjustTraffic("contender", ContenderTraffic, step.tc, sent)
  <2>1. /\ Blocked(ContenderTraffic) /\ StepExists
        /\ tt' = [tt EXCEPT !["contender"] = PatchSpec(tt["contender"], step.tc)]
        /\ ct' = ct /\ dep' = dep /\ PatchRelease(ConditionsPatch(ContenderTraffic), sent)
    BY <1>8 DEF AdjustTraffic, Blocked
  <2>2. Met(ContenderCapacity)
    BY <2>1 DEF Blocked, ContenderCapacity, ContenderTraffic
  <2>3. PatchesTraffic("contender")
    BY <1>1, <1>3, <2>1, <2>2, RelFacts DEF PatchesTraffic
  <2>4. \A r \in Rel : r # "contender" => tt'[r] = tt[r]
    BY <1>1, <2>1
  <2>5. ContenderTraffic \in Phases
    BY DEF ContenderTraffic, Phases
  <2> QED
    BY <1>2, <2>1, <2>3, <2>4, <2>5
<1>9. CASE HasIncumbent /\ AdjustTraffic("incumbent", IncumbentTraffic, step.ti, sent)
  <2>1. /\ Blocked(IncumbentTraffic) /\ StepExists
        /\ tt' = [tt EXCEPT !["incumbent"] = PatchSpec(tt["incumbent"], step.ti)]
        /\ ct' = ct /\ dep' = dep /\ PatchRelease(ConditionsPatch(IncumbentTraffic), sent)
    BY <1>9 DEF AdjustTraffic, Blocked
  <2>2. Met(ContenderCapacity) /\ Met(ContenderTraffic)
    BY <2>1 DEF Blocked, ContenderCapacity, ContenderTraffic, IncumbentTraffic
  <2>3. PatchesTraffic("incumbent")
    BY <1>1, <1>3, <1>9, <2>1, <2>2, RelFacts DEF PatchesTraffic
  <2>4. \A r \in Rel : r # "incumbent" => tt'[r] = tt[r]
    BY <1>1, <2>1
  <2>5. IncumbentTraffic \in Phases
    BY <1>9 DEF IncumbentTraffic, Phases
  <2> QED
    BY <1>2, <2>1, <2>3, <2>4, <2>5
<1> QED
  BY <1>4, <1>5, <1>6, <1>7, <1>8, <1>9 DEF Execute

\* A Deployment's pods after a step.
Grows(d, e) == e.want = d.want /\ d.avail < d.want /\ e.avail = d.avail + 1 /\ e.serving = d.serving

Shrinks(d, e) ==
    e.want = d.want /\ d.want < d.avail /\ e.avail = d.avail - 1 /\ d.serving <= e.serving + 1

Scaled(d, e, n) == e.want \in {d.want, n} /\ e.avail = d.avail /\ e.serving = d.serving

Relabelled(d, e, n) == e.want = d.want /\ e.avail = d.avail /\ e.serving = n

PodsMove(c) ==
    \A q \in Rel : \/ Grows(dep[q][c], dep'[q][c])
                   \/ Shrinks(dep[q][c], dep'[q][c])
                   \/ Scaled(dep[q][c], dep'[q][c], Replicas(Head(ct[q]).spec[c]))

LabelsMove(c) == \A q \in Rel : Relabelled(dep[q][c], dep'[q][c], Target(q, c))

LEMMA ScalingSteps ==
    ASSUME TypeOK, NEW r \in Rel, NEW found \in SUBSET Deployed(r), NEW scaled \in SUBSET found,
           CapacitySync(r, found, scaled)
    PROVE  \A c \in Cluster : PodsMove(c)
<1> SUFFICES ASSUME NEW c \in Cluster, NEW q \in Rel
             PROVE  Scaled(dep[q][c], dep'[q][c], Replicas(Head(ct[q]).spec[c]))
  BY DEF PodsMove
<1> DEFINE spec == Head(ct[r]).spec
<1>1. dep \in [Rel -> [Cluster -> Deployment]]
  BY DEF TypeOK
<1>2. dep' = [dep EXCEPT ![r] = [b \in Cluster |->
                 IF b \in Listed(spec) \intersect scaled
                 THEN [dep[r][b] EXCEPT !.want = Replicas(spec[b])]
                 ELSE dep[r][b]]]
  BY DEF CapacitySync
<1>3. CASE q # r
  BY <1>1, <1>2, <1>3 DEF Scaled
<1>4. CASE q = r
  <2>1. \/ dep'[q][c] = dep[q][c]
        \/ dep'[q][c] = [dep[q][c] EXCEPT !.want = Replicas(spec[c])]
    BY <1>1, <1>2, <1>4
  <2>2. dep[q][c] \in [want : Nat, avail : Nat, serving : Nat]
    BY <1>1 DEF Deployment
  <2> QED
    BY <1>4, <2>1, <2>2 DEF Scaled
<1> QED
  BY <1>3, <1>4

LEMMA ProgressSteps ==
    ASSUME TypeOK, NEW r \in Rel, NEW b \in Cluster, DeploymentProgress(r, b)
    PROVE  \A c \in Cluster : PodsMove(c)
<1> SUFFICES ASSUME NEW c \in Cluster, NEW q \in Rel
             PROVE  \/ Grows(dep[q][c], dep'[q][c])
                    \/ Shrinks(dep[q][c], dep'[q][c])
                    \/ Scaled(dep[q][c], dep'[q][c], Replicas(Head(ct[q]).spec[c]))
  BY DEF PodsMove
<1> DEFINE d == dep[r][b]
<1>1. dep \in [Rel -> [Cluster -> Deployment]]
  BY DEF TypeOK
<1>2. PICK e \in IF d.avail < d.want THEN {[d EXCEPT !.avail = @ + 1]} ELSE OneLess(d) :
         dep' = [dep EXCEPT ![r][b] = e]
  BY DEF DeploymentProgress
<1>3. d \in [want : Nat, avail : Nat, serving : Nat] /\ d.avail # d.want
  BY <1>1 DEF Deployment, DeploymentProgress
<1> HIDE DEF d
<1>4. Grows(d, e) \/ Shrinks(d, e)
  <2>1. CASE d.avail < d.want
    <3>1. e = [d EXCEPT !.avail = @ + 1]
      BY <1>2, <2>1
    <3> QED
      BY <1>3, <2>1, <3>1 DEF Grows
  <2>2. CASE ~(d.avail < d.want)
    <3>1. e \in OneLess(d)
      BY <1>2, <2>2
    <3>2. PICK n \in {d.serving - 1, d.serving} \intersect 0 .. (d.avail - 1) :
             e = [d EXCEPT !.avail = @ - 1, !.serving = n]
      BY <3>1 DEF OneLess
    <3> QED
      BY <1>3, <2>2, <3>2 DEF Shrinks
  <2> QED
    BY <2>1, <2>2
<1>5. CASE q = r /\ c = b
  BY <1>1, <1>2, <1>4, <1>5 DEF d
<1>6. CASE ~(q = r /\ c = b)
  BY <1>1, <1>2, <1>6 DEF Scaled
<1> QED
  BY <1>5, <1>6

KeepsPods(c) ==
    \A q \in Rel : dep'[q][c].want = dep[q][c].want /\ dep'[q][c].avail = dep[q][c].avail

\* With no failed patch as many pods as meant are in rotation, and no more
\* than there are.
LEMMA RelabelsAll ==
    ASSUME Base, NEW q \in Rel, NEW c \in Cluster
    PROVE  /\ Shifted(q, c, 0) = Target(q, c)
           /\ Target(q, c) \in Nat /\ Target(q, c) <= dep[q][c].avail
           /\ Weight(q, c) \in 0 .. 100 /\ Weighted(q, c)
           /\ TotalPods(c) \in Nat /\ TotalWeight(c) \in Nat /\ dep[q][c].avail <= TotalPods(c)
<1> DEFINE t == Target(q, c)
<1>1. TypeOK /\ Weighted(q, c)
  BY BaseObjects, ObjectEnds DEF Base, Weighted
<1>2. /\ Weight(q, c) \in 0 .. 100 /\ TotalPods(c) \in Nat /\ TotalWeight(c) \in Nat
      /\ dep[q][c].avail <= TotalPods(c) /\ dep[q][c] \in Deployment
  BY <1>1, TrafficTypes
<1>3. dep[q][c].avail \in Nat /\ dep[q][c].serving \in Nat
  BY <1>2 DEF Deployment
<1>4. t \in Nat /\ t <= dep[q][c].avail
  <2>1. Weight(q, c) \in Nat
    BY <1>2
  <2> QED
    BY <1>2, <1>3, <2>1, PodTargetType DEF Target
<1> HIDE DEF t
<1>5. Shifted(q, c, 0) = t
  BY <1>3, <1>4 DEF Shifted, t
<1> QED
  BY <1>1, <1>2, <1>4, <1>5 DEF t

\* What the traffic controller reports is what it has just labelled, if no
\* patch of a pod may fail, or 0 for a cluster it did not reach.
LEMMA RelabelSteps ==
    ASSUME Base, NEW r \in Rel, NEW gone, NEW unpatched \in [Rel -> [Cluster -> 0 .. Total]],
           TrafficSync(r, gone, unpatched)
    PROVE  /\ \A c \in Cluster : KeepsPods(c)
           /\ "podpatch" \notin Faults => \A c \in Cluster : PodsMove(c) \/ LabelsMove(c)
           /\ \A q \in Rel : tt'[q] = tt[q] \/
                 \E report \in Lists(Nat) :
                    /\ Reported(tt[q], tt'[q], report)
                    /\ "podpatch" \notin Faults =>
                          \A c \in Cluster : report[c] = 0 \/ (report[c] = Achieved(q, c, 0) /\ LabelsMove(c))
<1> DEFINE reached == Serviced \ gone
           status  == [c \in Cluster |->
                          CASE ~Weighted(r, c)                  -> Absent
                            [] Weighted(r, c) /\ c \in reached  -> Achieved(r, c, unpatched[r][c])
                            [] OTHER                            -> 0]
<1>1. /\ TypeOK /\ dep \in [Rel -> [Cluster -> Deployment]]
      /\ tt \in [Rel -> History(TargetVersion)]
  BY DEF Base, TypeOK
<1>2. \A q \in Rel, c \in Cluster : Weighted(q, c)
  BY BaseObjects, ObjectEnds DEF Weighted
<1>3. \A q \in Rel, c \in Cluster : unpatched[q][c] \in Nat
  BY ParameterAssumption
<1>4. \A c \in Cluster : Achieved(r, c, unpatched[r][c]) \in Nat
  BY <1>1, <1>2, <1>3, ShiftTypes
<1>5. /\ dep' = [q \in Rel |-> [c \in Cluster |->
                   IF c \in reached /\ Weighted(q, c)
                   THEN [dep[q][c] EXCEPT !.serving = Shifted(q, c, unpatched[q][c])]
                   ELSE dep[q][c]]]
      /\ tt' = [tt EXCEPT ![r] = Update(tt[r], [Head(tt[r]) EXCEPT !.status = status])]
  BY DEF TrafficSync
<1>6. \A c \in Cluster : status[c] = IF c \in reached THEN Achieved(r, c, unpatched[r][c]) ELSE 0
  <2> HIDE DEF reached
  <2> QED
    BY <1>2
<1>7. status \in Lists(Nat)
  <2> HIDE DEF reached
  <2> QED
    BY <1>2, <1>4 DEF Lists
<1>8. "podpatch" \notin Faults => \A q \in Rel, c \in Cluster : unpatched[q][c] = 0
  BY DEF TrafficSync, Fault
<1>9. ASSUME NEW q \in Rel, NEW c \in Cluster
      PROVE  /\ dep[q][c] \in [want : Nat, avail : Nat, serving : Nat]
             /\ dep'[q][c] = IF c \in reached
                             THEN [dep[q][c] EXCEPT !.serving = Shifted(q, c, unpatched[q][c])]
                             ELSE dep[q][c]
  BY <1>1, <1>2, <1>5 DEF Deployment
<1> HIDE DEF status, reached
<1>10. \A c \in Cluster : KeepsPods(c)
  <2>1. ASSUME NEW c \in Cluster, NEW q \in Rel
        PROVE  dep'[q][c].want = dep[q][c].want /\ dep'[q][c].avail = dep[q][c].avail
    <3>1. CASE c \in reached
      BY <1>9, <3>1
    <3>2. CASE c \notin reached
      BY <1>9, <3>2
    <3> QED
      BY <3>1, <3>2
  <2> QED
    BY <2>1 DEF KeepsPods
<1>11. ASSUME "podpatch" \notin Faults, NEW c \in Cluster
       PROVE  IF c \in reached THEN LabelsMove(c) ELSE PodsMove(c)
  <2>1. CASE c \in reached
    <3> SUFFICES ASSUME NEW q \in Rel PROVE Relabelled(dep[q][c], dep'[q][c], Target(q, c))
      BY <2>1 DEF LabelsMove
    <3>1. Shifted(q, c, 0) = Target(q, c)
      BY RelabelsAll
    <3>2. dep'[q][c] = [dep[q][c] EXCEPT !.serving = Target(q, c)]
      BY <1>8, <1>9, <1>11, <2>1, <3>1
    <3> QED
      BY <1>9, <3>2 DEF Relabelled
  <2>2. CASE c \notin reached
    BY <1>9, <2>2 DEF PodsMove, Scaled
  <2> QED
    BY <2>1, <2>2
<1>12. ASSUME NEW q \in Rel
       PROVE  tt'[q] = tt[q] \/
                 \E report \in Lists(Nat) :
                    /\ Reported(tt[q], tt'[q], report)
                    /\ "podpatch" \notin Faults =>
                          \A c \in Cluster : report[c] = 0 \/ (report[c] = Achieved(q, c, 0) /\ LabelsMove(c))
  <2>1. CASE q # r
    BY <1>1, <1>5, <2>1
  <2>2. CASE q = r
    <3>1. tt'[q] = Update(tt[q], [Head(tt[q]) EXCEPT !.status = status])
      BY <1>1, <1>5, <2>2
    <3>2. tt'[q] = tt[q] \/ Reported(tt[q], tt'[q], status)
      BY <3>1, BaseObjects, ReportCases
    <3>3. "podpatch" \notin Faults =>
             \A c \in Cluster : status[c] = 0 \/ (status[c] = Achieved(q, c, 0) /\ LabelsMove(c))
      BY <1>6, <1>8, <1>11, <2>2
    <3> QED
      BY <1>7, <3>2, <3>3
  <2> QED
    BY <2>1, <2>2
<1> QED
  BY <1>10, <1>11, <1>12

\* The capacity controller of a single cluster reports the pods of before.
LEMMA ReportSteps ==
    ASSUME Forward, Base, NEW r \in Rel, NEW found \in SUBSET Deployed(r), NEW scaled \in SUBSET found,
           CapacitySync(r, found, scaled)
    PROVE  \A q \in Rel : ct'[q] = ct[q] \/
              \E report \in Lists(Nat) :
                 /\ Reported(ct[q], ct'[q], report)
                 /\ \A c \in Cluster : report[c] \in {Absent, dep[q][c].avail}
<1> SUFFICES ASSUME NEW q \in Rel
             PROVE  ct'[q] = ct[q] \/
                       \E report \in Lists(Nat) :
                          /\ Reported(ct[q], ct'[q], report)
                          /\ \A c \in Cluster : report[c] \in {Absent, dep[q][c].avail}
  OBVIOUS
<1>1. TypeOK /\ ct \in [Rel -> History(TargetVersion)] /\ dep \in [Rel -> [Cluster -> Deployment]]
  BY DEF Base, TypeOK
<1>2. PICK report \in Reports(r, Head(ct[r]).spec, found) :
         ct' = [ct EXCEPT ![r] = Update(ct[r], [Head(ct[r]) EXCEPT !.status = report])]
  BY DEF CapacitySync
<1>3. report = [c \in Cluster |-> IF c \in Listed(Head(ct[r]).spec) \intersect found
                                  THEN dep[r][c].avail ELSE Absent]
  BY <1>2 DEF Reports, Forward
<1>4. \A c \in Cluster : report[c] \in {Absent, dep[r][c].avail} /\ dep[r][c].avail \in Nat
  BY <1>1, <1>3 DEF Deployment
<1>5. report \in Lists(Nat)
  BY <1>3, <1>4 DEF Lists
<1>6. CASE q # r
  BY <1>1, <1>2, <1>6
<1>7. CASE q = r
  <2>1. ct'[q] = Update(ct[q], [Head(ct[q]) EXCEPT !.status = report])
    BY <1>1, <1>2, <1>7
  <2>2. ct'[q] = ct[q] \/ Reported(ct[q], ct'[q], report)
    BY <2>1, BaseObjects, ReportCases
  <2> QED
    BY <1>4, <1>5, <1>7, <2>2
<1> QED
  BY <1>6, <1>7

\* All that can happen, object by object.
LEMMA StepCases ==
    ASSUME Forward, Base, [Next]_vars
    PROVE  \/ \E sent \in BOOLEAN : Execute(sent)
           \/ \E r \in Rel : \E found \in SUBSET Deployed(r) : \E scaled \in SUBSET found :
                 CapacitySync(r, found, scaled)
           \/ \E r \in Rel, c \in Cluster : DeploymentProgress(r, c)
           \/ \E r \in Rel : \E gone \in SUBSET Cluster, unpatched \in [Rel -> [Cluster -> 0 .. Total]] :
                 TrafficSync(r, gone, unpatched)
           \/ \E r \in Rel : DeliverCapacity(r) \/ DeliverTraffic(r)
           \/ (\E s \in TargetSteps : SetTargetStep(s)) \/ DeliverRelease
           \/ UNCHANGED <<rel, ct, tt, dep>>
<1>1. \A r, c : ~PodLoss(r, c)
  BY DEF PodLoss, Fault, Forward
<1> QED
  BY <1>1 DEF Next, vars, InstallationSync, DeliverInstallation

LEMMA PodSteps ==
    ASSUME Forward, Base, [Next]_vars, NEW c \in Cluster
    PROVE  /\ PodsMove(c) \/ KeepsPods(c)
           /\ "podpatch" \notin Faults => PodsMove(c) \/ LabelsMove(c)
<1>1. TypeOK
  BY DEF Base
<1>2. dep' = dep => PodsMove(c)
  BY DEF PodsMove, Scaled
<1>3. (\E sent \in BOOLEAN : Execute(sent)) => dep' = dep
  BY <1>1, ExecuteSteps
<1>4. (\E r \in Rel : DeliverCapacity(r) \/ DeliverTraffic(r))
         \/ (\E s \in TargetSteps : SetTargetStep(s)) \/ DeliverRelease => dep' = dep
  BY DEF DeliverCapacity, DeliverTraffic, SetTargetStep, DeliverRelease
<1>5. (\E r \in Rel : \E found \in SUBSET Deployed(r) : \E scaled \in SUBSET found :
          CapacitySync(r, found, scaled)) => PodsMove(c)
  BY <1>1, ScalingSteps
<1>6. (\E r \in Rel, b \in Cluster : DeploymentProgress(r, b)) => PodsMove(c)
  BY <1>1, ProgressSteps
<1>7. ASSUME NEW r \in Rel, NEW gone, NEW unpatched \in [Rel -> [Cluster -> 0 .. Total]],
             TrafficSync(r, gone, unpatched)
      PROVE  KeepsPods(c) /\ ("podpatch" \notin Faults => PodsMove(c) \/ LabelsMove(c))
  BY <1>7, RelabelSteps
<1> QED
  BY <1>2, <1>3, <1>4, <1>5, <1>6, <1>7, StepCases

LEMMA CapacitySteps ==
    ASSUME Forward, Base, [Next]_vars, NEW r \in Rel
    PROVE  \/ ct'[r] = ct[r]
           \/ CaughtUp(ct[r], ct'[r])
           \/ \E report \in Lists(Nat) :
                 /\ Reported(ct[r], ct'[r], report)
                 /\ \A c \in Cluster : report[c] \in {Absent, dep[r][c].avail}
           \/ PatchesCapacity(r)
<1>1. TypeOK /\ ct \in [Rel -> History(TargetVersion)]
  BY DEF Base, TypeOK
<1>2. (\E sent \in BOOLEAN : Execute(sent)) => ct'[r] = ct[r] \/ PatchesCapacity(r)
  BY <1>1, ExecuteSteps
<1>3. (\E q \in Rel : DeliverCapacity(q) \/ DeliverTraffic(q)) =>
          ct'[r] = ct[r] \/ CaughtUp(ct[r], ct'[r])
  BY <1>1 DEF DeliverCapacity, DeliverTraffic, CaughtUp
<1>4. /\ (\E s \in TargetSteps : SetTargetStep(s)) \/ DeliverRelease => ct' = ct
      /\ (\E q \in Rel, c \in Cluster : DeploymentProgress(q, c)) => ct' = ct
      /\ (\E q \in Rel : \E gone \in SUBSET Cluster, unpatched \in [Rel -> [Cluster -> 0 .. Total]] :
             TrafficSync(q, gone, unpatched)) => ct' = ct
  BY DEF SetTargetStep, DeliverRelease, DeploymentProgress, TrafficSync
<1>5. ASSUME NEW q \in Rel, NEW found \in SUBSET Deployed(q), NEW scaled \in SUBSET found,
             CapacitySync(q, found, scaled)
      PROVE  ct'[r] = ct[r] \/
                \E report \in Lists(Nat) :
                   /\ Reported(ct[r], ct'[r], report)
                   /\ \A c \in Cluster : report[c] \in {Absent, dep[r][c].avail}
  BY <1>5, ReportSteps
<1> QED
  BY <1>2, <1>3, <1>4, <1>5, StepCases

LEMMA TrafficSteps ==
    ASSUME Forward, Base, [Next]_vars, NEW r \in Rel
    PROVE  \/ tt'[r] = tt[r]
           \/ CaughtUp(tt[r], tt'[r])
           \/ \E report \in Lists(Nat) :
                 /\ Reported(tt[r], tt'[r], report)
                 /\ "podpatch" \notin Faults =>
                       \A c \in Cluster : report[c] = 0 \/ (report[c] = Achieved(r, c, 0) /\ LabelsMove(c))
           \/ PatchesTraffic(r)
<1>1. TypeOK /\ tt \in [Rel -> History(TargetVersion)]
  BY DEF Base, TypeOK
<1>2. (\E sent \in BOOLEAN : Execute(sent)) => tt'[r] = tt[r] \/ PatchesTraffic(r)
  BY <1>1, ExecuteSteps
<1>3. (\E q \in Rel : DeliverCapacity(q) \/ DeliverTraffic(q)) =>
          tt'[r] = tt[r] \/ CaughtUp(tt[r], tt'[r])
  BY <1>1 DEF DeliverCapacity, DeliverTraffic, CaughtUp
<1>4. /\ (\E s \in TargetSteps : SetTargetStep(s)) \/ DeliverRelease => tt' = tt
      /\ (\E q \in Rel, c \in Cluster : DeploymentProgress(q, c)) => tt' = tt
      /\ (\E q \in Rel : \E found \in SUBSET Deployed(q) : \E scaled \in SUBSET found :
             CapacitySync(q, found, scaled)) => tt' = tt
  BY DEF SetTargetStep, DeliverRelease, DeploymentProgress, CapacitySync
<1>5. ASSUME NEW q \in Rel, NEW gone, NEW unpatched \in [Rel -> [Cluster -> 0 .. Total]],
             TrafficSync(q, gone, unpatched)
      PROVE  tt'[r] = tt[r] \/
                \E report \in Lists(Nat) :
                   /\ Reported(tt[r], tt'[r], report)
                   /\ "podpatch" \notin Faults =>
                         \A c \in Cluster : report[c] = 0 \/ (report[c] = Achieved(r, c, 0) /\ LabelsMove(c))
  BY <1>5, RelabelSteps
<1> QED
  BY <1>2, <1>3, <1>4, <1>5, StepCases

LEMMA ReleaseSteps ==
    ASSUME Forward, Base, [Next]_vars
    PROVE  \/ rel' = rel
           \/ CaughtUp(rel, rel')
           \/ \E s \in TargetSteps : Last(rel).target < s /\ rel' = Append(rel, [Last(rel) EXCEPT !.target = s])
           \/ \E k \in Phases : Blocked(k) /\ rel' = Append(rel, ConditionsPatch(k))
           \/ SeenComplete /\ rel' = Append(rel, WrapUpPatch)
<1>1. TypeOK
  BY DEF Base
<1>2. (\E sent \in BOOLEAN : Execute(sent)) =>
          \/ rel' = rel
          \/ \E k \in Phases : Blocked(k) /\ rel' = Append(rel, ConditionsPatch(k))
          \/ SeenComplete /\ rel' = Append(rel, WrapUpPatch)
  BY <1>1, ExecuteSteps
<1>3. DeliverRelease => CaughtUp(rel, rel')
  BY DEF DeliverRelease, CaughtUp
<1>4. ASSUME NEW s \in TargetSteps, SetTargetStep(s)
      PROVE  Last(rel).target < s /\ rel' = Append(rel, [Last(rel) EXCEPT !.target = s])
  BY <1>4 DEF SetTargetStep, Forward
<1>5. /\ (\E q \in Rel, c \in Cluster : DeploymentProgress(q, c)) => rel' = rel
      /\ (\E q \in Rel : \E gone \in SUBSET Cluster, unpatched \in [Rel -> [Cluster -> 0 .. Total]] :
             TrafficSync(q, gone, unpatched)) => rel' = rel
      /\ (\E q \in Rel : \E found \in SUBSET Deployed(q) : \E scaled \in SUBSET found :
             CapacitySync(q, found, scaled)) => rel' = rel
      /\ (\E r \in Rel : DeliverCapacity(r) \/ DeliverTraffic(r)) => rel' = rel
  BY DEF DeploymentProgress, TrafficSync, CapacitySync, DeliverCapacity, DeliverTraffic
<1> QED
  BY <1>2, <1>3, <1>4, <1>5, StepCases

LEMMA PatchTarget ==
    ASSUME TypeOK, NEW conds, NEW achieved, NEW complete
    PROVE  LET v == StatusPatch(conds, achieved, complete)
           IN  /\ v.target = Last(rel).target /\ v.conds = conds
               /\ v.achieved = IF achieved = NoStep THEN Last(rel).achieved ELSE achieved
               /\ v.state = AsReleaseStrategyState(conds, Head(rel).target, HasIncumbent,
                                                   Head(rel).target = LastStep)
<1>1. Last(rel) \in ReleaseVersion
  BY HistoryLemma DEF TypeOK
<1> DEFINE state == AsReleaseStrategyState(conds, Head(rel).target, HasIncumbent,
                                           Head(rel).target = LastStep)
<1> HIDE DEF state
<1>2. StatusPatch(conds, achieved, complete) =
         [Last(rel) EXCEPT !.conds = conds, !.state = state,
             !.achieved = IF achieved = NoStep THEN Last(rel).achieved ELSE achieved,
             !.complete = complete]
  BY DEF StatusPatch, state
<1> QED
  BY <1>1, <1>2 DEF ReleaseVersion, state

\* The target step never goes back, in the cache no more than on the server.
LEMMA TargetsKeepRising ==
    ASSUME Forward, Base, TargetsRise, [Next]_vars
    PROVE  TargetsRise' /\ Ahead' \subseteq Ahead
<1>1. TypeOK /\ rel \in History(ReleaseVersion)
  BY DEF Base, TypeOK
<1>2. \A i \in Versions(rel) : rel[i].target \in Nat
  <2>1. \A v \in ReleaseVersion : v.target \in Nat
    BY DEF ReleaseVersion
  <2> QED
    BY <1>1, <2>1, VersionEnds
<1>3. ASSUME Len(rel) > 1, rel' = Tail(rel)
      PROVE  TargetsRise' /\ Head(rel).target <= Head(rel').target /\ Head(rel').target \in Nat
  <2>1. /\ Head(rel') = rel[2] /\ 2 \in Versions(rel) /\ 1 \in Versions(rel) /\ rel[1] = Head(rel)
        /\ Versions(rel) \subseteq Nat /\ Versions(rel') \subseteq Nat
        /\ \A i \in Versions(rel') : i + 1 \in Versions(rel) /\ rel'[i] = rel[i + 1]
    BY <1>1, <1>3, TailVersions, VersionEnds
  <2>2. TargetsRise'
    BY <2>1 DEF TargetsRise
  <2> QED
    BY <1>2, <2>1, <2>2 DEF TargetsRise
<1>4. ASSUME NEW v \in ReleaseVersion, Last(rel).target <= v.target, rel' = Append(rel, v)
      PROVE  TargetsRise' /\ Head(rel') = Head(rel)
  <2>1. /\ Len(rel') = Len(rel) + 1 /\ Head(rel') = Head(rel)
        /\ \A i \in Versions(rel) : i \in Versions(rel') /\ rel'[i] = rel[i]
        /\ \A i \in Versions(rel') : i \in Versions(rel) \/ (i = Len(rel') /\ rel'[i] = v)
    <3>1. v \in ReleaseVersion /\ Appended(rel, rel', v)
      BY <1>4 DEF Appended
    <3> QED
      BY <1>1, <3>1, AppendVersions
  <2>2. /\ Len(rel) \in Versions(rel) /\ rel[Len(rel)] = Last(rel) /\ Len(rel) \in Nat
        /\ \A i \in Versions(rel) : i <= Len(rel) /\ i \in Nat
    BY <1>1, VersionEnds, HistoryLemma
  <2>3. v.target \in Nat
    BY DEF ReleaseVersion
  <2>4. \A i \in Versions(rel) : rel[i].target <= v.target
    BY <1>2, <1>4, <2>2, <2>3 DEF TargetsRise
  <2> QED
    BY <2>1, <2>2, <2>3, <2>4 DEF TargetsRise
<1>5. TargetsRise' /\ Head(rel).target <= Head(rel').target /\ Head(rel').target \in Nat
  <2>1. Head(rel).target \in Nat /\ Last(rel).target \in Nat /\ Last(rel) \in ReleaseVersion
    <3>1. Head(rel) \in ReleaseVersion /\ Last(rel) \in ReleaseVersion
      BY <1>1, HistoryLemma
    <3> QED
      BY <3>1 DEF ReleaseVersion
  <2>2. CASE rel' = rel
    BY <2>1, <2>2 DEF TargetsRise, Versions
  <2>3. CASE CaughtUp(rel, rel')
    BY <1>3, <2>3 DEF CaughtUp
  <2>4. ASSUME NEW s \in TargetSteps, Last(rel).target < s,
               rel' = Append(rel, [Last(rel) EXCEPT !.target = s])
        PROVE  TargetsRise' /\ Head(rel') = Head(rel)
    <3>1. [Last(rel) EXCEPT !.target = s] \in ReleaseVersion /\ [Last(rel) EXCEPT !.target = s].target = s
          /\ s \in Nat
      BY <2>1, ParameterAssumption DEF ReleaseVersion
    <3>2. Last(rel).target <= s
      BY <2>1, <2>4, <3>1
    <3> QED
      BY <1>4, <2>4, <3>1, <3>2
  <2>5. ASSUME NEW k \in Phases, rel' = Append(rel, ConditionsPatch(k))
        PROVE  TargetsRise' /\ Head(rel') = Head(rel)
    <3>1. ConditionsPatch(k) \in ReleaseVersion
      BY <1>1, ConditionsPatchType
    <3>2. ConditionsPatch(k).target = Last(rel).target
      BY <1>1, PatchTarget DEF ConditionsPatch
    <3> QED
      BY <1>4, <2>1, <2>5, <3>1, <3>2
  <2>6. ASSUME rel' = Append(rel, WrapUpPatch)
        PROVE  TargetsRise' /\ Head(rel') = Head(rel)
    <3>1. WrapUpPatch \in ReleaseVersion
      BY <1>1, WrapUpPatchType
    <3>2. WrapUpPatch.target = Last(rel).target
      BY <1>1, PatchTarget DEF WrapUpPatch
    <3> QED
      BY <1>4, <2>1, <2>6, <3>1, <3>2
  <2>7. \/ TargetsRise' /\ Head(rel').target = Head(rel).target
        \/ TargetsRise' /\ Head(rel).target <= Head(rel').target /\ Head(rel').target \in Nat
    <3>1. CASE \E s \in TargetSteps : /\ Last(rel).target < s
                                     /\ rel' = Append(rel, [Last(rel) EXCEPT !.target = s])
      BY <2>4, <3>1
    <3>2. CASE \E k \in Phases : Blocked(k) /\ rel' = Append(rel, ConditionsPatch(k))
      BY <2>5, <3>2
    <3> QED
      BY <2>2, <2>3, <2>6, <3>1, <3>2, ReleaseSteps
  <2> QED
    BY <2>1, <2>7
<1>6. Ahead' \subseteq Ahead
  <2>1. Head(rel).target \in Nat
    BY <1>1, <1>2, VersionEnds
  <2>2. LastStep \in Int /\ LastStep' = LastStep
    BY StrategyAssumption DEF LastStep
  <2> QED
    BY <1>5, <2>1, <2>2 DEF Ahead
<1> QED
  BY <1>5, <1>6

LEMMA MetFacts ==
    ASSUME Base, NEW c \in Cluster
    PROVE  LET step == Step(Head(rel).target)
           IN  /\ Met(ContenderCapacity) =>
                     /\ Head(ct["contender"]).spec[c] = step.cc
                     /\ Head(ct["contender"]).status[c] = Replicas(step.cc)
               /\ Met(ContenderTraffic) =>
                     /\ Head(tt["contender"]).spec[c] = step.tc
                     /\ Head(tt["contender"]).status[c] >= step.tc
               /\ HasIncumbent /\ Met(IncumbentTraffic) => Head(tt["incumbent"]).spec[c] = step.ti
               /\ HasIncumbent /\ Met(IncumbentCapacity) =>
                     /\ Head(ct["incumbent"]).spec[c] = step.ci
                     /\ Head(ct["incumbent"]).status[c] = Replicas(step.ci)
<1> DEFINE step == Step(Head(rel).target)
<1>1. /\ Met(ContenderCapacity) = CapacityMet(Head(ct["contender"]), step.cc)
      /\ Met(ContenderTraffic) = ContenderTrafficMet(Head(tt["contender"]), step.tc)
      /\ Met(IncumbentTraffic) = IncumbentTrafficMet(Head(tt["incumbent"]), step.ti)
      /\ Met(IncumbentCapacity) = CapacityMet(Head(ct["incumbent"]), step.ci)
  BY DEF Met, Installation, ContenderCapacity, ContenderTraffic, IncumbentTraffic, IncumbentCapacity
<1>2. \A r \in Rel : Listed(Head(ct[r]).spec) = Cluster /\ Listed(Head(tt[r]).spec) = Cluster
  BY BaseObjects, ObjectEnds
<1>3. "contender" \in Rel /\ (HasIncumbent => "incumbent" \in Rel)
  BY RelFacts
<1> HIDE DEF step
<1>4. ASSUME Met(ContenderCapacity)
      PROVE  /\ Head(ct["contender"]).spec[c] = step.cc
             /\ Head(ct["contender"]).status[c] = Replicas(step.cc)
  BY <1>1, <1>2, <1>3, <1>4 DEF CapacityMet
<1>5. ASSUME Met(ContenderTraffic)
      PROVE  /\ Head(tt["contender"]).spec[c] = step.tc
             /\ Head(tt["contender"]).status[c] >= step.tc
  BY <1>1, <1>2, <1>3, <1>5 DEF ContenderTrafficMet
<1>6. ASSUME HasIncumbent, Met(IncumbentTraffic)
      PROVE  Head(tt["incumbent"]).spec[c] = step.ti
  BY <1>1, <1>2, <1>3, <1>6 DEF IncumbentTrafficMet
<1>7. ASSUME HasIncumbent, Met(IncumbentCapacity)
      PROVE  /\ Head(ct["incumbent"]).spec[c] = step.ci
             /\ Head(ct["incumbent"]).status[c] = Replicas(step.ci)
  BY <1>1, <1>2, <1>3, <1>7 DEF CapacityMet
<1> QED
  BY <1>4, <1>5, <1>6, <1>7 DEF step

-----------------------------------------------------------------------------
(* How versions stay in order.                                              *)

LEMMA CaughtUpOrder ==
    ASSUME NEW h \in Object, NEW g, CaughtUp(h, g), NEW c \in Cluster
    PROVE  /\ g \in Object /\ Last(g) = Last(h)
           /\ \A i \in Versions(g) : \E j \in Versions(h) : g[i] = h[j]
           /\ Rising(h, c) => Rising(g, c) /\ Head(h).spec[c] <= Head(g).spec[c]
                              /\ \A j \in Versions(h) : Head(h).spec[c] <= h[j].spec[c]
           /\ Falling(h, c) => Falling(g, c) /\ Head(g).spec[c] <= Head(h).spec[c]
<1>1. /\ g \in Object /\ Last(g) = Last(h) /\ Head(g) = h[2] /\ 2 \in Versions(h)
      /\ \A i \in Versions(g) : i + 1 \in Versions(h) /\ g[i] = h[i + 1]
  BY TailVersions DEF CaughtUp, Object
<1>2. 1 \in Versions(h) /\ h[1] = Head(h) /\ Versions(h) \subseteq Nat \ {0} /\ Versions(g) \subseteq Nat \ {0}
      /\ \A i \in Versions(h) : 1 <= i
  BY <1>1, VersionEnds DEF Object
<1>3. Rising(h, c) => Rising(g, c) /\ Head(h).spec[c] <= Head(g).spec[c]
                      /\ \A j \in Versions(h) : Head(h).spec[c] <= h[j].spec[c]
  BY <1>1, <1>2 DEF Rising
<1>4. Falling(h, c) => Falling(g, c) /\ Head(g).spec[c] <= Head(h).spec[c]
  BY <1>1, <1>2 DEF Falling
<1> QED
  BY <1>1, <1>3, <1>4

LEMMA AtMost ==
    ASSUME NEW x \in Int, NEW y \in Int, NEW z \in Int, x <= y, y <= z
    PROVE  x <= z
OBVIOUS

LEMMA AppendOrder ==
    ASSUME NEW h \in Object, NEW v \in Targets(Uniform), NEW g, Appended(h, g, v), NEW c \in Cluster
    PROVE  /\ g \in Object /\ Last(g) = v /\ Head(g) = Head(h)
           /\ \A i \in Versions(g) : (i \in Versions(h) /\ g[i] = h[i]) \/ g[i] = v
           /\ Rising(h, c) /\ Last(h).spec[c] <= v.spec[c] => Rising(g, c)
           /\ Falling(h, c) /\ v.spec[c] <= Last(h).spec[c] => Falling(g, c)
<1>1. /\ g \in Object /\ Last(g) = v /\ Head(g) = Head(h) /\ Len(g) = Len(h) + 1
      /\ \A i \in Versions(h) : i \in Versions(g) /\ g[i] = h[i]
      /\ \A i \in Versions(g) : i \in Versions(h) \/ (i = Len(g) /\ g[i] = v)
  BY AppendVersions DEF Object
<1>2. /\ Len(h) \in Versions(h) /\ h[Len(h)] = Last(h) /\ Len(h) \in Nat
      /\ \A i \in Versions(h) : i <= Len(h) /\ i \in Nat
  BY VersionEnds, HistoryLemma DEF Object
<1>3. v.spec[c] \in Int /\ v.spec[c] <= v.spec[c] /\ \A i \in Versions(h) : h[i].spec[c] \in Int
  <2>1. PICK p \in 0 .. 100 : v.spec = [b \in Cluster |-> p]
    BY DEF Targets, Uniform
  <2>2. v.spec[c] = p
    BY <2>1
  <2> QED
    BY <2>2, ObjectValues
<1>4. ASSUME NEW i \in Versions(g), NEW j \in Versions(g), i <= j, j \in Versions(h)
      PROVE  i \in Versions(h)
  BY <1>1, <1>2, <1>4
<1>5. ASSUME Rising(h, c), Last(h).spec[c] <= v.spec[c]
      PROVE  Rising(g, c)
  <2>1. ASSUME NEW i \in Versions(h)
        PROVE  h[i].spec[c] <= v.spec[c]
    <3>1. h[i].spec[c] <= h[Len(h)].spec[c]
      BY <1>2, <1>5 DEF Rising
    <3>2. h[i].spec[c] <= Last(h).spec[c] /\ Last(h).spec[c] \in Int
      BY <1>2, <1>3, <3>1
    <3> QED
      BY <1>3, <1>5, <3>2, AtMost
  <2> SUFFICES ASSUME NEW i \in Versions(g), NEW j \in Versions(g), i <= j
               PROVE  g[i].spec[c] <= g[j].spec[c]
    BY DEF Rising
  <2>2. CASE j \in Versions(h)
    <3>1. i \in Versions(h) /\ g[i] = h[i] /\ g[j] = h[j]
      BY <1>1, <1>4, <2>2
    <3> QED
      BY <1>5, <2>2, <3>1 DEF Rising
  <2>3. CASE g[j] = v
    <3>1. (i \in Versions(h) /\ g[i] = h[i]) \/ g[i] = v
      BY <1>1
    <3> QED
      BY <1>3, <2>1, <2>3, <3>1
  <2> QED
    BY <1>1, <2>2, <2>3
<1>6. ASSUME Falling(h, c), v.spec[c] <= Last(h).spec[c]
      PROVE  Falling(g, c)
  <2>1. ASSUME NEW i \in Versions(h)
        PROVE  v.spec[c] <= h[i].spec[c]
    <3>1. h[Len(h)].spec[c] <= h[i].spec[c]
      BY <1>2, <1>6 DEF Falling
    <3>2. Last(h).spec[c] <= h[i].spec[c] /\ Last(h).spec[c] \in Int
      BY <1>2, <1>3, <3>1
    <3> QED
      BY <1>3, <1>6, <3>2, AtMost
  <2> SUFFICES ASSUME NEW i \in Versions(g), NEW j \in Versions(g), i <= j
               PROVE  g[j].spec[c] <= g[i].spec[c]
    BY DEF Falling
  <2>2. CASE j \in Versions(h)
    <3>1. i \in Versions(h) /\ g[i] = h[i] /\ g[j] = h[j]
      BY <1>1, <1>4, <2>2
    <3> QED
      BY <1>6, <2>2, <3>1 DEF Falling
  <2>3. CASE g[j] = v
    <3>1. (i \in Versions(h) /\ g[i] = h[i]) \/ g[i] = v
      BY <1>1
    <3> QED
      BY <1>3, <2>1, <2>3, <3>1
  <2> QED
    BY <1>1, <2>2, <2>3
<1> QED
  BY <1>1, <1>5, <1>6

\* A version more, with the value x and the status y in cluster c.
Extended(h, g, c, x, y) ==
    /\ g \in Object /\ Head(g) = Head(h) /\ Last(g).spec[c] = x
    /\ \A i \in Versions(g) :
          (i \in Versions(h) /\ g[i] = h[i]) \/ (g[i].spec[c] = x /\ g[i].status[c] = y)

\* A patch, with the value it writes.
LEMMA PatchOrder ==
    ASSUME NEW h \in Object, NEW x \in 0 .. 100, NEW g, Patched(h, g, x), NEW c \in Cluster
    PROVE  /\ Extended(h, g, c, x, Last(h).status[c])
           /\ Rising(h, c) /\ Last(h).spec[c] <= x => Rising(g, c)
           /\ Falling(h, c) /\ x <= Last(h).spec[c] => Falling(g, c)
<1> DEFINE v == [spec |-> Everywhere(x), status |-> Last(h).status]
<1>1. v \in Targets(Uniform) /\ v.spec[c] = x /\ v.status[c] = Last(h).status[c]
  <2>1. Last(h) \in Targets(Uniform)
    BY HistoryLemma DEF Object
  <2> QED
    BY <2>1 DEF Targets, Uniform, Everywhere
<1>2. Appended(h, g, v)
  BY DEF Patched, Appended
<1> HIDE DEF v
<1>3. /\ g \in Object /\ Last(g) = v /\ Head(g) = Head(h)
      /\ \A i \in Versions(g) : (i \in Versions(h) /\ g[i] = h[i]) \/ g[i] = v
      /\ Rising(h, c) /\ Last(h).spec[c] <= v.spec[c] => Rising(g, c)
      /\ Falling(h, c) /\ v.spec[c] <= Last(h).spec[c] => Falling(g, c)
  BY <1>1, <1>2, AppendOrder
<1> QED
  BY <1>1, <1>3 DEF Extended

\* A report leaves the value of the cached version.
LEMMA ReportOrder ==
    ASSUME NEW h \in Object, NEW report \in Lists(Nat), NEW g, Reported(h, g, report), NEW c \in Cluster
    PROVE  /\ Extended(h, g, c, Head(h).spec[c], report[c]) /\ Last(h) = Head(h)
           /\ Rising(h, c) => Rising(g, c)
           /\ Falling(h, c) => Falling(g, c)
<1> DEFINE v == [spec |-> Head(h).spec, status |-> report]
<1>1. Head(h) \in Targets(Uniform)
  BY HistoryLemma DEF Object
<1>2. v \in Targets(Uniform) /\ v.spec[c] = Head(h).spec[c] /\ v.status[c] = report[c]
  BY <1>1 DEF Targets
<1>3. Appended(h, g, v)
  BY DEF Reported, Appended
<1>4. Last(h) = Head(h)
  BY VersionEnds DEF Reported, Object
<1>5. Head(h).spec[c] \in 0 .. 100
  BY ObjectEnds
<1> HIDE DEF v
<1>6. /\ g \in Object /\ Last(g) = v /\ Head(g) = Head(h)
      /\ \A i \in Versions(g) : (i \in Versions(h) /\ g[i] = h[i]) \/ g[i] = v
      /\ Rising(h, c) /\ Last(h).spec[c] <= v.spec[c] => Rising(g, c)
      /\ Falling(h, c) /\ v.spec[c] <= Last(h).spec[c] => Falling(g, c)
  BY <1>2, <1>3, AppendOrder
<1>7. Last(h).spec[c] <= v.spec[c] /\ v.spec[c] <= Last(h).spec[c]
  BY <1>2, <1>4, <1>5
<1> QED
  BY <1>2, <1>4, <1>6, <1>7 DEF Extended

-----------------------------------------------------------------------------
(* Capacity.                                                                *)

\* The percentages of the step worked on, against those of the steps ahead.
LEMMA PlannedCapacity ==
    ASSUME Forward, CapacityPlan, Base, TargetsRise, StepExists, [Next]_vars
    PROVE  LET s == Head(rel).target
           IN  /\ Step(s).cc \in 0 .. 100 /\ Step(s).ci \in 0 .. 100
               /\ Step(s).cc + Step(s).ci >= 100
               /\ s \in Ahead
               /\ \A t \in Ahead' : t \in Ahead /\ Step(s).cc <= Step(t).cc /\ Step(t).ci <= Step(s).ci
<1> DEFINE s == Head(rel).target
<1>1. s \in Ahead /\ s \in 0 .. LastStep /\ s \in Nat /\ LastStep \in Nat
  BY CurrentStep DEF Base
<1>2. Ahead' \subseteq Ahead
  BY TargetsKeepRising
<1>3. Step(s).cc \in 0 .. 100 /\ Step(s).ci \in 0 .. 100
  BY <1>1, StepType DEF StepExists
<1>4. \A t \in Ahead : t \in s .. LastStep
  BY <1>1 DEF Ahead
<1> QED
  BY <1>1, <1>2, <1>3, <1>4 DEF CapacityPlan

LEMMA PodTypes ==
    ASSUME TypeOK, NEW r \in Rel, NEW c \in Cluster
    PROVE  /\ dep[r][c].want \in Nat /\ dep[r][c].avail \in Nat /\ dep[r][c].serving \in Nat
           /\ dep[r][c].serving <= dep[r][c].avail
BY TrafficTypes DEF Deployment

\* A Deployment that has no more pods than it wants, and wants no more than it
\* is asked for, loses none.
LEMMA ContenderPods ==
    ASSUME Forward, Base, [Next]_vars, NEW c \in Cluster, ContenderGrows(c)
    PROVE  LET d == dep["contender"][c]
               e == dep'["contender"][c]
           IN  /\ d.avail <= e.avail /\ e.avail <= e.want
               /\ e.want <= Replicas(Head(ct["contender"]).spec[c])
               /\ e.avail \in Nat /\ e.want \in Nat
<1> DEFINE n == Replicas(Head(ct["contender"]).spec[c])
           d == dep["contender"][c]
           e == dep'["contender"][c]
<1>1. TypeOK /\ "contender" \in Rel
  BY RelFacts DEF Base
<1>2. d.avail \in Nat /\ d.want \in Nat
  BY <1>1, PodTypes
<1>3. n \in Nat
  <2>1. ct["contender"] \in Object
    BY <1>1, BaseObjects
  <2>2. Head(ct["contender"]).spec[c] \in 0 .. 100
    BY <2>1, ObjectEnds
  <2> QED
    BY <2>2, PercentIsNat, ReplicasBounds
<1>4. d.avail <= d.want /\ d.want <= n
  BY DEF ContenderGrows
<1>5. Grows(d, e) \/ Shrinks(d, e) \/ Scaled(d, e, n) \/ (e.want = d.want /\ e.avail = d.avail)
  BY <1>1, PodSteps DEF PodsMove, KeepsPods
<1> HIDE DEF n, d, e
<1>6. /\ d.avail <= e.avail /\ e.avail <= e.want /\ e.want <= n
      /\ e.avail \in Nat /\ e.want \in Nat
  BY <1>2, <1>3, <1>4, <1>5 DEF Grows, Shrinks, Scaled
<1> QED
  BY <1>6 DEF n, d, e

LEMMA ContenderGrowsStep ==
    ASSUME Forward, CapacityPlan, Base, TargetsRise, [Next]_vars, NEW c \in Cluster, ContenderGrows(c)
    PROVE  ContenderGrows(c)'
<1> DEFINE h == ct["contender"]
           g == ct'["contender"]
           d == dep["contender"][c]
           e == dep'["contender"][c]
           Goal == /\ g \in Object /\ Rising(g, c) /\ Head(h).spec[c] <= Head(g).spec[c]
                   /\ \A t \in Ahead' : Last(g).spec[c] <= Step(t).cc
                   /\ \A i \in Versions(g) : g[i].status[c] <= e.avail
<1>1. TypeOK /\ "contender" \in Rel /\ h \in Object
  BY RelFacts, BaseObjects DEF Base
<1>2. d.avail \in Nat /\ d.avail <= e.avail /\ e.avail <= e.want /\ e.want <= Replicas(Head(h).spec[c])
      /\ e.avail \in Nat /\ e.want \in Nat
  BY <1>1, ContenderPods, PodTypes
<1>3. /\ Rising(h, c) /\ \A t \in Ahead : Last(h).spec[c] <= Step(t).cc
      /\ \A i \in Versions(h) : h[i].status[c] <= d.avail
  BY DEF ContenderGrows
<1>4. \A i \in Versions(h) : h[i].status[c] <= e.avail
  <2> SUFFICES ASSUME NEW i \in Versions(h) PROVE h[i].status[c] <= e.avail
    OBVIOUS
  <2>1. h[i].status[c] \in Int /\ h[i].status[c] <= d.avail
    BY <1>1, <1>3, ObjectValues DEF Absent
  <2> QED
    BY <1>2, <2>1
<1>5. Ahead' \subseteq Ahead
  BY TargetsKeepRising
<1>6. Head(h).spec[c] \in 0 .. 100 /\ Last(h).spec[c] \in 0 .. 100
      /\ Last(h).status[c] <= e.avail
  BY <1>1, <1>4, ObjectEnds, VersionEnds DEF Object
<1>7. ASSUME g = h PROVE Goal
  BY <1>1, <1>3, <1>4, <1>5, <1>6, <1>7
<1>8. ASSUME CaughtUp(h, g) PROVE Goal
  <2> HIDE DEF h, g
  <2> QED
    BY <1>1, <1>3, <1>4, <1>5, <1>8, CaughtUpOrder
<1>9. ASSUME NEW report \in Lists(Nat), Reported(h, g, report), report[c] \in {Absent, d.avail}
      PROVE  Goal
  <2>1. report[c] <= e.avail
    BY <1>2, <1>9 DEF Absent
  <2> HIDE DEF h, g
  <2>2. Extended(h, g, c, Head(h).spec[c], report[c]) /\ Rising(g, c) /\ Last(h) = Head(h)
    BY <1>1, <1>3, <1>9, ReportOrder
  <2> QED
    BY <1>3, <1>4, <1>5, <1>6, <2>1, <2>2 DEF Extended
<1>10. ASSUME PatchesCapacity("contender") PROVE Goal
  <2> DEFINE x == Step(Head(rel).target).cc
  <2>1. StepExists /\ g = PatchSpec(h, x)
    BY <1>10 DEF PatchesCapacity
  <2>2. x \in 0 .. 100 /\ Last(h).spec[c] <= x /\ \A t \in Ahead' : x <= Step(t).cc
    BY <1>3, <2>1, PlannedCapacity
  <2> HIDE DEF x, h, g
  <2>3. CASE Patched(h, g, x)
    <3>1. Extended(h, g, c, x, Last(h).status[c]) /\ Rising(g, c)
      BY <1>1, <1>3, <2>2, <2>3, PatchOrder
    <3> QED
      BY <1>4, <1>6, <2>2, <3>1 DEF Extended
  <2> QED
    BY <1>1, <1>7, <2>1, <2>2, <2>3, PatchCases
<1>11. Goal
  <2> HIDE DEF Goal
  <2> QED
    BY <1>1, <1>7, <1>8, <1>9, <1>10, CapacitySteps
<1>12. e.want <= Replicas(Head(g).spec[c])
  <2> DEFINE p == Head(h).spec[c]
             q == Head(g).spec[c]
  <2>1. p \in Nat /\ q \in Nat /\ p <= q
    <3>1. g \in Object /\ Head(h).spec[c] <= Head(g).spec[c]
      BY <1>11
    <3> HIDE DEF g
    <3>2. Head(g).spec[c] \in 0 .. 100
      BY <3>1, ObjectEnds
    <3>3. p \in 0 .. 100 /\ q \in 0 .. 100 /\ p <= q
      BY <1>6, <3>1, <3>2
    <3> HIDE DEF p, q
    <3> QED
      BY <3>3, PercentIsNat
  <2>2. e.want \in Nat /\ e.want <= Replicas(p)
    BY <1>2
  <2> HIDE DEF p, q
  <2>3. Replicas(p) <= Replicas(q) /\ Replicas(p) \in Nat /\ Replicas(q) \in Nat
    BY <2>1, ReplicasMonotone, ReplicasBounds
  <2>4. e.want <= Replicas(q)
    BY <2>2, <2>3
  <2> QED
    BY <2>4 DEF q
<1> QED
  BY <1>2, <1>11, <1>12 DEF ContenderGrows, Versions, Rising, Last

\* A Deployment that has no fewer pods than it wants, and wants no fewer than
\* it is asked for, gains none.
LEMMA IncumbentPods ==
    ASSUME Forward, Base, [Next]_vars, NEW c \in Cluster, HasIncumbent, IncumbentShrinks(c)
    PROVE  LET d == dep["incumbent"][c]
               e == dep'["incumbent"][c]
           IN  /\ e.avail <= d.avail /\ e.want <= e.avail
               /\ Replicas(Head(ct["incumbent"]).spec[c]) <= e.want
               /\ e.avail \in Nat /\ e.want \in Nat
<1> DEFINE n == Replicas(Head(ct["incumbent"]).spec[c])
           d == dep["incumbent"][c]
           e == dep'["incumbent"][c]
<1>1. TypeOK /\ "incumbent" \in Rel
  BY RelFacts DEF Base
<1>2. d.avail \in Nat /\ d.want \in Nat
  BY <1>1, PodTypes
<1>3. n \in Nat
  <2>1. ct["incumbent"] \in Object
    BY <1>1, BaseObjects
  <2>2. Head(ct["incumbent"]).spec[c] \in 0 .. 100
    BY <2>1, ObjectEnds
  <2> QED
    BY <2>2, PercentIsNat, ReplicasBounds
<1>4. d.want <= d.avail /\ n <= d.want
  BY DEF IncumbentShrinks
<1>5. Grows(d, e) \/ Shrinks(d, e) \/ Scaled(d, e, n) \/ (e.want = d.want /\ e.avail = d.avail)
  BY <1>1, PodSteps DEF PodsMove, KeepsPods
<1> HIDE DEF n, d, e
<1>6. /\ e.avail <= d.avail /\ e.want <= e.avail /\ n <= e.want
      /\ e.avail \in Nat /\ e.want \in Nat
  BY <1>2, <1>3, <1>4, <1>5 DEF Grows, Shrinks, Scaled
<1> QED
  BY <1>6 DEF n, d, e

\* The executor asks the incumbent for less only after it has seen the pods of
\* the contender that make up for it.
LEMMA ContenderCovers ==
    ASSUME Forward, CapacityPlan, Base, TargetsRise, [Next]_vars, NEW c \in Cluster, ContenderGrows(c),
           StepExists, Met(ContenderCapacity)
    PROVE  Replicas(Step(Head(rel).target).ci) + dep["contender"][c].avail >= Total
<1> DEFINE step == Step(Head(rel).target)
           n == dep["contender"][c].avail
<1>1. TypeOK /\ "contender" \in Rel /\ ct["contender"] \in Object
  BY RelFacts, BaseObjects DEF Base
<1>2. step.cc \in Nat /\ step.ci \in Nat /\ step.cc + step.ci >= 100
  BY PlannedCapacity
<1>3. Head(ct["contender"]).status[c] = Replicas(step.cc)
  BY MetFacts
<1>4. Head(ct["contender"]).status[c] <= n
  BY <1>1, VersionEnds DEF ContenderGrows, Object
<1>5. n \in Nat
  BY <1>1, PodTypes
<1> HIDE DEF step, n
<1>6. Replicas(step.cc) + Replicas(step.ci) >= Total
  BY <1>2, ReplicasCover
<1>7. Replicas(step.cc) \in Nat /\ Replicas(step.ci) \in Nat /\ Total \in Nat
  BY <1>2, ReplicasBounds, ParameterAssumption
<1>8. Replicas(step.ci) + n >= Total
  BY <1>3, <1>4, <1>5, <1>6, <1>7
<1> QED
  BY <1>8 DEF step, n

LEMMA IncumbentShrinksStep ==
    ASSUME Forward, CapacityPlan, Base, TargetsRise, [Next]_vars, NEW c \in Cluster, ContenderGrows(c),
           HasIncumbent, IncumbentShrinks(c)
    PROVE  IncumbentShrinks(c)'
<1> DEFINE h == ct["incumbent"]
           g == ct'["incumbent"]
           d == dep["incumbent"][c]
           e == dep'["incumbent"][c]
           n == dep'["contender"][c].avail
           Good(v) == /\ v.status[c] # Absent => e.avail <= v.status[c]
                      /\ Replicas(v.spec[c]) + n >= Total
           Goal == /\ g \in Object /\ Falling(g, c) /\ Head(g).spec[c] <= Head(h).spec[c]
                   /\ \A t \in Ahead' : Step(t).ci <= Last(g).spec[c]
                   /\ \A i \in Versions(g) : Good(g[i])
<1>1. TypeOK /\ "incumbent" \in Rel /\ "contender" \in Rel /\ h \in Object
  BY RelFacts, BaseObjects DEF Base
<1>2. d.avail \in Nat /\ e.avail <= d.avail /\ e.want <= e.avail /\ Replicas(Head(h).spec[c]) <= e.want
      /\ e.avail \in Nat /\ e.want \in Nat
  BY <1>1, IncumbentPods, PodTypes
<1>3. /\ Falling(h, c) /\ \A t \in Ahead : Step(t).ci <= Last(h).spec[c]
      /\ d.avail <= Total
      /\ \A i \in Versions(h) :
            /\ h[i].status[c] # Absent => d.avail <= h[i].status[c]
            /\ Replicas(h[i].spec[c]) + dep["contender"][c].avail >= Total
  BY DEF IncumbentShrinks
<1>4. n \in Nat /\ dep["contender"][c].avail \in Nat /\ dep["contender"][c].avail <= n /\ Total \in Nat
  BY <1>1, ContenderPods, PodTypes, ParameterAssumption
<1>5. \A i \in Versions(h) : Good(h[i])
  <2> SUFFICES ASSUME NEW i \in Versions(h) PROVE Good(h[i])
    OBVIOUS
  <2> DEFINE s == h[i].status[c]
             m == Replicas(h[i].spec[c])
  <2>1. s \in Int /\ m \in Nat
    <3>1. h \in Object /\ i \in Versions(h)
      BY <1>1
    <3> HIDE DEF h
    <3>2. h[i].spec[c] \in 0 .. 100 /\ s \in Nat \union {Absent}
      BY <3>1, ObjectValues
    <3> HIDE DEF s
    <3>3. s \in Int
      BY <3>2 DEF Absent
    <3> QED
      BY <3>2, <3>3, PercentIsNat, ReplicasBounds
  <2>2. (s # Absent => d.avail <= s) /\ m + dep["contender"][c].avail >= Total
    BY <1>3
  <2> HIDE DEF s, m, n, d, e
  <2>3. (s # Absent => e.avail <= s) /\ m + n >= Total
    BY <1>2, <1>4, <2>1, <2>2
  <2> QED
    BY <2>3 DEF s, m
<1>6. Ahead' \subseteq Ahead
  BY TargetsKeepRising
<1> HIDE DEF Good
<1>7. Head(h).spec[c] \in 0 .. 100 /\ Last(h).spec[c] \in 0 .. 100 /\ Good(Head(h)) /\ Good(Last(h))
  <2> HIDE DEF h
  <2>1. 1 \in Versions(h) /\ h[1] = Head(h) /\ Len(h) \in Versions(h) /\ h[Len(h)] = Last(h)
    BY <1>1, VersionEnds DEF Object
  <2> QED
    BY <1>1, <1>5, <2>1, ObjectEnds
<1>8. ASSUME g = h PROVE Goal
  BY <1>1, <1>3, <1>5, <1>6, <1>7, <1>8, SMTT(30)
<1>9. ASSUME CaughtUp(h, g) PROVE Goal
  <2> HIDE DEF h, g
  <2> QED
    BY <1>1, <1>3, <1>5, <1>6, <1>9, CaughtUpOrder
<1>10. ASSUME NEW report \in Lists(Nat), Reported(h, g, report), report[c] \in {Absent, d.avail}
       PROVE  Goal
  <2>1. report[c] # Absent => e.avail <= report[c]
    BY <1>2, <1>10
  <2> HIDE DEF h, g
  <2>2. Extended(h, g, c, Head(h).spec[c], report[c]) /\ Falling(g, c) /\ Last(h) = Head(h)
    BY <1>1, <1>3, <1>10, ReportOrder
  <2>3. \A i \in Versions(g) : Good(g[i])
    BY <1>5, <1>7, <2>1, <2>2 DEF Extended, Good
  <2> QED
    BY <1>3, <1>6, <1>7, <2>2, <2>3 DEF Extended
<1>11. ASSUME PatchesCapacity("incumbent") PROVE Goal
  <2> DEFINE x == Step(Head(rel).target).ci
  <2>1. StepExists /\ g = PatchSpec(h, x) /\ Met(ContenderCapacity)
    BY <1>11 DEF PatchesCapacity
  <2>2. x \in 0 .. 100 /\ x <= Last(h).spec[c] /\ \A t \in Ahead' : Step(t).ci <= x
    BY <1>3, <2>1, PlannedCapacity
  <2>3. Replicas(x) + n >= Total
    <3>1. Replicas(x) + dep["contender"][c].avail >= Total
      BY <2>1, ContenderCovers
    <3>2. Replicas(x) \in Nat
      BY <2>2, ReplicasBounds
    <3> HIDE DEF x, n
    <3> QED
      BY <1>4, <3>1, <3>2
  <2> HIDE DEF x, h, g
  <2>4. CASE Patched(h, g, x)
    <3>1. Extended(h, g, c, x, Last(h).status[c]) /\ Falling(g, c)
      BY <1>1, <1>3, <2>2, <2>4, PatchOrder
    <3>2. \A i \in Versions(g) : Good(g[i])
      BY <1>5, <1>7, <2>3, <3>1 DEF Extended, Good
    <3> QED
      BY <1>7, <2>2, <3>1, <3>2 DEF Extended
  <2> QED
    BY <1>1, <1>8, <2>1, <2>2, <2>4, PatchCases
<1>12. Goal
  <2> HIDE DEF Goal
  <2> QED
    BY <1>1, <1>8, <1>9, <1>10, <1>11, CapacitySteps
<1>13. Replicas(Head(g).spec[c]) <= e.want
  <2> DEFINE p == Head(h).spec[c]
             q == Head(g).spec[c]
  <2>1. p \in Nat /\ q \in Nat /\ q <= p
    <3>1. g \in Object /\ Head(g).spec[c] <= Head(h).spec[c]
      BY <1>12
    <3> HIDE DEF g
    <3>2. Head(g).spec[c] \in 0 .. 100
      BY <3>1, ObjectEnds
    <3> QED
      BY <1>7, <3>1, <3>2
  <2>2. e.want \in Nat /\ Replicas(p) <= e.want
    BY <1>2
  <2> HIDE DEF p, q
  <2>3. Replicas(q) <= Replicas(p) /\ Replicas(p) \in Nat /\ Replicas(q) \in Nat
    BY <2>1, ReplicasMonotone, ReplicasBounds
  <2>4. Replicas(q) <= e.want
    BY <2>2, <2>3
  <2> QED
    BY <2>4 DEF q
<1>14. e.avail <= Total
  BY <1>2, <1>3, <1>4
<1> QED
  BY <1>2, <1>12, <1>13, <1>14 DEF IncumbentShrinks, Versions, Falling, Last, Good

LEMMA CapacityInit == CapacityPlan /\ Init => CapacityInv
<1> SUFFICES ASSUME CapacityPlan, Init PROVE CapacityInv
  OBVIOUS
<1> DEFINE start == [target |-> 0, achieved |-> NoStep, complete |-> FALSE,
                     conds |-> NoConditions, state |-> NoState]
           first == [spec |-> Everywhere(0), status |-> NoReport]
           full  == [spec |-> Everywhere(100), status |-> Everywhere(Total)]
<1>1. /\ "contender" \in Rel /\ (HasIncumbent => "incumbent" \in Rel)
      /\ rel = <<start>> /\ ct["contender"] = <<first>>
      /\ HasIncumbent => ct["incumbent"] = <<full>>
  BY RelFacts DEF Init, Everywhere
<1>2. \A c \in Cluster :
         /\ dep["contender"][c] = [want |-> 0, avail |-> 0, serving |-> 0]
         /\ HasIncumbent => dep["incumbent"][c] = [want |-> Total, avail |-> Total, serving |-> Total]
  BY RelFacts DEF Init
<1>3. \A v : Versions(<<v>>) = {1} /\ <<v>>[1] = v /\ Head(<<v>>) = v /\ Last(<<v>>) = v
  BY DEF Versions, Last
<1>4. TargetsRise
  <2>1. start.target = 0
    OBVIOUS
  <2> HIDE DEF start
  <2> QED
    BY <1>1, <1>3, <2>1 DEF TargetsRise
<1>5. \A t \in Ahead : Step(t).cc \in 0 .. 100 /\ Step(t).ci \in 0 .. 100
  <2>1. \A t \in Ahead : t \in Nat /\ t < Len(Steps)
    BY StrategyAssumption DEF Ahead, LastStep
  <2> QED
    BY <2>1, StepType
<1>6. Replicas(0) = 0 /\ Replicas(100) = Total /\ Total \in Nat
  BY ReplicasWhole, ParameterAssumption
<1>7. ASSUME NEW c \in Cluster PROVE ContenderGrows(c)
  <2>1. first.spec[c] = 0 /\ first.status[c] = -1
    BY DEF Everywhere, NoReport, Absent
  <2> HIDE DEF first
  <2> QED
    BY <1>1, <1>2, <1>3, <1>5, <1>6, <2>1 DEF ContenderGrows, Rising
<1>8. ASSUME NEW c \in Cluster, HasIncumbent PROVE IncumbentShrinks(c)
  <2>1. full.spec[c] = 100 /\ full.status[c] = Total
    BY DEF Everywhere
  <2> HIDE DEF full
  <2> QED
    BY <1>1, <1>2, <1>3, <1>5, <1>6, <1>8, <2>1 DEF IncumbentShrinks, Falling
<1> QED
  BY <1>4, <1>7, <1>8 DEF CapacityInv

LEMMA CapacityInductive ==
    ASSUME Forward, CapacityPlan, Base, CapacityInv, [Next]_vars
    PROVE  CapacityInv'
<1>1. TargetsRise /\ \A c \in Cluster : ContenderGrows(c) /\ (HasIncumbent => IncumbentShrinks(c))
  BY DEF CapacityInv
<1>2. TargetsRise'
  BY <1>1, TargetsKeepRising
<1>3. ASSUME NEW c \in Cluster
      PROVE  ContenderGrows(c)' /\ (HasIncumbent => IncumbentShrinks(c)')
  BY <1>1, ContenderGrowsStep, IncumbentShrinksStep
<1> QED
  BY <1>2, <1>3 DEF CapacityInv

\* A rollout that users only advance never has fewer pods available than the
\* incumbent had, for every strategy whose capacities only shift and always
\* make up a whole, every number of pods, any lag of the caches, and whatever
\* patches, installations, cluster connections and relabellings fail.
THEOREM NoCapacityEverLost ==
    ASSUME Forward, CapacityPlan
    PROVE  Spec => []NoCapacityLoss
<1>1. Init => CapacityInv
  BY CapacityInit
<1>2. TypeOK /\ UniformSpecs /\ CapacityInv /\ [Next]_vars => CapacityInv'
  BY CapacityInductive DEF Base
<1>3. TypeOK /\ UniformSpecs /\ CapacityInv => NoCapacityLoss
  <2> SUFFICES ASSUME TypeOK, UniformSpecs, CapacityInv, HasIncumbent, NEW c \in Cluster
               PROVE  dep["contender"][c].avail + dep["incumbent"][c].avail >= Total
    BY DEF NoCapacityLoss
  <2> DEFINE m == dep["contender"][c].avail
             n == dep["incumbent"][c].avail
             k == Replicas(Head(ct["incumbent"]).spec[c])
  <2>1. "contender" \in Rel /\ "incumbent" \in Rel /\ Base
    BY RelFacts DEF Base
  <2>2. ct["incumbent"] \in Object /\ Head(ct["incumbent"]).spec[c] \in Nat
    <3>1. ct["incumbent"] \in Object
      BY <2>1, BaseObjects
    <3>2. Head(ct["incumbent"]).spec[c] \in 0 .. 100
      BY <3>1, ObjectEnds
    <3> QED
      BY <3>1, <3>2, PercentIsNat
  <2>3. m \in Nat /\ n \in Nat /\ dep["incumbent"][c].want \in Nat /\ k \in Nat /\ Total \in Nat
    BY <2>1, <2>2, PodTypes, ReplicasBounds, ParameterAssumption
  <2>4. IncumbentShrinks(c)
    BY DEF CapacityInv
  <2>5. k <= dep["incumbent"][c].want /\ dep["incumbent"][c].want <= n
    BY <2>4 DEF IncumbentShrinks
  <2>6. k + m >= Total
    BY <2>2, <2>4, VersionEnds DEF IncumbentShrinks, Object
  <2> HIDE DEF k, m, n
  <2>7. m + n >= Total
    BY <2>3, <2>5, <2>6
  <2> QED
    BY <2>7 DEF m, n
<1> QED
  BY <1>1, <1>2, <1>3, TypeCorrect, UniformInductive, PTL DEF Spec

-----------------------------------------------------------------------------
(* Traffic.                                                                 *)

LEMMA PlannedTraffic ==
    ASSUME Forward, TrafficPlan, Base, TargetsRise, StepExists, [Next]_vars
    PROVE  LET s == Head(rel).target
           IN  /\ Step(s).tc \in 0 .. 100 /\ Step(s).ti \in 0 .. 100
               /\ Step(s).cc \in 0 .. 100 /\ Step(s).ci \in 0 .. 100
               /\ Step(s).tc <= Step(s).cc /\ Step(s).ti <= Step(s).ci
               /\ Step(s).tc + Step(s).ti >= 100
               /\ s \in Ahead
               /\ \A t \in Ahead' : t \in Ahead /\ Coarse(Step(s).tc, Step(t).tc) /\ Step(t).ti <= Step(s).ti
<1> DEFINE s == Head(rel).target
<1>1. s \in Ahead /\ s \in 0 .. LastStep /\ s \in Nat /\ LastStep \in Nat
  BY CurrentStep DEF Base
<1>2. Ahead' \subseteq Ahead
  BY TargetsKeepRising
<1>3. /\ Step(s).tc \in 0 .. 100 /\ Step(s).ti \in 0 .. 100
      /\ Step(s).cc \in 0 .. 100 /\ Step(s).ci \in 0 .. 100
  BY <1>1, StepType DEF StepExists
<1>4. \A t \in Ahead : t \in s .. LastStep
  BY <1>1 DEF Ahead
<1> QED
  BY <1>1, <1>2, <1>3, <1>4 DEF TrafficPlan

\* A status left from the weight before does not meet a raised weight.
LEMMA RaiseShows ==
    ASSUME NEW w \in Nat, NEW x \in Nat, NEW A \in Nat, Coarse(w, x), x <= A,
           w < A => 0 < w /\ (2 * (A - w) - 1) * Total < 200
    PROVE  w = x
<1>1. SUFFICES ASSUME w < x, w # 0, (2 * (x - w) - 1) * Total >= 200, (2 * (A - w) - 1) * Total < 200
               PROVE  FALSE
  BY DEF Coarse
<1> DEFINE k == 2 * (x - w) - 1
           m == 2 * (A - w) - 1
<1>2. k \in Nat /\ m \in Nat /\ k <= m
  BY <1>1
<1>3. k * Total >= 200 /\ m * Total < 200 /\ Total \in Nat
  BY <1>1, ParameterAssumption
<1> HIDE DEF k, m
<1>4. k * Total <= m * Total /\ k * Total \in Nat /\ m * Total \in Nat
  BY <1>2, <1>3
<1> QED
  BY <1>3, <1>4

\* The pods a traffic controller works with cover the weights it works with.
LEMMA PodsCoverWeights ==
    ASSUME Base, NEW c \in Cluster, ContenderGains(c),
           HasIncumbent => IncumbentShrinks(c) /\ IncumbentYields(c)
    PROVE  /\ Total * TotalWeight(c) <= 100 * TotalPods(c)
           /\ \A q \in Rel : Weight(q, c) <= TotalWeight(c) /\ Replicas(Weight(q, c)) <= dep[q][c].avail
<1>1. TypeOK /\ "contender" \in Rel
  BY RelFacts DEF Base
<1>2. Total \in Nat
  BY ParameterAssumption
<1> DEFINE w == Weight("contender", c)
           a == dep["contender"][c].avail
<1>3. w \in Nat /\ a \in Nat /\ Weighted("contender", c)
  BY <1>1, RelabelsAll, PodTypes
<1>4. Replicas(w) <= a
  <2>1. tt["contender"] \in Object
    BY <1>1, BaseObjects
  <2> QED
    BY <2>1, VersionEnds DEF ContenderGains, Weight, Object
<1>5. ASSUME NEW p \in Nat, NEW n \in Nat, Replicas(p) <= n
      PROVE  Total * p \in Nat /\ Total * p <= 100 * n
  <2>1. Total * p \in Nat
    BY <1>2
  <2>2. Replicas(p) \in Nat /\ Total * p <= 100 * Replicas(p)
    BY ReplicasBounds
  <2> QED
    BY <1>5, <2>1, <2>2
<1>6. CASE ~HasIncumbent
  <2>1. TotalWeight(c) = w /\ TotalPods(c) = a /\ Rel = {"contender"}
    BY <1>3, <1>6 DEF TotalWeight, TotalPods, Rel
  <2>2. Total * w <= 100 * a
    BY <1>3, <1>4, <1>5
  <2> QED
    BY <1>3, <1>4, <2>1, <2>2
<1>7. CASE HasIncumbent
  <2> DEFINE x == Weight("incumbent", c)
             b == dep["incumbent"][c].avail
             y == Head(ct["incumbent"]).spec[c]
  <2>1. "incumbent" \in Rel
    BY <1>7, RelFacts
  <2>2. x \in Nat /\ b \in Nat /\ Weighted("incumbent", c) /\ y \in Nat /\ dep["incumbent"][c].want \in Nat
    <3>1. y \in Nat
      <4>1. ct["incumbent"] \in Object
        BY <2>1, BaseObjects
      <4>2. y \in 0 .. 100
        BY <4>1, ObjectEnds
      <4> HIDE DEF y
      <4> QED
        BY <4>2
    <3> QED
      BY <1>1, <2>1, <3>1, RelabelsAll, PodTypes
  <2>3. Replicas(x) <= b
    <3>1. ct["incumbent"] \in Object
      BY <2>1, BaseObjects
    <3>2. x <= y
      BY <1>7, <3>1, VersionEnds DEF IncumbentYields, Weight, Object
    <3>3. Replicas(y) <= dep["incumbent"][c].want /\ dep["incumbent"][c].want <= b
      BY <1>7 DEF IncumbentShrinks
    <3> HIDE DEF x, y, b
    <3>4. Replicas(x) <= Replicas(y) /\ Replicas(x) \in Nat /\ Replicas(y) \in Nat
      BY <2>2, <3>2, ReplicasMonotone, ReplicasBounds
    <3> QED
      BY <2>2, <3>3, <3>4
  <2>4. TotalWeight(c) = w + x /\ TotalPods(c) = a + b /\ \A q \in Rel : q \in {"contender", "incumbent"}
    BY <1>1, <1>3, <2>1, <2>2, RelFacts DEF TotalWeight, TotalPods
  <2>5. Total * (w + x) <= 100 * (a + b)
    <3> HIDE DEF w, a, x, b
    <3>1. /\ Total * w \in Nat /\ Total * w <= 100 * a
          /\ Total * x \in Nat /\ Total * x <= 100 * b
      BY <1>3, <1>4, <1>5, <2>2, <2>3
    <3>2. Total * (w + x) = Total * w + Total * x
      BY <1>2, <1>3, <2>2
    <3> QED
      BY <1>3, <2>2, <3>1, <3>2
  <2>6. w <= w + x /\ x <= w + x
    BY <1>3, <2>2
  <2> QED
    BY <1>4, <2>3, <2>4, <2>5, <2>6
<1> QED
  BY <1>6, <1>7

\* Relabelling gives each release its weight's worth of pods.
LEMMA RelabelFloor ==
    ASSUME Base, NEW c \in Cluster, ContenderGains(c),
           HasIncumbent => IncumbentShrinks(c) /\ IncumbentYields(c), NEW q \in Rel
    PROVE  Replicas(Weight(q, c)) <= Target(q, c)
<1>1. TypeOK
  BY DEF Base
<1>2. dep[q][c].avail \in Nat
  BY <1>1, PodTypes
<1>3. Weight(q, c) \in Nat /\ TotalPods(c) \in Nat /\ TotalWeight(c) \in Nat
  BY RelabelsAll
<1> QED
  BY <1>2, <1>3, PodsCoverWeights, ShareFloor DEF Target

\* All that is known of a cluster while the rollout advances.
Advancing(c) ==
    /\ Base /\ TargetsRise /\ ContenderGrows(c) /\ ContenderGains(c)
    /\ HasIncumbent => IncumbentShrinks(c) /\ IncumbentYields(c)

\* The weight reported for the contender is above the one asked for by less
\* than a raise.
LEMMA AchievedFacts ==
    ASSUME NEW c \in Cluster, Advancing(c)
    PROVE  LET A == Achieved("contender", c, 0)
               w == Weight("contender", c)
           IN  A \in Nat /\ (w < A => 0 < w /\ (2 * (A - w) - 1) * Total < 200)
<1> DEFINE A == Achieved("contender", c, 0)
           w == Weight("contender", c)
           d == dep["contender"][c]
           P == TotalPods(c)
           W == TotalWeight(c)
           t == Target("contender", c)
<1>1. Base /\ TypeOK /\ "contender" \in Rel
  BY RelFacts DEF Advancing, Base
<1>2. /\ Shifted("contender", c, 0) = t /\ t \in Nat /\ t <= d.avail
      /\ w \in 0 .. 100 /\ Weighted("contender", c)
      /\ P \in Nat /\ W \in Nat /\ d.avail <= P
  BY <1>1, RelabelsAll
<1>3. d.avail \in Nat /\ d.serving \in Nat /\ d.serving <= d.avail
  BY <1>1, PodTypes
<1>4. A \in Nat
  BY <1>1, <1>2, ShiftTypes
<1>5. w <= W /\ Replicas(w) <= d.avail /\ Total * W <= 100 * P
  BY <1>1, PodsCoverWeights DEF Advancing
<1>6. CASE d.serving = t
  <2>1. A = w
    BY <1>6 DEF Achieved
  <2>2. ~(w < A)
    <3> HIDE DEF A, w
    <3> QED
      BY <1>2, <2>1
  <2> QED
    BY <1>4, <2>2
<1>7. CASE d.serving # t
  <2>1. A = (2 * t * W + P) \div (2 * P)
    BY <1>2, <1>7 DEF Achieved
  <2>2. t = PodTarget(d.avail, w, P, W)
    BY DEF Target
  <2>3. P \in Nat \ {0}
    <3> HIDE DEF P, t, d
    <3> QED
      BY <1>2, <1>3, <1>7
  <2> HIDE DEF A, w, P, W, t, d
  <2>4. ASSUME w < A PROVE 0 < w /\ (2 * (A - w) - 1) * Total < 200
    <3>1. A = (2 * PodTarget(d.avail, w, P, W) * W + P) \div (2 * P)
      BY <2>1, <2>2
    <3>2. w \in Nat /\ d.avail \in Nat /\ W \in Nat
      BY <1>2, <1>3
    <3> QED
      BY <1>5, <2>3, <2>4, <3>1, <3>2, AchievedCeiling
  <2> QED
    BY <1>4, <2>4 DEF A, w
<1> QED
  BY <1>6, <1>7

\* Pods of the contender leave rotation only when they are relabelled, and
\* then its weight's worth of them stays.
LEMMA ContenderServing ==
    ASSUME Forward, "podpatch" \notin Faults, [Next]_vars, NEW c \in Cluster, Advancing(c)
    PROVE  LET d == dep["contender"][c]
               e == dep'["contender"][c]
           IN  /\ e.serving \in Nat /\ d.serving \in Nat
               /\ \/ PodsMove(c) /\ e.serving = d.serving
                  \/ LabelsMove(c) /\ Replicas(Weight("contender", c)) <= e.serving
<1> DEFINE d == dep["contender"][c]
           e == dep'["contender"][c]
           n == Replicas(Head(ct["contender"]).spec[c])
           t == Target("contender", c)
<1>1. Base /\ TypeOK /\ "contender" \in Rel /\ ContenderGrows(c)
  BY RelFacts DEF Advancing, Base
<1>2. d.avail \in Nat /\ d.serving \in Nat /\ d.want \in Nat /\ d.avail <= d.want
  BY <1>1, PodTypes DEF ContenderGrows
<1>3. CASE PodsMove(c)
  <2>1. Grows(d, e) \/ Shrinks(d, e) \/ Scaled(d, e, n)
    BY <1>1, <1>3 DEF PodsMove
  <2> HIDE DEF d, e, n
  <2>2. e.serving = d.serving
    BY <1>2, <2>1 DEF Grows, Shrinks, Scaled
  <2> QED
    BY <1>2, <1>3, <2>2 DEF d, e
<1>4. CASE LabelsMove(c)
  <2>1. e.serving = t
    BY <1>1, <1>4 DEF LabelsMove, Relabelled
  <2>2. t \in Nat /\ Replicas(Weight("contender", c)) <= t
    BY <1>1, RelabelsAll, RelabelFloor DEF Advancing
  <2> QED
    BY <1>2, <1>4, <2>1, <2>2
<1> QED
  BY <1>1, <1>3, <1>4, PodSteps

\* What is in rotation for a weight no higher than the cached one stays.
LEMMA ServingKept ==
    ASSUME Forward, "podpatch" \notin Faults, [Next]_vars, NEW c \in Cluster, Advancing(c),
           NEW x \in Nat, x <= Weight("contender", c), Replicas(x) <= dep["contender"][c].serving
    PROVE  Replicas(x) <= dep'["contender"][c].serving
<1> DEFINE w == Weight("contender", c)
           e == dep'["contender"][c]
<1>1. Base /\ "contender" \in Rel
  BY RelFacts DEF Advancing
<1>2. w \in Nat
  BY <1>1, RelabelsAll
<1>3. /\ e.serving \in Nat
      /\ e.serving = dep["contender"][c].serving \/ Replicas(w) <= e.serving
  BY ContenderServing
<1> HIDE DEF w, e
<1>4. x <= w
  BY DEF w
<1>5. Replicas(x) <= Replicas(w) /\ Replicas(x) \in Nat /\ Replicas(w) \in Nat
  BY <1>2, <1>4, ReplicasMonotone, ReplicasBounds
<1>6. Replicas(x) <= e.serving
  BY <1>3, <1>5
<1> QED
  BY <1>6 DEF e

LEMMA ContenderGainsStep ==
    ASSUME Forward, TrafficPlan, "podpatch" \notin Faults, [Next]_vars, NEW c \in Cluster, Advancing(c)
    PROVE  ContenderGains(c)' /\ Weight("contender", c) <= Head(tt'["contender"]).spec[c]
<1> DEFINE h == tt["contender"]
           g == tt'["contender"]
           w == Head(h).spec[c]
           d == dep["contender"][c]
           e == dep'["contender"][c]
           Covered(x) == Replicas(x) <= e.avail
           Near(x, y) == x < y => 0 < x /\ (2 * (y - x) - 1) * Total < 200
           Served(x, y) == x <= y => x = w /\ Replicas(x) <= e.serving
           Good(x, y) == Covered(x) /\ Near(x, y) /\ Served(x, y)
           Goal == /\ g \in Object /\ Rising(g, c) /\ w <= Head(g).spec[c]
                   /\ \A t \in Ahead' : Coarse(Last(g).spec[c], Step(t).tc)
                   /\ \A i \in Versions(g) : Good(g[i].spec[c], g[i].status[c])
<1>1. /\ Base /\ TypeOK /\ TargetsRise /\ "contender" \in Rel /\ h \in Object
      /\ ContenderGrows(c) /\ ContenderGains(c)
  BY RelFacts, BaseObjects DEF Advancing, Base
<1>2. d.avail \in Nat /\ d.avail <= e.avail /\ e.avail \in Nat
  BY <1>1, ContenderPods, PodTypes
<1>3. /\ Rising(h, c) /\ \A t \in Ahead : Coarse(Last(h).spec[c], Step(t).tc)
      /\ \A i \in Versions(h) :
            /\ Replicas(h[i].spec[c]) <= d.avail
            /\ h[i].spec[c] < h[i].status[c] =>
                  0 < h[i].spec[c] /\ (2 * (h[i].status[c] - h[i].spec[c]) - 1) * Total < 200
            /\ h[i].spec[c] <= h[i].status[c] =>
                  h[i].spec[c] = w /\ Replicas(h[i].spec[c]) <= d.serving
  BY <1>1 DEF ContenderGains
<1>4. w \in 0 .. 100 /\ w = Weight("contender", c) /\ w <= w
  BY <1>1, ObjectEnds DEF Weight
<1>5. \A x \in Nat : Replicas(x) <= d.avail => Covered(x)
  <2> SUFFICES ASSUME NEW x \in Nat, Replicas(x) <= d.avail PROVE Replicas(x) <= e.avail
    OBVIOUS
  <2>1. Replicas(x) \in Nat
    BY ReplicasBounds
  <2> QED
    BY <1>2, <2>1
<1>6. Replicas(w) <= d.serving => Replicas(w) <= e.serving
  <2>1. w \in Nat /\ w <= Weight("contender", c)
    BY <1>4
  <2> HIDE DEF w
  <2> QED
    BY <2>1, ServingKept
<1>7. \A i \in Versions(h) : Good(h[i].spec[c], h[i].status[c])
  <2> SUFFICES ASSUME NEW i \in Versions(h) PROVE Good(h[i].spec[c], h[i].status[c])
    OBVIOUS
  <2> DEFINE x == h[i].spec[c]
             y == h[i].status[c]
  <2>1. x \in Nat
    <3>1. x \in 0 .. 100
      BY <1>1, ObjectValues
    <3> QED
      BY <3>1, PercentIsNat
  <2>2. /\ Replicas(x) <= d.avail /\ Near(x, y)
        /\ x <= y => x = w /\ Replicas(x) <= d.serving
    BY <1>3
  <2> HIDE DEF x, y, h, d, e
  <2>3. Served(x, y)
    BY <1>6, <2>2
  <2>4. Covered(x)
    BY <1>5, <2>1, <2>2
  <2> QED
    BY <2>2, <2>3, <2>4 DEF x, y
<1> HIDE DEF Good
<1>8. Ahead' \subseteq Ahead
  BY <1>1, TargetsKeepRising
<1>9. /\ Last(h).spec[c] \in 0 .. 100 /\ Last(h).status[c] \in Nat \union {Absent}
      /\ Good(w, Head(h).status[c]) /\ Good(Last(h).spec[c], Last(h).status[c])
  <2> HIDE DEF h
  <2>1. 1 \in Versions(h) /\ h[1] = Head(h) /\ Len(h) \in Versions(h) /\ h[Len(h)] = Last(h)
    BY <1>1, VersionEnds DEF Object
  <2> QED
    BY <1>1, <1>7, <2>1, ObjectEnds
<1>10. ASSUME g = h PROVE Goal
  BY <1>1, <1>3, <1>4, <1>7, <1>8, <1>10
<1>11. ASSUME CaughtUp(h, g) PROVE Goal
  <2> HIDE DEF h, g
  <2> QED
    BY <1>1, <1>3, <1>7, <1>8, <1>11, CaughtUpOrder
<1>12. ASSUME NEW report \in Lists(Nat), Reported(h, g, report),
              report[c] = 0 \/ (report[c] = Achieved("contender", c, 0) /\ LabelsMove(c))
       PROVE  Goal
  <2> DEFINE y == report[c]
  <2>1. Good(w, y)
    <3>1. Covered(w)
      BY <1>9 DEF Good
    <3>2. Near(w, y)
      <4>1. CASE y = 0
        <5> HIDE DEF w, y
        <5> QED
          BY <1>4, <4>1
      <4>2. CASE y = Achieved("contender", c, 0)
        BY <1>4, <4>2, AchievedFacts
      <4> QED
        BY <1>12, <4>1, <4>2
    <3>3. Served(w, y)
      <4>1. CASE y = 0
        <5>1. w <= y => w = 0 /\ Replicas(0) = 0
          <6> HIDE DEF w, y
          <6> QED
            BY <1>4, <4>1, ReplicasWhole
        <5>2. e.serving \in Nat
          BY ContenderServing
        <5> HIDE DEF w, y, e
        <5> QED
          BY <5>1, <5>2
      <4>2. CASE LabelsMove(c)
        <5>1. e.serving = Target("contender", c)
          BY <1>1, <4>2 DEF LabelsMove, Relabelled
        <5>2. Replicas(w) <= e.serving
          BY <1>1, <1>4, <5>1, RelabelFloor DEF Advancing
        <5> QED
          BY <5>2
      <4> QED
        BY <1>12, <4>1, <4>2
    <3> QED
      BY <3>1, <3>2, <3>3 DEF Good
  <2> HIDE DEF h, g
  <2>2. Extended(h, g, c, Head(h).spec[c], report[c]) /\ Rising(g, c) /\ Last(h) = Head(h)
    BY <1>1, <1>3, <1>12, ReportOrder
  <2>3. \A i \in Versions(g) : Good(g[i].spec[c], g[i].status[c])
    BY <1>7, <2>1, <2>2 DEF Extended
  <2> QED
    BY <1>3, <1>4, <1>8, <2>2, <2>3 DEF Extended
<1>13. ASSUME PatchesTraffic("contender") PROVE Goal
  <2> DEFINE x == Step(Head(rel).target).tc
             v == Last(h).spec[c]
             y == Last(h).status[c]
  <2>1. StepExists /\ g = PatchSpec(h, x) /\ Met(ContenderCapacity)
    BY <1>13 DEF PatchesTraffic
  <2>2. x \in 0 .. 100 /\ Coarse(v, x) /\ \A t \in Ahead' : Coarse(x, Step(t).tc)
    BY <1>1, <1>3, <2>1, PlannedTraffic
  <2>3. v <= x
    <3>1. v \in 0 .. 100
      BY <1>9
    <3> HIDE DEF v, x
    <3> QED
      BY <2>2, <3>1 DEF Coarse
  <2>4. Covered(x)
    <3> DEFINE y1 == Step(Head(rel).target).cc
    <3>1. y1 \in Nat /\ x \in Nat /\ x <= y1
      <4>1. y1 \in 0 .. 100 /\ x \in 0 .. 100 /\ x <= y1
        BY <1>1, <2>1, PlannedTraffic
      <4> HIDE DEF x, y1
      <4> QED
        BY <4>1, PercentIsNat
    <3>2. Head(ct["contender"]).status[c] = Replicas(y1)
      BY <1>1, <2>1, MetFacts
    <3>3. Head(ct["contender"]).status[c] <= d.avail
      <4>1. ct["contender"] \in Object
        BY <1>1, BaseObjects
      <4> QED
        BY <1>1, <4>1, VersionEnds DEF ContenderGrows, Object
    <3> HIDE DEF x, y1
    <3>4. Replicas(x) <= Replicas(y1) /\ Replicas(x) \in Nat /\ Replicas(y1) \in Nat
      BY <3>1, ReplicasMonotone, ReplicasBounds
    <3>5. Replicas(x) <= d.avail
      BY <1>2, <3>2, <3>3, <3>4
    <3> QED
      BY <1>5, <3>1, <3>5
  <2>5. x <= y => x = v
    <3>1. Near(v, y)
      BY <1>9 DEF Good
    <3>2. v \in Nat /\ x \in Nat /\ (y \in Nat \/ y = -1)
      <4>1. v \in 0 .. 100 /\ x \in 0 .. 100 /\ y \in Nat \union {Absent}
        BY <1>9, <2>2
      <4> HIDE DEF v, x, y
      <4> QED
        BY <4>1, PercentIsNat DEF Absent
    <3> HIDE DEF v, x, y
    <3>3. ASSUME x <= y PROVE x = v
      <4>1. y \in Nat
        BY <3>2, <3>3
      <4> QED
        BY <2>2, <3>1, <3>2, <3>3, <4>1, RaiseShows
    <3> QED
      BY <3>3
  <2>6. Good(x, y)
    <3>1. Good(v, y)
      BY <1>9
    <3>2. CASE x = v
      BY <3>1, <3>2
    <3>3. CASE ~(x <= y)
      <4>1. ~(x < y)
        <5> HIDE DEF x, y
        <5>1. x \in Int /\ y \in Int
          BY <1>9, <2>2 DEF Absent, y
        <5> QED
          BY <3>3, <5>1
      <4> HIDE DEF x, y
      <4> QED
        BY <2>4, <3>3, <4>1 DEF Good
    <3> QED
      BY <2>5, <3>2, <3>3
  <2> HIDE DEF x, h, g, w
  <2>7. CASE Patched(h, g, x)
    <3>1. Extended(h, g, c, x, Last(h).status[c]) /\ Rising(g, c)
      BY <1>1, <1>3, <2>2, <2>3, <2>7, PatchOrder
    <3>2. \A i \in Versions(g) : Good(g[i].spec[c], g[i].status[c])
      BY <1>7, <2>6, <3>1 DEF Extended
    <3> QED
      BY <1>4, <2>2, <3>1, <3>2 DEF Extended, w
  <2> QED
    BY <1>1, <1>10, <2>1, <2>2, <2>7, PatchCases
<1>14. Goal
  <2> HIDE DEF Goal
  <2> QED
    BY <1>1, <1>10, <1>11, <1>12, <1>13, TrafficSteps
\* A weight that is met is still the cached one when the cache catches up.
<1>15. \A i \in Versions(g) :
          g[i].spec[c] <= g[i].status[c] => g[i].spec[c] = Head(g).spec[c] /\ Replicas(g[i].spec[c]) <= e.serving
  <2>1. g \in Object /\ Rising(g, c) /\ w <= Head(g).spec[c]
        /\ \A i \in Versions(g) : Good(g[i].spec[c], g[i].status[c])
    BY <1>14
  <2> HIDE DEF g, w
  <2> SUFFICES ASSUME NEW i \in Versions(g), g[i].spec[c] <= g[i].status[c]
               PROVE  g[i].spec[c] = Head(g).spec[c] /\ Replicas(g[i].spec[c]) <= e.serving
    OBVIOUS
  <2>2. g[i].spec[c] = w /\ Replicas(g[i].spec[c]) <= e.serving
    BY <2>1 DEF Good
  <2>3. 1 \in Versions(g) /\ g[1] = Head(g) /\ 1 <= i
    BY <2>1, VersionEnds DEF Object
  <2>4. Head(g).spec[c] <= g[i].spec[c]
    BY <2>1, <2>3 DEF Rising
  <2>5. Head(g).spec[c] \in 0 .. 100 /\ w \in 0 .. 100
    BY <1>4, <2>1, ObjectEnds
  <2>6. Head(g).spec[c] = w
    <3> DEFINE z == Head(g).spec[c]
    <3>1. z \in 0 .. 100 /\ w \in 0 .. 100 /\ w <= z /\ z <= w
      BY <2>1, <2>2, <2>4, <2>5
    <3> HIDE DEF z
    <3>2. z = w
      BY <3>1
    <3> QED
      BY <3>2 DEF z
  <2> QED
    BY <2>2, <2>6
<1> QED
  BY <1>4, <1>14, <1>15 DEF ContenderGains, Versions, Rising, Last, Good

\* As long as weights are a whole and the incumbent's is within its capacity,
\* relabelling covers what the incumbent gives up.
LEMMA SharesCover ==
    ASSUME NEW c \in Cluster, Advancing(c), HasIncumbent,
           NEW y \in Nat, Weight("incumbent", c) <= y
    PROVE  Replicas(Weight("contender", c)) + Replicas(y) >= Total
<1> DEFINE w == Weight("contender", c)
           x == Weight("incumbent", c)
<1>1. Base /\ "contender" \in Rel /\ "incumbent" \in Rel /\ IncumbentYields(c)
  BY RelFacts DEF Advancing
<1>2. w \in Nat /\ x \in Nat
  BY <1>1, RelabelsAll
<1>3. w + x >= 100
  <2>1. tt["incumbent"] \in Object
    BY <1>1, BaseObjects
  <2>2. 1 \in Versions(tt["incumbent"]) /\ tt["incumbent"][1] = Head(tt["incumbent"])
    BY <2>1, VersionEnds DEF Object
  <2> QED
    BY <1>1, <2>2 DEF IncumbentYields, Weight
<1>4. x <= y
  OBVIOUS
<1> HIDE DEF w, x
<1>5. w + y >= 100
  BY <1>2, <1>3, <1>4
<1>6. Replicas(w) + Replicas(y) >= Total
  BY <1>2, <1>5, ReplicasCover
<1> QED
  BY <1>6 DEF w

\* The incumbent's capacity is cut to no less than its weight, and than what
\* the contender has in rotation makes up for.
LEMMA CutCovered ==
    ASSUME Forward, TrafficPlan, [Next]_vars, NEW c \in Cluster, Advancing(c), HasIncumbent,
           NEW i \in Versions(ct'["incumbent"])
    PROVE  LET y == ct'["incumbent"][i].spec[c]
           IN  /\ y \in 0 .. 100 /\ Weight("incumbent", c) <= y
               /\ dep["contender"][c].serving + Replicas(y) >= Total
<1> DEFINE h == ct["incumbent"]
           g == ct'["incumbent"]
           w == Weight("incumbent", c)
           n == dep["contender"][c].serving
           Good(y) == y \in 0 .. 100 /\ w <= y /\ n + Replicas(y) >= Total
<1>1. /\ Base /\ TypeOK /\ TargetsRise /\ "contender" \in Rel /\ "incumbent" \in Rel /\ h \in Object
      /\ ContenderGains(c) /\ IncumbentYields(c) /\ tt["contender"] \in Object
  BY RelFacts, BaseObjects DEF Advancing, Base
<1>2. \A j \in Versions(h) : Good(h[j].spec[c])
  BY <1>1, ObjectValues DEF IncumbentYields, Weight
<1> HIDE DEF Good
<1>3. Good(Head(h).spec[c])
  <2> HIDE DEF h
  <2>1. 1 \in Versions(h) /\ h[1] = Head(h)
    BY <1>1, VersionEnds DEF Object
  <2> QED
    BY <1>2, <2>1
<1>4. ASSUME g = h PROVE Good(g[i].spec[c])
  BY <1>2, <1>4
<1>5. ASSUME CaughtUp(h, g) PROVE Good(g[i].spec[c])
  <2>1. \E j \in Versions(h) : g[i] = h[j]
    <3>1. i \in Versions(g)
      OBVIOUS
    <3> HIDE DEF h, g
    <3> QED
      BY <1>1, <1>5, <3>1, CaughtUpOrder
  <2> QED
    BY <1>2, <2>1
<1>6. ASSUME NEW report \in Lists(Nat), Reported(h, g, report) PROVE Good(g[i].spec[c])
  <2>1. i \in Versions(g)
    OBVIOUS
  <2> HIDE DEF h, g
  <2>2. Extended(h, g, c, Head(h).spec[c], report[c])
    BY <1>1, <1>6, ReportOrder
  <2> QED
    BY <1>2, <1>3, <2>1, <2>2 DEF Extended
<1>7. ASSUME PatchesCapacity("incumbent") PROVE Good(g[i].spec[c])
  <2> DEFINE step == Step(Head(rel).target)
             x == step.ci
  <2>1. StepExists /\ g = PatchSpec(h, x) /\ Met(ContenderTraffic) /\ Met(IncumbentTraffic)
    BY <1>7 DEF PatchesCapacity
  <2>2. /\ x \in 0 .. 100 /\ step.ti \in 0 .. 100 /\ step.tc \in 0 .. 100
        /\ step.ti <= x /\ step.tc + step.ti >= 100
    BY <1>1, <2>1, PlannedTraffic
  <2>3. w = step.ti
    BY <1>1, <2>1, MetFacts DEF Weight
  <2>4. Replicas(step.tc) <= n
    <3>1. 1 \in Versions(tt["contender"]) /\ tt["contender"][1] = Head(tt["contender"])
      BY <1>1, VersionEnds DEF Object
    <3>2. Head(tt["contender"]).spec[c] = step.tc /\ Head(tt["contender"]).status[c] >= step.tc
      BY <1>1, <2>1, MetFacts
    <3>3. Head(tt["contender"]).status[c] \in Int
      BY <1>1, ObjectEnds DEF Absent
    <3> HIDE DEF step
    <3>4. Head(tt["contender"]).spec[c] <= Head(tt["contender"]).status[c]
      BY <2>2, <3>2, <3>3
    <3> QED
      BY <1>1, <3>1, <3>2, <3>4 DEF ContenderGains
  <2>5. Good(x)
    <3>1. n \in Nat
      BY <1>1, PodTypes
    <3> DEFINE tc == step.tc
               ti == step.ti
    <3>2. /\ x \in 0 .. 100 /\ ti \in 0 .. 100 /\ tc \in 0 .. 100 /\ ti <= x /\ tc + ti >= 100
          /\ w = ti /\ Replicas(tc) <= n
      BY <2>2, <2>3, <2>4
    <3> HIDE DEF tc, ti, x, n, w
    <3>3. tc \in Nat /\ x \in Nat /\ tc + x >= 100
      BY <3>2
    <3>4. Replicas(tc) + Replicas(x) >= Total /\ Replicas(tc) \in Nat /\ Replicas(x) \in Nat
      BY <3>3, ReplicasCover, ReplicasBounds
    <3>5. n + Replicas(x) >= Total
      BY <3>1, <3>2, <3>4, ParameterAssumption
    <3> QED
      BY <3>2, <3>5 DEF Good
  <2>6. CASE Patched(h, g, x)
    <3>1. i \in Versions(g)
      OBVIOUS
    <3> HIDE DEF h, g, x
    <3>2. Extended(h, g, c, x, Last(h).status[c])
      BY <1>1, <2>2, <2>6, PatchOrder
    <3> QED
      BY <1>2, <2>5, <3>1, <3>2 DEF Extended
  <2> HIDE DEF x, h, g
  <2> QED
    BY <1>1, <1>4, <2>1, <2>2, <2>6, PatchCases
<1>8. Good(g[i].spec[c])
  <2> HIDE DEF h, g
  <2> QED
    BY <1>1, <1>4, <1>5, <1>6, <1>7, CapacitySteps DEF h, g
<1> QED
  BY <1>8 DEF Good

LEMMA IncumbentYieldsStep ==
    ASSUME Forward, TrafficPlan, "podpatch" \notin Faults, [Next]_vars, NEW c \in Cluster, Advancing(c),
           HasIncumbent
    PROVE  IncumbentYields(c)'
<1> DEFINE h == tt["incumbent"]
           g == tt'["incumbent"]
           w == Weight("contender", c)
           u == Head(tt'["contender"]).spec[c]
           m == dep["contender"][c].serving
           n == dep'["contender"][c].serving
           d == dep["incumbent"][c]
           e == dep'["incumbent"][c]
           Goal == /\ g \in Object /\ Falling(g, c) /\ Head(g).spec[c] <= Head(h).spec[c]
                   /\ \A t \in Ahead' : Step(t).ti <= Last(g).spec[c]
                   /\ \A i \in Versions(g) : w + g[i].spec[c] >= 100
<1>1. /\ Base /\ TypeOK /\ TargetsRise /\ "contender" \in Rel /\ "incumbent" \in Rel /\ h \in Object
      /\ tt["contender"] \in Object /\ IncumbentShrinks(c) /\ IncumbentYields(c)
  BY RelFacts, BaseObjects DEF Advancing, Base
<1>2. /\ Falling(h, c) /\ \A t \in Ahead : Step(t).ti <= Last(h).spec[c]
      /\ \A i \in Versions(h) : w + h[i].spec[c] >= 100
      /\ m + d.serving >= d.avail
  BY <1>1 DEF IncumbentYields, Weight
<1>3. Ahead' \subseteq Ahead
  BY <1>1, TargetsKeepRising
<1>4. /\ Head(h).spec[c] \in 0 .. 100 /\ Last(h).spec[c] \in 0 .. 100 /\ w + Head(h).spec[c] >= 100
      /\ w \in 0 .. 100
  <2>1. w \in 0 .. 100
    BY <1>1, RelabelsAll
  <2> HIDE DEF h, w
  <2>2. 1 \in Versions(h) /\ h[1] = Head(h)
    BY <1>1, VersionEnds DEF Object
  <2> QED
    BY <1>1, <1>2, <2>1, <2>2, ObjectEnds
<1>5. w <= u /\ u \in 0 .. 100
  <2>1. w <= u
    BY ContenderGainsStep
  <2>2. UniformSpecs'
    BY <1>1, UniformInductive DEF Base
  <2>3. tt'["contender"] \in Object
    BY <1>1, <2>2 DEF UniformSpecs, Object, Rel, History, Targets, Uniform, Lists
  <2> HIDE DEF w
  <2>4. Head(tt'["contender"]).spec[c] \in 0 .. 100
    BY <2>3, ObjectEnds
  <2> QED
    BY <2>1, <2>4
<1>6. ASSUME g = h PROVE Goal
  BY <1>1, <1>2, <1>3, <1>4, <1>6, SMTT(30)
<1>7. ASSUME CaughtUp(h, g) PROVE Goal
  <2> HIDE DEF h, g, w
  <2> QED
    BY <1>1, <1>2, <1>3, <1>7, CaughtUpOrder
<1>8. ASSUME NEW report \in Lists(Nat), Reported(h, g, report) PROVE Goal
  <2> HIDE DEF h, g, w
  <2>1. Extended(h, g, c, Head(h).spec[c], report[c]) /\ Falling(g, c) /\ Last(h) = Head(h)
    BY <1>1, <1>2, <1>8, ReportOrder
  <2> QED
    BY <1>2, <1>3, <1>4, <2>1 DEF Extended
<1>9. ASSUME PatchesTraffic("incumbent") PROVE Goal
  <2> DEFINE step == Step(Head(rel).target)
             x == step.ti
  <2>1. StepExists /\ g = PatchSpec(h, x) /\ Met(ContenderTraffic)
    BY <1>9 DEF PatchesTraffic
  <2>2. /\ x \in 0 .. 100 /\ x <= Last(h).spec[c] /\ step.tc + x >= 100
        /\ \A t \in Ahead' : Step(t).ti <= x
    BY <1>1, <1>2, <2>1, PlannedTraffic
  <2>3. w + x >= 100
    <3>1. w = step.tc
      BY <1>1, <2>1, MetFacts DEF Weight
    <3> QED
      BY <2>2, <3>1
  <2> HIDE DEF x, h, g, w
  <2>4. CASE Patched(h, g, x)
    <3>1. Extended(h, g, c, x, Last(h).status[c]) /\ Falling(g, c)
      BY <1>1, <1>2, <2>2, <2>4, PatchOrder
    <3> QED
      BY <1>2, <1>4, <2>2, <2>3, <3>1 DEF Extended
  <2> QED
    BY <1>1, <1>6, <2>1, <2>2, <2>4, PatchCases
<1>10. Goal
  <2> HIDE DEF Goal
  <2> QED
    BY <1>1, <1>6, <1>7, <1>8, <1>9, TrafficSteps
<1>11. \A i \in Versions(g) : u + g[i].spec[c] >= 100
  <2> SUFFICES ASSUME NEW i \in Versions(g) PROVE u + g[i].spec[c] >= 100
    OBVIOUS
  <2>1. g \in Object /\ w + g[i].spec[c] >= 100
    BY <1>10
  <2> DEFINE y == g[i].spec[c]
  <2>2. y \in 0 .. 100
    <3>1. i \in Versions(g)
      OBVIOUS
    <3> HIDE DEF g
    <3> QED
      BY <2>1, <3>1, ObjectValues
  <2>3. w + y >= 100
    BY <2>1
  <2> HIDE DEF u, w, y
  <2>4. u + y >= 100
    BY <1>4, <1>5, <2>2, <2>3
  <2> QED
    BY <2>4 DEF y
<1>12. /\ m \in Nat /\ n \in Nat /\ d.avail \in Nat /\ d.serving \in Nat /\ d.serving <= d.avail
       /\ \/ PodsMove(c) /\ n = m
          \/ LabelsMove(c) /\ Replicas(w) <= n
  BY <1>1, ContenderServing, PodTypes
<1>13. ASSUME NEW i \in Versions(ct'["incumbent"])
       PROVE  /\ Head(g).spec[c] <= ct'["incumbent"][i].spec[c]
              /\ n + Replicas(ct'["incumbent"][i].spec[c]) >= Total
  <2> DEFINE y == ct'["incumbent"][i].spec[c]
             x == Weight("incumbent", c)
             z == Head(g).spec[c]
  <2>1. y \in 0 .. 100 /\ x <= y /\ m + Replicas(y) >= Total
    BY CutCovered
  <2>2. x \in 0 .. 100 /\ z <= x /\ z \in 0 .. 100
    <3>1. g \in Object /\ Head(g).spec[c] <= Head(h).spec[c] /\ x = Head(h).spec[c]
      BY <1>10 DEF Weight
    <3> HIDE DEF g, x
    <3>2. Head(g).spec[c] \in 0 .. 100
      BY <3>1, ObjectEnds
    <3> QED
      BY <1>4, <3>1, <3>2
  <2>3. Replicas(w) + Replicas(y) >= Total
    <3>1. y \in Nat /\ x <= y
      BY <2>1
    <3> HIDE DEF y
    <3> QED
      BY <3>1, SharesCover
  <2>4. Replicas(y) \in Nat /\ Replicas(w) \in Nat /\ Total \in Nat
    <3> HIDE DEF y, w
    <3>1. y \in Nat /\ w \in Nat
      BY <1>4, <2>1, PercentIsNat
    <3> QED
      BY <3>1, ReplicasBounds, ParameterAssumption
  <2> HIDE DEF x, y, z, w, m, n
  <2>5. z <= y /\ n + Replicas(y) >= Total
    BY <1>12, <2>1, <2>2, <2>3, <2>4
  <2> QED
    BY <2>5 DEF y, z
<1>14. n + e.serving >= e.avail
  <2>1. CASE PodsMove(c) /\ n = m
    <3> DEFINE k == Replicas(Head(ct["incumbent"]).spec[c])
    <3>1. Grows(d, e) \/ Shrinks(d, e) \/ Scaled(d, e, k)
      BY <1>1, <2>1 DEF PodsMove
    <3>2. d.want <= d.avail /\ d.want \in Nat
      BY <1>1, PodTypes DEF IncumbentShrinks
    <3>3. e.serving \in Nat
      <4>1. TypeOK'
        BY <1>1, TypeStep
      <4> QED
        BY <1>1, <4>1 DEF TypeOK, Deployment, Rel
    <3> HIDE DEF d, e, k, m, n
    <3> QED
      BY <1>2, <1>12, <2>1, <3>1, <3>2, <3>3 DEF Grows, Shrinks, Scaled
  <2>2. CASE LabelsMove(c) /\ Replicas(w) <= n
    <3> DEFINE x == Weight("incumbent", c)
               t == Target("incumbent", c)
    <3>1. e.serving = t /\ e.avail = d.avail
      BY <1>1, <2>2 DEF LabelsMove, Relabelled
    <3>2. Replicas(x) <= t /\ t \in Nat /\ x \in 0 .. 100
      BY <1>1, RelabelFloor, RelabelsAll DEF Advancing
    <3>3. d.avail <= Total
      BY <1>1 DEF IncumbentShrinks
    <3>4. Replicas(w) + Replicas(x) >= Total
      <4>1. x \in Nat /\ x <= x
        BY <3>2
      <4> QED
        BY <4>1, SharesCover
    <3>5. Replicas(x) \in Nat /\ Replicas(w) \in Nat /\ Total \in Nat
      <4>1. x \in Nat /\ w \in Nat
        BY <1>4, <3>2
      <4> HIDE DEF x, w
      <4> QED
        BY <4>1, ReplicasBounds, ParameterAssumption
    <3> HIDE DEF x, t, w, d, e, m, n
    <3> QED
      BY <1>12, <2>2, <3>1, <3>2, <3>3, <3>4, <3>5
  <2> QED
    BY <1>12, <2>1, <2>2
<1> QED
  BY <1>10, <1>11, <1>13, <1>14 DEF IncumbentYields, Versions, Falling, Last

LEMMA TrafficInit == TrafficPlan /\ Init => TrafficInv
<1> SUFFICES ASSUME TrafficPlan, Init PROVE TrafficInv
  OBVIOUS
<1> DEFINE first == [spec |-> Everywhere(0), status |-> NoReport]
           full  == [spec |-> Everywhere(100), status |-> Everywhere(100)]
           whole == [spec |-> Everywhere(100), status |-> Everywhere(Total)]
<1>1. /\ "contender" \in Rel /\ (HasIncumbent => "incumbent" \in Rel)
      /\ tt["contender"] = <<first>>
      /\ HasIncumbent => tt["incumbent"] = <<full>> /\ ct["incumbent"] = <<whole>>
  BY RelFacts DEF Init, Everywhere
<1>2. \A c \in Cluster :
         /\ dep["contender"][c] = [want |-> 0, avail |-> 0, serving |-> 0]
         /\ HasIncumbent => dep["incumbent"][c] = [want |-> Total, avail |-> Total, serving |-> Total]
  BY RelFacts DEF Init
<1>3. \A v : Versions(<<v>>) = {1} /\ <<v>>[1] = v /\ Head(<<v>>) = v /\ Last(<<v>>) = v
  BY DEF Versions, Last
<1>4. \A t \in Ahead : Step(t).tc \in 0 .. 100 /\ Step(t).ti \in 0 .. 100
  <2>1. \A t \in Ahead : t \in Nat /\ t < Len(Steps)
    BY StrategyAssumption DEF Ahead, LastStep
  <2> QED
    BY <2>1, StepType
<1>5. Replicas(0) = 0 /\ Replicas(100) = Total /\ Total \in Nat
  BY ReplicasWhole, ParameterAssumption
<1>6. ASSUME NEW c \in Cluster PROVE ContenderGains(c)
  <2>1. first.spec[c] = 0 /\ first.status[c] = -1
    BY DEF Everywhere, NoReport, Absent
  <2>2. \A t \in Ahead : Coarse(0, Step(t).tc)
    BY <1>4 DEF Coarse
  <2> HIDE DEF first
  <2> QED
    BY <1>1, <1>2, <1>3, <1>5, <2>1, <2>2 DEF ContenderGains, Rising
<1>7. ASSUME NEW c \in Cluster, HasIncumbent PROVE IncumbentYields(c)
  <2>1. first.spec[c] = 0 /\ full.spec[c] = 100 /\ whole.spec[c] = 100
    BY DEF Everywhere
  <2> HIDE DEF first, full, whole
  <2>2. /\ Head(tt["contender"]).spec[c] = 0
        /\ Head(tt["incumbent"]).spec[c] = 100 /\ Last(tt["incumbent"]).spec[c] = 100
        /\ \A i \in Versions(tt["incumbent"]) : tt["incumbent"][i].spec[c] = 100
        /\ \A i \in Versions(ct["incumbent"]) : ct["incumbent"][i].spec[c] = 100
    <3>1. tt["contender"] = <<first>> /\ tt["incumbent"] = <<full>> /\ ct["incumbent"] = <<whole>>
      BY <1>1, <1>7
    <3>2. Head(tt["contender"]).spec[c] = 0
      BY <1>3, <2>1, <3>1
    <3>3. /\ Head(tt["incumbent"]).spec[c] = 100 /\ Last(tt["incumbent"]).spec[c] = 100
          /\ \A i \in Versions(tt["incumbent"]) : tt["incumbent"][i].spec[c] = 100
      BY <1>3, <2>1, <3>1
    <3>4. \A i \in Versions(ct["incumbent"]) : ct["incumbent"][i].spec[c] = 100
      BY <1>3, <2>1, <3>1
    <3> QED
      BY <3>2, <3>3, <3>4
  <2>3. /\ dep["contender"][c].serving = 0
        /\ dep["incumbent"][c].serving = Total /\ dep["incumbent"][c].avail = Total
    BY <1>2, <1>7
  <2> QED
    BY <1>4, <1>5, <2>2, <2>3 DEF IncumbentYields, Falling
<1> QED
  BY <1>6, <1>7 DEF TrafficInv

LEMMA TrafficInductive ==
    ASSUME Forward, CapacityPlan, TrafficPlan, "podpatch" \notin Faults,
           Base, CapacityInv, TrafficInv, [Next]_vars
    PROVE  TrafficInv'
<1>1. \A c \in Cluster : Advancing(c)
  BY DEF CapacityInv, TrafficInv, Advancing
<1>2. ASSUME NEW c \in Cluster
      PROVE  ContenderGains(c)' /\ (HasIncumbent => IncumbentYields(c)')
  BY <1>1, ContenderGainsStep, IncumbentYieldsStep
<1> QED
  BY <1>2 DEF TrafficInv

LEMMA StepValues ==
    ASSUME TypeOK, StepExists
    PROVE  LET step == Step(Head(rel).target)
           IN  step.cc \in Nat /\ step.ci \in Nat /\ step.tc \in Nat /\ step.ti \in Nat
<1> DEFINE s == Head(rel).target
<1>1. s \in Nat /\ s < Len(Steps)
  BY CurrentStep DEF StepExists
<1> HIDE DEF s
<1>2. /\ Step(s).cc \in 0 .. 100 /\ Step(s).ci \in 0 .. 100
      /\ Step(s).tc \in 0 .. 100 /\ Step(s).ti \in 0 .. 100
  BY <1>1, StepType
<1> QED
  BY <1>2 DEF s

\* What the executor sees as met is there: the bounds of each status and the
\* cached spec leave no room in between.
LEMMA MetIsThere ==
    ASSUME NEW c \in Cluster, Advancing(c), StepExists
    PROVE  LET step == Step(Head(rel).target)
               d == dep["contender"][c]
               e == dep["incumbent"][c]
           IN  /\ Met(ContenderCapacity) => d.avail = Replicas(step.cc)
               /\ Met(ContenderTraffic) => Replicas(step.tc) <= d.serving /\ step.tc = Weight("contender", c)
               /\ HasIncumbent /\ Met(IncumbentCapacity) => e.avail = Replicas(step.ci)
<1> DEFINE step == Step(Head(rel).target)
           d == dep["contender"][c]
           e == dep["incumbent"][c]
<1>1. /\ Base /\ TypeOK /\ "contender" \in Rel /\ (HasIncumbent => "incumbent" \in Rel)
      /\ ContenderGrows(c) /\ ContenderGains(c)
      /\ HasIncumbent => IncumbentShrinks(c) /\ IncumbentYields(c)
  BY RelFacts DEF Advancing, Base
<1>2. step.cc \in Nat /\ step.tc \in Nat /\ step.ci \in Nat
  BY <1>1, StepValues
<1>3. ASSUME NEW h \in Object
      PROVE  1 \in Versions(h) /\ h[1] = Head(h)
  BY VersionEnds DEF Object
<1>4. ASSUME Met(ContenderCapacity) PROVE d.avail = Replicas(step.cc)
  <2>1. ct["contender"] \in Object
    BY <1>1, BaseObjects
  <2>2. Head(ct["contender"]).spec[c] = step.cc /\ Head(ct["contender"]).status[c] = Replicas(step.cc)
    BY <1>1, <1>4, MetFacts
  <2>3. Head(ct["contender"]).status[c] <= d.avail /\ d.avail <= d.want
        /\ d.want <= Replicas(Head(ct["contender"]).spec[c])
    BY <1>1, <1>3, <2>1 DEF ContenderGrows
  <2>4. d.avail \in Nat /\ d.want \in Nat
    BY <1>1, PodTypes
  <2> DEFINE n == Replicas(step.cc)
  <2>5. n \in Nat
    BY <1>2, ReplicasBounds
  <2>6. n <= d.avail /\ d.avail <= d.want /\ d.want <= n
    BY <2>2, <2>3
  <2> HIDE DEF n, d
  <2>7. d.avail = n
    BY <2>4, <2>5, <2>6
  <2> QED
    BY <2>7 DEF n
<1>5. ASSUME Met(ContenderTraffic)
      PROVE  Replicas(step.tc) <= d.serving /\ step.tc = Weight("contender", c)
  <2>1. tt["contender"] \in Object
    BY <1>1, BaseObjects
  <2>2. Head(tt["contender"]).spec[c] = step.tc /\ Head(tt["contender"]).status[c] >= step.tc
    BY <1>1, <1>5, MetFacts
  <2>3. Head(tt["contender"]).status[c] \in Int
    BY <2>1, ObjectEnds DEF Absent
  <2> HIDE DEF step
  <2>4. Head(tt["contender"]).spec[c] <= Head(tt["contender"]).status[c]
    BY <1>2, <2>2, <2>3
  <2>5. Replicas(Head(tt["contender"]).spec[c]) <= d.serving
    BY <1>1, <1>3, <2>1, <2>4 DEF ContenderGains
  <2> QED
    BY <2>2, <2>5 DEF Weight
<1>6. ASSUME HasIncumbent, Met(IncumbentCapacity) PROVE e.avail = Replicas(step.ci)
  <2>1. ct["incumbent"] \in Object
    BY <1>1, <1>6, BaseObjects
  <2>2. Head(ct["incumbent"]).spec[c] = step.ci /\ Head(ct["incumbent"]).status[c] = Replicas(step.ci)
    BY <1>1, <1>6, MetFacts
  <2> DEFINE n == Replicas(step.ci)
             s == Head(ct["incumbent"]).status[c]
  <2>3. (s # Absent => e.avail <= s) /\ e.want <= e.avail
        /\ Replicas(Head(ct["incumbent"]).spec[c]) <= e.want
    BY <1>1, <1>3, <1>6, <2>1 DEF IncumbentShrinks
  <2>4. e.avail \in Nat /\ e.want \in Nat
    BY <1>1, <1>6, PodTypes
  <2>5. n \in Nat
    BY <1>2, ReplicasBounds
  <2>6. s = n /\ e.want <= e.avail /\ n <= e.want /\ (s # -1 => e.avail <= s)
    BY <2>2, <2>3 DEF Absent
  <2> HIDE DEF n, e, s
  <2>7. e.avail = n
    BY <2>4, <2>5, <2>6
  <2> QED
    BY <2>7 DEF n
<1> QED
  BY <1>4, <1>5, <1>6

\* Whatever is behind in the caches: a step that the executor of an advancing
\* rollout finds complete is what the cluster has, neither less nor more.
LEMMA CompleteIsReached ==
    ASSUME \A c \in Cluster : Advancing(c)
    PROVE  LockStep
<1> SUFFICES ASSUME SeenComplete, NEW c \in Cluster
             PROVE  LET step == Step(Head(rel).target)
                    IN  /\ dep["contender"][c].avail = Replicas(step.cc)
                        /\ Replicas(step.tc) <= dep["contender"][c].serving
                        /\ HasIncumbent => dep["incumbent"][c].avail = Replicas(step.ci)
                        /\ Replicas(step.cc) \in Nat /\ Replicas(step.tc) \in Nat /\ Replicas(step.ci) \in Nat
                        /\ dep["contender"][c].serving \in Nat
  BY DEF LockStep, Reached
<1>1. StepExists /\ \A k \in Phases : Met(k)
  BY DEF SeenComplete
<1>2. /\ Met(ContenderCapacity) /\ Met(ContenderTraffic)
      /\ HasIncumbent => Met(IncumbentCapacity)
  BY <1>1 DEF Phases, ContenderCapacity, ContenderTraffic, IncumbentCapacity
<1>3. TypeOK /\ "contender" \in Rel
  BY RelFacts DEF Advancing, Base
<1>4. /\ Step(Head(rel).target).cc \in Nat /\ Step(Head(rel).target).tc \in Nat
      /\ Step(Head(rel).target).ci \in Nat
  BY <1>1, <1>3, StepValues
<1> QED
  BY <1>1, <1>2, <1>3, <1>4, MetIsThere, PodTypes, ReplicasBounds

\* A rollout that users only advance takes nothing out of rotation that is not
\* replaced: for every strategy whose weights shift within its capacities, in
\* steps that rounding cannot hide, every number of pods, any lag of the
\* caches, and whatever patches, installations and connections fail.
THEOREM NoServingEverLost ==
    ASSUME Forward, CapacityPlan, TrafficPlan, "podpatch" \notin Faults
    PROVE  Spec => []NoServingLoss
<1>1. Init => CapacityInv /\ TrafficInv
  BY CapacityInit, TrafficInit
<1>2. TypeOK /\ UniformSpecs /\ CapacityInv /\ TrafficInv /\ [Next]_vars => CapacityInv' /\ TrafficInv'
  BY CapacityInductive, TrafficInductive DEF Base
<1>3. TypeOK /\ UniformSpecs /\ CapacityInv /\ TrafficInv => NoServingLoss
  <2> SUFFICES ASSUME TypeOK, UniformSpecs, CapacityInv, TrafficInv, HasIncumbent, NEW c \in Cluster
               PROVE  /\ dep["contender"][c].serving + dep["incumbent"][c].avail >= Total
                      /\ dep["contender"][c].serving + dep["incumbent"][c].serving >= dep["incumbent"][c].avail
    BY DEF NoServingLoss
  <2> DEFINE m == dep["contender"][c].serving
             n == dep["incumbent"][c].avail
             k == Replicas(Head(ct["incumbent"]).spec[c])
  <2>1. "contender" \in Rel /\ "incumbent" \in Rel /\ Base
    BY RelFacts DEF Base
  <2>2. ct["incumbent"] \in Object
    BY <2>1, BaseObjects
  <2>3. Head(ct["incumbent"]).spec[c] \in Nat
    BY <2>2, ObjectEnds
  <2>4. m \in Nat /\ n \in Nat /\ dep["incumbent"][c].want \in Nat /\ k \in Nat /\ Total \in Nat
    BY <2>1, <2>3, PodTypes, ReplicasBounds, ParameterAssumption
  <2>5. IncumbentShrinks(c) /\ IncumbentYields(c)
    BY DEF CapacityInv, TrafficInv
  <2>6. k <= dep["incumbent"][c].want /\ dep["incumbent"][c].want <= n
    BY <2>5 DEF IncumbentShrinks
  <2>7. m + k >= Total
    <3>1. 1 \in Versions(ct["incumbent"]) /\ ct["incumbent"][1] = Head(ct["incumbent"])
      BY <2>2, VersionEnds DEF Object
    <3> QED
      BY <2>5, <3>1 DEF IncumbentYields
  <2>8. m + dep["incumbent"][c].serving >= n
    BY <2>5 DEF IncumbentYields
  <2> HIDE DEF k, m, n
  <2>9. m + n >= Total
    BY <2>4, <2>6, <2>7
  <2> QED
    BY <2>8, <2>9 DEF m, n
<1> QED
  BY <1>1, <1>2, <1>3, TypeCorrect, UniformInductive, PTL DEF Spec

\* Under the same conditions a step is found complete only when the cluster
\* has it: the executor may go by old versions of the target objects.
THEOREM AlwaysLockStep ==
    ASSUME Forward, CapacityPlan, TrafficPlan, "podpatch" \notin Faults
    PROVE  Spec => []LockStep
<1>1. Init => CapacityInv /\ TrafficInv
  BY CapacityInit, TrafficInit
<1>2. TypeOK /\ UniformSpecs /\ CapacityInv /\ TrafficInv /\ [Next]_vars => CapacityInv' /\ TrafficInv'
  BY CapacityInductive, TrafficInductive DEF Base
<1>3. TypeOK /\ UniformSpecs /\ CapacityInv /\ TrafficInv => LockStep
  <2> SUFFICES ASSUME TypeOK, UniformSpecs, CapacityInv, TrafficInv PROVE LockStep
    OBVIOUS
  <2>1. \A c \in Cluster : Advancing(c)
    BY DEF CapacityInv, TrafficInv, Advancing, Base
  <2> QED
    BY <2>1, CompleteIsReached
<1> QED
  BY <1>1, <1>2, <1>3, TypeCorrect, UniformInductive, PTL DEF Spec

-----------------------------------------------------------------------------
(* The status of the Release.                                               *)

\* AsReleaseStrategyState: a command is waited for only when all that lasts of
\* the step is recorded as done for that very step.
LEMMA WaitingMeansRecorded ==
    ASSUME NEW conds, NEW s, NEW last,
           AsReleaseStrategyState(conds, s, HasIncumbent, last).waitingForCommand
    PROVE  /\ conds[Installation].step = s
           /\ \A k \in Lasting : IsTrue(conds, s, k)
<1>1. /\ IsTrue(conds, s, Installation) /\ IsTrue(conds, s, ContenderCapacity)
      /\ IsTrue(conds, s, ContenderTraffic)
      /\ HasIncumbent => IsTrue(conds, s, IncumbentCapacity)
  <2> DEFINE a(k) == IsTrue(conds, s, k)
  <2> HIDE DEF a
  <2>1. LET turn == HasIncumbent /\ a(Installation) /\ a(ContenderCapacity) /\ a(ContenderTraffic)
            capacity == \/ a(Installation) /\ ~a(ContenderCapacity)
                        \/ turn /\ a(IncumbentTraffic) /\ ~a(IncumbentCapacity)
            traffic == \/ a(Installation) /\ a(ContenderCapacity) /\ ~a(ContenderTraffic)
                       \/ turn /\ ~a(IncumbentTraffic) /\ ~a(IncumbentCapacity)
        IN  ~capacity /\ ~traffic /\ a(Installation)
    BY DEF AsReleaseStrategyState, a
  <2>2. /\ a(Installation) /\ a(ContenderCapacity) /\ a(ContenderTraffic)
        /\ HasIncumbent => a(IncumbentCapacity)
    BY <2>1
  <2> QED
    BY <2>2 DEF a
<1>2. \A k \in Lasting : k = ContenderCapacity \/ k = ContenderTraffic \/ (HasIncumbent /\ k = IncumbentCapacity)
  BY DEF Lasting, Phases, Installation, ContenderCapacity, ContenderTraffic, IncumbentTraffic,
         IncumbentCapacity
<1> QED
  BY <1>1, <1>2 DEF IsTrue

LEMMA LastingPhases ==
    ASSUME NEW k \in Lasting
    PROVE  /\ k = ContenderCapacity \/ k = ContenderTraffic \/ (HasIncumbent /\ k = IncumbentCapacity)
           /\ k \in Phases /\ k \in CondType /\ k \in Nat
BY DEF Lasting, Phases, CondType, Installation, ContenderCapacity, ContenderTraffic, IncumbentTraffic,
       IncumbentCapacity

\* What the executor sees as met holds.
LEMMA MetHolds ==
    ASSUME \A c \in Cluster : Advancing(c), StepExists, NEW k \in Lasting, Met(k)
    PROVE  Holds(Head(rel).target, k)
<1> DEFINE s == Head(rel).target
<1>1. \A c \in Cluster : TypeOK
  BY DEF Advancing, Base
<1>2. TypeOK
  BY <1>1, ParameterAssumption
<1>3. s \in 0 .. LastStep
  BY <1>2, CurrentStep
<1> SUFFICES ASSUME NEW c \in Cluster
             PROVE  /\ k = ContenderCapacity => Replicas(Step(s).cc) <= dep["contender"][c].avail
                    /\ k = ContenderTraffic =>
                          /\ Replicas(Step(s).tc) <= dep["contender"][c].serving
                          /\ Step(s).tc <= Head(tt["contender"]).spec[c]
                    /\ k = IncumbentCapacity => dep["incumbent"][c].avail <= Replicas(Step(s).ci)
  BY <1>3 DEF Holds
<1>4. Step(s).cc \in Nat /\ Step(s).tc \in Nat /\ Step(s).ci \in Nat
  BY <1>2, StepValues
<1>5. Replicas(Step(s).cc) \in Nat /\ Replicas(Step(s).ci) \in Nat
  BY <1>4, ReplicasBounds
<1>6. CASE k = ContenderCapacity
  <2>1. dep["contender"][c].avail = Replicas(Step(s).cc)
    BY <1>6, MetIsThere
  <2> QED
    BY <1>5, <1>6, <2>1 DEF ContenderCapacity, ContenderTraffic, IncumbentCapacity
<1>7. CASE k = ContenderTraffic
  <2>1. Replicas(Step(s).tc) <= dep["contender"][c].serving /\ Step(s).tc = Head(tt["contender"]).spec[c]
    BY <1>7, MetIsThere DEF Weight
  <2>2. Step(s).tc <= Head(tt["contender"]).spec[c]
    BY <1>4, <2>1
  <2> QED
    BY <1>7, <2>1, <2>2 DEF ContenderCapacity, ContenderTraffic, IncumbentCapacity
<1>8. CASE HasIncumbent /\ k = IncumbentCapacity
  <2>1. dep["incumbent"][c].avail = Replicas(Step(s).ci)
    BY <1>8, MetIsThere
  <2> QED
    BY <1>5, <1>8, <2>1 DEF ContenderCapacity, ContenderTraffic, IncumbentCapacity
<1> QED
  BY <1>6, <1>7, <1>8, LastingPhases

\* No step undoes it.
LEMMA HoldsOn ==
    ASSUME Forward, TrafficPlan, "podpatch" \notin Faults, [Next]_vars,
           \A c \in Cluster : Advancing(c), NEW s \in Int, NEW k \in Lasting, Holds(s, k)
    PROVE  Holds(s, k)'
<1>1. s \in 0 .. LastStep /\ LastStep' = LastStep
  BY DEF Holds, LastStep
<1>2. Step(s).cc \in 0 .. 100 /\ Step(s).tc \in 0 .. 100 /\ Step(s).ci \in 0 .. 100
  <2>1. s \in Nat /\ s < Len(Steps)
    BY <1>1, StrategyAssumption DEF LastStep
  <2> QED
    BY <2>1, StepType
<1>3. Step(s).cc \in Nat /\ Step(s).tc \in Nat /\ Step(s).ci \in Nat
  BY <1>2
<1>4. /\ Replicas(Step(s).cc) \in Nat /\ Replicas(Step(s).tc) \in Nat /\ Replicas(Step(s).ci) \in Nat
  BY <1>3, ReplicasBounds
<1> SUFFICES ASSUME NEW c \in Cluster
             PROVE  /\ k = ContenderCapacity => Replicas(Step(s).cc) <= dep'["contender"][c].avail
                    /\ k = ContenderTraffic =>
                          /\ Replicas(Step(s).tc) <= dep'["contender"][c].serving
                          /\ Step(s).tc <= Head(tt'["contender"]).spec[c]
                    /\ k = IncumbentCapacity => dep'["incumbent"][c].avail <= Replicas(Step(s).ci)
  BY <1>1 DEF Holds
<1>5. /\ Advancing(c) /\ Base /\ TypeOK /\ ContenderGrows(c) /\ (HasIncumbent => IncumbentShrinks(c))
      /\ "contender" \in Rel /\ (HasIncumbent => "incumbent" \in Rel)
  BY RelFacts DEF Advancing, Base
<1>6. CASE k = ContenderCapacity
  <2>1. Replicas(Step(s).cc) <= dep["contender"][c].avail
    BY <1>6 DEF Holds
  <2>2. dep["contender"][c].avail <= dep'["contender"][c].avail /\ dep["contender"][c].avail \in Nat
        /\ dep'["contender"][c].avail \in Nat
    BY <1>5, ContenderPods, PodTypes
  <2>3. Replicas(Step(s).cc) <= dep'["contender"][c].avail
    BY <1>4, <2>1, <2>2
  <2> QED
    BY <1>6, <2>3 DEF ContenderCapacity, ContenderTraffic, IncumbentCapacity
<1>7. CASE k = ContenderTraffic
  <2>1. /\ Replicas(Step(s).tc) <= dep["contender"][c].serving
        /\ Step(s).tc <= Weight("contender", c)
    BY <1>7 DEF Holds, Weight
  <2>2. Replicas(Step(s).tc) <= dep'["contender"][c].serving
    BY <1>3, <1>5, <2>1, ServingKept
  <2>3. Step(s).tc <= Head(tt'["contender"]).spec[c]
    <3> DEFINE x == Step(s).tc
               w == Weight("contender", c)
               u == Head(tt'["contender"]).spec[c]
    <3>1. w <= u
      BY <1>5, ContenderGainsStep
    <3>2. w \in Int
      BY <1>5, RelabelsAll
    <3>3. u \in Int
      <4>1. UniformSpecs'
        BY <1>5, UniformInductive DEF Base
      <4>2. tt'["contender"] \in Object
        BY <1>5, <4>1 DEF UniformSpecs, Object, Rel, History, Targets, Uniform, Lists
      <4> QED
        BY <4>2, ObjectEnds
    <3>4. x \in Int /\ x <= w
      BY <1>3, <2>1
    <3> HIDE DEF x, w, u
    <3>5. x <= u
      BY <3>1, <3>2, <3>3, <3>4
    <3> QED
      BY <3>5 DEF x, u
  <2> QED
    BY <1>7, <2>2, <2>3 DEF ContenderCapacity, ContenderTraffic, IncumbentCapacity
<1>8. CASE HasIncumbent /\ k = IncumbentCapacity
  <2>1. dep["incumbent"][c].avail <= Replicas(Step(s).ci)
    BY <1>8 DEF Holds
  <2>2. dep'["incumbent"][c].avail <= dep["incumbent"][c].avail /\ dep["incumbent"][c].avail \in Nat
        /\ dep'["incumbent"][c].avail \in Nat
    BY <1>5, <1>8, IncumbentPods, PodTypes
  <2>3. dep'["incumbent"][c].avail <= Replicas(Step(s).ci)
    BY <1>4, <2>1, <2>2
  <2> QED
    BY <1>8, <2>3 DEF ContenderCapacity, ContenderTraffic, IncumbentCapacity
<1> QED
  BY <1>6, <1>7, <1>8, LastingPhases

\* What the executor records is true, given that the cached status is.
LEMMA RecordsTruth ==
    ASSUME Base, \A c \in Cluster : Advancing(c), StepExists, Truthful(Head(rel)), Truthful(Last(rel)),
           NEW conds, NEW achieved \in Nat \union {NoStep}, NEW complete,
           \A k \in Lasting : \/ conds[k] = Head(rel).conds[k]
                              \/ conds[k].status # "True"
                              \/ conds[k].step = Head(rel).target /\ Met(k),
           achieved # NoStep => \A k \in Lasting : Holds(achieved, k)
    PROVE  Truthful(StatusPatch(conds, achieved, complete))
<1> DEFINE v == StatusPatch(conds, achieved, complete)
           s == Head(rel).target
<1>1. /\ v.conds = conds
      /\ v.achieved = IF achieved = NoStep THEN Last(rel).achieved ELSE achieved
      /\ v.state = AsReleaseStrategyState(conds, s, HasIncumbent, s = LastStep)
  BY PatchTarget DEF Base
<1> HIDE DEF v
<1>2. ASSUME NEW t \in Nat, NEW k \in Lasting, IsTrue(conds, t, k)
      PROVE  Holds(t, k)
  <2>1. conds[k] = [status |-> "True", step |-> t]
    BY <1>2 DEF IsTrue
  <2>2. conds[k].status = "True" /\ conds[k].step = t
    BY <2>1
  <2>3. CASE conds[k] = Head(rel).conds[k]
    BY <1>2, <2>3 DEF Truthful, IsTrue
  <2>4. CASE conds[k].step = s /\ Met(k)
    BY <2>2, <2>4, MetHolds
  <2> QED
    BY <2>2, <2>3, <2>4
<1>3. v.achieved # NoStep => \A k \in Lasting : Holds(v.achieved, k)
  BY <1>1 DEF Truthful
<1>4. v.state.waitingForCommand => \A k \in Lasting : IsTrue(v.conds, v.conds[Installation].step, k)
  BY <1>1, WaitingMeansRecorded
<1>5. Truthful(v)
  BY <1>1, <1>2, <1>3, <1>4 DEF Truthful
<1> QED
  BY <1>5 DEF v

LEMMA ConditionsPatchTruthful ==
    ASSUME Base, \A c \in Cluster : Advancing(c), Truthful(Head(rel)), Truthful(Last(rel)),
           NEW k \in Phases, Blocked(k)
    PROVE  Truthful(ConditionsPatch(k))
<1> DEFINE s       == Head(rel).target
           verdict == IF k = Installation /\ (\E c \in Cluster : Head(it)[c] = "Absent")
                      THEN "Unknown" ELSE "False"
           before  == SetAll(Head(rel).conds, 1 .. (k - 1), "True", s)
           conds   == SetAll(before, {k}, verdict, s)
<1>1. ConditionsPatch(k) = StatusPatch(conds, Head(rel).achieved, Head(rel).complete)
  BY DEF ConditionsPatch
<1>2. StepExists /\ \A j \in 1 .. (k - 1) : Met(j)
  BY DEF Blocked
<1>3. Head(rel).achieved \in Nat \union {NoStep}
  <2>1. Head(rel) \in ReleaseVersion
    BY HistoryLemma DEF Base, TypeOK
  <2> QED
    BY <2>1 DEF ReleaseVersion
<1>4. ASSUME NEW j \in Lasting
      PROVE  \/ conds[j] = Head(rel).conds[j]
             \/ conds[j].status # "True"
             \/ conds[j].step = s /\ Met(j)
  <2>1. verdict # "True"
    OBVIOUS
  <2> HIDE DEF verdict, s
  <2>2. j \in CondType
    BY LastingPhases
  <2>3. CASE j = k
    <3>1. conds[j] = [status |-> verdict, step |-> s]
      BY <2>2, <2>3 DEF SetAll
    <3> HIDE DEF conds
    <3>2. conds[j].status = verdict
      BY <3>1
    <3> QED
      BY <2>1, <3>2
  <2>4. CASE j # k /\ j \in 1 .. (k - 1)
    <3>1. conds[j] = [status |-> "True", step |-> s]
      BY <2>2, <2>4 DEF SetAll
    <3> HIDE DEF conds
    <3>2. conds[j].step = s
      BY <3>1
    <3> QED
      BY <1>2, <2>4, <3>2
  <2>5. CASE j # k /\ j \notin 1 .. (k - 1)
    BY <2>2, <2>5 DEF SetAll
  <2> QED
    BY <2>3, <2>4, <2>5
<1>5. Head(rel).achieved # NoStep => \A j \in Lasting : Holds(Head(rel).achieved, j)
  BY DEF Truthful
<1> HIDE DEF conds
<1>6. Truthful(StatusPatch(conds, Head(rel).achieved, Head(rel).complete))
  BY <1>2, <1>3, <1>4, <1>5, RecordsTruth
<1> QED
  BY <1>1, <1>6

LEMMA WrapUpPatchTruthful ==
    ASSUME Base, \A c \in Cluster : Advancing(c), Truthful(Head(rel)), Truthful(Last(rel)), SeenComplete
    PROVE  Truthful(WrapUpPatch)
<1> DEFINE s     == Head(rel).target
           conds == SetAll(Head(rel).conds, Phases, "True", s)
           done  == Head(rel).complete \/ s = LastStep
<1>1. WrapUpPatch = StatusPatch(conds, s, done)
  BY DEF WrapUpPatch
<1>2. StepExists /\ \A k \in Phases : Met(k)
  BY DEF SeenComplete
<1>3. s \in Nat
  BY <1>2, CurrentStep DEF Base
<1>4. ASSUME NEW k \in Lasting
      PROVE  conds[k].step = s /\ Met(k)
  <2>1. k \in CondType /\ k \in Phases
    BY LastingPhases
  <2> HIDE DEF s
  <2>2. conds[k] = [status |-> "True", step |-> s]
    BY <2>1 DEF SetAll
  <2> HIDE DEF conds
  <2>3. conds[k].step = s
    BY <2>2
  <2> QED
    BY <1>2, <2>1, <2>3
<1>5. \A k \in Lasting : Holds(s, k)
  BY <1>2, <1>4, MetHolds
<1> HIDE DEF conds, done
<1>6. Truthful(StatusPatch(conds, s, done))
  BY <1>2, <1>3, <1>4, <1>5, RecordsTruth
<1> QED
  BY <1>1, <1>6

LEMMA TruthLasts ==
    ASSUME Forward, TrafficPlan, "podpatch" \notin Faults, [Next]_vars,
           \A c \in Cluster : Advancing(c), NEW v \in ReleaseVersion, Truthful(v)
    PROVE  /\ \A s \in Nat, k \in Lasting : IsTrue(v.conds, s, k) => Holds(s, k)'
           /\ \A a \in Int : a # NoStep /\ v.achieved = a => \A k \in Lasting : Holds(a, k)'
<1>1. \A s \in Int, k \in Lasting : Holds(s, k) => Holds(s, k)'
  BY HoldsOn
<1>2. Nat \subseteq Int
  OBVIOUS
<1> QED
  BY <1>1, <1>2 DEF Truthful

LEMMA StatusInductive ==
    ASSUME Forward, CapacityPlan, TrafficPlan, "podpatch" \notin Faults,
           Base, CapacityInv, TrafficInv, StatusInv, [Next]_vars
    PROVE  StatusInv'
<1>1. TypeOK /\ rel \in History(ReleaseVersion)
  BY DEF Base, TypeOK
<1>2. \A c \in Cluster : Advancing(c)
  BY DEF CapacityInv, TrafficInv, Advancing
<1>3. /\ Truthful(Head(rel)) /\ Truthful(Last(rel))
      /\ Head(rel) \in ReleaseVersion /\ Last(rel) \in ReleaseVersion
  <2>1. 1 \in Versions(rel) /\ rel[1] = Head(rel) /\ Len(rel) \in Versions(rel) /\ rel[Len(rel)] = Last(rel)
    BY <1>1, VersionEnds
  <2> QED
    BY <1>1, <2>1, HistoryLemma DEF StatusInv
<1>4. ASSUME NEW v \in ReleaseVersion, Truthful(v), rel' = Append(rel, v), NEW i \in Versions(rel')
      PROVE  rel'[i] \in ReleaseVersion /\ Truthful(rel'[i])
  <2>1. \/ i \in Versions(rel) /\ rel'[i] = rel[i]
        \/ rel'[i] = v
    <3>1. /\ \A j \in Versions(rel) : rel'[j] = rel[j]
          /\ \A j \in Versions(rel') : j \in Versions(rel) \/ (j = Len(rel') /\ rel'[j] = v)
      <4>1. v \in ReleaseVersion /\ Appended(rel, rel', v)
        BY <1>4 DEF Appended
      <4> QED
        BY <1>1, <4>1, AppendVersions
    <3> QED
      BY <3>1
  <2>2. \A j \in Versions(rel) : rel[j] \in ReleaseVersion
    BY <1>1, VersionEnds
  <2>3. CASE i \in Versions(rel) /\ rel'[i] = rel[i]
    BY <2>2, <2>3 DEF StatusInv
  <2>4. CASE rel'[i] = v
    BY <1>4, <2>4
  <2> QED
    BY <2>1, <2>3, <2>4
<1>5. ASSUME NEW i \in Versions(rel')
      PROVE  rel'[i] \in ReleaseVersion /\ Truthful(rel'[i])
  <2>1. CASE rel' = rel
    <3>1. i \in Versions(rel)
      BY <2>1
    <3>2. rel[i] \in ReleaseVersion /\ Truthful(rel[i])
      BY <1>1, <3>1, VersionEnds DEF StatusInv
    <3> QED
      BY <2>1, <3>2
  <2>2. CASE CaughtUp(rel, rel')
    <3>1. i + 1 \in Versions(rel) /\ rel'[i] = rel[i + 1]
      BY <1>1, <2>2, TailVersions DEF CaughtUp
    <3>2. rel[i + 1] \in ReleaseVersion /\ Truthful(rel[i + 1])
      BY <1>1, <3>1, VersionEnds DEF StatusInv
    <3> QED
      BY <3>1, <3>2
  <2>3. ASSUME NEW s \in TargetSteps, rel' = Append(rel, [Last(rel) EXCEPT !.target = s])
        PROVE  rel'[i] \in ReleaseVersion /\ Truthful(rel'[i])
    <3> DEFINE v == [Last(rel) EXCEPT !.target = s]
    <3>1. /\ v \in ReleaseVersion /\ v.conds = Last(rel).conds /\ v.achieved = Last(rel).achieved
          /\ v.state = Last(rel).state
      BY <1>3, ParameterAssumption DEF ReleaseVersion
    <3> HIDE DEF v
    <3>2. Truthful(v)
      BY <1>3, <3>1 DEF Truthful
    <3>3. rel' = Append(rel, v)
      BY <2>3 DEF v
    <3> QED
      BY <1>4, <3>1, <3>2, <3>3
  <2>4. ASSUME NEW k \in Phases, Blocked(k), rel' = Append(rel, ConditionsPatch(k))
        PROVE  rel'[i] \in ReleaseVersion /\ Truthful(rel'[i])
    BY <1>1, <1>2, <1>3, <1>4, <2>4, ConditionsPatchTruthful, ConditionsPatchType
  <2>5. ASSUME SeenComplete, rel' = Append(rel, WrapUpPatch)
        PROVE  rel'[i] \in ReleaseVersion /\ Truthful(rel'[i])
    BY <1>1, <1>2, <1>3, <1>4, <2>5, WrapUpPatchTruthful, WrapUpPatchType
  <2> QED
    BY <2>1, <2>2, <2>3, <2>4, <2>5, ReleaseSteps
<1>6. ASSUME NEW i \in Versions(rel')
      PROVE  /\ \A s \in Nat, k \in Lasting : IsTrue(rel'[i].conds, s, k) => Holds(s, k)'
             /\ \A a \in Int : a # NoStep /\ rel'[i].achieved = a => \A k \in Lasting : Holds(a, k)'
             /\ rel'[i].state.waitingForCommand =>
                   \A k \in Lasting : IsTrue(rel'[i].conds, rel'[i].conds[Installation].step, k)
             /\ rel'[i].achieved \in Int
  <2>1. rel'[i] \in ReleaseVersion /\ Truthful(rel'[i])
    BY <1>5
  <2>2. \A v \in ReleaseVersion : v.achieved \in Int
    BY DEF ReleaseVersion, NoStep
  <2>3. /\ \A s \in Nat, k \in Lasting : IsTrue(rel'[i].conds, s, k) => Holds(s, k)'
        /\ \A a \in Int : a # NoStep /\ rel'[i].achieved = a => \A k \in Lasting : Holds(a, k)'
    BY <1>2, <2>1, TruthLasts
  <2> QED
    BY <2>1, <2>2, <2>3 DEF Truthful
<1> QED
  BY <1>6 DEF StatusInv, Truthful, Holds, Lasting, Phases, IsTrue, Versions, NoStep

LEMMA StatusInit == Init => StatusInv
<1> SUFFICES ASSUME Init PROVE StatusInv
  OBVIOUS
<1> DEFINE v == [target |-> 0, achieved |-> NoStep, complete |-> FALSE,
                 conds |-> NoConditions, state |-> NoState]
<1>1. rel = <<v>>
  BY DEF Init
<1>2. \A k \in Lasting : NoConditions[k].status # "True"
  <2>1. \A k \in Lasting : k \in CondType
    BY LastingPhases
  <2> QED
    BY <2>1 DEF NoConditions
<1>3. Truthful(v)
  <2>1. ~NoState.waitingForCommand
    BY DEF NoState
  <2>2. \A s \in Nat, k \in Lasting : ~IsTrue(NoConditions, s, k)
    BY <1>2 DEF IsTrue
  <2> QED
    BY <2>1, <2>2 DEF Truthful
<1> HIDE DEF v
<1>4. Versions(<<v>>) = {1} /\ <<v>>[1] = v
  BY DEF Versions
<1> QED
  BY <1>1, <1>3, <1>4 DEF StatusInv

LEMMA TruthMeansConverged ==
    ASSUME TypeOK, StatusInv
    PROVE  CommandMeansConverged
<1>1. Last(rel) \in ReleaseVersion /\ Truthful(Last(rel))
  <2>1. rel \in History(ReleaseVersion)
    BY DEF TypeOK
  <2>2. Len(rel) \in Versions(rel) /\ rel[Len(rel)] = Last(rel)
    BY <2>1, VersionEnds
  <2> QED
    BY <2>1, <2>2, HistoryLemma DEF StatusInv
<1>2. ASSUME NEW s, \A k \in Lasting : Holds(s, k)
      PROVE  Reached(s)
  <2>1. ContenderCapacity \in Lasting /\ ContenderTraffic \in Lasting
        /\ (HasIncumbent => IncumbentCapacity \in Lasting)
    BY DEF Lasting, Phases, Installation, ContenderCapacity, ContenderTraffic, IncumbentTraffic,
           IncumbentCapacity
  <2> SUFFICES ASSUME NEW c \in Cluster
               PROVE  /\ dep["contender"][c].avail >= Replicas(Step(s).cc)
                      /\ dep["contender"][c].serving >= Replicas(Step(s).tc)
                      /\ HasIncumbent => dep["incumbent"][c].avail <= Replicas(Step(s).ci)
    BY DEF Reached
  <2>2. s \in 0 .. LastStep
    BY <1>2, <2>1 DEF Holds
  <2>3. Step(s).cc \in 0 .. 100 /\ Step(s).tc \in 0 .. 100
    <3>1. s \in Nat /\ s < Len(Steps)
      BY <2>2, StrategyAssumption DEF LastStep
    <3> QED
      BY <3>1, StepType
  <2>4. Step(s).cc \in Nat /\ Step(s).tc \in Nat
    BY <2>3
  <2>5. Replicas(Step(s).cc) \in Nat /\ Replicas(Step(s).tc) \in Nat
    BY <2>4, ReplicasBounds
  <2>6. /\ Replicas(Step(s).cc) <= dep["contender"][c].avail
        /\ Replicas(Step(s).tc) <= dep["contender"][c].serving
        /\ HasIncumbent => dep["incumbent"][c].avail <= Replicas(Step(s).ci)
    BY <1>2, <2>1 DEF Holds
  <2>7. dep["contender"][c].avail \in Nat /\ dep["contender"][c].serving \in Nat
    BY RelFacts, PodTypes
  <2> QED
    BY <2>5, <2>6, <2>7
<1>3. Last(rel).achieved # NoStep => Reached(Last(rel).achieved)
  BY <1>1, <1>2 DEF Truthful
<1>4. ASSUME Last(rel).state.waitingForCommand
      PROVE  Reached(Last(rel).conds[Installation].step)
  <2> DEFINE s == Last(rel).conds[Installation].step
  <2>1. s \in Nat
    <3>1. Last(rel).conds \in Conditions
      BY <1>1 DEF ReleaseVersion
    <3> QED
      BY <3>1 DEF Conditions, CondType, Installation
  <2>2. \A k \in Lasting : IsTrue(Last(rel).conds, s, k)
    BY <1>1, <1>4 DEF Truthful
  <2> HIDE DEF s
  <2>3. \A k \in Lasting : Holds(s, k)
    BY <1>1, <2>1, <2>2 DEF Truthful
  <2>4. Reached(s)
    BY <1>2, <2>3
  <2> QED
    BY <2>4 DEF s
<1> QED
  BY <1>3, <1>4 DEF CommandMeansConverged

\* Under the same conditions the status of the Release tells users the truth:
\* what the clusters had when a step was recorded they still have, although
\* statuses are computed from the caches and patched over newer ones.
THEOREM StatusTellsTheTruth ==
    ASSUME Forward, CapacityPlan, TrafficPlan, "podpatch" \notin Faults
    PROVE  Spec => []CommandMeansConverged
<1>1. Init => CapacityInv /\ TrafficInv /\ StatusInv
  BY CapacityInit, TrafficInit, StatusInit
<1>2. TypeOK /\ UniformSpecs /\ CapacityInv /\ TrafficInv /\ StatusInv /\ [Next]_vars =>
         CapacityInv' /\ TrafficInv' /\ StatusInv'
  BY CapacityInductive, TrafficInductive, StatusInductive DEF Base
<1>3. TypeOK /\ StatusInv => CommandMeansConverged
  BY TruthMeansConverged
<1> QED
  BY <1>1, <1>2, <1>3, TypeCorrect, UniformInductive, PTL DEF Spec

=============================================================================
