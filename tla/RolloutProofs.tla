--------------------------- MODULE RolloutProofs ---------------------------
(***************************************************************************)
(* What Rollout guarantees for every strategy, every number of clusters,   *)
(* every replica count, every fault and every bound.                       *)
(***************************************************************************)
EXTENDS Rollout, TLAPS



-----------------------------------------------------------------------------
(* Histories.                                                               *)

\* What a cache shows, what the server stores, and what a write or a watch
\* event leaves behind, are versions of the same kind.
LEMMA HistoryLemma ==
    ASSUME NEW S, NEW h \in History(S)
    PROVE  /\ Head(h) \in S
           /\ Last(h) \in S
           /\ Len(h) \in Nat \ {0}
           /\ \A v \in S : Write(h, v) \in History(S) /\ Update(h, v) \in History(S)
           /\ \A v \in S : Append(h, v) \in History(S)
           /\ Len(h) > 1 => Tail(h) \in History(S)
<1>1. h \in Seq(S) /\ h # << >> /\ Len(h) \in Nat /\ Len(h) > 0
  BY DEF History
<1>2. Head(h) \in S /\ Last(h) \in S
  BY <1>1 DEF Last
<1>3. \A v \in S : Append(h, v) \in History(S)
  BY <1>1 DEF History
<1>4. \A v \in S : Write(h, v) \in History(S) /\ Update(h, v) \in History(S)
  BY <1>3 DEF Write, Update
<1>5. ASSUME Len(h) > 1
      PROVE  Tail(h) \in History(S)
  <2>1. Tail(h) \in Seq(S) /\ Len(Tail(h)) = Len(h) - 1
    BY <1>1
  <2>2. Tail(h) # << >>
    <3>1. Len(<< >>) = 0
      OBVIOUS
    <3>2. Len(Tail(h)) # 0
      BY <2>1, <1>1, <1>5
    <3> QED
      BY <3>1, <3>2, Zenon
  <2> QED
    BY <2>1, <2>2 DEF History
<1> QED
  BY <1>1, <1>2, <1>3, <1>4, <1>5

\* A history of one version.
LEMMA SingletonHistory ==
    ASSUME NEW S, NEW v \in S
    PROVE  <<v>> \in History(S)
BY DEF History

-----------------------------------------------------------------------------
(* The types of the operators the actions are made of.                      *)

LEMMA StepType ==
    ASSUME NEW s \in Nat, s < Len(Steps)
    PROVE  /\ Step(s).cc \in 0 .. 100 /\ Step(s).ci \in 0 .. 100
           /\ Step(s).tc \in 0 .. 100 /\ Step(s).ti \in 0 .. 100
<1>1. s + 1 \in 1 .. Len(Steps)
  BY StrategyAssumption
<1> DEFINE Percentages == [cc : 0 .. 100, ci : 0 .. 100, tc : 0 .. 100, ti : 0 .. 100]
<1>2. Steps \in Seq(Percentages)
  BY StrategyAssumption
<1>3. Steps[s + 1] \in Percentages
  <2> HIDE DEF Percentages
  <2> QED
    BY <1>1, <1>2
<1> QED
  BY <1>3 DEF Step

LEMMA ReplicasType ==
    ASSUME NEW p \in Nat
    PROVE  Replicas(p) \in Nat
<1>1. Total * p \in Nat
  BY ParameterAssumption
<1> QED
  BY <1>1 DEF Replicas

LEMMA SetAllType ==
    ASSUME NEW conds \in Conditions, NEW types, NEW status \in CondStatus, NEW step \in Nat
    PROVE  SetAll(conds, types, status, step) \in Conditions
BY DEF SetAll, Conditions

LEMMA StrategyStateType ==
    ASSUME NEW conds, NEW step, NEW hasIncumbent, NEW isLastStep
    PROVE  AsReleaseStrategyState(conds, step, hasIncumbent, isLastStep) \in StrategyState
BY DEF AsReleaseStrategyState, StrategyState

\* Any patch of a Release's status leaves a well-formed Release.
LEMMA StatusPatchType ==
    ASSUME TypeOK, NEW conds \in Conditions,
           NEW achieved \in Nat \union {NoStep}, NEW complete \in BOOLEAN
    PROVE  StatusPatch(conds, achieved, complete) \in ReleaseVersion
<1>1. Last(rel) \in ReleaseVersion /\ Head(rel) \in ReleaseVersion
  BY HistoryLemma DEF TypeOK
<1> DEFINE s == Head(rel).target
           state == AsReleaseStrategyState(conds, s, HasIncumbent, s = LastStep)
<1>2. state \in StrategyState
  BY StrategyStateType
<1> HIDE DEF state
<1>3. StatusPatch(conds, achieved, complete) =
         [Last(rel) EXCEPT !.conds = conds, !.state = state,
             !.achieved = IF achieved = NoStep THEN Last(rel).achieved ELSE achieved,
             !.complete = complete]
  BY DEF StatusPatch, state
<1> QED
  BY <1>1, <1>2, <1>3 DEF ReleaseVersion

LEMMA ConditionsPatchType ==
    ASSUME TypeOK, NEW k
    PROVE  ConditionsPatch(k) \in ReleaseVersion
<1>1. Head(rel) \in ReleaseVersion
  BY HistoryLemma DEF TypeOK
<1>2. /\ Head(rel).target \in Nat /\ Head(rel).conds \in Conditions
      /\ Head(rel).achieved \in Nat \union {NoStep} /\ Head(rel).complete \in BOOLEAN
  BY <1>1 DEF ReleaseVersion
<1> DEFINE verdict == IF k = Installation /\ (\E c \in Cluster : Head(it)[c] = "Absent")
                      THEN "Unknown" ELSE "False"
           before == SetAll(Head(rel).conds, 1 .. (k - 1), "True", Head(rel).target)
           after == SetAll(before, {k}, verdict, Head(rel).target)
<1>3. before \in Conditions /\ after \in Conditions
  <2>1. verdict \in CondStatus /\ "True" \in CondStatus
    BY DEF CondStatus
  <2> HIDE DEF verdict
  <2> QED
    BY <1>2, <2>1, SetAllType
<1>4. ConditionsPatch(k) = StatusPatch(after, Head(rel).achieved, Head(rel).complete)
  BY DEF ConditionsPatch
<1> HIDE DEF after
<1> QED
  BY <1>2, <1>3, <1>4, StatusPatchType

LEMMA WrapUpPatchType ==
    ASSUME TypeOK
    PROVE  WrapUpPatch \in ReleaseVersion
<1>1. Head(rel) \in ReleaseVersion
  BY HistoryLemma DEF TypeOK
<1>2. /\ Head(rel).target \in Nat /\ Head(rel).conds \in Conditions
      /\ Head(rel).complete \in BOOLEAN
  BY <1>1 DEF ReleaseVersion
<1> DEFINE all == SetAll(Head(rel).conds, Phases, "True", Head(rel).target)
           complete == Head(rel).complete \/ Head(rel).target = LastStep
<1>3. all \in Conditions
  BY <1>2, SetAllType DEF CondStatus
<1>4. complete \in BOOLEAN
  BY <1>2
<1>5. WrapUpPatch = StatusPatch(all, Head(rel).target, complete)
  BY DEF WrapUpPatch
<1> HIDE DEF all, complete
<1> QED
  BY <1>2, <1>3, <1>4, <1>5, StatusPatchType

LEMMA NewSpecType ==
    ASSUME NEW v, NEW value \in 0 .. 100
    PROVE  NewSpec(v, value) \in Lists(0 .. 100)
BY DEF NewSpec, Lists, Absent

\* The target objects whose spec is in S.
Targets(S) == [spec : S, status : Lists(Nat)]

LEMMA PatchSpecType ==
    ASSUME NEW h \in History(TargetVersion), NEW value \in 0 .. 100
    PROVE  PatchSpec(h, value) \in History(TargetVersion)
<1> DEFINE new == NewSpec(Head(h), value)
<1>1. new \in Lists(0 .. 100)
  BY NewSpecType
<1> HIDE DEF new
<1>2. Last(h) \in TargetVersion
  BY HistoryLemma
<1>3. [Last(h) EXCEPT !.spec = new] \in TargetVersion
  BY <1>1, <1>2 DEF TargetVersion
<1>4. Write(h, [Last(h) EXCEPT !.spec = new]) \in History(TargetVersion)
  BY <1>3, HistoryLemma
<1> QED
  BY <1>4 DEF PatchSpec, new

\* A status report leaves the spec alone.
LEMMA ReportType ==
    ASSUME NEW S, NEW h \in History(Targets(S)), NEW report \in Lists(Nat)
    PROVE  Update(h, [Head(h) EXCEPT !.status = report]) \in History(Targets(S))
<1>1. Head(h) \in Targets(S)
  BY HistoryLemma
<1>2. [Head(h) EXCEPT !.status = report] \in Targets(S)
  BY <1>1 DEF Targets
<1> QED
  BY <1>2, HistoryLemma

LEMMA PodTargetType ==
    ASSUME NEW pods \in Nat, NEW weight \in Nat, NEW totalPods \in Nat, NEW totalWeight \in Nat
    PROVE  /\ PodTarget(pods, weight, totalPods, totalWeight) \in Nat
           /\ PodTarget(pods, weight, totalPods, totalWeight) <= pods
<1>1. CASE totalWeight = 0
  BY <1>1 DEF PodTarget
<1>2. CASE totalWeight # 0
  <2>1. totalPods * weight + totalWeight - 1 \in Nat
    <3>1. totalPods * weight \in Nat
      OBVIOUS
    <3> QED
      BY <3>1, <1>2
  <2>2. (totalPods * weight + totalWeight - 1) \div totalWeight \in Nat
    <3> DEFINE a == totalPods * weight + totalWeight - 1
    <3>1. a \in Nat
      BY <2>1
    <3> HIDE DEF a
    <3>2. a \div totalWeight \in Nat
      BY <3>1, <1>2
    <3> QED
      BY <3>2 DEF a
  <2> QED
    BY <2>2, <1>2 DEF PodTarget
<1> QED
  BY <1>1, <1>2

LEMMA RelFacts ==
    /\ "contender" \in Rel
    /\ HasIncumbent => "incumbent" \in Rel
    /\ \A r \in Rel : r = "contender" \/ (r = "incumbent" /\ HasIncumbent)
BY DEF Rel

\* The pods and the weights of a cluster, as the traffic controller sees them.
LEMMA TrafficTypes ==
    ASSUME TypeOK, NEW q \in Rel, NEW c \in Cluster
    PROVE  /\ dep[q][c] \in Deployment
           /\ Weighted(q, c) => Weight(q, c) \in 0 .. 100
           /\ TotalWeight(c) \in Nat
           /\ TotalPods(c) \in Nat
           /\ dep[q][c].avail <= TotalPods(c)
<1>1. \A p \in Rel : /\ dep[p][c] \in Deployment
                     /\ Weighted(p, c) => Weight(p, c) \in 0 .. 100
  <2> SUFFICES ASSUME NEW p \in Rel
               PROVE  /\ dep[p][c] \in Deployment
                      /\ Weighted(p, c) => Weight(p, c) \in 0 .. 100
    OBVIOUS
  <2>1. dep[p][c] \in Deployment
    BY DEF TypeOK
  <2>2. Head(tt[p]) \in TargetVersion
    BY HistoryLemma DEF TypeOK
  <2>3. Head(tt[p]).spec \in Lists(0 .. 100)
    BY <2>2 DEF TargetVersion
  <2>4. Weighted(p, c) => Weight(p, c) \in 0 .. 100
    BY <2>3 DEF Weighted, Weight, Listed, Lists
  <2> QED
    BY <2>1, <2>4
<1>2. TotalWeight(c) \in Nat
  BY <1>1 DEF TotalWeight
<1>3. \A p \in Rel : dep[p][c].avail \in Nat
  BY <1>1 DEF Deployment
<1>4. TotalPods(c) \in Nat /\ dep[q][c].avail <= TotalPods(c)
  BY <1>3, RelFacts DEF TotalPods
<1> QED
  BY <1>1, <1>2, <1>4

\* However many patches fail, relabelling labels only pods that are there,
\* and reports a weight.
LEMMA ShiftTypes ==
    ASSUME TypeOK, NEW q \in Rel, NEW c \in Cluster, Weighted(q, c), NEW n \in Nat
    PROVE  /\ Shifted(q, c, n) \in Nat
           /\ Shifted(q, c, n) <= dep[q][c].avail
           /\ Achieved(q, c, n) \in Nat
<1> DEFINE d == dep[q][c]
           t == Target(q, c)
<1>1. d.avail \in Nat /\ d.serving \in Nat /\ d.serving <= d.avail
  BY TrafficTypes DEF Deployment
<1>2. t \in Nat /\ t <= d.avail
  <2>1. Weight(q, c) \in Nat /\ TotalPods(c) \in Nat /\ TotalWeight(c) \in Nat
    BY TrafficTypes
  <2> QED
    BY <1>1, <2>1, PodTargetType DEF Target
<1> HIDE DEF d, t
<1>3. Shifted(q, c, n) \in Nat /\ Shifted(q, c, n) <= d.avail
  BY <1>1, <1>2 DEF Shifted, d, t
<1>4. Achieved(q, c, n) \in Nat
  <2>1. CASE d.serving = t
    BY <2>1, TrafficTypes DEF Achieved, d, t
  <2>2. CASE d.serving # t
    <3>1. TotalPods(c) \in Nat /\ TotalPods(c) > 0
      BY <1>1, <1>2, <2>2, TrafficTypes DEF d
    <3>2. TotalWeight(c) \in Nat
      BY TrafficTypes
    <3> DEFINE m == 2 * Shifted(q, c, n) * TotalWeight(c)
    <3>3. m \in Nat
      BY <1>3, <3>2
    <3> HIDE DEF m
    <3>4. (m + TotalPods(c)) \div (2 * TotalPods(c)) \in Nat
      BY <3>1, <3>3
    <3> QED
      BY <2>2, <3>4 DEF Achieved, d, t, m
  <2> QED
    BY <2>1, <2>2
<1> QED
  BY <1>3, <1>4 DEF d

-----------------------------------------------------------------------------
(* Type correctness, one lemma per component.                               *)

LEMMA InitType == Init => TypeOK
<1> SUFFICES ASSUME Init PROVE TypeOK
  OBVIOUS
<1>1. rel \in History(ReleaseVersion)
  <2> DEFINE v == [target |-> 0, achieved |-> NoStep, complete |-> FALSE,
                   conds |-> NoConditions, state |-> NoState]
  <2>1. NoConditions \in Conditions /\ NoState \in StrategyState
    BY DEF NoConditions, Conditions, CondStatus, NoState, StrategyState
  <2>2. v \in ReleaseVersion
    BY <2>1 DEF ReleaseVersion
  <2>3. rel = <<v>>
    BY DEF Init
  <2> QED
    BY <2>2, <2>3, SingletonHistory
<1>2. it \in History([Cluster -> {"Absent", "Failed", "Installed"}])
  BY SingletonHistory DEF Init
<1>3. /\ [c \in Cluster |-> 0] \in Lists(0 .. 100)
      /\ [c \in Cluster |-> 100] \in Lists(0 .. 100)
      /\ NoReport \in Lists(Nat)
      /\ [c \in Cluster |-> Total] \in Lists(Nat)
      /\ [c \in Cluster |-> 100] \in Lists(Nat)
  BY ParameterAssumption DEF Lists, NoReport
<1>4. /\ <<[spec |-> [c \in Cluster |-> 0], status |-> NoReport]>> \in History(TargetVersion)
      /\ <<[spec |-> [c \in Cluster |-> 100], status |-> [c \in Cluster |-> Total]]>>
            \in History(TargetVersion)
      /\ <<[spec |-> [c \in Cluster |-> 100], status |-> [c \in Cluster |-> 100]]>>
            \in History(TargetVersion)
  BY <1>3, SingletonHistory DEF TargetVersion
<1>5. ct \in [Rel -> History(TargetVersion)] /\ tt \in [Rel -> History(TargetVersion)]
  BY <1>4 DEF Init
<1>6. dep \in [Rel -> [Cluster -> Deployment]]
  BY ParameterAssumption DEF Init, Deployment
<1> QED
  BY <1>1, <1>2, <1>5, <1>6 DEF Init, TypeOK

\* The executor waits, wraps up, or adjusts one target object to a percentage
\* of the strategy; it adjusts nothing before the installation is ready.
LEMMA ExecuteCases ==
    ASSUME TypeOK, NEW sent, Execute(sent)
    PROVE  \/ WaitForInstallation(sent)
           \/ WrapUp(sent)
           \/ \E r \in Rel, k \in CondType, x \in 0 .. 100 :
                 /\ AdjustCapacity(r, k, x, sent) \/ AdjustTraffic(r, k, x, sent)
                 /\ Met(Installation)
<1> DEFINE step == Step(Head(rel).target)
<1>1. StepExists => /\ step.cc \in 0 .. 100 /\ step.ci \in 0 .. 100
                    /\ step.tc \in 0 .. 100 /\ step.ti \in 0 .. 100
  <2>1. Head(rel) \in ReleaseVersion
    BY HistoryLemma DEF TypeOK
  <2>2. Head(rel).target \in Nat
    BY <2>1 DEF ReleaseVersion
  <2> QED
    BY <2>2, StepType DEF StepExists
<1> HIDE DEF step
<1>2. \A r, k, x : AdjustCapacity(r, k, x, sent) \/ AdjustTraffic(r, k, x, sent) =>
                      StepExists /\ \A j \in 1 .. (k - 1) : Met(j)
  BY DEF AdjustCapacity, AdjustTraffic, Blocked
<1>3. /\ ContenderCapacity \in CondType /\ 1 \in 1 .. (ContenderCapacity - 1)
      /\ ContenderTraffic \in CondType /\ 1 \in 1 .. (ContenderTraffic - 1)
      /\ IncumbentTraffic \in CondType /\ 1 \in 1 .. (IncumbentTraffic - 1)
      /\ IncumbentCapacity \in CondType /\ 1 \in 1 .. (IncumbentCapacity - 1)
      /\ Installation = 1
  BY DEF CondType, Installation, ContenderCapacity, ContenderTraffic,
         IncumbentTraffic, IncumbentCapacity
<1>4. \/ WaitForInstallation(sent)
      \/ AdjustCapacity("contender", ContenderCapacity, step.cc, sent)
      \/ AdjustTraffic("contender", ContenderTraffic, step.tc, sent)
      \/ HasIncumbent /\ AdjustTraffic("incumbent", IncumbentTraffic, step.ti, sent)
      \/ HasIncumbent /\ AdjustCapacity("incumbent", IncumbentCapacity, step.ci, sent)
      \/ WrapUp(sent)
  BY DEF Execute, step
<1> QED
  BY <1>1, <1>2, <1>3, <1>4, RelFacts, Zenon

\* What the executor's step writes: the Release, and one target object.
LEMMA ExecuteType ==
    ASSUME TypeOK, NEW sent \in BOOLEAN, Execute(sent)
    PROVE  TypeOK'
<1>1. /\ Head(rel).target \in Nat
      /\ \A r \in Rel : ct[r] \in History(TargetVersion) /\ tt[r] \in History(TargetVersion)
  <2>1. Head(rel) \in ReleaseVersion
    BY HistoryLemma DEF TypeOK
  <2> QED
    BY <2>1 DEF TypeOK, ReleaseVersion
<1>2. \A v \in ReleaseVersion :
         PatchRelease(v, sent) => rel' \in History(ReleaseVersion) /\ faults' \in Nat
  <2>1. \A v \in ReleaseVersion : Write(rel, v) \in History(ReleaseVersion)
    BY HistoryLemma DEF TypeOK
  <2> QED
    BY <2>1 DEF PatchRelease, Fault, TypeOK
<1>3. ASSUME NEW r \in Rel, NEW k, NEW percent \in 0 .. 100,
             AdjustCapacity(r, k, percent, sent)
      PROVE  TypeOK'
  <2>1. PatchSpec(ct[r], percent) \in History(TargetVersion)
    BY <1>1, PatchSpecType
  <2>2. ct' \in [Rel -> History(TargetVersion)]
    BY <1>3, <2>1 DEF AdjustCapacity, TypeOK
  <2>3. rel' \in History(ReleaseVersion) /\ faults' \in Nat
    BY <1>2, <1>3, ConditionsPatchType DEF AdjustCapacity
  <2> QED
    BY <1>3, <2>2, <2>3 DEF AdjustCapacity, TypeOK
<1>4. ASSUME NEW r \in Rel, NEW k, NEW weight \in 0 .. 100,
             AdjustTraffic(r, k, weight, sent)
      PROVE  TypeOK'
  <2>1. PatchSpec(tt[r], weight) \in History(TargetVersion)
    BY <1>1, PatchSpecType
  <2>2. tt' \in [Rel -> History(TargetVersion)]
    BY <1>4, <2>1 DEF AdjustTraffic, TypeOK
  <2>3. rel' \in History(ReleaseVersion) /\ faults' \in Nat
    BY <1>2, <1>4, ConditionsPatchType DEF AdjustTraffic
  <2> QED
    BY <1>4, <2>2, <2>3 DEF AdjustTraffic, TypeOK
<1>5. CASE WaitForInstallation(sent)
  <2>1. rel' \in History(ReleaseVersion) /\ faults' \in Nat
    BY <1>2, <1>5, ConditionsPatchType DEF WaitForInstallation
  <2> QED
    BY <1>5, <2>1 DEF WaitForInstallation, TypeOK
<1>6. CASE WrapUp(sent)
  <2>1. rel' \in History(ReleaseVersion) /\ faults' \in Nat
    BY <1>2, <1>6, WrapUpPatchType DEF WrapUp
  <2> QED
    BY <1>6, <2>1 DEF WrapUp, TypeOK
<1> QED
  BY <1>3, <1>4, <1>5, <1>6, ExecuteCases

LEMMA ReportsType ==
    ASSUME TypeOK, NEW r \in Rel, NEW spec, NEW found, NEW report \in Reports(r, spec, found)
    PROVE  report \in Lists(Nat)
<1>1. \A c \in Cluster : dep[r][c].avail \in Nat
  BY DEF TypeOK, Deployment
<1> QED
  BY <1>1, ParameterAssumption DEF Reports, Lists

LEMMA CapacitySyncType ==
    ASSUME TypeOK, NEW r \in Rel, NEW found, NEW scaled, CapacitySync(r, found, scaled)
    PROVE  TypeOK'
<1> DEFINE spec == Head(ct[r]).spec
<1>1. ct[r] \in History(TargetVersion) /\ spec \in Lists(0 .. 100)
  <2>1. ct[r] \in History(TargetVersion)
    BY DEF TypeOK
  <2>2. Head(ct[r]) \in TargetVersion
    BY <2>1, HistoryLemma
  <2> QED
    BY <2>1, <2>2 DEF TargetVersion
<1> HIDE DEF spec
<1>2. faults' \in Nat
  BY DEF CapacitySync, Fault, TypeOK
<1>3. PICK report \in Reports(r, spec, found) :
         ct' = [ct EXCEPT ![r] = Update(ct[r], [Head(ct[r]) EXCEPT !.status = report])]
  BY DEF CapacitySync, spec
<1>4. ct' \in [Rel -> History(TargetVersion)]
  <2>1. report \in Lists(Nat)
    BY ReportsType
  <2>2. Update(ct[r], [Head(ct[r]) EXCEPT !.status = report]) \in History(TargetVersion)
    BY <1>1, <2>1, ReportType DEF TargetVersion, Targets
  <2> QED
    BY <1>3, <2>2 DEF TypeOK
<1>5. dep' \in [Rel -> [Cluster -> Deployment]]
  <2>1. \A c \in Listed(spec) : Replicas(spec[c]) \in Nat
    BY <1>1, ReplicasType DEF Listed, Lists
  <2>2. \A c \in Cluster : dep[r][c] \in Deployment
    BY DEF TypeOK
  <2>3. \A c \in Cluster : \A w \in Nat : [dep[r][c] EXCEPT !.want = w] \in Deployment
    BY <2>2 DEF Deployment
  <2>4. [c \in Cluster |-> IF c \in Listed(spec) \intersect scaled
                           THEN [dep[r][c] EXCEPT !.want = Replicas(spec[c])]
                           ELSE dep[r][c]] \in [Cluster -> Deployment]
    BY <2>1, <2>2, <2>3
  <2> QED
    BY <2>4 DEF CapacitySync, spec, TypeOK
<1> QED
  BY <1>2, <1>4, <1>5 DEF CapacitySync, TypeOK

LEMMA OneLessType ==
    ASSUME NEW d \in Deployment, d.avail > 0, NEW e \in OneLess(d)
    PROVE  e \in Deployment
<1>1. PICK n \in {d.serving - 1, d.serving} \intersect 0 .. (d.avail - 1) :
         e = [d EXCEPT !.avail = d.avail - 1, !.serving = n]
  BY DEF OneLess
<1>2. d.avail - 1 \in Nat /\ n \in Nat /\ n <= d.avail - 1
  BY <1>1 DEF Deployment
<1> QED
  BY <1>1, <1>2 DEF Deployment

LEMMA PodsType ==
    ASSUME TypeOK, NEW r \in Rel, NEW c \in Cluster, DeploymentProgress(r, c) \/ PodLoss(r, c)
    PROVE  TypeOK'
<1>1. dep[r][c] \in Deployment
  BY DEF TypeOK
<1>2. \A e \in OneLess(dep[r][c]) : dep[r][c].avail > 0 => e \in Deployment
  BY <1>1, OneLessType
<1>3. [dep[r][c] EXCEPT !.avail = @ + 1] \in Deployment
  BY <1>1 DEF Deployment
<1>4. \E e \in Deployment : dep' = [dep EXCEPT ![r][c] = e]
  <2>1. CASE DeploymentProgress(r, c) /\ dep[r][c].avail < dep[r][c].want
    BY <1>3, <2>1 DEF DeploymentProgress
  <2>2. CASE DeploymentProgress(r, c) /\ ~(dep[r][c].avail < dep[r][c].want)
    <3>1. dep[r][c].avail > 0
      BY <1>1, <2>2 DEF DeploymentProgress, Deployment
    <3> QED
      BY <1>2, <2>2, <3>1 DEF DeploymentProgress
  <2>3. CASE PodLoss(r, c)
    BY <1>2, <2>3 DEF PodLoss
  <2> QED
    BY <2>1, <2>2, <2>3
<1>5. dep' \in [Rel -> [Cluster -> Deployment]]
  BY <1>4 DEF TypeOK
<1>6. faults' \in Nat
  BY DEF DeploymentProgress, PodLoss, Fault, TypeOK
<1> QED
  BY <1>5, <1>6 DEF DeploymentProgress, PodLoss, TypeOK

LEMMA TrafficSyncType ==
    ASSUME TypeOK, NEW r \in Rel, NEW gone, NEW unpatched \in [Rel -> [Cluster -> Nat]],
           TrafficSync(r, gone, unpatched)
    PROVE  TypeOK'
<1> DEFINE reached == Serviced \ gone
           status  == [c \in Cluster |->
                          CASE ~Weighted(r, c)                  -> Absent
                            [] Weighted(r, c) /\ c \in reached  -> Achieved(r, c, unpatched[r][c])
                            [] OTHER                            -> 0]
<1>1. faults' \in Nat
  BY DEF TrafficSync, Fault, TypeOK
<1>2. dep' \in [Rel -> [Cluster -> Deployment]]
  <2>1. \A q \in Rel, c \in Cluster : dep[q][c] \in Deployment
    BY DEF TypeOK
  <2>2. \A q \in Rel, c \in Cluster : Weighted(q, c) =>
           [dep[q][c] EXCEPT !.serving = Shifted(q, c, unpatched[q][c])] \in Deployment
    BY <2>1, ShiftTypes DEF Deployment
  <2> HIDE DEF reached
  <2>3. dep' = [q \in Rel |-> [c \in Cluster |->
                   IF c \in reached /\ Weighted(q, c)
                   THEN [dep[q][c] EXCEPT !.serving = Shifted(q, c, unpatched[q][c])]
                   ELSE dep[q][c]]]
    BY DEF TrafficSync, reached
  <2> QED
    BY <2>1, <2>2, <2>3
<1>3. status \in Lists(Nat)
  <2>1. \A c \in Cluster : Weighted(r, c) => Achieved(r, c, unpatched[r][c]) \in Nat
    BY ShiftTypes
  <2> HIDE DEF reached
  <2> QED
    BY <2>1 DEF Lists
<1>4. tt' = [tt EXCEPT ![r] = Update(tt[r], [Head(tt[r]) EXCEPT !.status = status])]
  BY DEF TrafficSync
<1> HIDE DEF status
<1>5. Update(tt[r], [Head(tt[r]) EXCEPT !.status = status]) \in History(TargetVersion)
  BY <1>3, ReportType DEF TypeOK, TargetVersion, Targets
<1>6. tt' \in [Rel -> History(TargetVersion)]
  BY <1>4, <1>5 DEF TypeOK
<1> QED
  BY <1>1, <1>2, <1>6 DEF TrafficSync, TypeOK

LEMMA InstallationSyncType ==
    ASSUME TypeOK, NEW ok \in SUBSET Cluster, InstallationSync(ok)
    PROVE  TypeOK'
<1> DEFINE V == [Cluster -> {"Absent", "Failed", "Installed"}]
<1>1. [c \in Cluster |-> IF c \in ok THEN "Installed" ELSE "Failed"] \in V
  OBVIOUS
<1>2. it \in History(V)
  BY DEF TypeOK
<1>3. it' \in History(V)
  <2> HIDE DEF V
  <2> QED
    BY <1>1, <1>2, HistoryLemma DEF InstallationSync, InstallManifests
<1>4. faults' \in Nat /\ charts' \subseteq Cluster
  BY DEF InstallationSync, InstallManifests, Fault, TypeOK
<1> QED
  BY <1>3, <1>4 DEF InstallationSync, InstallManifests, TypeOK

LEMMA UserAndInformerType ==
    ASSUME TypeOK,
           \/ \E s \in TargetSteps : SetTargetStep(s)
           \/ DeliverRelease \/ DeliverInstallation
           \/ \E r \in Rel : DeliverCapacity(r) \/ DeliverTraffic(r)
    PROVE  TypeOK'
<1>1. ASSUME NEW s \in TargetSteps, SetTargetStep(s)
      PROVE  TypeOK'
  <2>1. s \in Nat
    BY ParameterAssumption
  <2>2. Last(rel) \in ReleaseVersion
    BY HistoryLemma DEF TypeOK
  <2>3. [Last(rel) EXCEPT !.target = s] \in ReleaseVersion
    BY <2>1, <2>2 DEF ReleaseVersion
  <2>4. rel' \in History(ReleaseVersion)
    BY <1>1, <2>3, HistoryLemma DEF SetTargetStep, TypeOK
  <2> QED
    BY <1>1, <2>4 DEF SetTargetStep, TypeOK
<1>2. CASE DeliverRelease
  <2>1. rel' \in History(ReleaseVersion)
    BY <1>2, HistoryLemma DEF DeliverRelease, TypeOK
  <2> QED
    BY <1>2, <2>1 DEF DeliverRelease, TypeOK
<1>3. CASE DeliverInstallation
  <2>1. it' \in History([Cluster -> {"Absent", "Failed", "Installed"}])
    BY <1>3, HistoryLemma DEF DeliverInstallation, TypeOK
  <2> QED
    BY <1>3, <2>1 DEF DeliverInstallation, TypeOK
<1>4. ASSUME NEW r \in Rel, DeliverCapacity(r)
      PROVE  TypeOK'
  <2>1. Tail(ct[r]) \in History(TargetVersion)
    BY <1>4, HistoryLemma DEF DeliverCapacity, TypeOK
  <2> QED
    BY <1>4, <2>1 DEF DeliverCapacity, TypeOK
<1>5. ASSUME NEW r \in Rel, DeliverTraffic(r)
      PROVE  TypeOK'
  <2>1. Tail(tt[r]) \in History(TargetVersion)
    BY <1>5, HistoryLemma DEF DeliverTraffic, TypeOK
  <2> QED
    BY <1>5, <2>1 DEF DeliverTraffic, TypeOK
<1> QED
  BY <1>1, <1>2, <1>3, <1>4, <1>5

LEMMA TypeStep == TypeOK /\ [Next]_vars => TypeOK'
<1> SUFFICES ASSUME TypeOK, [Next]_vars PROVE TypeOK'
  OBVIOUS
<1>1. CASE \E sent \in BOOLEAN : Execute(sent)
  BY <1>1, ExecuteType
<1>2. CASE \E ok \in SUBSET Cluster : InstallationSync(ok)
  BY <1>2, InstallationSyncType
<1>3. CASE \E r \in Rel : \E found \in SUBSET Deployed(r) : \E scaled \in SUBSET found :
              CapacitySync(r, found, scaled)
  BY <1>3, CapacitySyncType
<1>4. CASE \E r \in Rel : \E c \in Cluster : DeploymentProgress(r, c) \/ PodLoss(r, c)
  BY <1>4, PodsType
<1>5. CASE \E r \in Rel : \E gone \in SUBSET Cluster, unpatched \in [Rel -> [Cluster -> 0 .. Total]] :
              TrafficSync(r, gone, unpatched)
  <2>1. [Rel -> [Cluster -> 0 .. Total]] \subseteq [Rel -> [Cluster -> Nat]]
    BY ParameterAssumption
  <2> QED
    BY <1>5, <2>1, TrafficSyncType
<1>6. CASE \/ \E s \in TargetSteps : SetTargetStep(s)
           \/ DeliverRelease \/ DeliverInstallation
           \/ \E r \in Rel : DeliverCapacity(r) \/ DeliverTraffic(r)
  BY <1>6, UserAndInformerType
<1>7. CASE UNCHANGED vars
  BY <1>7 DEF TypeOK, vars
<1> QED
  BY <1>1, <1>2, <1>3, <1>4, <1>5, <1>6, <1>7 DEF Next

\* Every reachable state is well formed: in particular the traffic controller
\* never labels more pods than a release has, and never divides by zero when
\* it turns labelled pods into a weight.
THEOREM TypeCorrect == Spec => []TypeOK
BY InitType, TypeStep, PTL DEF Spec

-----------------------------------------------------------------------------
(* How a step changes a target object's spec.                               *)

\* Only the executor writes specs, and only past the installation check.
LEMMA SpecsKept ==
    ASSUME TypeOK, [Next]_vars, NEW r \in Rel, NEW S
    PROVE  /\ ct[r] \in History(Targets(S)) =>
                 \/ ct'[r] \in History(Targets(S))
                 \/ Met(Installation) /\ \E x \in 0 .. 100 : ct'[r] = PatchSpec(ct[r], x)
           /\ tt[r] \in History(Targets(S)) =>
                 \/ tt'[r] \in History(Targets(S))
                 \/ Met(Installation) /\ \E x \in 0 .. 100 : tt'[r] = PatchSpec(tt[r], x)
<1> DEFINE Goal == /\ ct[r] \in History(Targets(S)) =>
                         \/ ct'[r] \in History(Targets(S))
                         \/ Met(Installation) /\ \E x \in 0 .. 100 : ct'[r] = PatchSpec(ct[r], x)
                   /\ tt[r] \in History(Targets(S)) =>
                         \/ tt'[r] \in History(Targets(S))
                         \/ Met(Installation) /\ \E x \in 0 .. 100 : tt'[r] = PatchSpec(tt[r], x)
<1>1. ct \in [Rel -> History(TargetVersion)] /\ tt \in [Rel -> History(TargetVersion)]
  BY DEF TypeOK
<1>2. ASSUME NEW q \in Rel, NEW k \in CondType, NEW x \in 0 .. 100, NEW sent,
             AdjustCapacity(q, k, x, sent) \/ AdjustTraffic(q, k, x, sent),
             Met(Installation)
      PROVE  Goal
  <2>2. CASE AdjustCapacity(q, k, x, sent)
    BY <1>1, <1>2, <2>2 DEF AdjustCapacity
  <2>3. CASE AdjustTraffic(q, k, x, sent)
    BY <1>1, <1>2, <2>3 DEF AdjustTraffic
  <2> QED
    BY <1>2, <2>2, <2>3
<1>3. ASSUME NEW sent \in BOOLEAN, Execute(sent)
      PROVE  Goal
  <2>1. CASE WaitForInstallation(sent) \/ WrapUp(sent)
    BY <2>1 DEF WaitForInstallation, WrapUp
  <2> HIDE DEF Goal
  <2> QED
    BY <1>2, <1>3, <2>1, ExecuteCases
<1>4. ASSUME NEW q \in Rel, NEW found, NEW scaled, CapacitySync(q, found, scaled)
      PROVE  Goal
  <2>1. PICK report \in Reports(q, Head(ct[q]).spec, found) :
           ct' = [ct EXCEPT ![q] = Update(ct[q], [Head(ct[q]) EXCEPT !.status = report])]
    BY <1>4 DEF CapacitySync
  <2>2. report \in Lists(Nat)
    BY ReportsType
  <2>3. ct[q] \in History(Targets(S)) =>
           Update(ct[q], [Head(ct[q]) EXCEPT !.status = report]) \in History(Targets(S))
    BY <2>2, ReportType
  <2>4. tt' = tt
    BY <1>4 DEF CapacitySync
  <2> QED
    BY <1>1, <2>1, <2>3, <2>4
<1>5. ASSUME NEW q \in Rel, NEW gone, NEW unpatched \in [Rel -> [Cluster -> Nat]],
             TrafficSync(q, gone, unpatched)
      PROVE  Goal
  <2> DEFINE reached == Serviced \ gone
             status  == [c \in Cluster |->
                            CASE ~Weighted(q, c)                  -> Absent
                              [] Weighted(q, c) /\ c \in reached  -> Achieved(q, c, unpatched[q][c])
                              [] OTHER                            -> 0]
  <2>1. status \in Lists(Nat)
    <3>1. \A c \in Cluster : Weighted(q, c) => Achieved(q, c, unpatched[q][c]) \in Nat
      BY ShiftTypes
    <3> HIDE DEF reached
    <3> QED
      BY <3>1 DEF Lists
  <2>2. tt' = [tt EXCEPT ![q] = Update(tt[q], [Head(tt[q]) EXCEPT !.status = status])]
    BY <1>5 DEF TrafficSync
  <2> HIDE DEF status
  <2>3. tt[q] \in History(Targets(S)) =>
           Update(tt[q], [Head(tt[q]) EXCEPT !.status = status]) \in History(Targets(S))
    BY <2>1, ReportType
  <2>4. ct' = ct
    BY <1>5 DEF TrafficSync
  <2> QED
    BY <1>1, <2>2, <2>3, <2>4
<1>6. ASSUME NEW q \in Rel, DeliverCapacity(q) \/ DeliverTraffic(q)
      PROVE  Goal
  <2>1. \A h \in History(Targets(S)) : Len(h) > 1 => Tail(h) \in History(Targets(S))
    BY HistoryLemma
  <2> QED
    BY <1>1, <1>6, <2>1 DEF DeliverCapacity, DeliverTraffic
<1>7. ASSUME UNCHANGED <<ct, tt>>
      PROVE  Goal
  BY <1>7
<1>8. [Rel -> [Cluster -> 0 .. Total]] \subseteq [Rel -> [Cluster -> Nat]]
  BY ParameterAssumption
<1>9. \/ \E sent \in BOOLEAN : Execute(sent)
      \/ \E q \in Rel : \E found \in SUBSET Deployed(q) : \E scaled \in SUBSET found :
            CapacitySync(q, found, scaled)
      \/ \E q \in Rel : \E gone \in SUBSET Cluster, unpatched \in [Rel -> [Cluster -> 0 .. Total]] :
            TrafficSync(q, gone, unpatched)
      \/ \E q \in Rel : DeliverCapacity(q) \/ DeliverTraffic(q)
      \/ UNCHANGED <<ct, tt>>
  BY DEF Next, vars, SetTargetStep, InstallationSync, InstallManifests, DeploymentProgress, PodLoss,
         DeliverRelease, DeliverInstallation
<1> HIDE DEF Goal
<1>10. Goal
  BY <1>3, <1>4, <1>5, <1>6, <1>7, <1>8, <1>9
<1> QED
  BY <1>10 DEF Goal

-----------------------------------------------------------------------------
(* No cluster is ever dropped from a spec.                                  *)

\* The inductive invariant: in every version of every target object all
\* clusters ask for the same percentage.  That is why a patch that lists only
\* the outdated clusters lists either all of them or none.
Uniform == {[c \in Cluster |-> p] : p \in 0 .. 100}

UniformSpecs ==
    \A r \in Rel : /\ ct[r] \in History(Targets(Uniform))
                   /\ tt[r] \in History(Targets(Uniform))

LEMMA PatchSpecUniform ==
    ASSUME NEW h \in History(Targets(Uniform)), NEW value \in 0 .. 100
    PROVE  PatchSpec(h, value) \in History(Targets(Uniform))
<1> DEFINE new == NewSpec(Head(h), value)
<1>1. Head(h) \in Targets(Uniform) /\ Last(h) \in Targets(Uniform)
  BY HistoryLemma
<1>2. PICK p \in 0 .. 100 : Head(h).spec = [c \in Cluster |-> p]
  BY <1>1 DEF Targets, Uniform
<1>3. CASE Listed(new) = {}
  BY <1>3 DEF PatchSpec
<1>4. CASE Listed(new) # {}
  <2>1. PICK c \in Cluster : new[c] # Absent
    BY <1>4 DEF Listed
  <2>2. Comparable(Head(h)) /\ p # value
    BY <1>2, <2>1 DEF NewSpec
  <2>3. new = [d \in Cluster |-> value]
    BY <1>2, <2>2 DEF NewSpec, Absent
  <2>4. new \in Uniform
    BY <2>3 DEF Uniform
  <2> HIDE DEF new
  <2>5. [Last(h) EXCEPT !.spec = new] \in Targets(Uniform)
    BY <1>1, <2>4 DEF Targets
  <2>6. Write(h, [Last(h) EXCEPT !.spec = new]) \in History(Targets(Uniform))
    BY <2>5, HistoryLemma
  <2> QED
    BY <1>4, <2>6 DEF PatchSpec, new
<1> QED
  BY <1>3, <1>4

LEMMA UniformInductive ==
    /\ Init => UniformSpecs
    /\ TypeOK /\ UniformSpecs /\ [Next]_vars => UniformSpecs'
<1>1. ASSUME Init PROVE UniformSpecs
  <2>1. [c \in Cluster |-> 0] \in Uniform /\ [c \in Cluster |-> 100] \in Uniform
    BY DEF Uniform
  <2>2. NoReport \in Lists(Nat) /\ [c \in Cluster |-> Total] \in Lists(Nat)
        /\ [c \in Cluster |-> 100] \in Lists(Nat)
    BY ParameterAssumption DEF Lists, NoReport
  <2>3. /\ <<[spec |-> [c \in Cluster |-> 0], status |-> NoReport]>>
              \in History(Targets(Uniform))
        /\ <<[spec |-> [c \in Cluster |-> 100], status |-> [c \in Cluster |-> Total]]>>
              \in History(Targets(Uniform))
        /\ <<[spec |-> [c \in Cluster |-> 100], status |-> [c \in Cluster |-> 100]]>>
              \in History(Targets(Uniform))
    BY <2>1, <2>2, SingletonHistory DEF Targets
  <2> QED
    BY <1>1, <2>3 DEF Init, UniformSpecs
<1>2. ASSUME TypeOK, UniformSpecs, [Next]_vars PROVE UniformSpecs'
  <2> SUFFICES ASSUME NEW r \in Rel
               PROVE  /\ ct'[r] \in History(Targets(Uniform))
                      /\ tt'[r] \in History(Targets(Uniform))
    BY DEF UniformSpecs, Rel, Targets, Lists, Uniform, History
  <2>1. /\ ct[r] \in History(Targets(Uniform))
        /\ tt[r] \in History(Targets(Uniform))
    BY <1>2 DEF UniformSpecs
  <2>2. \A x \in 0 .. 100 : /\ PatchSpec(ct[r], x) \in History(Targets(Uniform))
                            /\ PatchSpec(tt[r], x) \in History(Targets(Uniform))
    BY <2>1, PatchSpecUniform
  <2> QED
    BY <1>2, <2>1, <2>2, SpecsKept
<1> QED
  BY <1>1, <1>2

\* For every strategy, however stale the caches and whichever way the rollout
\* is moved: the executor's cluster-list patches (checks.go) never remove a
\* cluster from a CapacityTarget or a TrafficTarget.
THEOREM NoClusterEverDropped == Spec => []NoClusterDropped
<1>1. TypeOK /\ UniformSpecs => NoClusterDropped
  <2> SUFFICES ASSUME UniformSpecs, NEW r \in Rel
               PROVE  Listed(Last(ct[r]).spec) = Cluster /\ Listed(Last(tt[r]).spec) = Cluster
    BY DEF NoClusterDropped
  <2>1. Last(ct[r]) \in Targets(Uniform) /\ Last(tt[r]) \in Targets(Uniform)
    BY HistoryLemma DEF UniformSpecs
  <2>2. \A spec \in Uniform : Listed(spec) = Cluster
    BY DEF Uniform, Listed, Absent
  <2> QED
    BY <2>1, <2>2 DEF Targets
<1> QED
  BY <1>1, TypeCorrect, UniformInductive, PTL DEF Spec

-----------------------------------------------------------------------------
(* Nothing moves before the chart is installed everywhere.                  *)

\* The spec a release's target objects have when the rollout starts.
AtStart(r) == [c \in Cluster |-> IF r = "contender" THEN 0 ELSE 100]

NotReady == {v \in [Cluster -> {"Absent", "Failed", "Installed"}] : ~InstallationReady(v)}

\* The inductive invariant: while a cluster lacks the chart, no version of the
\* InstallationTarget, cached or stored, reports it installed everywhere, and
\* every version of every other target object asks for what it did at first.
NothingMoved ==
    charts # Cluster =>
        /\ it \in History(NotReady)
        /\ \A r \in Rel : /\ ct[r] \in History(Targets({AtStart(r)}))
                          /\ tt[r] \in History(Targets({AtStart(r)}))

LEMMA NothingMovedInit == Init => NothingMoved
<1> SUFFICES ASSUME Init PROVE NothingMoved
  OBVIOUS
<1>1. it \in History(NotReady)
  <2>1. [c \in Cluster |-> "Absent"] \in NotReady
    BY ParameterAssumption DEF NotReady, InstallationReady
  <2> QED
    BY <2>1, SingletonHistory DEF Init
<1>2. NoReport \in Lists(Nat) /\ [c \in Cluster |-> Total] \in Lists(Nat)
      /\ [c \in Cluster |-> 100] \in Lists(Nat)
  BY ParameterAssumption DEF Lists, NoReport
<1>3. ASSUME NEW r \in Rel
      PROVE  /\ ct[r] \in History(Targets({AtStart(r)}))
             /\ tt[r] \in History(Targets({AtStart(r)}))
  <2> DEFINE v(status) == [spec |-> AtStart(r), status |-> status]
  <2>1. \A status \in Lists(Nat) : v(status) \in Targets({AtStart(r)})
    BY DEF Targets
  <2>2. \A status \in Lists(Nat) : <<v(status)>> \in History(Targets({AtStart(r)}))
    BY <2>1, SingletonHistory
  <2>3. CASE r = "contender"
    <3>1. ct[r] = <<v(NoReport)>> /\ tt[r] = <<v(NoReport)>>
      BY <2>3 DEF Init, AtStart
    <3> QED
      BY <1>2, <2>2, <3>1
  <2>4. CASE r # "contender"
    <3>1. /\ ct[r] = <<v([c \in Cluster |-> Total])>>
          /\ tt[r] = <<v([c \in Cluster |-> 100])>>
      BY <2>4 DEF Init, AtStart
    <3> QED
      BY <1>2, <2>2, <3>1
  <2> QED
    BY <2>3, <2>4
<1> QED
  BY <1>1, <1>3 DEF NothingMoved

LEMMA NothingMovedStep ==
    ASSUME TypeOK, NothingMoved, [Next]_vars
    PROVE  NothingMoved'
<1> SUFFICES ASSUME charts' # Cluster
             PROVE  /\ it' \in History(NotReady)
                    /\ \A r \in Rel : /\ ct'[r] \in History(Targets({AtStart(r)}))
                                      /\ tt'[r] \in History(Targets({AtStart(r)}))
  BY DEF NothingMoved, AtStart, Rel, NotReady, InstallationReady, Targets, Lists, History
<1>1. charts # Cluster
  BY DEF Next, vars, Execute, WaitForInstallation, AdjustCapacity, AdjustTraffic, WrapUp,
         InstallationSync, InstallManifests, CapacitySync, DeploymentProgress, PodLoss, TrafficSync,
         SetTargetStep, DeliverRelease, DeliverInstallation, DeliverCapacity, DeliverTraffic,
         TypeOK
<1>2. it \in History(NotReady)
  BY <1>1 DEF NothingMoved
<1>3. it' \in History(NotReady)
  <2>1. ASSUME NEW ok \in SUBSET Cluster, InstallationSync(ok)
        PROVE  it' \in History(NotReady)
    <3>1. ok # Cluster
      BY <2>1 DEF InstallationSync, InstallManifests, TypeOK
    <3>2. [c \in Cluster |-> IF c \in ok THEN "Installed" ELSE "Failed"] \in NotReady
      BY <3>1 DEF NotReady, InstallationReady
    <3> QED
      BY <1>2, <2>1, <3>2, HistoryLemma DEF InstallationSync, InstallManifests
  <2>2. CASE DeliverInstallation
    BY <1>2, <2>2, HistoryLemma DEF DeliverInstallation
  <2>3. CASE UNCHANGED it
    BY <1>2, <2>3
  <2> QED
    BY <2>1, <2>2, <2>3
    DEF Next, vars, Execute, WaitForInstallation, AdjustCapacity, AdjustTraffic, WrapUp,
        CapacitySync, DeploymentProgress, PodLoss, TrafficSync,
        SetTargetStep, DeliverRelease, DeliverCapacity, DeliverTraffic
<1>4. ~Met(Installation)
  <2>1. Head(it) \in NotReady
    BY <1>2, HistoryLemma
  <2> QED
    BY <2>1 DEF NotReady, Met, Installation, ContenderCapacity, ContenderTraffic,
                IncumbentTraffic, IncumbentCapacity
<1>5. ASSUME NEW r \in Rel
      PROVE  /\ ct'[r] \in History(Targets({AtStart(r)}))
             /\ tt'[r] \in History(Targets({AtStart(r)}))
  <2>1. /\ ct[r] \in History(Targets({AtStart(r)}))
        /\ tt[r] \in History(Targets({AtStart(r)}))
    BY <1>1 DEF NothingMoved
  <2> QED
    BY <1>4, <2>1, SpecsKept
<1> QED
  BY <1>3, <1>5

\* For every strategy and every number of clusters: the executor moves neither
\* capacity nor traffic, of either release, before the contender's chart is
\* installed in every cluster.
THEOREM AlwaysInstalledFirst == Spec => []InstalledFirst
<1>1. NothingMoved => InstalledFirst
  <2> SUFFICES ASSUME NothingMoved, charts # Cluster
               PROVE  \A r \in Rel, c \in Cluster :
                         /\ Last(ct[r]).spec[c] = (IF r = "contender" THEN 0 ELSE 100)
                         /\ Last(tt[r]).spec[c] = (IF r = "contender" THEN 0 ELSE 100)
    BY RelFacts DEF InstalledFirst
  <2> TAKE r \in Rel, c \in Cluster
  <2>1. Last(ct[r]) \in Targets({AtStart(r)}) /\ Last(tt[r]) \in Targets({AtStart(r)})
    BY HistoryLemma DEF NothingMoved
  <2> QED
    BY <2>1 DEF Targets, AtStart
<1>2. TypeOK /\ NothingMoved /\ [Next]_vars => NothingMoved'
  BY NothingMovedStep
<1> QED
  BY <1>1, <1>2, TypeCorrect, NothingMovedInit, PTL DEF Spec

=============================================================================
