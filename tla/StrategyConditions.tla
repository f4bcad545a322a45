------------------------- MODULE StrategyConditions -------------------------
(***************************************************************************)
(* The strategy conditions of a Release (pkg/conditions/strategy.go): one  *)
(* condition per phase of a rollout step, each stamped with the step it    *)
(* was recorded for, and the four-flag summary computed from them.         *)
(*                                                                         *)
(* A condition type is numbered by the place of its phase in               *)
(* Executor.Execute, so that "the phases before k" is an interval.         *)
(***************************************************************************)
EXTENDS Integers

Installation      == 1   \* ContenderAchievedInstallation
ContenderCapacity == 2   \* ContenderAchievedCapacity
ContenderTraffic  == 3   \* ContenderAchievedTraffic
IncumbentTraffic  == 4   \* IncumbentAchievedTraffic
IncumbentCapacity == 5   \* IncumbentAchievedCapacity

CondType == 1 .. 5

\* "Absent" is a condition type missing from the map.
CondStatus == {"Absent", "True", "False", "Unknown"}

Conditions == [CondType -> [status : CondStatus, step : Nat]]

NoConditions == [k \in CondType |-> [status |-> "Absent", step |-> 0]]

\* StrategyConditionsMap.IsTrue: present, recorded for this very step, and True.
IsTrue(conds, step, k) == conds[k] = [status |-> "True", step |-> step]

\* StrategyConditionsMap.update for all the types of a set at once.
SetAll(conds, types, status, step) ==
    [k \in CondType |-> IF k \in types THEN [status |-> status, step |-> step]
                                       ELSE conds[k]]

\* Faulty variant: the incumbent is never waited for.
AsReleaseStrategyStateContender(conds, step, hasIncumbent, isLastStep) ==
    LET achieved(k) == IsTrue(conds, step, k)
        capacity == achieved(Installation) /\ ~achieved(ContenderCapacity)
        traffic  == /\ achieved(Installation)
                    /\ achieved(ContenderCapacity)
                    /\ ~achieved(ContenderTraffic)
    IN  [waitingForInstallation |-> ~achieved(Installation),
         waitingForCapacity     |-> capacity,
         waitingForTraffic      |-> traffic,
         waitingForCommand      |-> /\ ~isLastStep
                                    /\ ~capacity
                                    /\ ~traffic
                                    /\ achieved(Installation)]

\* StrategyConditionsMap.AsReleaseStrategyState.
AsReleaseStrategyState(conds, step, hasIncumbent, isLastStep) ==
    LET achieved(k) == IsTrue(conds, step, k)
        incumbentTurn == /\ hasIncumbent
                         /\ achieved(Installation)
                         /\ achieved(ContenderCapacity)
                         /\ achieved(ContenderTraffic)
        capacity == \/ /\ achieved(Installation)
                       /\ ~achieved(ContenderCapacity)
                    \/ /\ incumbentTurn
                       /\ achieved(IncumbentTraffic)
                       /\ ~achieved(IncumbentCapacity)
        traffic  == \/ /\ achieved(Installation)
                       /\ achieved(ContenderCapacity)
                       /\ ~achieved(ContenderTraffic)
                    \/ /\ incumbentTurn
                       /\ ~achieved(IncumbentTraffic)
                       /\ ~achieved(IncumbentCapacity)
    IN  [waitingForInstallation |-> ~achieved(Installation),
         waitingForCapacity     |-> capacity,
         waitingForTraffic      |-> traffic,
         waitingForCommand      |-> /\ ~isLastStep
                                    /\ ~capacity
                                    /\ ~traffic
                                    /\ achieved(Installation)]

StrategyState == [waitingForInstallation : BOOLEAN, waitingForCapacity : BOOLEAN,
                  waitingForTraffic : BOOLEAN, waitingForCommand : BOOLEAN]

\* A Release whose status.strategy has never been written.
NoState == [waitingForInstallation |-> FALSE, waitingForCapacity |-> FALSE,
            waitingForTraffic |-> FALSE, waitingForCommand |-> FALSE]
=============================================================================
