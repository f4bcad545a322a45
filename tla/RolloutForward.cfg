SPECIFICATION Spec
CONSTANTS
    Cluster = {c1}
    Steps <- Vanguard
    Total = 4
    HasIncumbent = TRUE
    TargetSteps = {1, 2, 3, 4}
    StepBack = FALSE
    MaxCommands = 2
    Faults = {"patch", "install", "unreachable", "podpatch"}
    MaxFaults = 1
    MaxDisturbed = 2
    MaxLag = 1
INVARIANTS
    TypeOK
    InstalledFirst
    NoCapacityLoss
    NoServingLoss
    LockStep
    CommandMeansConverged
