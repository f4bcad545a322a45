SPECIFICATION FairSpec
CONSTANTS
    Cluster = {c1}
    Steps <- ThreeSteps
    Total = 2
    HasIncumbent = TRUE
    TargetSteps = {0, 1, 2}
    StepBack = TRUE
    MaxCommands = 2
    Faults = {"patch", "install", "unreachable", "podpatch", "podloss"}
    MaxFaults = 1
    MaxDisturbed = 2
    MaxLag = 1
PROPERTY RolloutConverges
