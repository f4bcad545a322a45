SPECIFICATION FairSpec
CONSTANTS
    Gens = 1
    Kinds <- OneKind
    Fleet <- FourClusters
    Req <- EuAndUs
    RepairFails = FALSE
    MaxUid = 2
    MaxEvents = 1
    MaxTouches = 1
    RelLag = 2
    TgtLag = 1
INVARIANT ScheduledOwnsTargets
PROPERTIES
    AssignedOnce
    AssignedBest
    EventuallyScheduled
