SPECIFICATION Spec
CONSTANTS
    Gens = 2
    Kinds <- TwoKinds
    Fleet <- TwoClusters
    Req <- Eu
    RepairFails = TRUE
    MaxUid = 1
    MaxEvents = 1
    MaxTouches = 0
    RelLag = 1
    TgtLag = 1
PROPERTY NoUncommandedRollback
