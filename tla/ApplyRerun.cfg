SPECIFICATION FairSpec
CONSTANTS
    MaxUid = 1
    MaxChanges = 0
    MaxInterrupts = 1
    Interruptible <- AnyStage
PROPERTIES
    ApplySucceeds
CHECK_DEADLOCK FALSE
