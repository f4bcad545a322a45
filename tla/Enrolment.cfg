SPECIFICATION FairSpec
CONSTANTS
    MaxUid = 2
    MaxChanges = 3
    MaxInterrupts = 1
    Interruptible <- SafeStages
INVARIANT AppliedIsComplete
PROPERTIES
    SecretRestored
    ApplySucceeds
CHECK_DEADLOCK FALSE
