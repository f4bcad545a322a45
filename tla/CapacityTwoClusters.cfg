SPECIFICATION Spec
CONSTANTS
    N = 2
    MaxPods = 2
    MaxEntries = 4
    Unreachable = FALSE
INVARIANT StatusFaithful
