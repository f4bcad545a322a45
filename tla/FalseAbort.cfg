SPECIFICATION Spec
CONSTANTS
    Template = {t1, t2}
    Limit = 1
    Prompt = FALSE
    MaxEdits = 1
    MaxDeletes = 0
    MaxFaults = 0
    AppLag = 2
    RelLag = 2
PROPERTY AbortIsReal
