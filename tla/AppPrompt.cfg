SPECIFICATION FairSpec
CONSTANTS
    Template = {t1, t2}
    Limit = 1
    Prompt = TRUE
    MaxEdits = 3
    MaxDeletes = 2
    MaxFaults = 1
    AppLag = 1
    RelLag = 2
INVARIANTS GenerationsUnique RevertsWarranted
PROPERTY TemplateReleased
