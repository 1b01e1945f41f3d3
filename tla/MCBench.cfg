SPECIFICATION Spec
CONSTANTS
    Threads = {15}
    Reps = 2
    Prompts = {1, 4}
    Microbatches = {4, 8}
    Prompt = 3
    Microbatch = 8
    Levels <- MCLevels
    Tile = 2
    cpu = cpu
    Life = 3
    Durations = {1, 2}
CHECK_DEADLOCK FALSE
INVARIANTS
    RowsSurvive
    ComparedOverSameRounds
    RowsUnderLoad
    TenantsKilled
    LabelsAreShares
PROPERTIES
    CampaignEnds
