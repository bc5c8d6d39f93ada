SPECIFICATION FairSpec
CONSTANTS
    Nodes = {1, 2, 3}
    Versions = {"v1", "v2", "v3"}
    First = "v1"
    Targets = 2
    Settings <- RolloutSettings
INVARIANTS TypeOK  ReplacementsAreEarned
PROPERTIES ReleasedRanEverywhere 
CHECK_DEADLOCK FALSE
