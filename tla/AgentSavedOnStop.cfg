SPECIFICATION FairSpec
CONSTANTS
    Runs = {r1}
    None = None
    MaxSteps = 3
    MaxErrors = 2
    OverlappingRuns = FALSE
    Compaction = FALSE
PROPERTY SavedOnStop
CHECK_DEADLOCK FALSE
