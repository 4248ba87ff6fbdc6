SPECIFICATION FairSpec
CONSTANTS
    Runs = {r1, r2}
    None = None
    MaxSteps = 2
    MaxErrors = 2
    OverlappingRuns = FALSE
    Compaction = FALSE
INVARIANT ApprovalIsAsked
PROPERTY RunEnds
CHECK_DEADLOCK FALSE
