SPECIFICATION Spec
CONSTANTS
    Runs = {r1, r2}
    None = None
    MaxSteps = 2
    MaxErrors = 2
    OverlappingRuns = TRUE
    Compaction = TRUE
SYMMETRY Symmetry
INVARIANT ApprovalReachesWaiter
INVARIANT RunningHasRunner
CHECK_DEADLOCK FALSE
