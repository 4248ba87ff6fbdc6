SPECIFICATION Spec
CONSTANTS
    Runs = {r1, r2}
    None = None
    MaxSteps = 3
    MaxErrors = 2
    OverlappingRuns = FALSE
    Compaction = TRUE
INVARIANT NoOrphanWaiter
INVARIANT PlanGatesWork
INVARIANT NoEditsInPlanMode
INVARIANT SessionIsOwn
INVARIANT ExecutorPresent
INVARIANT OnlyHangsDismiss
PROPERTY NoNewAnswerAfterStop
PROPERTY ImplementsLifecycle
CHECK_DEADLOCK FALSE
