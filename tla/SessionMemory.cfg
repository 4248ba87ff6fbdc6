SPECIFICATION Spec
CHECK_DEADLOCK FALSE
CONSTANTS
    NumCalls = 3
    MaxLive = 2
    MaxHistoryFiles = 2
    MaxUnits = 2
    Bad = Bad
    OldStores <- MCOldStores
INVARIANTS
    TypeOK
    NothingForgotten
    InOrder
    EstimateIsSize
    HistoryBounded
PROPERTY NewestSurvives
