SPECIFICATION FairSpec
CONSTANTS
    Bases = {"x", "parent"}
    Batches = {"b1", "b2"}
    Configs <- MCConfigs
    MaxSteps = 2
    MaxMessages = 3
INVARIANT RoutesToLive
PROPERTY ShutdownHeeded
PROPERTY ExecuteReturns
CHECK_DEADLOCK FALSE
