SPECIFICATION FairSpec
CONSTANTS
    ApiTypes = {"openai", "anthropic"}
    Keys = {"k1", "k2"}
    ModelIds = {"m1", "m2"}
    Endpoints = {"e1"}
    None = None
    Presets <- MCPresets
    Defaults <- MCDefaults
    MaxChanges = 1
    Requests = {q1, q2}
INVARIANT ProviderIsCurrent
INVARIANT NewestCancellable
INVARIANT NoStaleText
PROPERTY RequestsSettle
CHECK_DEADLOCK FALSE
