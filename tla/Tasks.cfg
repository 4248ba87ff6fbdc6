SPECIFICATION Spec
CONSTANTS
    Ids = {t1, t2, t3}
    Unknown = Unknown
    BlockLists <- ShortBlockLists
    BlockedByLists <- SingleBlockedBy
    Orders <- OneOrder
    MaxEdges = 3
SYMMETRY Symmetry
INVARIANT BlocksAcyclic
INVARIANT SearchIsExact
PROPERTY FreedByCompletion
