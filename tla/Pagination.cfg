SPECIFICATION FairSpec
CONSTANTS
    K = 4
    MaxKey = 1
    PageSize = 2
    MaxChanges = 1
    Endpoints = {"search", "ranked", "nearby", "map", "classifications", "mappings"}
INVARIANTS
    TypeOK
    SteadyOnce
    TotalIsRight
PROPERTIES
    CursorAdvances
    EveryWalkEnds
CHECK_DEADLOCK FALSE
