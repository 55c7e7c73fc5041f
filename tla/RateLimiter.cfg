SPECIFICATION Spec
CONSTANTS
    Requests = {r1, r2, r3, r4}
    CommitFirst = {}
    MaxRequests = 1
    InFlight = 2
    Window = 2
    MaxDelay = 1
    MaxClock = 3
SYMMETRY Symmetry
CHECK_DEADLOCK FALSE
INVARIANTS
    TypeOK
    OverrunBounded
    WritesAppliedOnce
PROPERTIES
    RefusedForOthers
