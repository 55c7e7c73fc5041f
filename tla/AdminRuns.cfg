SPECIFICATION Spec
CONSTANTS
    r1 = r1
    r2 = r2
    Runs = {r1, r2}
    N = 2
    Depth = 2
    Foreign = {}
    Earlier = {}
    BatchSize = 1
    Plans <- SomePlans
    Unsteady = {1}
    MaxChanges = 1
INVARIANTS
    TypeOK
    RecordTruth
    CountsAreCommitted
    NothingSkipped
    FreshRunCompletes
    StopLostToOthers
CHECK_DEADLOCK FALSE
