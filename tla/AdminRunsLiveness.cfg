SPECIFICATION FairSpec
CONSTANTS
    r1 = r1
    r2 = r2
    Runs = {r1, r2}
    N = 2
    Depth = 1
    Foreign = {}
    Earlier = {}
    BatchSize = 1
    Plans <- LivePlans
    Unsteady = {1}
    MaxChanges = 0
PROPERTIES
    EveryRunEnds
    EveryRecordSettles
CHECK_DEADLOCK FALSE
