\* Two runs of any two scripts on three rows, with one write of somebody else.
CONSTANTS
    N = 3
    Runs = {r1, r2}
    Orders <- MCOrders
    Start <- MCStart
    BatchSize = 2
    MaxLaunches = 2
    MaxWrites = 1

SPECIFICATION FairSpec

INVARIANTS
    TypeOK
    NothingLeftBehind
    NoBlindOverwrite

PROPERTIES
    OnlyFillsEmpty
    EveryRunEnds

\* The runs and the writes are bounded.
CHECK_DEADLOCK FALSE
