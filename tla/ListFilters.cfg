SPECIFICATION Spec
CONSTANTS
    r1 = r1
    r2 = r2
    w1 = w1
    w2 = w2
    Home <- Homes
    Readers = {r1, r2}
    Admins = {a1}
    Workers = {w1, w2}
    MaxVersion = 1
    FilterTTL = 2
    LevelTTL = 1
    EntryTTL = 2
    MaxWork = 1
    NoAnswer = NoAnswer
    Nowhere = Nowhere
SYMMETRY Symmetry
INVARIANTS
    TypeOK
    CopiesBounded
PROPERTIES
    SourcePromiseKept
    LevelPromiseKept
    OnlyCommitsUnsettle
