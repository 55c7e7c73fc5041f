SPECIFICATION FairSpec
CONSTANTS
    Readers = {r1, r2}
    Writers = {w1}
    MaxVersion = 1
    LockTimeout = 1
    EntryTTL = 2
    MaxWork = 1
    Nobody = Nobody
    NoAnswer = NoAnswer
    Failed = Failed
INVARIANTS
    TypeOK
    BoundedStaleness
    OneOwner
PROPERTIES
    PromiseKept
    StalenessNeedsCommit
    EveryRequestEnds
    EventuallySettled
