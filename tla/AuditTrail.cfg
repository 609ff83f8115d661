SPECIFICATION FairSpec
CONSTANTS
    Records = {"r1", "r2", "r3"}
    Trails = {"main", "twin"}
    Files = {"shared"}
    PathOf <- SamePath
    Fragile = {"r3"}
INVARIANTS
    TypeOK
    LockMatchesTasks
    OverlapOnlyAfterCancel
    InHandOverOrder
PROPERTIES
    EventuallySettled
    ImplementsLog
CHECK_DEADLOCK FALSE
