SPECIFICATION FairSpec
CONSTANTS
    c1 = c1  c2 = c2
    NoTenant = NoTenant
    Calls = {c1, c2}
    Tenant <- MCTenant
    Session <- MCSession
    Hooks <- MCHooks
    Budget = 2
    Mangling = {c1}
INVARIANTS
    TypeOK
    NeverOverLimit
    RetriesOnlyFailures
    FreshContext
PROPERTIES
    RejectedOnlyWhenFull
    EventuallyEnds
CHECK_DEADLOCK FALSE
