SPECIFICATION FairSpec
CONSTANTS
    c1 = c1  c2 = c2
    NoTenant = NoTenant
    Calls = {c1}
    Tenant <- MCTenant
    Session <- MCSession
    Hooks <- RetryHooks
    Budget = 2
    Mangling = {c1}
PROPERTIES
    NeverStalls
CHECK_DEADLOCK FALSE
