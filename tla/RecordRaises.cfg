SPECIFICATION Spec
CONSTANTS
    Records = {"r1", "r2", "r3", "r4"}
    Trails = {"main"}
    Files = {"shared"}
    PathOf <- SamePath
    Fragile = {}
INVARIANTS
    NeverRaises
CHECK_DEADLOCK FALSE
