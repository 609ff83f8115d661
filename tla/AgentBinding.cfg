SPECIFICATION Spec
CONSTANTS
    None = None  Malformed = Malformed
    r1 = r1  r2 = r2
    Registries = {r1, r2}
    Decls <- MCDecls
    MetaKeys = {"flag"}
    MetaVals = {"A", "on", "t"}
    MaxImpls = 2
    Agents = {"a"}
    AgentIds = {"id"}
    Contexts <- MCContexts
    MaxList = 2
INVARIANTS
    TypeOK
    SingleIsAlone
    OnlyCompatible
    PointsRunWhatWasGiven
    ResolvedIsRanked
SYMMETRY Symmetry
CHECK_DEADLOCK FALSE
