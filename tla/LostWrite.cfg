SPECIFICATION Spec
CONSTANTS
    i1 = i1  i2 = i2  i3 = i3
    k1 = k1  k2 = k2
    t1 = t1  t2 = t2
    q1 = q1  q2 = q2
    Absent = Absent  Hidden = Hidden  NoCtx = NoCtx
    Keys = {k1, k2}
    Vals = {"old", "new", "late"}
    Tools = {t1}
    Requests = {q1}
    Impls = {i1, i2}
    Order <- MCOrder
    FilterTools <- AnyTool
    Fallbacks = {i1, i2}
    ParallelImpls = {}
    HookpointParallel = TRUE
    Enriches <- TwoWriters
    Redacts <- MCRedacts
    Retools <- NoEdits
    Rewrites <- NoEdits
    Relists <- NoEdits
    Forgetful = {}
    Stubborn = {}
    Contexts <- MCContexts
    OwnTasks = TRUE
INVARIANTS
    MergeKeepsWrites
CHECK_DEADLOCK FALSE
