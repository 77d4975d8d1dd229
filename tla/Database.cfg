SPECIFICATION MCDatabaseSpec
CONSTANTS
    Null = Null
    w1 = w1
    w2 = w2
    w3 = w3
    t1 = t1
    Appenders = {w1, w2, w3}
    Verifiers = {v1}
    Ids = {"a", "b", "c"}
    Policies = {"p"}
    TargetIds = {t1}
    Maximum = 2
    Retries = 2
    PageSize = 1
    Stores = {TRUE, FALSE}
    Scripts <- MCScripts
    Inspectors = {"c1", "c2"}
    Adapters = {"sqlite", "postgresql", "planner"}
    MaxCancels = 2
    NoTask = NoTask
    Nothing = Nothing
    Targets <- MCTargets
    CatalogLimits <- MCCatalogLimits
    Types <- MCTypes
    r1 = r1
    k1 = k1
    i1 = i1
    a1 = a1
    a2 = a2
    None = None
INVARIANTS ReceiptsVerify InspectionIsExclusive CatalogIsTrue
PROPERTIES ImplementsLog EveryAppendEnds EveryInspectionEnds EveryAttemptEnds
CHECK_DEADLOCK FALSE
