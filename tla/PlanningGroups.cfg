SPECIFICATION PlanningSpec
CONSTANTS
    Missing = Missing
    PlanLimits <- MCPlanLimits
    RunLimits <- MCRunLimits
    Jobs = {}
    SampleLimits <- MCSampleLimits
    Sources <- MCSources
INVARIANT BlocksAreKept
CHECK_DEADLOCK FALSE
