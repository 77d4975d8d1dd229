SPECIFICATION FollowSpec
CONSTANTS
    Missing = Missing
    PlanLimits <- MCPlanLimits
    RunLimits <- MCRunLimits
    Jobs <- DisputedJobs
    SampleLimits <- MCSampleLimits
    Sources = {}
INVARIANT FailuresAreTyped
CHECK_DEADLOCK FALSE
