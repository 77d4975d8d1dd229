SPECIFICATION MCSecuritySpec
CONSTANTS
    None = None
    Limit <- MCLimit
    ReadChunk = 2
    AllowedFormats = {"csv"}
    Deployments <- MCDeployments
    Purposes = {"plan", "map"}
    Setups <- MCSetups
    RunTasks = {"p1"}
    RunDeployment = "own"
    RunCapabilities <- MCOwn
    Redeployed <- MCMoved
    Answers <- MCAnswers
    Source = 4
    Formats = {"csv", "pdf"}
    MaxClock = 4
    VaultRuns = {"run1", "run2"}
    Writers = {"writer"}
    Readers = {"reader"}
    Strangers = {"other"}
    MaxTtl = 1
    MaxMaps = 2
    MaxEntries = 2
    MaxBytes = 17
    TokenChars = 2
    MaxOutput = 7
    Overhead = 2
    Jobs <- MCJobs
    MaskJobs <- MCMaskJobs
    Keys = {"k1", "k2"}
    MaxHandles = 2
    MaxTime = 2
    Absent = Absent
    Callers = {"c1"}
    Scoped = {"s1"}
    Closers = {"k1", "k2"}
    Replies <- MCReplies
    MaxCalls = 2
    MaxHistory = 1
    Nothing = Nothing
    Missing = Missing
    PlanLimits <- MCPlanLimits
    Documents <- MCDocuments
    DocumentPolicy <- MCDocumentPolicy
    Wide = {"u"}
    ChunkScans = {"allow", "review", "bad", "fails"}
    ModelCaps <- MCModelCaps
    ChunkReplies <- MCChunkReplies
    NoPlan = NoPlan
    Settings <- MCSettings
    Proposals <- MCProposals
    Extractions <- MCExtractions
    SavedPlans <- MCSavedPlans
    SessionPolicy <- MCSessionPolicy
    ReplayLimits <- MCReplayLimits
    ProposalPolicy <- MCProposalPolicy
    Cases <- MCCases
    ProposalScans <- MCProposalScans
    ProposalCaps <- MCProposalCaps
INVARIANTS EgressAllowed BooksAreTrue ReleasedAtRest MapsAreKept EntitiesAreGrounded ReportIsTrue ProposalIsWhole
PROPERTIES GivenInTime
CHECK_DEADLOCK FALSE
