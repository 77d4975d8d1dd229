SPECIFICATION MCDataSpec
CONSTANTS
    Units <- FourUnits
    Records = {1, 2, 3}
    Table <- Tables
    Rank <- Ranks
    Found <- Actions
    BatchSize = 2
    Inputs <- FewInputs
    Missing = Missing
    Texts <- MCTexts
    Dialects <- MCDialects
    RowLimits <- MCRowLimits
    BatchLimits <- MCBatchLimits
    Candidates <- MCCandidates
    ProbeRows = 2
    Pages <- MCPages
    LineLimits <- MCLineLimits
    UnitLimits <- MCUnitLimits
    Documents <- MCDocuments
    Names = {"a", "0"}
    JsonLimits <- MCJsonLimits
    PlanLimits <- MCPlanLimits
    RunLimits <- MCRunLimits
    Jobs <- MCJobs
    SampleLimits <- MCSampleLimits
    Sources <- MCSources
    Runs = {r1}
    Writers = {w1, w2}
    Maintainers = {m1}
    RecordIds = {"a", "b"}
    Kinds = {"normalized"}
    Specs <- MCSpecs
    Batches <- MCBatches
    SuccessSeconds = 1
    FailureSeconds = 2
    MaxRunSeconds = 3
    MaxBatches = 2
    MaxRecords = 2
    MaxTime = 5
    None = None
INVARIANTS CasIsSound SealedIsDataset OutcomeKept RetainedIsReadable RejectedIsHull LoadedIsWhole ContentIsRead PlanIsFollowed DerivedIsTotal
CHECK_DEADLOCK FALSE
