SPECIFICATION Spec
CONSTANTS
    r1 = r1
    r2 = r2
    k1 = k1
    k2 = k2
    i1 = i1
    i2 = i2
    a1 = a1
    a2 = a2
    a3 = a3
    Attempts = {a1, a2, a3}
    Runs = {r1, r2}
    Keys = {k1, k2}
    Instances = {i1, i2}
    Tables = {1, 2}
    Setups <- AllSetups
    SpecOf <- MCSpecOf
    RecordIds = {"a"}
    Kinds = {"normalized"}
    SuccessSeconds = 0
    FailureSeconds = 0
    MaxRunSeconds = 2
    MaxBatches = 1
    MaxRecords = 1
    None = None
SYMMETRY Symmetry
INVARIANTS StagingIsTrue AnswerIsTrue LoadedOnce NoLockCycle
CHECK_DEADLOCK FALSE
