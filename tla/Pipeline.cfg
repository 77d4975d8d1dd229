SPECIFICATION FairSpec
CONSTANTS
    c1 = c1
    c2 = c2
    Clients = {c1, c2}
    Setups <- All
INVARIANTS CommitIsReported OutcomeIsTrue EndIsTrue LeaseIsExclusive
PROPERTIES ExecutingIsTheLoaders ExecuteEnds
CHECK_DEADLOCK FALSE
