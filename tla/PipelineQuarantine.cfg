SPECIFICATION Spec
CONSTANTS
    c1 = c1
    c2 = c2
    Clients = {c1, c2}
    Setups <- QuarantineLost
INVARIANTS
    OutcomeIsTrue
CHECK_DEADLOCK FALSE
