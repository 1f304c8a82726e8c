CONSTANTS
    p = p
    q = q
    x = x
    y = y
    Identities <- MCIdentities
    Args <- OneArgs
    MaxRuns = 2
    MaxCalls = 2
    MaxPhases = 1
    MaxAgents = 1
    Faults <- Failures
SPECIFICATION Spec
SYMMETRY Symmetry
INVARIANTS
    TypeOK
    FinishedIsLast
    RecordsMatchCalls
    LimitIsReal
    PhasesInOrder
CHECK_DEADLOCK FALSE
