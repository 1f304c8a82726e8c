CONSTANTS
    p = p
    q = q
    x = x
    y = y
    Identities <- MCIdentities
    Args <- MCArgs
    MaxRuns = 1
    MaxCalls = 1
    MaxPhases = 0
    MaxAgents = 1
    Faults <- ValueFaults
SPECIFICATION Spec
SYMMETRY Symmetry
INVARIANTS
    EveryExecutionRecorded
CHECK_DEADLOCK FALSE
