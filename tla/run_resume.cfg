CONSTANTS
    p = p
    q = q
    x = x
    y = y
    Identities <- MCIdentities
    Args <- MCArgs
    MaxRuns = 3
    MaxCalls = 2
    MaxPhases = 0
    MaxAgents = 2
    Faults <- ResumeFaults
SPECIFICATION Spec
SYMMETRY Symmetry
INVARIANTS
    ReplaysPrefix
    PrefixReused
    OriginIsReal
CHECK_DEADLOCK FALSE
