CONSTANTS
    a1 = a1
    a2 = a2
    Agents <- MCAgents
    Platforms <- MCPlatforms
SPECIFICATION Spec
INVARIANTS
    TypeOK
    SuccessIsReal
    NoRuntimeLeft
    ResultNotMissed
PROPERTIES
    Returns
