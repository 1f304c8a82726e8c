CONSTANTS
    a1 = a1
    a2 = a2
    Agents <- MCAgents
    Platforms <- Posix
SPECIFICATION Spec
INVARIANTS
    TreeGone
