CONSTANTS
    Calls = 2
    Children = 1
    Concurrency = 1
    MaxAgents = 2
    JobBatch = 2
    MaxJsJobs = 6
    FaultPoints <- FaultsAnywhere
SPECIFICATION FairSpec
INVARIANTS
    WakeupsConserved
    ChildrenCounted
    FinishedClean
    StallIsReal
    ExitsClean
    InflightBounded
PROPERTIES
    Termination
