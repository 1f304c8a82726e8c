CONSTANTS
    Calls = 1
    Children = 0
    Concurrency = 1
    MaxAgents = 1
    JobBatch = 3
    MaxJsJobs = 8
    FaultPoints <- NoFaults
SPECIFICATION Spec
INVARIANTS
    RejectionFails
