CONSTANTS
    Calls = 3
    Children = 0
    Concurrency = 2
    MaxAgents = 2
    JobBatch = 3
    MaxJsJobs = 8
    FaultPoints <- FaultsAnywhere
SPECIFICATION Spec
INVARIANTS
    TypeOK
    CompletionsConserved
PROPERTIES
    DecidedIsFinal
    ImplementsLifecycle
