CONSTANTS
    Width = 4
    MaxStages = 2
    MaxEntries = 3
SPECIFICATION Spec
INVARIANTS
    SlotsKeepInput
    FailureStaysInBranch
PROPERTIES
    SkipsAfterFailure
    NoBarrier
    Answers
CHECK_DEADLOCK FALSE
