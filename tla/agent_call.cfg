CONSTANTS
    Agents = {1, 2, 3}
    Processes = {"p", "q"}
    Faults = {"cancel", "kill", "disk", "git"}
    MaxSchemaDepth = 2
    Scenarios <- MCScenarios
    Probed <- MCProbed
    Edits <- MCEdits
    Answers <- MCAnswers
    SchemaAllowed <- ValidateSchema
    ResultAllowed <- ValidateInstance
    LabelPattern <- MCLabelPattern
    SafeLabel <- MCSafeLabel
    AgentName <- MCAgentName
    SlotFile <- MCSlotFile
    TreeText <- MCTreeText
    SafeRunId <- MCSafeRunId
    StartsWithDash <- MCStartsWithDash
    IndentedDash <- MCIndentedDash
    Blank <- MCBlank
    TooLong <- MCTooLong
    Mentions <- MCMentions
    IsAbsolute <- MCIsAbsolute
    Absolute <- MCAbsolute
    IsCodex <- MCIsCodex
    ModelPattern <- MCModelPattern
    EffortArg <- MCEffortArg
SPECIFICATION Spec
INVARIANTS
    TypeOK
    WritersConfined
    ArgvIsRequested
    ValidatorIsExact
    ResultFits
PROPERTIES
    CallsSettle
