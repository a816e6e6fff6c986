SPECIFICATION Spec
CONSTANTS
    Keys = {"id", "at", "data"}
    Values <- Results
    Excludes <- ExcludeLists
    Calls <- HostCalls
    StepTypes = {"tool_call", "llm_call", "retrieval"}
    ReadOnlyTools = {"cat", "grep"}
    Words <- GitWords
    Interval = 2
    MaxSteps = 3
    MaxRecords = 2
INVARIANTS
    TypeOK
    EffectsCheckpointed
    SparseCheckpoints
    PeriodKept
    MismatchIffVisible
\* The host may stop, and without a checkpoint there is nothing to resume.
CHECK_DEADLOCK FALSE
