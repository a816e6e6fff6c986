SPECIFICATION Spec
CONSTANTS
    a = a
    b = b
    c = c
    StepNames <- Names
    Plan <- ThreeSteps
    Tools = {"search"}
    Calls = {"complete_step", "fail_step", "mark_green", "checkpoint", "request_approval", "approve", "reject", "pause", "complete", "abort"}
    Outcomes = {"abort", "load_checkpoint", "halt_for_human"}
    WritesMayFail = FALSE
    MaxCheckpoints = 3
    MaxApprovals = 2
INVARIANTS
    CursorIsCompletedPrefix
    CompletedIsDurable
    GateShut
    VerdictOnRecord
PROPERTIES
    EveryPositionYielded
    ImplementsDurablePlan
\* The host may end, and without a checkpoint or room for one it cannot go on.
CHECK_DEADLOCK FALSE
