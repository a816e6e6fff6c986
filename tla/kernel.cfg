SPECIFICATION Spec
CONSTANTS
    a = a
    b = b
    c = c
    StepNames <- Names
    Plan <- OneStep
    Tools = {"search"}
    Calls = {"complete_step", "tool", "mark_green_id", "mark_green_unknown", "apply_policies"}
    Outcomes = {"load_checkpoint"}
    WritesMayFail = TRUE
    MaxCheckpoints = 3
    MaxApprovals = 1
INVARIANTS
    TypeOK
    GreenRefsBackward
    SchemasHydrated
    DurableWorkKept
\* The host may end, and without a checkpoint or room for one it cannot go on.
CHECK_DEADLOCK FALSE
