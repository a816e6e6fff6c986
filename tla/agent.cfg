SPECIFICATION LoopSpec
CONSTANTS
    draft = draft
    approve = approve
    send = send
    archive = archive
    StepNames <- Names
    Plan <- GatedPlan
    Gates <- GateSteps
    Tools = {"crm_lookup"}
    Calls = {"tool", "checkpoint", "request_approval", "approve", "reject", "complete"}
    Outcomes = {"halt_for_human"}
    WritesMayFail = FALSE
    MaxCheckpoints = 24
    MaxApprovals = 2
    MaxSetbacks = 3
INVARIANTS
    LoopTypeOK
    BehindGate
    RedoneWithinSetbacks
    CompletedIsThrough
PROPERTIES
    PlanFinishes
