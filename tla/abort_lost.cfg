SPECIFICATION Spec
CONSTANTS
    a = a
    b = b
    c = c
    StepNames <- Names
    Plan <- OneStep
    Tools = {"search"}
    Calls = {"checkpoint"}
    Outcomes = {"abort"}
    WritesMayFail = FALSE
    MaxCheckpoints = 3
    MaxApprovals = 1
INVARIANTS
    AbortIsFinal
\* The host may end, and without a checkpoint or room for one it cannot go on.
CHECK_DEADLOCK FALSE
