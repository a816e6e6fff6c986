SPECIFICATION Spec
CONSTANTS
    h1 = h1
    h2 = h2
    Handles <- TwoHandles
    PlanLength = 2
    Verdicts = {}
    Endings = {"completed"}
    Outcomes = {"halt_for_human", "load_checkpoint"}
    MaxClock = 0
    MaxCheckpoints = 3
    MaxApprovals = 0
SYMMETRY Symmetry
INVARIANTS
    LostOnlyToOverlap
PROPERTIES
    ResumeKeepsTerminal
\* A host may stop, and with no room in the tables a handle cannot go on.
CHECK_DEADLOCK FALSE
