SPECIFICATION Spec
CONSTANTS
    h1 = h1
    h2 = h2
    Handles <- TwoHandles
    PlanLength = 2
    Verdicts = {"approved"}
    Endings = {}
    Outcomes = {}
    MaxClock = 1
    MaxCheckpoints = 3
    MaxApprovals = 2
SYMMETRY Symmetry
INVARIANTS
    TypeOK
    NewestSupersedes
    LostOnlyToOverlap
    OwnRequestDecided
\* A host may stop, and with no room in the tables a handle cannot go on.
CHECK_DEADLOCK FALSE
