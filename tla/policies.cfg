SPECIFICATION Spec
CONSTANTS
    Tools = {search, send}
    Versions = {1, 2}
    Unset = 0
    Initial = 1
    Mapping <- DefaultMapping
    Supplied <- SomeFields
    Drifting = {"results", "outbound", "intent", "drift"}
    MaxDrifts = 2
    MaxCheckpoints = 2
    MaxCalls = 2
INVARIANTS
    TypeOK
    PoliciesEnforced
    RevalidationPending
PROPERTIES
    ComparedIsAnswered
SYMMETRY Symmetry
CHECK_DEADLOCK FALSE
