SPECIFICATION Spec
CONSTANTS
    Agents = {"agent1", "agent2", "agent3"}
    JobsMayFail = TRUE
    MaxJobs = 2
INVARIANTS
    TypeOK
    UnfinishedExact
    OneLost
    StopWaitsForJobs
PROPERTIES
    StepReturns
\* A closed runtime, or a host that takes no further step, stops.
CHECK_DEADLOCK FALSE
