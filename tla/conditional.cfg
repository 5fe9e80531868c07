SPECIFICATION FairSpec
CONSTANTS
    JobIds <- ConditionalJobs
    Phases <- ConditionalWorkflow
    Budget = 2
    MaxAttempts = 2
    MaxCycles = 3
    MaxLeases = 2
    Procs = {q1, q2}
    Preserve = TRUE
    Outcomes <- CostlyOutcomes
    Limits <- ReviewLimits
INVARIANTS
    SettledReleasesAll
    CyclesBounded
PROPERTIES
    EverythingEnds
CHECK_DEADLOCK FALSE
