SPECIFICATION Spec
CONSTANTS
    JobIds <- GatedJobs
    Phases <- GatedWorkflow
    Budget = 5
    MaxAttempts = 2
    MaxCycles = 3
    MaxLeases = 2
    Procs = {q1, q2}
    Preserve = FALSE
    Outcomes <- UsualOutcomes
    Limits <- QuietLimits
SYMMETRY ProcSymmetry
INVARIANTS
    OneDriver
    NoStranded
    AbortNeverReviewed
    TeardownBeforeSettle
    PassedMeansMerged
    PodsHoldLease
PROPERTIES
    ImplementsContract
CHECK_DEADLOCK FALSE
