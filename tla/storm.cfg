SPECIFICATION Spec
CONSTANTS
    JobIds <- StormJobs
    Phases <- StormWorkflow
    Budget = 5
    MaxAttempts = 2
    MaxCycles = 2
    MaxLeases = 1
    Procs = {q1, q2}
    Preserve = FALSE
    Outcomes <- FewOutcomes
    Limits <- StormLimits
SYMMETRY ProcSymmetry
INVARIANTS
    NoMergeWithoutApproval
    Inductive
PROPERTIES
    LedgerIsAppendOnly
CONSTRAINT CrashAndOneMore
CHECK_DEADLOCK FALSE
