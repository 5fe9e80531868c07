SPECIFICATION FairSpec
CONSTANTS
    JobIds = {j1, j2}
    Plan <- StepThenGroup
    Keys <- TwoKeys
    Results <- FewResults
    MaxItems = 1
    MaxFaults = 1
INVARIANTS
    AbortIsReported
PROPERTIES
    FailClosed
    EveryJobReports
CHECK_DEADLOCK FALSE
