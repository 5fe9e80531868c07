SPECIFICATION FlowSpec
CONSTANTS
    Catalog = {"browser"}
    CaseIds <- MCCases
    MinTimeout = 1
    MaxCaseTimeout = 2
    MaxTimeout = 3
    MaxItems = 2
    Submitted <- MCSubmitted
    CallerInputs <- MCCallers
    Requests <- MCRequests
    FlowCycles = 2
    FlowRuns = 1
INVARIANTS
    SkippedRefsResolve
CHECK_DEADLOCK FALSE
