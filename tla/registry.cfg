SPECIFICATION MCSpec
CONSTANTS
    Clients = {c1, c2}
    Phased <- Lanes
    Mandatory <- Given
    Values = {1, 2}
    Patchable = {2}
    NoLane = NoLane
    NoSuchPhase = NoSuchPhase
    NoRow = NoRow
    Submissions <- Sent
    Alone <- PinsAlone
    MaxRequests = 3
    Sizes = {1, 2}
    TTLs = {1}
    NoValue = NoValue
    Statuses = {"ok"}
    NoProject = NoProject
    Legacy <- FromBefore
    Authored <- Registered
    MaxWrites = 3
    Catalog = {"browser"}
    CaseIds <- MCCases
    MinTimeout = 1
    MaxCaseTimeout = 2
    MaxTimeout = 3
    MaxItems = 2
    Submitted <- MCSubmitted
    CallerInputs <- MCCallers
    Requests <- MCRequests
    FlowCycles = 2
    FlowRuns = 2
INVARIANTS
    PinsHold
    AcceptedIsValid
    DispatchesResolve
    MergesAreEarned
PROPERTIES
    LedgerNamesMoves
    StatusIsTheReconcilers
CONSTRAINT SecondIsSimple
CHECK_DEADLOCK FALSE
