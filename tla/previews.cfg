SPECIFICATION MCSpec
CONSTANTS
    Builds = {b1, b2}
    NoBuild = NoBuild
    NoRow = NoRow
    MaxPushes = 2
    KeepReleases = 1
    MaxRequests = 2
    MaxCalls = 3
    MaxFaults = 2
    Images = {i1, i2}
    Base = base
    None = none
    Apart = TRUE
    MaxDeploys = 2
    MaxFailedCalls = 2
    MaxCrashes = 1
INVARIANTS
    LiveWasServed
    FreeSlotIsEmpty
PROPERTIES
    SweepConverges
CHECK_DEADLOCK FALSE
