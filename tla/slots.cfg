SPECIFICATION FairSpec
CHECK_DEADLOCK FALSE
CONSTANTS
  Servers = {s1}
  Slots = {1}
  Leases = {1, 2}
  NoLease = 0
  Serial = TRUE
  Prompt = TRUE
  Weight <- TwoOrOne
  Events = 2
INVARIANTS
  OfferedIsClean
  RunningIsReal
PROPERTIES
  ImplementsOwners
  CleaningEnds
