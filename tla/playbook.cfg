SPECIFICATION Spec
CHECK_DEADLOCK FALSE
CONSTANTS
  Entries = {1, 2, 3}
  DependsOn <- SecondAfterFirst
  Gated = {3}
  Limit = 1
  Advancers = {a1, a2}
  MaxRuns = 3
  MaxLoad = 3
INVARIANTS
  WorkedOnce
PROPERTIES
  OrderKept
