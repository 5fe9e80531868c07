SPECIFICATION FairSpec
CHECK_DEADLOCK FALSE
CONSTANTS
  Issues = {i1}
  Slots = {1}
  Signals = {1, 2}
  Target <- OnFirst
  Kind <- ApproveReject
  Dispatchers = {d1}
  Drainers = {loop}
  Loop = loop
  Queue = queue
  Synthetic = TRUE
  MaxRuns = 2
  MaxLoad = 3
INVARIANTS
  OneActiveRun
PROPERTIES
  SignalsAnswered
  WokenQueueAdmits
