SPECIFICATION Spec
CONSTANTS
  c1 = c1
  c2 = c2
  c3 = c3
  Calls <- Calls3
  Outcomes <- AllOutcomes
  Volume = 1
  Threshold = 50
  SleepWindow = 1
  Window = 1
  MaxTime = 2
  UpdatesCap = 2
  Toggles = {TRUE}
  Flushes = TRUE
INVARIANTS TypeOK TestInv OpenNeedsEvidence ErrorsFollowRequests NoDeadlock
PROPERTY SingleTest
SYMMETRY Symmetry3
CHECK_DEADLOCK FALSE
