SPECIFICATION Spec
CONSTANTS
  Schedules <- OneDelay
  NextOf <- DelayNext
  MaxEntries = 1
  MaxCalls = 4
  MaxTime = 4
INVARIANT WaitGroupNotReused
CHECK_DEADLOCK FALSE
