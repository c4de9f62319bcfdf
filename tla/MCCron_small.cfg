SPECIFICATION FairSpec
CONSTANTS
  Schedules <- TwoDelays
  NextOf <- DelayNext
  MaxEntries = 2
  MaxCalls = 4
  MaxTime = 3
INVARIANTS TypeOK UniqueEntries ContextAfterJobs
PROPERTIES WakeRunsAllDue ActivationSound RemovedNeverStarts CallsReturn DueIsStarted
CHECK_DEADLOCK FALSE
