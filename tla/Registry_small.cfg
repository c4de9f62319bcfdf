CONSTANTS
  Names = {n1}
  Goroutines = {p1, p2}
  Clients = {r1}
  Configs = {0, 1}
  Default = 2
  EventsCap = 1
  MaxFlushes = 1
SPECIFICATION FairSpec
INVARIANTS TypeOK OneCircuit
PROPERTIES PoolAsConfigured CallsReturn
CHECK_DEADLOCK FALSE
