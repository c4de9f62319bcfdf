SPECIFICATION Spec
CONSTANTS
  Unit = 3
  Inf = Inf
  Limits = {2, Inf}
  Bursts = {0, 1, 2}
  Sizes = {1}
  Waiters = {w}
  Deadlines = {2}
  Skew = 1
  MaxTime = 2
  MaxReservations = 3
  MaxChanges = 1
INVARIANTS TypeOK GrantsBounded Ledger RefillsInFull
\* A run ends at its bounds.
CHECK_DEADLOCK FALSE
