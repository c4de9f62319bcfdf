SPECIFICATION Spec
CONSTANTS
  Unit = 1
  Inf = Inf
  Limits = {1}
  Bursts = {3}
  Sizes = {1, 3}
  Waiters = {}
  Deadlines = {2}
  Skew = 0
  MaxTime = 1
  MaxReservations = 5
  MaxChanges = 0
INVARIANT RateBound
\* A run ends at its bounds.
CHECK_DEADLOCK FALSE
