SPECIFICATION RollingSpec
CONSTANTS
  Window = 2
  MaxTime = 4
  Amounts = {0, 1, 2}
  MaxTotal = 5
INVARIANTS SumOfWindow MaxOfWindow
CHECK_DEADLOCK FALSE
