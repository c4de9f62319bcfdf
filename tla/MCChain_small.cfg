CONSTANTS
  Runs = {r1, r2, r3}
  None = None
  Chains <- MCChains
SPECIFICATION FairSpec
INVARIANTS NoOverlap TokenAccount RecoverContains
PROPERTY DelayedRuns
CHECK_DEADLOCK FALSE
