SPECIFICATION Spec
CONSTANTS
  c1 = c1
  c2 = c2
  t1 = t1
  nil = nil
  Cmds <- Cmds2
  Tickets <- Tickets1
  NoTicket = nil
  Sync <- Sync1
  WithFallback <- WithFallback1
  RunErrs = {"failure"}
  CtxEnds = {"canceled"}
INVARIANTS CommandInv TicketsConserved SendsNeverBlock OneOutcome ActiveCountSound
PROPERTY ImplementsBulkhead
CHECK_DEADLOCK FALSE
