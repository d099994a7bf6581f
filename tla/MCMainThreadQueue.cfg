CONSTANTS
  Endpoints = {e1, e2}
  Jobs = {1, 2, 3}
  NoJob = 0
  Delays = {0, 1, 2}
  Blocking = TRUE
  MaxTime = 2
SPECIFICATION LiveSpec
INVARIANTS
  DueFirst
  Conserved
  InPostedOrder
  NoneAfterFlush
PROPERTY PostedRuns
