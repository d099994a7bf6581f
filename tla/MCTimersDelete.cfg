SPECIFICATION Spec
CONSTANTS
  Parts = {p1, p2}
  Balls = {b1}
  Intervals <- MCIntervals
  MaxTime = 2
  MaxChanges = 2
  Modulus = 16
  MaySkip = FALSE
  LiveEdit = FALSE
  LiveDelete = TRUE
INVARIANT NoFreedTimerVisited
