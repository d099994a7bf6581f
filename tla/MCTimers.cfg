SPECIFICATION Spec
CONSTANTS
  Parts = {p1}
  Balls = {b1}
  Intervals <- MCIntervals
  MaxTime = 3
  MaxChanges = 2
  Modulus = 16
  MaySkip = TRUE
  LiveEdit = TRUE
  LiveDelete = TRUE
INVARIANT ListExact
PROPERTY OnTime
