CONSTANTS
  StepTime = 2
  HungAfter = 3
  MaxLoops = 2
  Word = 1000
  Lossy <- MCLossy
  MaxTime = 12
  MaxPresses = 1
SPECIFICATION Spec
INVARIANT FocusLostPauses
CHECK_DEADLOCK FALSE
