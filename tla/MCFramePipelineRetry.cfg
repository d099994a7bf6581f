CONSTANTS
  Main = main
  Loaders = {l1, l2}
  Render = render
  None = none
  CanFail = TRUE
  MaxLosses = 0
  MaxFrames = 8
SPECIFICATION LiveSpec
PROPERTY RetryEnds
CHECK_DEADLOCK FALSE
