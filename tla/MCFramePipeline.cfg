CONSTANTS
  Main = main
  Loaders = {l1, l2}
  Render = render
  None = none
  CanFail = TRUE
  MaxLosses = 1
  MaxFrames = 8
SPECIFICATION LiveSpec
INVARIANTS
  FrameExclusive
  SubmittedOnce
  UploadProcessed
PROPERTIES
  HandOffSpec
  PendingExecuted
  UploadsEnd
  CloseEnds
CHECK_DEADLOCK FALSE
