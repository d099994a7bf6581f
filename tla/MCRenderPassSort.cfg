CONSTANTS
  Targets <- RenderTargets
  BackBuffers <- Outputs
  Frames <- MCFrames
  BloomBehindEmbedded = FALSE
SPECIFICATION Spec
INVARIANTS PrecursorsFirst InputsKept ContentKept NothingLost
CHECK_DEADLOCK FALSE
