--------------------------- MODULE MCFramePipeline ---------------------------
(* Small instances of FramePipeline.  Two preloads give five frames at most   *)
(* before the game loop, so that MaxFrames leaves some to the loop.           *)
EXTENDS FramePipeline
=============================================================================
