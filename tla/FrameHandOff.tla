----------------------------- MODULE FrameHandOff -----------------------------
(* What the retained render frame is for: the logic thread hands frames over  *)
(* to the render thread one at a time, and each is executed once, whole and   *)
(* in order, before the next is handed over.  FramePipeline implements this   *)
(* with a mutex, a binary semaphore and two flags.                            *)
EXTENDS Naturals

VARIABLES put,   \* the number of frames handed over
          got    \* the last frame executed

vars == <<put, got>>

Init == put = 0 /\ got = 0

Put == /\ put = got
       /\ put' = put + 1
       /\ UNCHANGED got

Get == /\ got < put
       /\ got' = put
       /\ UNCHANGED put

Next == Put \/ Get

Spec == Init /\ [][Next]_vars
=============================================================================
