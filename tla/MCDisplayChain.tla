---------------------------- MODULE MCDisplayChain ----------------------------
(* Small instances of DisplayChain: two sizes, so that a frame may outgrow    *)
(* the display that was announced, and two games, one of which may start      *)
(* while the other's worker runs, or has ended by itself.  The controller's   *)
(* display has one size; the state has one plane, with or without a frame.    *)
EXTENDS DisplayChain
=============================================================================
