-------------------------- MODULE MCMainThreadQueue --------------------------
(* Small instances of MainThreadQueue, whose constants the .cfg files give.   *)
EXTENDS MainThreadQueue
=============================================================================
