----------------------------- MODULE MCGameClock -----------------------------
(* Small instances of GameClock, with steps of a few units of time.  Of the   *)
(* times the conversion loses two follow each other, and one stands alone.    *)
EXTENDS GameClock

MCLossy == {3, 4, 8}
=============================================================================
