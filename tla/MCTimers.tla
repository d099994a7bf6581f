------------------------------- MODULE MCTimers -------------------------------
(* Small instances of Timers, with interchangeable parts.                     *)
EXTENDS Timers, TLC

MCIntervals == {-1, 0, 2}
Symmetry == Permutations(Parts)
=============================================================================
