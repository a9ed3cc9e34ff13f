------------------------------ MODULE MCTimers ------------------------------
(***************************************************************************)
(* Timers for TLC: the times of the code, but an int that overflows at 140 *)
(* seconds, so that a rest of five minutes, the interval that a frame of   *)
(* another kind may tell, wraps in both ways.                              *)
(***************************************************************************)
EXTENDS Timers

\* Behind by an old answer, right, or as far ahead as it may be.
MCStartOff == {-20, 0, MaxOff}
=============================================================================
