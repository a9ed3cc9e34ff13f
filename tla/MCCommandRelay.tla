--------------------------- MODULE MCCommandRelay ---------------------------
(***************************************************************************)
(* CommandRelay for TLC: bytes of two values, so that four numbers show    *)
(* both orders of the bytes, and a batch of two.                           *)
(***************************************************************************)
EXTENDS CommandRelay
=============================================================================
