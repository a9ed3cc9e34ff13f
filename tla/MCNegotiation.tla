--------------------------- MODULE MCNegotiation ---------------------------
(***************************************************************************)
(* Negotiation for TLC, with the retry limits of the code.  Two assigned   *)
(* ports tell the port of the last frame from that of an earlier one.      *)
(***************************************************************************)
EXTENDS Negotiation
=============================================================================
