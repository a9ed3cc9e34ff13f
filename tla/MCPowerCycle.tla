---------------------------- MODULE MCPowerCycle ----------------------------
(***************************************************************************)
(* PowerCycle for TLC.  The configuration gives the delays of the code.    *)
(***************************************************************************)
EXTENDS PowerCycle
=============================================================================
