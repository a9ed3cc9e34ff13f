---------------------------- MODULE MCSerialBus -----------------------------
(***************************************************************************)
(* SerialBus for TLC: one relayed command that the reader never sends.     *)
(***************************************************************************)
EXTENDS SerialBus
=============================================================================
