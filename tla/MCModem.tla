------------------------------- MODULE MCModem -------------------------------
(***************************************************************************)
(* Modem for TLC, with the attempts of the code; MaxLate = 2 lets an       *)
(* answer be late by two commands.                                         *)
(***************************************************************************)
EXTENDS Modem
=============================================================================
