--------------------------- MODULE MCStatusReport ---------------------------
(***************************************************************************)
(* StatusReport for TLC: three numbers are enough for two queued statuses  *)
(* and a data packet between them.                                         *)
(***************************************************************************)
EXTENDS StatusReport
=============================================================================
