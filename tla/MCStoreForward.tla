-------------------------- MODULE MCStoreForward --------------------------
(***************************************************************************)
(* StoreForward for TLC.  The configurations give the bounds.              *)
(***************************************************************************)
EXTENDS StoreForward
=============================================================================
