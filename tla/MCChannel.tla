------------------------------ MODULE MCChannel ------------------------------
(***************************************************************************)
(* The demo as it is, with its five messages.                              *)
(***************************************************************************)
EXTENDS Channel
=============================================================================
