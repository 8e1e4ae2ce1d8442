------------------------------- MODULE MCLogger -------------------------------
(***************************************************************************)
(* Three threads: one logs, one sets and one does both.                    *)
(***************************************************************************)
EXTENDS Logger
=============================================================================
