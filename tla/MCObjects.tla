------------------------------ MODULE MCObjects ------------------------------
(***************************************************************************)
(* A program with two messages.  A scalar takes one cell; the other types   *)
(* are the nested message and the array of messages.                       *)
(***************************************************************************)
EXTENDS Objects, TLC

MCSType  == <<1, 0, 0>>
MCValues == {<<1>>}
MCTwoValues == {<<1>>, <<2>>}
MCBlocks == 1 .. 4
MCMoreBlocks == 1 .. 5
Symmetry == Permutations(Objects)
=============================================================================
