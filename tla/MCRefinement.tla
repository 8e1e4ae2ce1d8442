----------------------------- MODULE MCRefinement -----------------------------
(***************************************************************************)
(* An instance of DcMsgRefinement: a scalar of two cells and a type of     *)
(* variable length, so that elements of different widths lie in front of   *)
(* and behind each other.                                                  *)
(***************************************************************************)
EXTENDS DcMsgRefinement

MCSType  == <<1, 2, 0>>
MCValues == {<<1>>, <<1, 2>>, <<2, 1>>}
NoDamage == {}
=============================================================================
