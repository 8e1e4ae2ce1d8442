---------------------------- MODULE MCAllocFailure ----------------------------
(***************************************************************************)
(* An instance of AllocFailure: the second element of a message already    *)
(* needs a larger block.                                                   *)
(***************************************************************************)
EXTENDS AllocFailure

MCSType  == <<1, 2, 0>>
MCValues == {<< >>, <<1>>}
NoDamage == {}
=============================================================================
