------------------------------- MODULE MCDcMsg -------------------------------
(***************************************************************************)
(* Instances of DcMsg for TLC.  There are three types: a scalar of one     *)
(* cell, a scalar of two and one of variable length.                       *)
(***************************************************************************)
EXTENDS DcMsg

MCSType  == <<1, 2, 0>>
MCValues == {<< >>, <<1>>, <<2>>}
MCFewValues == {<< >>, <<1>>}
MCOneValue  == {<<1>>}
MCTwoValues == {<<1>>, <<2>>}
NoDamage == {}
MCDamage == {0, 1, 3}
=============================================================================
