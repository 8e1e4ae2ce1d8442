--------------------------- MODULE MCCrossLanguage ----------------------------
(***************************************************************************)
(* Three types: a scalar of one cell, the nested message and the string.   *)
(* Name 1 is a short one.  The port also has the long names 3 and 4 with   *)
(* one beginning, 5, whose 15 bytes end inside a character, and 6, which   *)
(* cannot be encoded.                                                      *)
(***************************************************************************)
EXTENDS CrossLanguage

MCSType   == <<1, 0, 0>>
MCValues  == {<<1>>, <<MESS_VERSION, HEADER_ELEMENTS, 0>>}
MCDamage  == {1, 3, 9}
MCNotText == {9}
MCEncoded == <<1, 2, 3, 3, 9>>
=============================================================================
