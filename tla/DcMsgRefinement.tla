--------------------------- MODULE DcMsgRefinement ---------------------------
(***************************************************************************)
(* DcMsg, with its buffer, offsets and header words, implements the        *)
(* Dictionary it promises its callers.                                     *)
(***************************************************************************)
EXTENDS DcMsg

Promise == INSTANCE Dictionary WITH
  stage    <- pc,
  writable <- ~readOnly,
  valid    <- validData,
  entries  <- IF validData THEN Contents ELSE << >>,
  flight   <- IF sent.ok THEN sent.entries ELSE << >>,
  reply    <- ret,
  error    <- last_error

(* Every call has the effect and the reply the dictionary gives it: an Add *)
(* appends and leaves the values of all other elements alone although the  *)
(* block may move, a Delete removes one although it shifts the cells and   *)
(* the indices of those behind it, an Update changes one value in place, a *)
(* Get returns what was last written, a refused call changes nothing and   *)
(* leaves a reason that is true, and a receiver finds what was sent.       *)
ImplementsDictionary == Promise!Spec
=============================================================================
