-------------------------------- MODULE MCViews --------------------------------
(***************************************************************************)
(* A program with three messages that may put messages into arrays.  It    *)
(* begins when each of them has been constructed and given a scalar, and   *)
(* makes a bounded number of calls from there.                             *)
(***************************************************************************)
EXTENDS MCObjects

CONSTANT MaxCalls  \* bound of the model: the calls the program makes

VARIABLE calls     \* those it has made

OneName  == CHOOSE name \in ScalarNames : TRUE
OneValue == CHOOSE value \in Values : TRUE
OneEntry == [DType(Scalar, OneName) EXCEPT
               !.index = HEADER_ELEMENTS + DTYPE_SIZE_NAME + 1]

OneScalar(b) ==
  [InitHeader(Hollow, b) EXCEPT
     !.alive = TRUE, !.readOnly = FALSE, !.data = <<OneEntry>>,
     !.mem_used = EndOf(OneEntry), !.el_size = 1]

OneScalarCells ==
  WriteHeader(Write(EmptyBlock, HEADER_ELEMENTS, Encode(OneEntry, OneValue)),
              EndOf(OneEntry), 1)

ViewsInit ==
  /\ calls = 0
  /\ \E block \in Bijection(Objects, 1 .. Cardinality(Objects)) :
       /\ obj = [o \in Objects |-> OneScalar(block[o])]
       /\ heap = [b \in Blocks |-> IF b \in Range(block) THEN OneScalarCells
                                   ELSE NULL]
       /\ said = [o \in Objects |->
            Says(<<[name |-> OneName, type |-> Scalar, value |-> OneValue]>>)]

ViewsNext == calls < MaxCalls /\ Next /\ calls' = calls + 1
ViewsSpec == ViewsInit /\ [][ViewsNext]_<<vars, calls>>
=============================================================================
