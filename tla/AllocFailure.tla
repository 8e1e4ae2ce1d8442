----------------------------- MODULE AllocFailure -----------------------------
(***************************************************************************)
(* DcMsg when malloc and realloc may fail.  A failure in Construct, Clear  *)
(* or Clone leaves an object without a block; AddElementToBuffer does not  *)
(* look at what AddToBuffer returns.                                       *)
(***************************************************************************)
EXTENDS DcMsg

CONSTANT MAX_STACK_VAR_SIZE \* elements wider than this are put together on the heap

VARIABLE unstored \* history: an Add has counted an element it did not store

ASSUME StackAssumption == MAX_STACK_VAR_SIZE \in Nat

-----------------------------------------------------------------------------
(* Mutant of NoBlock: the object is not marked invalid. *)
NoBlockButValid ==
  /\ p_data' = NULL
  /\ p_size' = 0
  /\ mem_used' = 0
  /\ el_size' = 0
  /\ data' = << >>
  /\ validData' = TRUE

(* An object whose InitHeader got no block, or Clone no memory. *)
NoBlock ==
  /\ p_data' = NULL
  /\ p_size' = 0
  /\ mem_used' = 0
  /\ el_size' = 0
  /\ data' = << >>
  /\ validData' = FALSE

ConstructFails ==
  /\ pc = "ready"
  /\ readOnly' = FALSE
  /\ p_ex_data' = NULL
  /\ NoBlock
  /\ Return("Construct", NoName, NoType, TRUE, "OutOfMemory", << >>)
  /\ UNCHANGED <<parser, wire, sent>>

(* Mutant of ClearFails: the error is not recorded. *)
ClearFailsSilently ==
  /\ pc = "ready"
  /\ ~readOnly
  /\ NoBlock
  /\ Return("Clear", NoName, NoType, TRUE, last_error, << >>)
  /\ UNCHANGED <<readOnly, p_ex_data, parser, wire, sent>>

ClearFails ==
  /\ pc = "ready"
  /\ ~readOnly
  /\ NoBlock
  /\ Return("Clear", NoName, NoType, TRUE, "OutOfMemory", << >>)
  /\ UNCHANGED <<readOnly, p_ex_data, parser, wire, sent>>

(* The block of the copy cannot be had. *)
CloneFails ==
  /\ pc = "ready"
  /\ mem_used > 0
  /\ readOnly' = FALSE
  /\ p_ex_data' = NULL
  /\ NoBlock
  /\ Return("Clone", NoName, NoType, TRUE, "OutOfMemory", << >>)
  /\ UNCHANGED <<parser, wire, sent>>

(* The block of the empty message Clone begins with cannot be had, but the *)
(* one for the copy can: the clone is complete and keeps the error.        *)
CloneRecovers ==
  CopyObject /\ Return("Clone", NoName, NoType, TRUE, "OutOfMemory", << >>)

-----------------------------------------------------------------------------
(* The element an Add of this value makes. *)
NewElement(name, type, value) ==
  [DType(type, name) EXCEPT !.size = IF @ = 0 THEN AsU32(Len(value)) ELSE @]

Width(e) == HeaderBytes(e) + e.size

(* An Add that gets past its checks. *)
Adding(name, type, value) ==
  /\ pc = "ready"
  /\ SType[type] # 0 => Len(value) = SType[type]
  /\ AddError(name, FALSE) = "None"
  /\ mem_used + Width(NewElement(name, type, value)) <= MaxCells

(* No memory to put the element together: nothing has happened yet. *)
AddGivesUp(name, type, value) ==
  /\ Adding(name, type, value)
  /\ Width(NewElement(name, type, value)) > MAX_STACK_VAR_SIZE
  /\ Fail("Add", name, type, "OutOfMemory")

(* No memory to put the items of a large array together, which comes       *)
(* before any check.                                                       *)
ItemsGiveUp(name) ==
  /\ pc = "ready"
  /\ Fail("Add", name, NoType, "OutOfMemory")

(* realloc fails: the element is not stored, yet it is counted and entered *)
(* in the table, and the error AddToBuffer has set is overwritten.         *)
AddGoesOn(name, type, value) ==
  LET e == NewElement(name, type, value)
  IN /\ Adding(name, type, value)
     /\ p_data # NULL
     /\ Reserve(p_size, mem_used, Width(e)) > 0
     /\ el_size' = AsU64(el_size + 1)
     /\ p_data' = WriteHeader(p_data, mem_used, el_size')
     /\ data' = Append(data,
                 [e EXCEPT !.index = AsU32(mem_used + HeaderBytes(e))])
     /\ Return("Add", name, type, TRUE, "None", value)
     /\ unstored' = TRUE
     /\ UNCHANGED <<readOnly, validData, p_ex_data, p_size, mem_used, parser,
                    wire, sent>>

(* realloc fails and there is no block either: the header is written to a  *)
(* null pointer, and the program is over.                                  *)
AddCrashes(name, type, value) ==
  /\ Adding(name, type, value)
  /\ p_data = NULL
  /\ pc' = "crashed"
  /\ UNCHANGED <<object, last_error, curr_index, wire, sent, ret>>

-----------------------------------------------------------------------------
FailedCall ==
  \/ ConstructFails \/ ClearFails \/ CloneFails \/ CloneRecovers
  \/ \E name \in Names : ItemsGiveUp(name)
  \/ \E name \in Names, type \in Types, value \in Values :
       AddGivesUp(name, type, value) \/ AddCrashes(name, type, value)

(* Bound of the model: it ends with the first Add that goes on. *)
NextOOM ==
  /\ ~unstored
  /\ \/ UNCHANGED unstored /\ (Next \/ FailedCall)
     \/ \E name \in Names, type \in Types, value \in Values :
          AddGoesOn(name, type, value)

SpecOOM == Init /\ unstored = FALSE /\ [][NextOOM]_<<vars, unstored>>

-----------------------------------------------------------------------------
(* As long as no Add went on without memory, failed allocations anywhere   *)
(* else leave every message that is valid with a header, a table that      *)
(* agrees with its buffer and right counts, and end the program only in an *)
(* object that has been reported invalid: a message that is valid has a    *)
(* block to write its header to.                                           *)
SoundUnlessUnstored ==
  ~unstored =>
    /\ LayoutOK
    /\ CountsOK
    /\ pc = "crashed" => ~validData

(* A message that was valid becomes invalid only together with the error   *)
(* that says why; only the receiver's object, a new one, begins invalid.   *)
LossReported ==
  [][validData /\ ~validData' /\ ret'.op # "Wrap" => last_error' = "OutOfMemory"]_vars
=============================================================================
