------------------------------- MODULE PyDcMsg --------------------------------
(***************************************************************************)
(* An object of the Python port (python/dcmsg.py): a dictionary of         *)
(* elements, and beside it the header and the bytes of what was added.     *)
(*                                                                         *)
(* The port reads and writes the format of WireFormat by rules of its own. *)
(* A constructor that raises leaves no object: Reads says whether it does. *)
(* The bytes are in cells, as there.                                       *)
(***************************************************************************)
EXTENDS WireFormat, SequencesExt

CONSTANTS
  MESSAGE, TEXT,  \* the type codes that the port looks into
  PyNames,          \* the names its callers use
  Encoded,          \* Encoded[name]: what __Name writes for it, 15 bytes of it
                    \* if it is longer
  Unencodable,      \* the names for which __Name raises
  NotText           \* what is not UTF-8, as a name or in a string

VARIABLES
  read_only,
  p_elem,    \* the dictionary, in the order of insertion
  p_header,  \* the three header words
  p_data,    \* the bytes behind the header, as a sequence
  added      \* history: the entries for which an Add has returned True

vars == <<read_only, p_elem, p_header, p_data, added>>

Refused == [ok |-> FALSE, elem |-> << >>]

-----------------------------------------------------------------------------
(* Reading. *)

(* elem[e.name] = e *)
Put(elem, e) ==
  LET k == SelectInSeq(elem, LAMBDA d : d.name = e.name)
  IN IF k = 0 THEN Append(elem, e) ELSE [elem EXCEPT ![k] = e]

(* The length word of an element that has one, or else the width of its    *)
(* type, for an element at offset at.                                      *)
SizeAt(block, at) ==
  IF SType[block[at]] = 0 THEN Peek(block, at + 2) ELSE SType[block[at]]

(* Mutant of ValueAt: the length word is not stepped over. *)
ValueAtLength(block, at) == at + DTYPE_SIZE_NAME + 1

(* Where its value begins. *)
ValueAt(block, at) == at + HeaderBytes(DType(block[at], 0))

(* Mutant of Sized: nobody asks whether the value fits. *)
SizedHeader(block, at) ==
  /\ Cells(block) - at >= DTYPE_SIZE_NAME + 1
  /\ block[at] \in KnownTypes
  /\ Cells(block) >= ValueAt(block, at)

(* The bound checks of __ParseBuffer. *)
Sized(block, at) ==
  /\ Cells(block) - at >= DTYPE_SIZE_NAME + 1
  /\ block[at] \in KnownTypes
  /\ Cells(block) >= ValueAt(block, at)
  /\ Cells(block) - ValueAt(block, at) >= SizeAt(block, at)

Slice(block, at, n) == [k \in 1 .. n |-> Peek(block, at + k - 1)]

ElementAt(block, at) ==
  [name  |-> block[at + 1], type |-> block[at],
   value |-> Slice(block, ValueAt(block, at), SizeAt(block, at))]

RECURSIVE Reads(_)

(* What decode and the constructor of a nested message do not raise for. *)
Decodable(e) ==
  /\ e.name \notin NotText
  /\ e.type = TEXT => \A i \in DOMAIN e.value : e.value[i] \notin NotText
  /\ e.type = MESSAGE =>
       Reads([k \in 0 .. Len(e.value) - 1 |-> e.value[k + 1]]).ok

(* __ParseBuffer.  Of two elements with one name the dictionary keeps the  *)
(* last, and is then compared with the number of elements in the header.   *)
ParseBuffer(block) ==
  LET RECURSIVE From(_, _)
      From(at, elem) ==
        IF at >= block[SIZE]
        THEN [ok |-> Len(elem) = block[ELEMENTS], elem |-> elem]
        ELSE IF ~Sized(block, at) THEN Refused
        ELSE LET e == ElementAt(block, at)
             IN IF ~Decodable(e) THEN Refused
                ELSE From(ValueAt(block, at) + SizeAt(block, at), Put(elem, e))
  IN From(HEADER_ELEMENTS, << >>)

(* DcMsg(buff).  The version is not looked at. *)
Reads(block) ==
  IF Cells(block) < HEADER_ELEMENTS \/ block[SIZE] # Cells(block) THEN Refused
  ELSE ParseBuffer(block)

(* Every header word and element of the bytes the object would send. *)
GetData ==
  [k \in 0 .. HEADER_ELEMENTS + Len(p_data) - 1 |->
     IF k < HEADER_ELEMENTS THEN p_header[k + 1]
     ELSE p_data[k - HEADER_ELEMENTS + 1]]

-----------------------------------------------------------------------------
(* __init_header: an empty message has the SIZE of a header. *)
InitHeader ==
  /\ p_header' = <<MESS_VERSION, HEADER_ELEMENTS, 0>>
  /\ p_data' = << >>

(* DcMsg(), and Clear, which makes a received message writable. *)
Clear ==
  /\ read_only' = FALSE
  /\ p_elem' = << >>
  /\ added' = << >>
  /\ InitHeader

(* DcMsg(buff), which raises or takes over the header and the elements of  *)
(* buff but not its bytes.  A caller whose constructor has raised goes on  *)
(* with an empty message.                                                  *)
Receive(buff) ==
  LET read == Reads(buff)
  IN \/ ~read.ok /\ Clear
     \/ /\ read.ok
        /\ read_only' = TRUE
        /\ p_elem' = read.elem
        /\ p_header' = <<buff[VERSION], buff[SIZE], buff[ELEMENTS]>>
        /\ p_data' = << >>
        /\ added' = << >>

(* Mutant of Grown: the header does not count the cells of the name. *)
GrownUnnamed(n) ==
  [p_header EXCEPT ![SIZE + 1] = @ + n - DTYPE_SIZE_NAME, ![ELEMENTS + 1] = @ + 1]

(* The header with one element of n cells more. *)
Grown(n) == [p_header EXCEPT ![SIZE + 1] = @ + n, ![ELEMENTS + 1] = @ + 1]

(* The first two tests of __AddElement. *)
AddRefused(name) ==
  /\ read_only \/ \E i \in DOMAIN p_elem : p_elem[i].name = name
  /\ UNCHANGED vars

(* The dictionary has the element before __Name raises. *)
AddRaises(name, type, value) ==
  /\ ~read_only /\ \A i \in DOMAIN p_elem : p_elem[i].name # name
  /\ name \in Unencodable
  /\ p_elem' = Append(p_elem, [name |-> name, type |-> type, value |-> value])
  /\ UNCHANGED <<read_only, p_header, p_data, added>>

Add(name, type, value) ==
  LET e     == [DType(type, Encoded[name]) EXCEPT !.size = Len(value)]
      cells == Encode(e, value)
  IN /\ ~read_only /\ \A i \in DOMAIN p_elem : p_elem[i].name # name
     /\ name \notin Unencodable
     /\ p_elem' = Append(p_elem, [name |-> name, type |-> type, value |-> value])
     /\ p_data' = p_data \o cells
     /\ p_header' = Grown(Len(cells))
     /\ added' = Append(added, [name |-> e.name, type |-> type, value |-> value])
     /\ UNCHANGED read_only

AddElement(name, type, value) ==
  /\ type \in KnownTypes
  /\ SType[type] # 0 => Len(value) = SType[type]
  /\ \/ AddRefused(name)
     \/ AddRaises(name, type, value)
     \/ Add(name, type, value)

=============================================================================
