-------------------------------- MODULE DcMsg --------------------------------
(***************************************************************************)
(* One C++ DcMsg object through its life, and the buffer its owner sends   *)
(* and receives.                                                           *)
(*                                                                         *)
(* The object is constructed empty or over a received buffer, changed by   *)
(* Add*, Update* and Delete, read by Get*, cleared and cloned.  The caller *)
(* may at any time copy its bytes (GetData) to wire; they are lost, or the *)
(* object is replaced by the one a receiver constructs over them.  Nothing *)
(* else is called while they are in flight: wire and the object that was   *)
(* sent share no memory.                                                   *)
(***************************************************************************)
EXTENDS WireFormat, SequencesExt

CONSTANTS
  Types,       \* type codes the callers use
  Names,       \* names the callers use, as numbers
  LongNames,   \* those of 16 characters or more
  Values,      \* the values they add: sequences of cells
  DamageCells, \* what a damaged cell of wire may turn into
  MaxFaults,   \* bound of the model: faults of the channel
  MaxCells     \* bound of the model: no message grows beyond it

ASSUME CallerAssumption ==
  /\ Types \subseteq KnownTypes
  /\ Names \subseteq Nat
  /\ LongNames \subseteq Names
  /\ Values \subseteq Seq(Nat)
  /\ DamageCells \subseteq Nat
  /\ MaxFaults \in Nat
  /\ MaxCells \in Nat /\ HEADER_ELEMENTS <= MaxCells

VARIABLES
  readOnly, validData, data, p_data, p_ex_data, p_size, mem_used, el_size,
  last_error,  \* the members of the object
  pc,          \* "sent" while wire is in flight, "parsing" in ParseData
  curr_index,  \* the local variable of ParseData
  wire,        \* the bytes in flight, NULL if there are none
  sent,        \* history: the faults so far; whether wire is a message that
               \* must be received, and what it says
  ret          \* history: the last call, the name and the type of the value
               \* it was passed or asked for, and what it returned

object == <<readOnly, validData, data, p_data, p_ex_data, p_size, mem_used,
            el_size>>
parser == <<pc, curr_index>>
vars   == <<object, last_error, parser, wire, sent, ret>>

Errors == {"None", "ReadOnly", "NotFound", "TypeMismatch", "InvalidName",
           "DuplicateName", "InvalidArgument", "OutOfMemory", "InvalidData"}

Calls == {"Construct", "Wrap", "Clone", "Clear", "Add", "Update", "Delete",
          "Get", "Send"}

NoName == 0
NoType == 0

-----------------------------------------------------------------------------
SourceData == IF readOnly THEN p_ex_data ELSE p_data

(* The position of the first element called name, 0 if there is none. *)
Find(name) == SelectInSeq(data, LAMBDA d : d.name = name)

(* What the message says: its elements in order, each with its value. *)
Contents ==
  [i \in DOMAIN data |->
     [name |-> data[i].name, type |-> data[i].type,
      value |-> ValueOf(SourceData, data[i])]]

(* No message that must be received is in flight any more. *)
Forget == sent' = [sent EXCEPT !.ok = FALSE, !.entries = << >>]

Return(op, name, type, ok, error, out) ==
  /\ ret' = [op |-> op, name |-> name, type |-> type, ok |-> ok, out |-> out]
  /\ last_error' = error

(* A call that gives up before it changes anything. *)
Fail(op, name, type, error) ==
  /\ Return(op, name, type, FALSE, error, << >>)
  /\ UNCHANGED <<object, parser, wire, sent>>

-----------------------------------------------------------------------------
(* Construction, Clear and Clone. *)

InitHeader ==
  /\ p_data' = EmptyBlock
  /\ p_size' = Reserve(0, 0, HEADER_ELEMENTS)
  /\ mem_used' = HEADER_ELEMENTS
  /\ el_size' = 0
  /\ data' = << >>
  /\ validData' = TRUE

(* DcMsg(): the old object is destroyed and a new one takes its place. *)
Construct ==
  /\ pc = "ready"
  /\ readOnly' = FALSE
  /\ p_ex_data' = NULL
  /\ InitHeader
  /\ Return("Construct", NoName, NoType, TRUE, "None", << >>)
  /\ UNCHANGED <<parser, wire, sent>>

Clear ==
  /\ pc = "ready"
  /\ \/ readOnly /\ UNCHANGED object
     \/ ~readOnly /\ InitHeader /\ UNCHANGED <<readOnly, p_ex_data>>
  /\ Return("Clear", NoName, NoType, TRUE, last_error, << >>)
  /\ UNCHANGED <<parser, wire, sent>>

(* Mutant of Clone: the size of the new block is not recorded. *)
CloneUnsized ==
  /\ pc = "ready"
  /\ readOnly' = FALSE
  /\ p_ex_data' = NULL
  /\ p_data' = Resize(SourceData, mem_used)
  /\ Return("Clone", NoName, NoType, TRUE, "None", << >>)
  /\ UNCHANGED <<validData, data, p_size, mem_used, el_size, parser, wire, sent>>

(* A block of its own for the bytes of the message, and a copy of the rest. *)
CopyObject ==
  /\ pc = "ready"
  /\ readOnly' = FALSE
  /\ p_ex_data' = NULL
  /\ p_data' = Resize(SourceData, mem_used)
  /\ p_size' = mem_used
  /\ UNCHANGED <<validData, data, mem_used, el_size, parser, wire, sent>>

(* The old object is replaced by the one its Clone() returns. *)
Clone == CopyObject /\ Return("Clone", NoName, NoType, TRUE, "None", << >>)

-----------------------------------------------------------------------------
(* DcMsg(data, size) over the bytes of wire.  The checks of the header     *)
(* come first; ParseData then takes one element of the buffer per step.    *)

(* Mutant of GoodVersion: the current version is no longer accepted. *)
OlderVersion(block) == block[VERSION] \in MIN_MESS_VERSION .. MESS_VERSION - 1

GoodVersion(block) == block[VERSION] \in MIN_MESS_VERSION .. MESS_VERSION

(* The error of the first check of the header that fails. *)
HeaderError ==
  IF wire = NULL THEN "InvalidArgument"
  ELSE IF Cells(wire) < HEADER_ELEMENTS THEN "InvalidData"
  ELSE IF ~GoodVersion(wire) THEN "InvalidData"
  ELSE IF wire[SIZE] # Cells(wire) THEN "InvalidData"
  ELSE "None"

(* The size and the count are taken from the header before the size is     *)
(* compared: a message refused for its size keeps both.                    *)
HeaderTaken ==
  Cells(wire) >= HEADER_ELEMENTS /\ GoodVersion(wire)

BeginWrap ==
  /\ pc = IF wire = NULL THEN "ready" ELSE "sent"
  /\ readOnly' = TRUE
  /\ validData' = FALSE
  /\ data' = << >>
  /\ p_data' = NULL
  /\ p_size' = 0
  /\ p_ex_data' = wire
  /\ mem_used' = IF HeaderTaken THEN wire[SIZE] ELSE 0
  /\ el_size' = IF HeaderTaken THEN wire[ELEMENTS] ELSE 0
  /\ Return("Wrap", NoName, NoType, FALSE, HeaderError, << >>)
  /\ pc' = IF HeaderError = "None" THEN "parsing" ELSE "ready"
  /\ curr_index' = IF HeaderError = "None" THEN HEADER_ELEMENTS ELSE 0
  /\ wire' = NULL
  /\ IF HeaderError = "None" THEN UNCHANGED sent ELSE Forget

(* The element that begins at offset at of p_ex_data.  curr_index is a     *)
(* uint32_t, and so is the index the element gets from it.                 *)
ElementAt(at) ==
  LET e == DType(Peek(p_ex_data, at), Peek(p_ex_data, AsU32(at + 1)))
  IN [e EXCEPT
       !.size  = IF e.basic_type THEN @
                 ELSE AsU32(Peek(p_ex_data, AsU32(at + 1 + DTYPE_SIZE_NAME))),
       !.index = AsU32(at + HeaderBytes(e))]

(* Mutant of Readable: nobody asks whether the value fits. *)
ReadableHeader(at) ==
  /\ mem_used - at >= DTYPE_SIZE_NAME + 1
  /\ Peek(p_ex_data, at) \in KnownTypes
  /\ \/ ElementAt(at).basic_type
     \/ mem_used - AsU32(at + 1 + DTYPE_SIZE_NAME) >= SIZEOF_U32

(* The bound checks of ParseData. *)
Readable(at) ==
  /\ mem_used - at >= DTYPE_SIZE_NAME + 1
  /\ Peek(p_ex_data, at) \in KnownTypes
  /\ LET e == ElementAt(at)
     IN /\ e.basic_type
             \/ mem_used - AsU32(at + 1 + DTYPE_SIZE_NAME) >= SIZEOF_U32
        /\ mem_used - e.index >= e.size

EndParse(ok, error) ==
  /\ validData' = ok
  /\ Return("Wrap", NoName, NoType, ok, error, << >>)
  /\ pc' = "ready"
  /\ curr_index' = 0
  /\ Forget
  /\ UNCHANGED <<readOnly, data, p_data, p_ex_data, p_size, mem_used, el_size,
                 wire>>

ParseElement ==
  /\ pc = "parsing"
  /\ curr_index < mem_used
  /\ Readable(curr_index)
  /\ data' = Append(data, ElementAt(curr_index))
  /\ curr_index' = AsU32(EndOf(ElementAt(curr_index)))
  /\ UNCHANGED <<readOnly, validData, p_data, p_ex_data, p_size, mem_used,
                 el_size, last_error, pc, wire, sent, ret>>

(* Mutant of ParseReject: the loop goes on where it is. *)
ParseRetries ==
  /\ pc = "parsing"
  /\ curr_index < mem_used
  /\ ~Readable(curr_index)
  /\ UNCHANGED vars

(* The elements read so far stay in the table of an object that is refused. *)
ParseReject ==
  /\ pc = "parsing"
  /\ curr_index < mem_used
  /\ ~Readable(curr_index)
  /\ EndParse(FALSE, "InvalidData")

ParseDone ==
  /\ pc = "parsing"
  /\ curr_index >= mem_used
  /\ EndParse(TRUE, "None")

Parse == ParseElement \/ ParseReject \/ ParseDone

-----------------------------------------------------------------------------
(* Adding. *)

(* Mutant of AddError: a name may be added twice. *)
AddErrorButDuplicate(name, null) ==
  IF name \in LongNames THEN "InvalidName"
  ELSE IF readOnly THEN "ReadOnly"
  ELSE IF null THEN "InvalidArgument"
  ELSE "None"

(* The first reason to refuse an Add; null says that the pointer passed    *)
(* for the value is null.                                                  *)
AddError(name, null) ==
  IF name \in LongNames THEN "InvalidName"
  ELSE IF Find(name) # 0 THEN "DuplicateName"
  ELSE IF readOnly THEN "ReadOnly"
  ELSE IF null THEN "InvalidArgument"
  ELSE "None"

(* The cells of e are put behind the last element, the block growing if    *)
(* they do not fit, and the header is written again.                       *)
AddElementToBuffer(e, value) ==
  LET cells  == Encode(e, value)
      size   == p_size + Reserve(p_size, mem_used, Len(cells))
      stored == Write(Resize(p_data, size), mem_used, cells)
  IN /\ p_size' = size
     /\ mem_used' = mem_used + Len(cells)
     /\ el_size' = AsU64(el_size + 1)
     /\ p_data' = WriteHeader(stored, mem_used', el_size')

(* Both overloads of AddValue from CheckName on. *)
AddValue(e, value, null) ==
  LET error == AddError(e.name, null)
      type  == IF null THEN NoType ELSE e.type
  IN \/ error # "None" /\ Fail("Add", e.name, type, error)
     \/ /\ error = "None"
        /\ mem_used + HeaderBytes(e) + e.size <= MaxCells
        /\ AddElementToBuffer(e, value)
        /\ data' = Append(data,
                     [e EXCEPT !.index = AsU32(mem_used + HeaderBytes(e))])
        /\ Return("Add", e.name, e.type, TRUE, "None", value)
        /\ UNCHANGED <<readOnly, validData, p_ex_data, parser, wire, sent>>

(* AddBool .. AddDouble: the value is as wide as its type says. *)
AddScalar(name, type, value) ==
  /\ pc = "ready"
  /\ SType[type] # 0
  /\ Len(value) = SType[type]
  /\ AddValue(DType(type, name), value, FALSE)

(* AddString, AddMemoryArray, Add*Array: what of the size fits a uint32_t. *)
AddVariable(name, type, value, null) ==
  /\ pc = "ready"
  /\ SType[type] = 0
  /\ AddValue([DType(type, name) EXCEPT !.size = AsU32(Len(value))], value, null)

(* AddStringArray and AddMessageArray refuse an array without items before *)
(* they look at anything else.                                             *)
AddNoItems(name) ==
  /\ pc = "ready"
  /\ Fail("Add", name, NoType, "InvalidArgument")

-----------------------------------------------------------------------------
(* Updating, reading, deleting, sending. *)

(* The reason why the element name cannot be read as one of the type. *)
LookupError(name, type) ==
  IF Find(name) = 0 THEN "NotFound"
  ELSE IF data[Find(name)].type # type THEN "TypeMismatch"
  ELSE "None"

Update(name, type, value) ==
  /\ pc = "ready"
  /\ SType[type] # 0
  /\ Len(value) = SType[type]
  /\ LET error == IF readOnly THEN "ReadOnly" ELSE LookupError(name, type)
     IN \/ error # "None" /\ Fail("Update", name, type, error)
        \/ /\ error = "None"
           /\ p_data' = Write(p_data, data[Find(name)].index, value)
           /\ Return("Update", name, type, TRUE, "None", value)
           /\ UNCHANGED <<readOnly, validData, data, p_ex_data, p_size,
                          mem_used, el_size, parser, wire, sent>>

Get(name, type) ==
  /\ pc = "ready"
  /\ LET error == LookupError(name, type)
     IN \/ error # "None" /\ Fail("Get", name, type, error)
        \/ /\ error = "None"
           /\ Return("Get", name, type, TRUE, "None",
                     ValueOf(SourceData, data[Find(name)]))
           /\ UNCHANGED <<object, parser, wire, sent>>

(* Mutant of Reindexed: the indices of the other elements stay. *)
RemovedOnly(k, total) == RemoveAt(data, k)

(* The table after the element at position k, of the given number of cells *)
(* in all, has gone from the buffer.                                       *)
Reindexed(k, total) ==
  RemoveAt([i \in DOMAIN data |->
              IF data[i].index > data[k].index
              THEN [data[i] EXCEPT !.index = AsU32(@ - total)]
              ELSE data[i]], k)

Erase(k) ==
  LET e     == data[k]
      total == HeaderBytes(e) + e.size
  IN /\ mem_used' = AsU64(mem_used - total)
     /\ el_size' = AsU64(el_size - 1)
     /\ data' = Reindexed(k, total)
     /\ p_data' = WriteHeader(CloseGap(p_data, StartOf(e), total, mem_used),
                              mem_used', el_size')

Delete(name) ==
  /\ pc = "ready"
  /\ LET error == IF readOnly THEN "ReadOnly"
                  ELSE IF Find(name) = 0 THEN "NotFound" ELSE "None"
     IN \/ error # "None" /\ Fail("Delete", name, NoType, error)
        \/ /\ error = "None"
           /\ Erase(Find(name))
           /\ Return("Delete", name, NoType, TRUE, "None", << >>)
           /\ UNCHANGED <<readOnly, validData, p_ex_data, p_size, parser, wire,
                          sent>>

(* GetData(size), and the caller's copy of the bytes it returns. *)
Send ==
  /\ pc = "ready"
  /\ mem_used \in 1 .. MaxCells
  /\ wire' = Resize(SourceData, mem_used)
  /\ sent' = [sent EXCEPT !.ok = validData /\ data # << >>, !.entries = Contents]
  /\ pc' = "sent"
  /\ Return("Send", NoName, NoType, TRUE, last_error, << >>)
  /\ UNCHANGED <<object, curr_index>>

Lose ==
  /\ pc = "sent"
  /\ pc' = "ready"
  /\ wire' = NULL
  /\ Forget
  /\ UNCHANGED <<object, last_error, curr_index, ret>>

(* Between sender and receiver a cell of the buffer changes, or its end is *)
(* lost.                                                                   *)
Damage ==
  /\ pc = "sent"
  /\ sent.faults < MaxFaults
  /\ \/ \E k \in DOMAIN wire, c \in DamageCells : wire' = [wire EXCEPT ![k] = c]
     \/ \E n \in DOMAIN wire \ {0} : wire' = Resize(wire, n)
  /\ sent' = [ok |-> FALSE, faults |-> sent.faults + 1, entries |-> << >>]
  /\ UNCHANGED <<object, last_error, parser, ret>>

-----------------------------------------------------------------------------
Init ==
  /\ readOnly = FALSE
  /\ validData = TRUE
  /\ data = << >>
  /\ p_data = EmptyBlock
  /\ p_ex_data = NULL
  /\ p_size = Reserve(0, 0, HEADER_ELEMENTS)
  /\ mem_used = HEADER_ELEMENTS
  /\ el_size = 0
  /\ last_error = "None"
  /\ pc = "ready"
  /\ curr_index = 0
  /\ wire = NULL
  /\ sent = [ok |-> FALSE, faults |-> 0, entries |-> << >>]
  /\ ret = [op |-> "Construct", name |-> NoName, type |-> NoType, ok |-> TRUE,
             out |-> << >>]

Call(name) ==
  \/ \E type \in Types, value \in Values :
       \/ AddScalar(name, type, value)
       \/ Update(name, type, value)
       \/ \E null \in BOOLEAN : AddVariable(name, type, value, null)
  \/ \E type \in Types : Get(name, type)
  \/ AddNoItems(name)
  \/ Delete(name)

Next ==
  \/ Construct \/ Clear \/ Clone \/ Send \/ Lose
  \/ BeginWrap \/ Parse
  \/ \E name \in Names : Call(name)

Spec == Init /\ [][Next]_vars

(* The same with a channel that may damage what it carries, and a          *)
(* constructor that once begun runs on: ParseData waits for nothing.       *)
NextDamage == Next \/ Damage

SpecDamage == Init /\ [][NextDamage]_vars /\ WF_vars(Parse)

-----------------------------------------------------------------------------
(* The members hold what their C++ types allow, and an owned block is as   *)
(* long as p_size says.                                                    *)
TypeOK ==
  /\ readOnly \in BOOLEAN /\ validData \in BOOLEAN
  /\ data \in Seq(Elements)
  /\ p_size \in Nat /\ mem_used \in Nat /\ el_size \in Nat
  /\ p_data \in Block(p_size)
  /\ IsBlock(p_ex_data)
  /\ IsBlock(wire)
  /\ last_error \in Errors
  /\ pc \in {"ready", "sent", "parsing"}
  /\ curr_index \in Nat
  /\ ret.op \in Calls /\ ret.ok \in BOOLEAN

-----------------------------------------------------------------------------
(* The layout. *)

(* Entry e of the table describes the cells in front of its value. *)
Describes(block, e) ==
  /\ e.basic_type <=> SType[e.type] # 0
  /\ e.basic_type => e.size = SType[e.type]
  /\ Peek(block, StartOf(e)) = e.type
  /\ Peek(block, StartOf(e) + 1) = e.name
  /\ ~e.basic_type => AsU32(Peek(block, StartOf(e) + 2)) = e.size

(* Where the element at position i has to begin: behind its predecessor. *)
Boundary(table, i) ==
  IF i = 1 THEN HEADER_ELEMENTS ELSE EndOf(table[i - 1])

(* The elements of the table lie one behind the other between the header   *)
(* and limit, which is inside the block.                                   *)
Tiled(table, block, limit) ==
  /\ limit = Boundary(table, Len(table) + 1)
  /\ limit \in HEADER_ELEMENTS .. Cells(block)
  /\ \A i \in DOMAIN table :
       StartOf(table[i]) = Boundary(table, i) /\ Describes(block, table[i])

(* The table and the buffer of a valid message agree, and while a received *)
(* buffer is parsed the elements found so far tile it up to curr_index:    *)
(* whatever the buffer holds, every value a Get of a valid message copies  *)
(* out lies inside it, under the header of its own element.  ParseData,    *)
(* AddElementToBuffer, Delete and Clone each shift or copy one of the two. *)
LayoutOK ==
  /\ validData => Tiled(data, SourceData, mem_used) /\ GoodVersion(SourceData)
  /\ pc = "parsing" => Tiled(data, p_ex_data, curr_index)

(* The elements of a tiled table, ordered not only by neighbours.           *)
Ordered(table, limit) ==
  \A i \in DOMAIN table :
    /\ HEADER_ELEMENTS <= StartOf(table[i])
    /\ EndOf(table[i]) <= limit
    /\ \A j \in DOMAIN table : i < j => EndOf(table[i]) <= StartOf(table[j])

(* LayoutOK made inductive: what it takes besides to see that each step of *)
(* every operation, and of ParseData on any buffer, keeps the layout.      *)
LayoutInv ==
  /\ TypeOK
  /\ LayoutOK
  /\ validData =>
       Ordered(data, mem_used) /\ mem_used <= MaxCells /\ pc # "parsing"
  /\ pc = "parsing" =>
       /\ Ordered(data, curr_index)
       /\ readOnly
       /\ mem_used = Cells(p_ex_data) /\ mem_used <= MaxCells
       /\ GoodVersion(p_ex_data)
  /\ Cells(wire) <= MaxCells

(* Get does not ask whether the message is valid.  What is left in the     *)
(* table of an object that was refused, and of the clones made of it and   *)
(* changed since, still lies inside its block.                             *)
GetInside ==
  \A i \in DOMAIN data : EndOf(data[i]) <= Cells(SourceData)

(* A message no channel has damaged never holds two elements of one name,  *)
(* and counts its elements right, in el_size and, once it has been written *)
(* to, in the header: List and the receivers go by these counts, which     *)
(* AddElementToBuffer, Delete, ParseData and Clone keep apart from data.   *)
CountsOK ==
  validData =>
    /\ \A i, j \in DOMAIN data : data[i].name = data[j].name => i = j
    /\ el_size = Len(data)
    /\ SourceData[ELEMENTS] = Len(data)
    /\ data # << >> => SourceData[SIZE] = mem_used

(* What was sent is what is received: the constructor over an undamaged    *)
(* copy of GetData accepts it and finds the same elements, in order, with  *)
(* the same types and values, whatever Adds, Updates, Deletes and Clones   *)
(* made the message.                                                       *)
RoundTrip ==
  [][sent.ok /\ ret'.op = "Wrap" /\ pc' = "ready" =>
       validData' /\ Contents' = sent.entries]_vars

(* The constructor returns, whatever the buffer holds: each element moves  *)
(* curr_index on, although the buffer says how far.                        *)
ParseEnds == pc = "parsing" ~> pc = "ready"

(* An element whose Add returned true is the last of the table and reads   *)
(* back as it was added, in a clone too, which is "an independent, mutable *)
(* copy" of its source (README.md:137).                                    *)
AddedIsReadable ==
  ret.op = "Add" /\ ret.ok =>
    LET e == data[Len(data)]
    IN e.name = ret.name /\ ValueOf(SourceData, e) = ret.out

=============================================================================
