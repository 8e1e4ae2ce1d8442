-------------------------------- MODULE Objects --------------------------------
(***************************************************************************)
(* Several C++ DcMsg objects that are copied, moved, nested and read out   *)
(* of one another, and the heap their blocks are on.                       *)
(*                                                                         *)
(* Module DcMsg has what one object does to its own buffer; here a buffer  *)
(* is a block of the heap that one object owns and that others may read,   *)
(* and a call is one step.  Calls that are refused change nothing here:    *)
(* the error code is DcMsg's.  Offsets have no width, as they stay below   *)
(* 2^32; mem_used and el_size, from which Delete subtracts, have theirs.   *)
(***************************************************************************)
EXTENDS WireFormat, SequencesExt, FiniteSetsExt

CONSTANTS
  Objects,   \* the variables of type DcMsg the program has
  Blocks,    \* bound of the model: the blocks of the heap, as numbers
  MESSAGE, MESSAGEARRAY,  \* the type codes of nested messages
  Scalar,    \* the type code of the scalar the callers add
  ScalarNames, MessageNames, ArrayNames,  \* the names they use
  Values,    \* the values of the scalars
  MaxCells   \* bound of the model: no message grows beyond it

ASSUME ObjectsAssumption ==
  /\ Blocks \subseteq Nat \ {0}
  /\ ScalarNames \cup MessageNames \cup ArrayNames \subseteq Nat
  /\ Values \subseteq Seq(Nat)
  /\ {MESSAGE, MESSAGEARRAY} \subseteq KnownTypes
  /\ SType[MESSAGE] = 0 /\ SType[MESSAGEARRAY] = 0
  /\ Scalar \in KnownTypes /\ SType[Scalar] # 0
  /\ \A value \in Values : Len(value) = SType[Scalar]
  /\ MaxCells \in Nat /\ MaxCells < U32

VARIABLES
  obj,   \* obj[o]: the members of object o, and whether it is constructed
  heap,  \* heap[b]: the cells of block b, NULL while it is not allocated
  said   \* history: the entries object o has by the calls made on it, if
         \* they are still promised

vars == <<obj, heap, said>>

Nowhere == [block |-> 0, at |-> 0]

(* What a move leaves behind, but for its being constructed. *)
Hollow ==
  [alive |-> FALSE, readOnly |-> TRUE, validData |-> FALSE, data |-> << >>,
   p_data |-> 0, p_ex_data |-> Nowhere, p_size |-> 0, mem_used |-> 0,
   el_size |-> 0]

Nothing   == [ok |-> FALSE, entries |-> << >>]
Says(entries) == [ok |-> TRUE, entries |-> entries]

-----------------------------------------------------------------------------
(* Reading memory. *)

SourceData(m) ==
  IF m.readOnly THEN m.p_ex_data ELSE [block |-> m.p_data, at |-> 0]

(* The cell k behind a pointer, and n cells from it on; nothing is at null. *)
CellAt(ptr, k) ==
  IF ptr.block = 0 THEN Undef ELSE Peek(heap[ptr.block], ptr.at + k)

CellsAt(ptr, n) == [k \in 0 .. n - 1 |-> CellAt(ptr, k)]

(* A call reads the bytes of o: there are some, and if they are another's  *)
(* they are still those that were promised.                                *)
Live(o) ==
  obj[o].alive /\ SourceData(obj[o]).block # 0 /\ (obj[o].readOnly => said[o].ok)

(* The entries of a table over a buffer. *)
Entries(table, block) ==
  [i \in DOMAIN table |->
     [name |-> table[i].name, type |-> table[i].type,
      value |-> ValueOf(block, table[i])]]

(* The cells the entries of the table reach. *)
Reach(m) ==
  Max({HEADER_ELEMENTS} \cup {EndOf(m.data[i]) : i \in DOMAIN m.data})

Contents(m) == Entries(m.data, CellsAt(SourceData(m), Reach(m)))

Find(m, name) == SelectInSeq(m.data, LAMBDA d : d.name = name)

(* ParseData, of a buffer whose header has been checked. *)
ElementAt(block, at) ==
  LET e == DType(Peek(block, at), Peek(block, at + 1))
  IN [e EXCEPT !.size  = IF e.basic_type THEN @
                         ELSE Peek(block, at + 1 + DTYPE_SIZE_NAME),
               !.index = at + HeaderBytes(e)]

Readable(block, at) ==
  /\ Cells(block) - at >= DTYPE_SIZE_NAME + 1
  /\ Peek(block, at) \in KnownTypes
  /\ LET e == ElementAt(block, at)
     IN /\ e.basic_type \/ Cells(block) - at > DTYPE_SIZE_NAME + SIZEOF_U32
        /\ Cells(block) - e.index >= e.size

ParseData(block) ==
  LET from[at \in HEADER_ELEMENTS .. Cells(block)] ==
        IF at = Cells(block) THEN [ok |-> TRUE, data |-> << >>]
        ELSE IF ~Readable(block, at) THEN [ok |-> FALSE, data |-> << >>]
        ELSE LET e    == ElementAt(block, at)
                 rest == from[EndOf(e)]
             IN [rest EXCEPT !.data = <<e>> \o @]
  IN from[HEADER_ELEMENTS]

(* DcMsg(data, size): the object over size cells at data. *)
Over(ptr, size) ==
  LET block  == CellsAt(ptr, size)
      header == /\ size >= HEADER_ELEMENTS
                /\ block[VERSION] \in MIN_MESS_VERSION .. MESS_VERSION
      parsed == IF header /\ block[SIZE] = size THEN ParseData(block)
                ELSE [ok |-> FALSE, data |-> << >>]
  IN [Hollow EXCEPT
       !.alive = TRUE, !.p_ex_data = ptr,
       !.mem_used = IF header THEN block[SIZE] ELSE 0,
       !.el_size  = IF header THEN block[ELEMENTS] ELSE 0,
       !.data = parsed.data, !.validData = parsed.ok]

-----------------------------------------------------------------------------
(* Changing memory. *)

Free(h, b) == IF b = 0 THEN h ELSE [h EXCEPT ![b] = NULL]

(* malloc.  A block some pointer still refers to is not handed out again,  *)
(* so that whoever reads through it is seen to do so.                      *)
Unused ==
  {b \in Blocks :
     /\ heap[b] = NULL
     /\ \A o \in Objects : b \notin {obj[o].p_data, obj[o].p_ex_data.block}}

Malloc(b) == Unused # {} /\ b = Min(Unused)

(* The state after a call: the objects, the heap, and what is promised of  *)
(* them.  Nothing is promised of a message that is disturbed, nor of one   *)
(* over the block of another that was freed.                               *)
Becomes(objects, h, promised, disturbed) ==
  /\ obj' = objects
  /\ heap' = h
  /\ said' = [o \in Objects |->
       LET m == objects[o]
           freed == m.p_ex_data # Nowhere /\ h[m.p_ex_data.block] = NULL
       IN IF o \in disturbed \/ (m.readOnly /\ freed)
          THEN Nothing ELSE promised[o]]

Set(o, m, h, told) ==
  Becomes([obj EXCEPT ![o] = m], h, [said EXCEPT ![o] = told], {})

(* The others that read the cells lo .. hi-1 of block b. *)
Reading(o, b, lo, hi) ==
  {v \in Objects \ {o} :
     /\ obj[v].readOnly /\ obj[v].p_ex_data.block = b
     /\ obj[v].p_ex_data.at < hi
     /\ lo < obj[v].p_ex_data.at + Reach(obj[v])}

-----------------------------------------------------------------------------
(* Construction and destruction. *)

(* m with a new block from InitHeader. *)
InitHeader(m, b) ==
  [m EXCEPT !.p_data = b, !.p_size = Cells(EmptyBlock),
            !.mem_used = HEADER_ELEMENTS, !.validData = TRUE]

Construct(o) ==
  /\ ~obj[o].alive
  /\ \E b \in Blocks :
       /\ Malloc(b)
       /\ Set(o, InitHeader([Hollow EXCEPT !.alive = TRUE, !.readOnly = FALSE], b),
              [heap EXCEPT ![b] = EmptyBlock], Says(<< >>))

Destroy(o) ==
  /\ obj[o].alive
  /\ Set(o, Hollow, Free(heap, obj[o].p_data), Nothing)

(* Mutant of CopyOf: the pointer of a received message is not copied. *)
CopyWithoutPointer(m, b) ==
  IF ~m.readOnly /\ m.p_data # 0 THEN [m EXCEPT !.p_data = b]
  ELSE InitHeader([m EXCEPT !.p_ex_data = Nowhere], b)

(* The copy of m, whose own block is b, and the cells of that block.  The  *)
(* copy of a received message shares its buffer and has an empty block of  *)
(* its own beside it, which gives it a size and makes it valid.            *)
CopyOf(m, b) ==
  IF ~m.readOnly /\ m.p_data # 0 THEN [m EXCEPT !.p_data = b]
  ELSE InitHeader(m, b)

CopiedCells(m) ==
  IF ~m.readOnly /\ m.p_data # 0 THEN heap[m.p_data] ELSE EmptyBlock

(* Nothing is promised of the copy of an invalid message. *)
ToldOf(s) == IF obj[s].validData THEN said[s] ELSE Nothing

CopyConstruct(o, s) ==
  /\ ~obj[o].alive /\ obj[s].alive
  /\ \E b \in Blocks :
       /\ Malloc(b)
       /\ Set(o, CopyOf(obj[s], b),
              [heap EXCEPT ![b] = CopiedCells(obj[s])], ToldOf(s))

CopyAssign(o, s) ==
  /\ obj[o].alive /\ obj[s].alive /\ o # s
  /\ \E b \in Blocks :
       /\ Malloc(b)
       /\ Set(o, CopyOf(obj[s], b),
              [Free(heap, obj[o].p_data) EXCEPT ![b] = CopiedCells(obj[s])],
              ToldOf(s))

(* Mutant of Moved: the source keeps the block. *)
MovedShared(o, s) ==
  [obj EXCEPT ![o] = obj[s],
              ![s] = [Hollow EXCEPT !.alive = TRUE, !.p_data = obj[s].p_data]]

Moved(o, s) ==
  [obj EXCEPT ![o] = obj[s], ![s] = [Hollow EXCEPT !.alive = TRUE]]

Move(o, s, h) ==
  Becomes(Moved(o, s), h, [said EXCEPT ![o] = said[s], ![s] = Nothing], {})

MoveConstruct(o, s) ==
  /\ ~obj[o].alive /\ obj[s].alive
  /\ Move(o, s, heap)

MoveAssign(o, s) ==
  /\ obj[o].alive /\ obj[s].alive /\ o # s
  /\ Move(o, s, Free(heap, obj[o].p_data))

(* A read-only copy has a size that is not that of what it reads. *)
Short(m) == m.readOnly /\ m.p_data # 0

(* DcMsg o = s.Clone(): a block of mem_used cells copied from the source,  *)
(* none if mem_used is 0.                                                  *)
Clone(o, s) ==
  LET m     == obj[s]
      cells == CellsAt(SourceData(m), m.mem_used)
      told  == IF m.validData /\ ~Short(m) THEN said[s] ELSE Nothing
      copy  == [m EXCEPT !.readOnly = FALSE, !.p_ex_data = Nowhere,
                         !.p_size = m.mem_used]
  IN /\ ~obj[o].alive /\ m.alive
     /\ m.mem_used > 0 => Live(s) /\ m.mem_used <= MaxCells
     /\ \/ /\ m.mem_used > 0
           /\ \E b \in Blocks :
                /\ Malloc(b)
                /\ Set(o, [copy EXCEPT !.p_data = b],
                       [heap EXCEPT ![b] = cells], told)
        \/ /\ m.mem_used = 0
           /\ Set(o, [copy EXCEPT !.p_data = 0], heap, Nothing)

-----------------------------------------------------------------------------
(* DcMsg o(buffer, size) over what GetData(size) of s returns.  A caller   *)
(* who copies the bytes first reads a block that nobody else writes.  The  *)
(* size of a refused message is what its header says; programs that read   *)
(* beyond the end of the block because of it are not followed.             *)
(*                                                                         *)
(* A message made over a valid one promises what that one does; what is    *)
(* made over any other is what the parser finds.                           *)
Wrap(o, s) ==
  LET ptr  == SourceData(obj[s])
      size == obj[s].mem_used
      new  == Over(ptr, size)
      sound == obj[s].validData /\ ~Short(obj[s]) /\ said[s].ok
      told == IF sound /\ new.validData THEN said[s]
              ELSE Says(Entries(new.data, CellsAt(ptr, size)))
  IN /\ ~obj[o].alive /\ Live(s) /\ size > 0
     /\ ptr.at + size <= Cells(heap[ptr.block])
     /\ Set(o, new, heap, told)

-----------------------------------------------------------------------------
(* Building. *)

(* o can be written to.  Programs that go on to write to a message of      *)
(* which nothing is promised any more, such as the clone of a refused one, *)
(* are not followed: what they then do to the heap is not defined.         *)
Writable(o) == obj[o].alive /\ ~obj[o].readOnly /\ said[o].ok

(* AddValue: the element is assembled before the block grows, in place or  *)
(* by moving.                                                              *)
Add(o, e, value, told) ==
  LET m     == obj[o]
      cells == Encode(e, value)
      more  == Reserve(m.p_size, m.mem_used, Len(cells))
      size  == m.p_size + more
      used  == m.mem_used + Len(cells)
      old   == IF m.p_data = 0 THEN NULL ELSE heap[m.p_data]
      new   == WriteHeader(Write(Resize(old, size), m.mem_used, cells),
                           used, m.el_size + 1)
      entry == [e EXCEPT !.index = m.mem_used + HeaderBytes(e)]
      grown == [m EXCEPT !.p_size = size, !.mem_used = used,
                         !.el_size = @ + 1, !.data = Append(@, entry)]
  IN /\ Writable(o) /\ Find(m, e.name) = 0 /\ used <= MaxCells
     /\ \/ /\ m.p_data # 0
           /\ Set(o, grown, [heap EXCEPT ![m.p_data] = new], told)
        \/ /\ more > 0
           /\ \E b \in Blocks :
                /\ Malloc(b)
                /\ Set(o, [grown EXCEPT !.p_data = b],
                       [Free(heap, m.p_data) EXCEPT ![b] = new], told)

(* What o says with an entry more, if anything is promised of it. *)
With(o, name, type, value) ==
  IF said[o].ok
  THEN Says(Append(said[o].entries,
              [name |-> name, type |-> type, value |-> value]))
  ELSE Nothing

AddScalar(o, name, value) ==
  Add(o, DType(Scalar, name), value, With(o, name, Scalar, value))

(* The bytes GetData(size) gives of s. *)
Bytes(s) ==
  LET cells == CellsAt(SourceData(obj[s]), obj[s].mem_used)
  IN [k \in 1 .. obj[s].mem_used |-> cells[k - 1]]

AddBytes(o, name, type, bytes) ==
  Add(o, [DType(type, name) EXCEPT !.size = Len(bytes)], bytes,
      With(o, name, type, bytes))

(* s may be o itself, or read the block of o. *)
AddMessage(o, name, s) ==
  Live(s) /\ AddBytes(o, name, MESSAGE, Bytes(s))

(* The number of items, then each with its size in front. *)
ArrayBytes(items) ==
  <<Len(items)>> \o
    FlattenSeq([i \in DOMAIN items |-> <<Len(items[i])>> \o items[i]])

AddMessageArray(o, name, items) ==
  /\ \A i \in DOMAIN items : Live(items[i])
  /\ AddBytes(o, name, MESSAGEARRAY,
              ArrayBytes([i \in DOMAIN items |-> Bytes(items[i])]))

Update(o, name, value) ==
  LET m == obj[o]
      k == Find(m, name)
      e == m.data[k]
  IN /\ Writable(o) /\ k # 0 /\ e.type = Scalar
     /\ Becomes(obj,
          [heap EXCEPT ![m.p_data] = Write(@, e.index, value)],
          [said EXCEPT ![o].entries =
             IF k \in DOMAIN @ THEN [@ EXCEPT ![k].value = value] ELSE @],
          Reading(o, m.p_data, e.index, e.index + e.size))

Shifted(m, k, total) ==
  RemoveAt([i \in DOMAIN m.data |->
              IF m.data[i].index > m.data[k].index
              THEN [m.data[i] EXCEPT !.index = @ - total] ELSE m.data[i]], k)

Delete(o, name) ==
  LET m     == obj[o]
      k     == Find(m, name)
      e     == m.data[k]
      total == HeaderBytes(e) + e.size
      used  == AsU64(m.mem_used - total)
      rest  == CloseGap(heap[m.p_data], StartOf(e), total, m.mem_used)
      count == AsU64(m.el_size - 1)
      cells == WriteHeader(rest, used, count)
  IN /\ Writable(o) /\ k # 0
     /\ Becomes(
          [obj EXCEPT ![o].mem_used = used, ![o].el_size = count,
                      ![o].data = Shifted(m, k, total)],
          [heap EXCEPT ![m.p_data] = cells],
          [said EXCEPT ![o].entries = IF k \in DOMAIN @ THEN RemoveAt(@, k) ELSE @],
          Reading(o, m.p_data, StartOf(e), m.mem_used))

Clear(o) ==
  /\ obj[o].alive /\ ~obj[o].readOnly
  /\ \E b \in Blocks :
       /\ Malloc(b)
       /\ Set(o, InitHeader([obj[o] EXCEPT !.data = << >>, !.el_size = 0], b),
              [Free(heap, obj[o].p_data) EXCEPT ![b] = EmptyBlock],
              Says(<< >>))

(* The element name of o can be read as one of the type. *)
Retrieves(o, name, type) ==
  Live(o) /\ Find(obj[o], name) # 0 /\ obj[o].data[Find(obj[o], name)].type = type

(* What a message made of these bytes says. *)
SaysOf(bytes) ==
  LET block == [c \in 0 .. Len(bytes) - 1 |-> bytes[c + 1]]
  IN Says(Entries(ParseData(block).data, block))

(* The messages over parts of the buffer of o take the place of those in   *)
(* dest, one after the other; items is what was once put there.            *)
TakeOut(o, parts, items, dest) ==
  LET Item(i) == Over([SourceData(obj[o]) EXCEPT !.at = @ + parts[i].at],
                      parts[i].size)
      Told(i) == IF said[o].ok /\ Item(i).validData /\ i \in DOMAIN items
                 THEN SaysOf(items[i]) ELSE Nothing
      Position(d) == CHOOSE i \in DOMAIN dest : dest[i] = d
  IN /\ \A d \in Range(dest) : obj[d].alive
     /\ Becomes([d \in Objects |->
                   IF d \in Range(dest) THEN Item(Position(d)) ELSE obj[d]],
                [b \in Blocks |->
                   IF \E d \in Range(dest) : obj[d].p_data = b
                   THEN NULL ELSE heap[b]],
                [d \in Objects |->
                   IF d \in Range(dest) THEN Told(Position(d)) ELSE said[d]],
                {})

(* The value that was put into o under that name. *)
PutInto(o, name) == said[o].entries[Find(obj[o], name)].value

(* dest may be o itself, whose block is then freed under the new message. *)
GetMessage(o, name, dest) ==
  /\ Retrieves(o, name, MESSAGE)
  /\ LET e == obj[o].data[Find(obj[o], name)]
     IN TakeOut(o, <<[at |-> e.index, size |-> e.size]>>,
                <<PutInto(o, name)>>, <<dest>>)

(* How many items the array e of message m has. *)
ItemCount(m, e) == CellAt(SourceData(m), e.index)

(* Mutant of PartsOf: the loop does not step over the item it has read. *)
PartsUnstepped(m, e) ==
  [i \in 1 .. ItemCount(m, e) |->
     [at |-> e.index + 2, size |-> CellAt(SourceData(m), e.index + 1)]]

(* Where the items of the array e of message m are. *)
PartsOf(m, e) ==
  LET part[i \in 1 .. ItemCount(m, e)] ==
        LET at == IF i = 1 THEN e.index + 1
                  ELSE part[i - 1].at + part[i - 1].size
        IN [at |-> at + 1, size |-> CellAt(SourceData(m), at)]
  IN part

(* The one or two items an array was made of, if it was made of items. *)
ItemsOf(bytes) ==
  LET made == {items \in
                 {<<SubSeq(bytes, 3, Len(bytes))>>} \cup
                 {<<SubSeq(bytes, 3, c), SubSeq(bytes, c + 2, Len(bytes))>> :
                    c \in 3 .. Len(bytes)} : ArrayBytes(items) = bytes}
  IN IF made = {} THEN << >> ELSE CHOOSE items \in made : TRUE

(* dest is the vector, with as many messages as there are items.  Each     *)
(* turn of the loop frees the block of one of them: programs in which that *)
(* is the block later turns read from are not followed.                    *)
GetMessageArray(o, name, dest) ==
  /\ Retrieves(o, name, MESSAGEARRAY)
  /\ \A i \in DOMAIN dest :
       i < Len(dest) => obj[dest[i]].p_data # SourceData(obj[o]).block
  /\ LET e == obj[o].data[Find(obj[o], name)]
     IN /\ Len(dest) = ItemCount(obj[o], e)
        /\ TakeOut(o, PartsOf(obj[o], e), ItemsOf(PutInto(o, name)), dest)

-----------------------------------------------------------------------------
Init ==
  /\ obj = [o \in Objects |-> Hollow]
  /\ heap = [b \in Blocks |-> NULL]
  /\ said = [o \in Objects |-> Nothing]

(* A vector of one or two of the objects. *)
Vectors ==
  {<<s>> : s \in Objects} \cup
  {<<p[1], p[2]>> : p \in {q \in Objects \X Objects : q[1] # q[2]}}

Next ==
  \E o \in Objects :
    \/ Construct(o) \/ Destroy(o) \/ Clear(o)
    \/ \E name \in ScalarNames, value \in Values :
         AddScalar(o, name, value) \/ Update(o, name, value)
    \/ \E name \in ScalarNames \cup MessageNames \cup ArrayNames : Delete(o, name)
    \/ \E s \in Objects :
         \/ CopyConstruct(o, s) \/ CopyAssign(o, s)
         \/ MoveConstruct(o, s) \/ MoveAssign(o, s)
         \/ Clone(o, s) \/ Wrap(o, s)
         \/ \E name \in MessageNames :
              AddMessage(o, name, s) \/ GetMessage(o, name, s)
    \/ \E name \in ArrayNames, vector \in Vectors :
         \/ o \notin Range(vector) /\ AddMessageArray(o, name, vector)
         \/ o \notin Range(vector) /\ GetMessageArray(o, name, vector)

Spec == Init /\ [][Next]_vars

-----------------------------------------------------------------------------
(* Every allocated block has one owner, which knows its size; no owner has *)
(* lost its block.  Copies, moves, Clone, Clear, GetMessage and the growth *)
(* of a block each free, take or hand on blocks: a second owner is a       *)
(* double free to come, a block without owner a leak.                      *)
OneOwner ==
  /\ \A b \in Blocks :
       heap[b] # NULL => \E o \in Objects : obj[o].p_data = b
  /\ \A o \in Objects :
       obj[o].p_data # 0 =>
         /\ heap[obj[o].p_data] # NULL
         /\ obj[o].p_size = Cells(heap[obj[o].p_data])
         /\ \A v \in Objects : obj[v].p_data = obj[o].p_data => v = o

(* A valid message says what the calls made on it, or on the message it    *)
(* was copied, cloned, moved or read out of, put into it, whatever is done *)
(* to the others.  A message over the buffer of another does so until that *)
(* block is freed or moved, or the element it is in or one in front of it  *)
(* is deleted or updated: it survives other Updates, Adds that do not move *)
(* the block, Deletes behind it, and moves of the owner.                   *)
Faithful ==
  \A o \in Objects :
    obj[o].alive /\ obj[o].validData /\ said[o].ok =>
      Contents(obj[o]) = said[o].entries

(* A clone says what its source said when it was made, whether or not the  *)
(* source is read-only (README.md:145).                                    *)
ClonesFaithful ==
  [][\A o, s \in Objects :
       Clone(o, s) /\ obj[s].validData /\ said[s].ok =>
         Contents(obj[o])' = Contents(obj[s])]_vars

=============================================================================
