------------------------------ MODULE WireFormat ------------------------------
(***************************************************************************)
(* The wire format of DcMsg and the pure helpers of the C++ class that     *)
(* read and write it.                                                      *)
(*                                                                         *)
(* A buffer is a function from offsets 0 .. n-1 to numbers.  The unit of   *)
(* an offset is the cell, one field of the format: each of the three       *)
(* header words, the type code, the name and the uint32 length of an       *)
(* element take one cell, a value takes one cell or more.  Cells carry no  *)
(* tag saying which field they are: whoever reads at a wrong offset reads  *)
(* a wrong number, as in the program.                                      *)
(***************************************************************************)
EXTENDS Integers, Sequences, FiniteSets

CONSTANTS
  NUMBER_OF_TYPES, \* type codes are 1 .. NUMBER_OF_TYPES-1
  SType,           \* SType[t]: cells of a scalar of type t; 0: variable length
  MEM_BLOCK_SIZE,  \* cells by which the buffer of a message grows
  U32,             \* the number of values of a uint32_t
  U64,             \* the number of values of a uint64_t
  Undef            \* what a cell holds before anything is written to it

ASSUME FormatAssumption ==
  /\ NUMBER_OF_TYPES \in Nat
  /\ SType \in [1 .. NUMBER_OF_TYPES - 1 -> Nat]
  /\ MEM_BLOCK_SIZE \in Nat \ {0}
  /\ U32 \in Nat \ {0}
  /\ U64 \in Nat /\ U32 <= U64
  /\ Undef \in Nat

MESS_VERSION     == 1000
MIN_MESS_VERSION == 10

(* Widths in cells of the header, of a name and of a uint32_t.  Offsets of *)
(* the header words.                                                       *)
HEADER_ELEMENTS == 3
DTYPE_SIZE_NAME == 1
SIZEOF_U32      == 1

VERSION  == 0
SIZE     == 1
ELEMENTS == 2

KnownTypes == 1 .. NUMBER_OF_TYPES - 1

(* What is left of a number stored in a uint32_t, in a uint64_t. *)
AsU32(n) == n % U32
AsU64(n) == n % U64

-----------------------------------------------------------------------------
(* Elements: the entries of the index table DcMsg keeps beside the buffer. *)

DType(type, name) ==
  [type       |-> type,
   basic_type |-> SType[type] # 0,
   size       |-> SType[type],
   name       |-> name,
   index      |-> 0]

Elements ==
  [type: KnownTypes, basic_type: BOOLEAN, size: Nat, name: Nat, index: Nat]

(* Cells of an element before its value, where it starts in the buffer and *)
(* where the next one starts.                                              *)
HeaderBytes(e) ==
  DTYPE_SIZE_NAME + 1 + (IF e.basic_type THEN 0 ELSE SIZEOF_U32)

StartOf(e) == e.index - HeaderBytes(e)
EndOf(e)   == e.index + e.size

-----------------------------------------------------------------------------
(* Memory.  A block that was never allocated is NULL, which has no cells.  *)

NULL == << >>

Block(n) == [0 .. n - 1 -> Nat]

Peek(block, k) == IF k \in DOMAIN block THEN block[k] ELSE Undef

Cells(block) == Cardinality(DOMAIN block)

IsBlock(block) == Cells(block) \in Nat /\ block \in Block(Cells(block))

(* realloc, and a copy of n cells into a new block. *)
Resize(block, n) == [k \in 0 .. n - 1 |-> Peek(block, k)]

(* memcpy of the sequence cells to offset at. *)
Write(block, at, cells) ==
  [k \in DOMAIN block |->
     IF k - at + 1 \in DOMAIN cells THEN cells[k - at + 1] ELSE block[k]]

(* Mutant of CloseGap: the last cell of the data is not moved. *)
CloseGapShort(block, at, n, used) ==
  [k \in DOMAIN block |->
     IF at <= k /\ k < used - n - 1 THEN Peek(block, k + n) ELSE block[k]]

(* memmove that closes the gap of n cells at offset at, used being the end *)
(* of the data.                                                            *)
CloseGap(block, at, n, used) ==
  [k \in DOMAIN block |->
     IF at <= k /\ k < used - n THEN Peek(block, k + n) ELSE block[k]]

(* Mutant of WriteHeader: the size does not include the header. *)
WriteHeaderBody(block, used, count) ==
  [block EXCEPT ![SIZE] = used - HEADER_ELEMENTS, ![ELEMENTS] = count]

(* The size and the number of elements of a message that has changed. *)
WriteHeader(block, used, count) ==
  [block EXCEPT ![SIZE] = used, ![ELEMENTS] = count]

(* Cells that must be added to a block of the given size, used of which    *)
(* are taken, so that n more fit.                                          *)
Reserve(size, used, n) ==
  IF size - used < n
  THEN ((n - (size - used) + MEM_BLOCK_SIZE - 1) \div MEM_BLOCK_SIZE)
         * MEM_BLOCK_SIZE
  ELSE 0

(* The block of a message with no elements: InitHeader adds the version    *)
(* and two zeroes to a block it allocates.                                 *)
EmptyBlock ==
  Write(Resize(NULL, Reserve(0, 0, HEADER_ELEMENTS)), 0, <<MESS_VERSION, 0, 0>>)

-----------------------------------------------------------------------------
(* The cells AddElementToBuffer assembles for an element. *)
Encode(e, value) ==
  <<e.type, e.name>>
    \o (IF e.basic_type THEN << >> ELSE <<AsU32(e.size)>>)
    \o SubSeq(value, 1, e.size)

(* The value of an element that a Get copies out of a block. *)
ValueOf(block, e) == [k \in 1 .. e.size |-> Peek(block, e.index + k - 1)]

=============================================================================
