--------------------------- MODULE RoundTripProofs ---------------------------
(***************************************************************************)
(* What was sent is what is received: RoundTrip, for all types, names and  *)
(* values and any number of faults.                                        *)
(*                                                                         *)
(* The layout invariant says that the table of a message agrees with its   *)
(* buffer.  Here it is used twice: the copy that is in flight carries the  *)
(* table of its sender, and a table that tiles a buffer is the only one    *)
(* ParseData can find in it.                                               *)
(***************************************************************************)
EXTENDS DcMsgProofs

USE DEF HEADER_ELEMENTS, DTYPE_SIZE_NAME, SIZEOF_U32, VERSION, SIZE, ELEMENTS

(* What a table says of the cells of a block. *)
Entries(table, block) ==
  [i \in DOMAIN table |->
     [name |-> table[i].name, type |-> table[i].type,
      value |-> ValueOf(block, table[i])]]

LEMMA ContentsEntries == Contents = Entries(data, SourceData)
BY DEF Contents, Entries

(* Two blocks with the same cells behind the header say the same.          *)
LEMMA CopyEntries ==
  ASSUME NEW table \in Seq(Elements), NEW limit \in Nat, Ordered(table, limit),
         NEW b, NEW c,
         \A k \in HEADER_ELEMENTS .. limit - 1 : Peek(c, k) = Peek(b, k)
  PROVE  Entries(table, c) = Entries(table, b)
<1>1. ASSUME NEW i \in DOMAIN table
      PROVE  ValueOf(c, table[i]) = ValueOf(b, table[i])
  <2> DEFINE e == table[i]
  <2>1. /\ e \in Elements /\ StartOf(e) \in Nat /\ e.index \in Nat
        /\ HEADER_ELEMENTS <= StartOf(e) /\ StartOf(e) < e.index
        /\ EndOf(e) \in Nat /\ EndOf(e) <= limit
    BY Places
  <2>2. e.size \in Nat /\ EndOf(e) = e.index + e.size
    BY <2>1, ElementBounds
  <2> HIDE DEF e
  <2>3. ASSUME NEW k \in 1 .. e.size
        PROVE  Peek(c, e.index + k - 1) = Peek(b, e.index + k - 1)
    <3>1. e.index + k - 1 \in HEADER_ELEMENTS .. limit - 1
      BY <2>1, <2>2
    <3> QED BY <3>1
  <2> QED BY <2>3 DEF ValueOf, e
<1> QED BY <1>1 DEF Entries

(* A copy of the cells of a message carries its table and says the same.   *)
LEMMA CopyCarries ==
  ASSUME NEW table \in Seq(Elements), NEW b, IsBlock(b), NEW limit \in Nat,
         Tiled(table, b, limit), Ordered(table, limit), GoodVersion(b)
  PROVE  LET c == Resize(b, limit)
         IN /\ IsBlock(c) /\ Cells(c) = limit
            /\ \A k \in 0 .. limit - 1 : c[k] = b[k]
            /\ Tiled(table, c, limit) /\ GoodVersion(c)
            /\ Entries(table, c) = Entries(table, b)
<1> DEFINE c == Resize(b, limit)
<1>1. limit \in HEADER_ELEMENTS .. Cells(b) /\ Cells(b) \in Nat
  BY DEF Tiled, IsBlock
<1>2. c \in Block(limit) /\ \A k \in 0 .. limit - 1 : c[k] = Peek(b, k)
  BY ResizeBlock
<1> HIDE DEF c
<1>3. IsBlock(c) /\ Cells(c) = limit
  BY <1>2, CellsOfBlock
<1>4. \A k \in 0 .. limit - 1 : Peek(c, k) = c[k] /\ Peek(b, k) = b[k]
  BY <1>1, <1>3, PeekCell
<1>5. \A k \in 0 .. limit - 1 : c[k] = b[k] /\ Peek(c, k) = Peek(b, k)
  BY <1>2, <1>4
<1>6. \A k \in HEADER_ELEMENTS .. limit - 1 : Peek(c, k) = Peek(b, k)
  BY <1>1, <1>5
<1>7. \A i \in DOMAIN table : \A k \in Int :
        StartOf(table[i]) <= k /\ k < table[i].index => Peek(c, k) = Peek(b, k)
  BY <1>6, HeadersInside
<1>8. Tiled(table, c, limit)
  <2>1. limit \in HEADER_ELEMENTS .. Cells(c)
    BY <1>1, <1>3
  <2> QED BY <1>7, <2>1, CopyTiled
<1>9. GoodVersion(c)
  <2>1. 0 \in 0 .. limit - 1
    BY <1>1
  <2>2. c[0] = b[0]
    BY <1>5, <2>1
  <2> QED BY <2>2 DEF GoodVersion
<1>10. Entries(table, c) = Entries(table, b)
  BY <1>6, CopyEntries
<1> QED BY <1>3, <1>5, <1>8, <1>9, <1>10 DEF c

-----------------------------------------------------------------------------
(* A block that is, to the last cell, the message of a table. *)
Carries(block, table) ==
  /\ table \in Seq(Elements)
  /\ Tiled(table, block, Cells(block))
  /\ Ordered(table, Cells(block))
  /\ GoodVersion(block)
  /\ block[SIZE] = Cells(block)

Prefix(short, long) ==
  /\ Len(short) <= Len(long)
  /\ \A i \in 1 .. Len(short) : short[i] = long[i]

(* The SIZE word of a message with elements is right; that of an empty one *)
(* need not be.                                                            *)
SizeWord ==
  /\ validData /\ data # << >> => SourceData[SIZE] = mem_used
  /\ pc = "parsing" => p_ex_data[SIZE] = mem_used

(* A message that must be received is in flight as its sender made it, or  *)
(* has been read in part.                                                  *)
InFlight ==
  /\ sent = [ok |-> sent.ok, faults |-> sent.faults, entries |-> sent.entries]
  /\ sent.ok => pc \in {"sent", "parsing"}
  /\ pc = "sent" => ret.op = "Send"
  /\ sent.ok /\ pc = "sent" =>
       \E T : Carries(wire, T) /\ sent.entries = Entries(T, wire)
  /\ sent.ok /\ pc = "parsing" =>
       \E T : /\ Carries(p_ex_data, T) /\ sent.entries = Entries(T, p_ex_data)
              /\ Prefix(data, T)

RoundTripInv == LayoutInv /\ SizeWord /\ InFlight

(* While ParseData has not reached the end of such a block, the next       *)
(* element it finds is the next one of the table.                          *)
LEMMA NextElement ==
  ASSUME MaxCells < U32, LayoutInv, pc = "parsing",
         NEW T, Carries(p_ex_data, T), Prefix(data, T), curr_index < mem_used
  PROVE  /\ Readable(curr_index)
         /\ Len(data) + 1 \in DOMAIN T
         /\ ElementAt(curr_index) = T[Len(data) + 1]
<1> DEFINE at == curr_index
           b  == p_ex_data
           n  == Len(data)
           e  == T[n + 1]
           f  == DType(Peek(b, at), Peek(b, AsU32(at + 1)))
<1>1. /\ TypeOK /\ at \in Nat /\ mem_used \in Nat /\ data \in Seq(Elements)
      /\ IsBlock(b) /\ Tiled(data, b, at)
      /\ mem_used = Cells(b) /\ mem_used <= MaxCells
  BY DEF LayoutInv, LayoutOK, TypeOK
<1>2. /\ T \in Seq(Elements) /\ Tiled(T, b, mem_used) /\ Ordered(T, mem_used)
  BY <1>1 DEF Carries
<1>3. /\ n \in Nat /\ Len(T) \in Nat /\ n <= Len(T) /\ DOMAIN T = 1 .. Len(T)
  BY <1>1, <1>2, LenProperties DEF Prefix
<1>4. at = Boundary(T, n + 1)
  <2>1. at = Boundary(data, n + 1)
    BY <1>1 DEF Tiled
  <2>2. CASE n = 0
    BY <2>1, <2>2 DEF Boundary
  <2>3. CASE n # 0
    <3>1. n \in 1 .. n /\ n + 1 # 1 /\ n + 1 - 1 = n
      BY <1>3, <2>3
    <3>2. data[n] = T[n]
      BY <3>1 DEF Prefix
    <3> QED BY <2>1, <3>1, <3>2 DEF Boundary
  <2> QED BY <2>2, <2>3
<1>5. n + 1 \in DOMAIN T
  <2>1. mem_used = Boundary(T, Len(T) + 1)
    BY <1>2 DEF Tiled
  <2>2. n # Len(T)
    BY <1>1, <1>4, <2>1
  <2> QED BY <1>3, <2>2
<1>6. /\ e \in Elements /\ StartOf(e) \in Nat /\ e.index \in Nat
      /\ EndOf(e) \in Nat /\ StartOf(e) < e.index
      /\ e.index <= EndOf(e) /\ EndOf(e) <= mem_used
  BY <1>1, <1>2, <1>5, Places
<1>7. StartOf(e) = at /\ Describes(b, e)
  BY <1>2, <1>4, <1>5 DEF Tiled
<1>8. /\ e.index = at + HeaderBytes(e)
      /\ HeaderBytes(e) = IF e.basic_type THEN 2 ELSE 3
      /\ e.size \in Nat /\ EndOf(e) = e.index + e.size
  BY <1>6, <1>7, ElementBounds
<1>9. /\ e.type \in KnownTypes /\ e.basic_type \in BOOLEAN
      /\ e = [type |-> e.type, basic_type |-> e.basic_type, size |-> e.size,
              name |-> e.name, index |-> e.index]
  BY <1>6 DEF Elements
<1> HIDE DEF e
<1>10. MaxCells \in Nat /\ U32 \in Nat
  BY CallerAssumption, FormatAssumption
<1>11. at + 2 <= mem_used /\ (~e.basic_type => at + 3 <= mem_used)
  BY <1>1, <1>6, <1>8
<1>12. AsU32(at + 1) = at + 1 /\ AsU32(at + 2) = at + 2
  <2>1. at + 1 \in 0 .. U32 - 1 /\ at + 2 \in 0 .. U32 - 1
    BY <1>1, <1>10, <1>11
  <2> QED BY <2>1, AsU32Fits
<1>13. AsU32(at + HeaderBytes(e)) = at + HeaderBytes(e)
  <2>1. at + HeaderBytes(e) \in 0 .. U32 - 1
    BY <1>1, <1>6, <1>8, <1>10
  <2> QED BY <2>1, AsU32Fits
<1>14. /\ e.basic_type <=> SType[e.type] # 0
       /\ e.basic_type => e.size = SType[e.type]
       /\ Peek(b, at) = e.type /\ Peek(b, at + 1) = e.name
       /\ ~e.basic_type => AsU32(Peek(b, at + 2)) = e.size
  BY <1>7 DEF Describes
<1>15. /\ f = [type |-> e.type, basic_type |-> e.basic_type,
               size |-> SType[e.type], name |-> e.name, index |-> 0]
       /\ HeaderBytes(f) = HeaderBytes(e)
  <2>1. f = [type |-> e.type, basic_type |-> SType[e.type] # 0,
             size |-> SType[e.type], name |-> e.name, index |-> 0]
    BY <1>12, <1>14 DEF DType
  <2>2. (SType[e.type] # 0) = e.basic_type
    BY <1>9, <1>14
  <2> HIDE DEF f
  <2>3. f.basic_type = e.basic_type
    BY <2>1, <2>2
  <2> QED BY <2>1, <2>2, <2>3 DEF HeaderBytes
<1>16. ElementAt(at) = [f EXCEPT
          !.size  = IF f.basic_type THEN f.size ELSE AsU32(Peek(b, AsU32(at + 2))),
          !.index = AsU32(at + HeaderBytes(f))]
  <2>1. at + 1 + DTYPE_SIZE_NAME = at + 2
    BY <1>1
  <2> QED BY <2>1 DEF ElementAt
<1> HIDE DEF f
<1>17. ElementAt(at) = e
  <2>1. ElementAt(at) =
          [type |-> e.type, basic_type |-> e.basic_type,
           size |-> IF e.basic_type THEN SType[e.type] ELSE AsU32(Peek(b, AsU32(at + 2))),
           name |-> e.name, index |-> AsU32(at + HeaderBytes(e))]
    BY <1>15, <1>16
  <2>2. (IF e.basic_type THEN SType[e.type] ELSE AsU32(Peek(b, AsU32(at + 2)))) = e.size
    BY <1>12, <1>14
  <2>3. AsU32(at + HeaderBytes(e)) = e.index
    BY <1>8, <1>13
  <2> QED BY <1>9, <2>1, <2>2, <2>3
<1>18. Readable(at)
  <2>1. mem_used - at >= DTYPE_SIZE_NAME + 1
    BY <1>1, <1>11
  <2>2. Peek(b, at) \in KnownTypes
    BY <1>9, <1>14
  <2>3. e.basic_type \/ mem_used - AsU32(at + 1 + DTYPE_SIZE_NAME) >= SIZEOF_U32
    <3>1. at + 1 + DTYPE_SIZE_NAME = at + 2
      BY <1>1
    <3> QED BY <1>1, <1>11, <1>12, <3>1
  <2>4. mem_used - e.index >= e.size
    BY <1>1, <1>6, <1>8
  <2> QED BY <1>17, <2>1, <2>2, <2>3, <2>4 DEF Readable
<1> QED BY <1>5, <1>17, <1>18 DEF e

-----------------------------------------------------------------------------
(* The words of the header. *)

LEMMA WrittenWords ==
  ASSUME NEW n \in Nat, NEW b \in Block(n), 3 <= n, NEW used, NEW count
  PROVE  /\ WriteHeader(b, used, count)[SIZE] = used
         /\ WriteHeader(b, used, count)[ELEMENTS] = count
<1>1. DOMAIN b = 0 .. n - 1 /\ 1 \in 0 .. n - 1 /\ 2 \in 0 .. n - 1
  BY DEF Block
<1> QED BY <1>1 DEF WriteHeader

LEMMA AddedWords ==
  ASSUME LayoutInv, validData, ~readOnly,
         NEW e, NEW value, Addable(e, value), AddElementToBuffer(e, value)
  PROVE  p_data'[SIZE] = mem_used' /\ p_data'[ELEMENTS] = el_size'
<1> DEFINE cells  == Encode(e, value)
           size   == p_size + Reserve(p_size, mem_used, Len(cells))
           wider  == Resize(p_data, size)
           stored == Write(wider, mem_used, cells)
<1>1. cells \in Seq(Nat) /\ Len(cells) \in Nat
  BY EncodeCells, LenProperties DEF Addable
<1>2. /\ p_size' = size /\ mem_used' = mem_used + Len(cells)
      /\ p_data' = WriteHeader(stored, mem_used', el_size')
  BY DEF AddElementToBuffer
<1> HIDE DEF cells
<1>3. /\ p_size \in Nat /\ mem_used \in Nat /\ p_data \in Block(p_size)
      /\ IsBlock(p_data) /\ 3 <= mem_used
  <2>1. Tiled(data, SourceData, mem_used) /\ TypeOK
    BY DEF LayoutInv, LayoutOK
  <2> QED BY <2>1, CellsOfBlock DEF Tiled, TypeOK
<1>4. size \in Nat /\ 3 <= size
  <2>1. /\ Reserve(p_size, mem_used, Len(cells)) \in Nat
        /\ p_size + Reserve(p_size, mem_used, Len(cells)) >= mem_used + Len(cells)
    BY <1>1, <1>3, ReserveEnough
  <2> QED BY <1>1, <1>3, <2>1
<1> HIDE DEF size
<1>5. wider \in Block(size)
  BY <1>3, <1>4, ResizeBlock
<1> HIDE DEF wider
<1>6. stored \in Block(size)
  <2>1. mem_used \in Int
    BY <1>3
  <2> QED BY <1>1, <1>4, <1>5, <2>1, WriteBlock
<1> HIDE DEF stored
<1> QED BY <1>2, <1>4, <1>6, WrittenWords

LEMMA UpdatedWords ==
  ASSUME LayoutInv, validData, ~readOnly, NEW k \in DOMAIN data,
         NEW value \in Seq(Nat), p_data' = Write(p_data, data[k].index, value)
  PROVE  p_data'[SIZE] = p_data[SIZE] /\ p_data'[ELEMENTS] = p_data[ELEMENTS]
<1> DEFINE at == data[k].index
<1>1. /\ Tiled(data, p_data, mem_used) /\ Ordered(data, mem_used)
      /\ mem_used \in Nat /\ data \in Seq(Elements)
      /\ p_size \in Nat /\ p_data \in Block(p_size) /\ Cells(p_data) = p_size
  BY CellsOfBlock DEF LayoutInv, LayoutOK, TypeOK, SourceData
<1>2. at \in Int /\ ~(at <= 1) /\ ~(at <= 2)
  <2>1. /\ StartOf(data[k]) \in Nat /\ data[k].index \in Nat
        /\ 3 <= StartOf(data[k]) /\ StartOf(data[k]) < data[k].index
    BY <1>1, Places
  <2> QED BY <2>1
<1>3. 1 \in 0 .. p_size - 1 /\ 2 \in 0 .. p_size - 1
  BY <1>1 DEF Tiled
<1> HIDE DEF at
<1>4. \A c \in 0 .. p_size - 1 :
        Write(p_data, at, value)[c] =
          IF at <= c /\ c < at + Len(value) THEN value[c - at + 1] ELSE p_data[c]
  BY <1>1, <1>2, WriteBlock, Zenon
<1>5. p_data' = Write(p_data, at, value)
  BY DEF at
<1> QED BY <1>2, <1>3, <1>4, <1>5

LEMMA ErasedWords ==
  ASSUME LayoutInv, validData, ~readOnly, NEW k \in DOMAIN data, Erase(k)
  PROVE  p_data'[SIZE] = mem_used' /\ p_data'[ELEMENTS] = el_size'
<1> DEFINE e == data[k]
           total == HeaderBytes(e) + e.size
           b == CloseGap(p_data, StartOf(e), total, mem_used)
<1>1. /\ Tiled(data, p_data, mem_used) /\ mem_used \in Nat
      /\ data \in Seq(Elements) /\ p_size \in Nat
      /\ p_data \in Block(p_size) /\ Cells(p_data) = p_size
  BY CellsOfBlock DEF LayoutInv, LayoutOK, TypeOK, SourceData
<1>2. e \in Elements
  BY <1>1, ElementOfSeq, LenProperties
<1>3. p_data' = WriteHeader(b, mem_used', el_size')
  BY DEF Erase
<1> HIDE DEF e
<1>4. total \in Nat /\ StartOf(e) \in Int
  BY <1>2, HeaderBytesNat DEF Elements, StartOf
<1> HIDE DEF total
<1>5. b \in Block(p_size) /\ 3 <= p_size
  BY <1>1, <1>4, CloseGapBlock DEF Tiled
<1> HIDE DEF b
<1> QED BY <1>1, <1>3, <1>5, WrittenWords

LEMMA AddValueSize ==
  ASSUME LayoutInv, SizeWord, pc # "parsing",
         NEW e, NEW value, NEW null, Addable(e, value), AddValue(e, value, null)
  PROVE  SizeWord'
<1>1. CASE Refused(e, null)
  BY <1>1 DEF Refused, Fail, SizeWord, SourceData, object, parser
<1>2. CASE ~Refused(e, null)
  <2>1. /\ ~readOnly /\ AddElementToBuffer(e, value)
        /\ UNCHANGED <<readOnly, validData, p_ex_data, parser>>
    BY <1>2 DEF AddValue, AddError, Refused
  <2>2. validData => p_data'[SIZE] = mem_used'
    BY <2>1, AddedWords
  <2> QED BY <2>1, <2>2 DEF SizeWord, SourceData, parser
<1> QED BY <1>1, <1>2

LEMMA UpdateSize ==
  ASSUME LayoutInv, SizeWord, NEW name, NEW type, NEW value \in Seq(Nat),
         Update(name, type, value)
  PROVE  SizeWord'
<1> DEFINE error == IF readOnly THEN "ReadOnly" ELSE LookupError(name, type)
<1>1. CASE error # "None"
  <2>1. UNCHANGED <<object, parser>>
    BY <1>1 DEF Update, Fail
  <2> QED BY <2>1 DEF SizeWord, SourceData, object, parser
<1>2. CASE error = "None"
  <2>1. /\ ~readOnly /\ Find(name) # 0
        /\ p_data' = Write(p_data, data[Find(name)].index, value)
        /\ UNCHANGED <<readOnly, validData, data, p_ex_data, mem_used, parser>>
    BY <1>2 DEF Update, LookupError
  <2>2. Find(name) \in DOMAIN data
    BY <2>1, FindIsThere DEF LayoutInv, TypeOK
  <2>3. validData => p_data'[SIZE] = p_data[SIZE]
    BY <2>1, <2>2, UpdatedWords
  <2> QED BY <2>1, <2>3 DEF SizeWord, SourceData, parser
<1> QED BY <1>1, <1>2

LEMMA DeleteSize ==
  ASSUME LayoutInv, SizeWord, NEW name, Delete(name)
  PROVE  SizeWord'
<1> DEFINE error == IF readOnly THEN "ReadOnly"
                    ELSE IF Find(name) = 0 THEN "NotFound" ELSE "None"
<1>1. CASE error # "None"
  <2>1. UNCHANGED <<object, parser>>
    BY <1>1 DEF Delete, Fail
  <2> QED BY <2>1 DEF SizeWord, SourceData, object, parser
<1>2. CASE error = "None"
  <2>1. /\ pc = "ready" /\ ~readOnly /\ Find(name) # 0 /\ Erase(Find(name))
        /\ UNCHANGED <<readOnly, validData, p_ex_data, p_size, parser>>
    BY <1>2 DEF Delete
  <2>2. Find(name) \in DOMAIN data
    BY <2>1, FindIsThere DEF LayoutInv, TypeOK
  <2>3. validData => p_data'[SIZE] = mem_used'
    BY <2>1, <2>2, ErasedWords
  <2> QED BY <2>1, <2>3 DEF SizeWord, SourceData, parser
<1> QED BY <1>1, <1>2

LEMMA CallSize ==
  ASSUME MaxCells < U32, LayoutInv, SizeWord, NEW name \in Names, Call(name)
  PROVE  SizeWord'
<1>1. name \in Nat
  BY CallerAssumption
<1>2. ASSUME NEW type \in Types, NEW value \in Values, AddScalar(name, type, value)
      PROVE  SizeWord'
  <2>1. type \in KnownTypes /\ value \in Seq(Nat)
    BY CallerAssumption
  <2>2. /\ pc = "ready" /\ SType[type] # 0 /\ Len(value) = SType[type]
        /\ AddValue(DType(type, name), value, FALSE)
    BY <1>2 DEF AddScalar
  <2>3. Addable(DType(type, name), value)
    BY <1>1, <2>1, <2>2, AddableScalar
  <2> QED BY <2>2, <2>3, AddValueSize
<1>3. ASSUME NEW type \in Types, NEW value \in Values, Update(name, type, value)
      PROVE  SizeWord'
  BY <1>3, UpdateSize, CallerAssumption
<1>4. ASSUME NEW type \in Types, NEW value \in Values, NEW null \in BOOLEAN,
             AddVariable(name, type, value, null)
      PROVE  SizeWord'
  <2> DEFINE e == [DType(type, name) EXCEPT !.size = AsU32(Len(value))]
  <2>1. type \in KnownTypes /\ value \in Seq(Nat)
    BY CallerAssumption
  <2>2. pc = "ready" /\ SType[type] = 0 /\ AddValue(e, value, null)
    BY <1>4 DEF AddVariable
  <2>3. Addable(e, value)
    BY <1>1, <2>1, <2>2, AddableVariable
  <2> HIDE DEF e
  <2> QED BY <2>2, <2>3, AddValueSize
<1>5. CASE AddNoItems(name) \/ \E type \in Types : Get(name, type)
  <2>1. UNCHANGED <<object, parser>>
    BY <1>5 DEF AddNoItems, Get, Fail
  <2> QED BY <2>1 DEF SizeWord, SourceData, object, parser
<1> QED BY <1>2, <1>3, <1>4, <1>5, DeleteSize DEF Call

LEMMA CloneSize ==
  ASSUME LayoutInv, SizeWord, CopyObject
  PROVE  SizeWord'
<1>1. /\ ~readOnly' /\ p_data' = Resize(SourceData, mem_used) /\ pc' = "ready"
      /\ UNCHANGED <<validData, data, mem_used>>
  BY DEF CopyObject, parser
<1>2. ASSUME validData, data # << >>
      PROVE  p_data'[SIZE] = mem_used
  <2>1. /\ data \in Seq(Elements) /\ IsBlock(SourceData) /\ mem_used \in Nat
        /\ Tiled(data, SourceData, mem_used) /\ Ordered(data, mem_used)
        /\ GoodVersion(SourceData)
    BY <1>2, SourceBlock DEF LayoutInv, LayoutOK, TypeOK
  <2>2. p_data'[1] = SourceData[1]
    <3>1. 1 \in 0 .. mem_used - 1
      BY <2>1 DEF Tiled
    <3> QED BY <1>1, <2>1, <3>1, CopyCarries
  <2> QED BY <1>2, <2>2 DEF SizeWord
<1> QED BY <1>1, <1>2 DEF SizeWord, SourceData

LEMMA SizeStep ==
  ASSUME MaxCells < U32, LayoutInv, SizeWord, [NextDamage]_vars
  PROVE  SizeWord'
<1>1. CASE UNCHANGED vars
  BY <1>1 DEF vars, object, parser, SizeWord, SourceData
<1>2. CASE Construct
  BY <1>2 DEF Construct, InitHeader, SizeWord, parser
<1>3. CASE Clear
  BY <1>3 DEF Clear, InitHeader, SizeWord, SourceData, object, parser
<1>4. CASE Clone
  BY <1>4, CloneSize DEF Clone
<1>5. CASE Send \/ Lose \/ Damage
  <2>1. UNCHANGED object /\ pc' # "parsing"
    BY <1>5 DEF Send, Lose, Damage, parser
  <2> QED BY <2>1 DEF SizeWord, SourceData, object
<1>6. CASE BeginWrap
  <2>1. /\ ~validData' /\ p_ex_data' = wire
        /\ mem_used' = IF HeaderTaken THEN wire[SIZE] ELSE 0
        /\ pc' = IF HeaderError = "None" THEN "parsing" ELSE "ready"
    BY <1>6 DEF BeginWrap
  <2>2. HeaderError = "None" => HeaderTaken
    <3> DEFINE short == Cells(wire) < HEADER_ELEMENTS
    <3>1. HeaderError = "None" => ~short /\ GoodVersion(wire)
      BY DEF HeaderError
    <3>2. Cells(wire) \in Nat
      BY DEF LayoutInv, TypeOK, IsBlock
    <3> QED BY <3>1, <3>2 DEF HeaderTaken
  <2> QED BY <2>1, <2>2 DEF SizeWord
<1>7. CASE Parse
  <2>1. CASE ParseElement \/ ParseReject
    <3>1. ~validData
      BY <2>1 DEF ParseElement, ParseReject, LayoutInv
    <3>2. CASE ParseElement
      BY <3>1, <3>2 DEF ParseElement, SizeWord
    <3>3. CASE ParseReject
      BY <3>3 DEF ParseReject, EndParse, SizeWord
    <3> QED BY <2>1, <3>2, <3>3
  <2>2. CASE ParseDone
    <3>1. readOnly /\ p_ex_data[SIZE] = mem_used
      BY <2>2 DEF ParseDone, LayoutInv, SizeWord
    <3> QED BY <2>2, <3>1 DEF ParseDone, EndParse, SizeWord, SourceData
  <2> QED BY <1>7, <2>1, <2>2 DEF Parse
<1>8. CASE \E name \in Names : Call(name)
  BY <1>8, CallSize
<1> QED BY <1>1, <1>2, <1>3, <1>4, <1>5, <1>6, <1>7, <1>8 DEF NextDamage, Next

-----------------------------------------------------------------------------
(* What is in flight. *)

LEMMA ForgetOK ==
  ASSUME sent = [ok |-> sent.ok, faults |-> sent.faults, entries |-> sent.entries],
         Forget
  PROVE  /\ ~sent'.ok
         /\ sent' = [ok |-> sent'.ok, faults |-> sent'.faults,
                     entries |-> sent'.entries]
<1>1. sent' = [ok |-> FALSE, faults |-> sent.faults, entries |-> << >>]
  BY DEF Forget
<1> QED BY <1>1

LEMMA SendFlight ==
  ASSUME RoundTripInv, Send
  PROVE  InFlight'
<1>1. /\ sent' = [ok |-> validData /\ data # << >>, faults |-> sent.faults,
                  entries |-> Contents]
      /\ pc' = "sent" /\ ret'.op = "Send"
      /\ wire' = Resize(SourceData, mem_used)
  BY DEF Send, Return, RoundTripInv, InFlight
<1>2. ASSUME sent'.ok
      PROVE  Carries(wire', data) /\ sent'.entries = Entries(data, wire')
  <2>1. validData /\ data # << >> /\ sent'.entries = Contents
    BY <1>1, <1>2
  <2>2. /\ data \in Seq(Elements) /\ IsBlock(SourceData) /\ mem_used \in Nat
        /\ Tiled(data, SourceData, mem_used) /\ Ordered(data, mem_used)
        /\ GoodVersion(SourceData)
    BY <2>1, SourceBlock DEF RoundTripInv, LayoutInv, LayoutOK, TypeOK
  <2>3. /\ Cells(wire') = mem_used
        /\ \A k \in 0 .. mem_used - 1 : wire'[k] = SourceData[k]
        /\ Tiled(data, wire', mem_used) /\ GoodVersion(wire')
        /\ Entries(data, wire') = Entries(data, SourceData)
    BY <1>1, <2>2, CopyCarries
  <2>4. wire'[SIZE] = mem_used
    <3>1. 1 \in 0 .. mem_used - 1
      BY <2>2 DEF Tiled
    <3>2. SourceData[SIZE] = mem_used
      BY <2>1 DEF RoundTripInv, SizeWord
    <3> QED BY <2>3, <3>1, <3>2
  <2> QED BY <2>1, <2>2, <2>3, <2>4, ContentsEntries DEF Carries
<1>3. sent' = [ok |-> sent'.ok, faults |-> sent'.faults, entries |-> sent'.entries]
  BY <1>1
<1> QED BY <1>1, <1>2, <1>3 DEF InFlight

(* The checks of the header let such a block through.                      *)
LEMMA HeaderAccepted ==
  ASSUME NEW T, Carries(wire, T), IsBlock(wire), wire # NULL
  PROVE  HeaderError = "None"
<1>1. Cells(wire) \in Nat /\ 3 <= Cells(wire)
  BY DEF Carries, Tiled, IsBlock
<1> QED BY <1>1 DEF HeaderError, Carries

LEMMA WrapFlight ==
  ASSUME RoundTripInv, BeginWrap
  PROVE  InFlight'
<1>1. /\ pc = IF wire = NULL THEN "ready" ELSE "sent"
      /\ data' = << >> /\ p_ex_data' = wire
      /\ pc' = IF HeaderError = "None" THEN "parsing" ELSE "ready"
      /\ IF HeaderError = "None" THEN UNCHANGED sent ELSE Forget
  BY DEF BeginWrap
<1>2. /\ sent = [ok |-> sent.ok, faults |-> sent.faults, entries |-> sent.entries]
      /\ IsBlock(wire)
  BY DEF RoundTripInv, InFlight, LayoutInv, TypeOK
<1>3. CASE HeaderError # "None"
  BY <1>1, <1>2, <1>3, ForgetOK DEF InFlight
<1>4. CASE HeaderError = "None"
  <2>1. ASSUME sent.ok
        PROVE  \E T : /\ Carries(wire, T) /\ sent.entries = Entries(T, wire)
                      /\ Prefix(<< >>, T)
    <3>1. pc = "sent"
      BY <1>1, <2>1 DEF RoundTripInv, InFlight
    <3>2. PICK T : Carries(wire, T) /\ sent.entries = Entries(T, wire)
      BY <2>1, <3>1 DEF RoundTripInv, InFlight
    <3>3. Prefix(<< >>, T)
      BY <3>2, LenProperties DEF Prefix, Carries
    <3> QED BY <3>2, <3>3
  <2>2. pc' = "parsing" /\ sent' = sent
    BY <1>1, <1>4
  <2> QED BY <1>1, <1>2, <2>1, <2>2 DEF InFlight
<1> QED BY <1>3, <1>4

LEMMA ElementFlight ==
  ASSUME MaxCells < U32, RoundTripInv, ParseElement
  PROVE  InFlight'
<1>1. /\ pc = "parsing" /\ curr_index < mem_used
      /\ data' = Append(data, ElementAt(curr_index))
      /\ UNCHANGED <<p_ex_data, pc, sent>>
  BY DEF ParseElement
<1>2. /\ sent = [ok |-> sent.ok, faults |-> sent.faults, entries |-> sent.entries]
      /\ LayoutInv /\ data \in Seq(Elements)
  BY DEF RoundTripInv, InFlight, LayoutInv, TypeOK
<1>3. ASSUME sent.ok
      PROVE  \E T : /\ Carries(p_ex_data, T) /\ sent.entries = Entries(T, p_ex_data)
                    /\ Prefix(data', T)
  <2>1. PICK T : /\ Carries(p_ex_data, T) /\ sent.entries = Entries(T, p_ex_data)
                 /\ Prefix(data, T)
    BY <1>1, <1>3 DEF RoundTripInv, InFlight
  <2>2. /\ Len(data) + 1 \in DOMAIN T
        /\ ElementAt(curr_index) = T[Len(data) + 1]
    BY <1>1, <1>2, <2>1, NextElement
  <2> DEFINE n == Len(data)
             e == ElementAt(curr_index)
  <2>3. /\ n \in Nat /\ Len(data') = n + 1
        /\ \A i \in 1 .. n : data'[i] = data[i]
        /\ data'[n + 1] = e
    <3>1. T \in Seq(Elements)
      BY <2>1 DEF Carries
    <3>2. e \in Elements
      BY <2>2, <3>1, ElementOfSeq, LenProperties
    <3> HIDE DEF e
    <3> QED BY <1>1, <1>2, <3>2, AppendProperties, LenProperties DEF e
  <2>4. n + 1 <= Len(T)
    BY <2>1, <2>2, LenProperties DEF Carries
  <2> HIDE DEF n, e
  <2>5. Prefix(data', T)
    <3>1. ASSUME NEW i \in 1 .. n + 1
          PROVE  data'[i] = T[i]
      BY <2>1, <2>2, <2>3 DEF Prefix, n, e
    <3> QED BY <2>3, <2>4, <3>1 DEF Prefix
  <2> QED BY <2>1, <2>5
<1> QED BY <1>1, <1>2, <1>3 DEF InFlight

LEMMA FlightStep ==
  ASSUME MaxCells < U32, RoundTripInv, [NextDamage]_vars
  PROVE  InFlight'
<1>1. /\ sent = [ok |-> sent.ok, faults |-> sent.faults, entries |-> sent.entries]
      /\ sent.ok => pc \in {"sent", "parsing"}
      /\ pc = "sent" => ret.op = "Send"
  BY DEF RoundTripInv, InFlight
<1>2. CASE UNCHANGED vars
  <2>1. UNCHANGED <<sent, pc, ret, wire, p_ex_data, data>>
    BY <1>2 DEF vars, object, parser
  <2> QED BY <2>1 DEF RoundTripInv, InFlight
<1>3. CASE Construct \/ Clear \/ Clone \/ \E name \in Names : Call(name)
  <2>1. pc = "ready" /\ UNCHANGED <<pc, sent>>
    <3>1. CASE Construct \/ Clear \/ Clone
      BY <3>1 DEF Construct, Clear, Clone, CopyObject, parser
    <3>2. ASSUME NEW name \in Names, Call(name)
          PROVE  pc = "ready" /\ UNCHANGED <<pc, sent>>
      <4>1. pc = "ready"
        BY <3>2 DEF Call, AddScalar, AddVariable, AddNoItems, Get, Update, Delete
      <4>2. ASSUME NEW type, NEW value, NEW null,
                   AddScalar(name, type, value) \/ AddVariable(name, type, value, null)
            PROVE  UNCHANGED <<pc, sent>>
        BY <4>2 DEF AddScalar, AddVariable, AddValue, Fail, parser
      <4>3. ASSUME NEW type, NEW value,
                   Update(name, type, value) \/ Get(name, type)
            PROVE  UNCHANGED <<pc, sent>>
        BY <4>3 DEF Update, Get, Fail, parser
      <4>4. CASE AddNoItems(name) \/ Delete(name)
        BY <4>4 DEF AddNoItems, Delete, Fail, parser
      <4> QED BY <3>2, <4>1, <4>2, <4>3, <4>4 DEF Call
    <3> QED BY <1>3, <3>1, <3>2
  <2> QED BY <1>1, <2>1 DEF InFlight
<1>4. CASE Lose \/ ParseReject \/ ParseDone
  <2>1. pc' = "ready" /\ Forget
    BY <1>4 DEF Lose, ParseReject, ParseDone, EndParse
  <2> QED BY <1>1, <2>1, ForgetOK DEF InFlight
<1>5. CASE Damage
  <2>1. /\ UNCHANGED <<pc, ret>>
        /\ sent' = [ok |-> FALSE, faults |-> sent.faults + 1, entries |-> << >>]
    BY <1>5 DEF Damage, parser
  <2> QED BY <1>1, <2>1 DEF InFlight
<1> QED BY <1>2, <1>3, <1>4, <1>5, SendFlight, WrapFlight, ElementFlight
        DEF NextDamage, Next, Parse

-----------------------------------------------------------------------------
(* When ParseData has reached the end of such a block, it has found all of *)
(* the table.                                                              *)
LEMMA AllFound ==
  ASSUME LayoutInv, pc = "parsing",
         NEW T, Carries(p_ex_data, T), Prefix(data, T), curr_index >= mem_used
  PROVE  data = T
<1> DEFINE n == Len(data)
<1>1. /\ curr_index \in Nat /\ mem_used \in Nat /\ data \in Seq(Elements)
      /\ IsBlock(p_ex_data) /\ Tiled(data, p_ex_data, curr_index)
      /\ mem_used = Cells(p_ex_data)
  BY DEF LayoutInv, LayoutOK, TypeOK
<1>2. /\ T \in Seq(Elements) /\ Tiled(T, p_ex_data, mem_used)
      /\ Ordered(T, mem_used)
  BY <1>1 DEF Carries
<1>3. /\ n \in Nat /\ Len(T) \in Nat /\ n <= Len(T)
      /\ DOMAIN T = 1 .. Len(T) /\ DOMAIN data = 1 .. n
      /\ \A i \in 1 .. n : data[i] = T[i]
  BY <1>1, <1>2, LenProperties DEF Prefix
<1>4. mem_used = Boundary(T, n + 1)
  <2>1. mem_used = Boundary(data, n + 1)
    BY <1>1 DEF Tiled
  <2>2. CASE n = 0
    BY <2>1, <2>2 DEF Boundary
  <2>3. CASE n # 0
    <3>1. n \in 1 .. n /\ n + 1 # 1 /\ n + 1 - 1 = n
      BY <1>3, <2>3
    <3> QED BY <1>3, <2>1, <3>1 DEF Boundary
  <2> QED BY <2>2, <2>3
<1>5. n + 1 \notin DOMAIN T
  <2>1. ASSUME n + 1 \in DOMAIN T
        PROVE  FALSE
    <3>1. /\ StartOf(T[n + 1]) \in Nat /\ T[n + 1].index \in Nat
          /\ EndOf(T[n + 1]) \in Nat
          /\ StartOf(T[n + 1]) < T[n + 1].index
          /\ T[n + 1].index <= EndOf(T[n + 1]) /\ EndOf(T[n + 1]) <= mem_used
      BY <1>1, <1>2, <2>1, Places
    <3>2. StartOf(T[n + 1]) = mem_used
      BY <1>2, <1>4, <2>1 DEF Tiled
    <3> QED BY <1>1, <3>1, <3>2
  <2> QED BY <2>1
<1>6. n = Len(T)
  <2>1. n \in Nat /\ Len(T) \in Nat /\ n <= Len(T) /\ n + 1 \notin 1 .. Len(T)
    BY <1>3, <1>5
  <2> HIDE DEF n
  <2> QED BY <2>1
<1> QED BY <1>1, <1>2, <1>3, <1>6, SeqEqual

(* Each step keeps the promise of RoundTrip. *)
LEMMA RoundTripStep ==
  ASSUME MaxCells < U32, RoundTripInv, [NextDamage]_vars, vars' # vars,
         sent.ok, ret'.op = "Wrap", pc' = "ready"
  PROVE  validData' /\ Contents' = sent.entries
<1>1. /\ LayoutInv /\ IsBlock(wire)
      /\ pc \in {"sent", "parsing"} /\ (pc = "sent" => ret.op = "Send")
  BY DEF RoundTripInv, InFlight, LayoutInv, TypeOK
<1>2. ~(\E name \in Names : Call(name))
  BY <1>1 DEF Call, AddScalar, AddVariable, AddNoItems, Get, Update, Delete
<1>3. ~(Construct \/ Clear \/ Clone \/ Send)
  BY <1>1 DEF Construct, Clear, Clone, CopyObject, Send
<1>4. ~(Lose \/ Damage)
  BY <1>1 DEF Lose, Damage
<1>5. ~BeginWrap
  <2>1. SUFFICES ASSUME BeginWrap
                 PROVE  FALSE
    OBVIOUS
  <2>2. wire # NULL /\ pc = "sent" /\ HeaderError # "None"
    BY <1>1, <2>1 DEF BeginWrap
  <2>3. PICK T : Carries(wire, T)
    BY <2>2 DEF RoundTripInv, InFlight
  <2> QED BY <1>1, <2>2, <2>3, HeaderAccepted
<1>6. Parse
  <2>1. Next \/ Damage
    BY DEF NextDamage
  <2> QED BY <1>2, <1>3, <1>4, <1>5, <2>1 DEF Next
<1>7. pc = "parsing" /\ ~ParseElement
  BY <1>6 DEF Parse, ParseElement, ParseReject, ParseDone
<1>8. PICK T : /\ Carries(p_ex_data, T) /\ sent.entries = Entries(T, p_ex_data)
               /\ Prefix(data, T)
  BY <1>7 DEF RoundTripInv, InFlight
<1>9. ~ParseReject
  BY <1>1, <1>7, <1>8, NextElement DEF ParseReject
<1>10. ParseDone
  BY <1>6, <1>7, <1>9 DEF Parse
<1>11. data = T
  BY <1>1, <1>7, <1>8, <1>10, AllFound DEF ParseDone
<1>12. validData' /\ Contents' = Entries(data, p_ex_data)
  <2>1. /\ validData' /\ readOnly
        /\ UNCHANGED <<readOnly, data, p_ex_data>>
    BY <1>1, <1>7, <1>10 DEF ParseDone, EndParse, LayoutInv
  <2> QED BY <2>1 DEF Contents, Entries, SourceData
<1> QED BY <1>8, <1>11, <1>12

-----------------------------------------------------------------------------
LEMMA RoundTripInit ==
  ASSUME MaxCells < U32, Init
  PROVE  RoundTripInv
<1>1. LayoutInv
  BY LayoutInit
<1>2. SizeWord /\ InFlight
  BY DEF Init, SizeWord, InFlight
<1> QED BY <1>1, <1>2 DEF RoundTripInv

LEMMA RoundTripInvStep ==
  ASSUME MaxCells < U32, RoundTripInv, [NextDamage]_vars
  PROVE  RoundTripInv'
<1>1. LayoutInv' /\ SizeWord'
  BY LayoutStep, SizeStep DEF RoundTripInv
<1> QED BY <1>1, FlightStep DEF RoundTripInv

(* What was sent is what is received, for every channel that loses and     *)
(* damages buffers: the constructor over a copy of GetData that was not    *)
(* damaged accepts it and finds the elements of its sender, whatever Adds, *)
(* Updates, Deletes and Clones made the message and whatever else the      *)
(* receiver was given before.                                              *)
THEOREM RoundTripCorrect ==
  ASSUME MaxCells < U32
  PROVE  (SpecDamage => RoundTrip) /\ (Spec => RoundTrip)
<1>1. Init => RoundTripInv
  BY RoundTripInit
<1>2. RoundTripInv /\ [NextDamage]_vars => RoundTripInv'
  BY RoundTripInvStep
<1>3. RoundTripInv /\ [NextDamage]_vars =>
        [sent.ok /\ ret'.op = "Wrap" /\ pc' = "ready" =>
           validData' /\ Contents' = sent.entries]_vars
  BY RoundTripStep
<1>4. [Next]_vars => [NextDamage]_vars
  BY DEF NextDamage
<1> QED BY <1>1, <1>2, <1>3, <1>4, PTL DEF SpecDamage, Spec, RoundTrip

=============================================================================
