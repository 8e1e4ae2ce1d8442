----------------------------- MODULE DcMsgProofs -----------------------------
(***************************************************************************)
(* Proofs about DcMsg: type correctness, the layout invariant and that Get *)
(* reads within the block, for all types, names and values, every wire and *)
(* any number of faults.                                                   *)
(*                                                                         *)
(* LayoutInv speaks of the offsets as numbers without width; the code      *)
(* keeps them in uint32_t.  MaxCells < U32, that no message comes near the *)
(* 4 GiB, is what makes the two agree and is assumed where it is needed.   *)
(***************************************************************************)
EXTENDS DcMsg, WireFormatProofs

USE DEF HEADER_ELEMENTS, DTYPE_SIZE_NAME, SIZEOF_U32, VERSION, SIZE, ELEMENTS

LEMMA FindIsThere ==
  ASSUME data \in Seq(Elements), NEW name
  PROVE  /\ Find(name) \in 0 .. Len(data)
         /\ Find(name) # 0 =>
              Find(name) \in DOMAIN data /\ data[Find(name)].name = name
<1> DEFINE I == {i \in 1 .. Len(data) : data[i].name = name}
<1>1. CASE I = {}
  <2>1. Find(name) = 0
    BY <1>1 DEF Find, SelectInSeq
  <2> QED BY <2>1, LenProperties
<1>2. CASE I # {}
  <2>1. Find(name) = Min(I)
    BY <1>2 DEF Find, SelectInSeq
  <2>2. Min(I) \in I
    <3>1. I \in SUBSET Nat
      OBVIOUS
    <3> HIDE DEF I
    <3> QED BY <1>2, <3>1, SmallestMember, Zenon
  <2> QED BY <2>1, <2>2, LenProperties
<1> QED BY <1>1, <1>2

(* Find finds what is there. *)
LEMMA FindHas ==
  ASSUME data \in Seq(Elements), NEW name
  PROVE  Find(name) # 0 <=> \E i \in DOMAIN data : data[i].name = name
<1> DEFINE I == {i \in 1 .. Len(data) : data[i].name = name}
<1>1. DOMAIN data = 1 .. Len(data)
  BY LenProperties
<1>2. ASSUME I # {}
      PROVE  Find(name) # 0
  <2>1. Find(name) = Min(I)
    BY <1>2 DEF Find, SelectInSeq
  <2>2. Min(I) \in I
    <3>1. I \in SUBSET Nat
      OBVIOUS
    <3> HIDE DEF I
    <3> QED BY <1>2, <3>1, SmallestMember, Zenon
  <2> QED BY <2>1, <2>2
<1> QED BY <1>1, <1>2, FindIsThere

-----------------------------------------------------------------------------
(* Elements. *)

LEMMA ParsedElement ==
  ASSUME TypeOK, NEW at \in Nat, Readable(at)
  PROVE  LET e == ElementAt(at)
         IN /\ e \in Elements
            /\ e.type = Peek(p_ex_data, at)
            /\ e.name = Peek(p_ex_data, AsU32(at + 1))
            /\ e.basic_type <=> SType[e.type] # 0
            /\ e.basic_type => e.size = SType[e.type]
            /\ ~e.basic_type => e.size = AsU32(Peek(p_ex_data, AsU32(at + 1 + DTYPE_SIZE_NAME)))
            /\ e.index = AsU32(at + HeaderBytes(e))
            /\ AsU32(EndOf(e)) \in Nat
<1> DEFINE e == DType(Peek(p_ex_data, at), Peek(p_ex_data, AsU32(at + 1)))
           d == ElementAt(at)
<1>1. Peek(p_ex_data, at) \in KnownTypes
  BY DEF Readable
<1>2. \A k : Peek(p_ex_data, k) \in Nat
  BY PeekCell DEF TypeOK
<1>3. e \in Elements /\ (e.basic_type <=> SType[e.type] # 0)
        /\ e.type = Peek(p_ex_data, at) /\ e.name = Peek(p_ex_data, AsU32(at + 1))
        /\ e.size = SType[e.type]
  BY <1>1, <1>2, DTypeElement DEF DType
<1>4. AsU32(Peek(p_ex_data, AsU32(at + 1 + DTYPE_SIZE_NAME))) \in Nat
  BY <1>2, AsU32Fits
<1>5. AsU32(at + HeaderBytes(e)) \in Nat
  BY HeaderBytesNat, AsU32Fits
<1>6. d = [e EXCEPT !.size = IF e.basic_type THEN e.size
                             ELSE AsU32(Peek(p_ex_data, AsU32(at + 1 + DTYPE_SIZE_NAME))),
                    !.index = AsU32(at + HeaderBytes(e))]
  BY DEF ElementAt
<1> HIDE DEF e, d
<1>7. /\ d \in Elements
      /\ d.type = e.type /\ d.name = e.name /\ d.basic_type = e.basic_type
      /\ d.size = IF e.basic_type THEN e.size
                  ELSE AsU32(Peek(p_ex_data, AsU32(at + 1 + DTYPE_SIZE_NAME)))
      /\ d.index = AsU32(at + HeaderBytes(e))
  BY <1>3, <1>4, <1>5, <1>6 DEF Elements
<1>8. HeaderBytes(d) = HeaderBytes(e)
  BY <1>7 DEF HeaderBytes
<1>9. AsU32(EndOf(d)) \in Nat
  BY <1>7, AsU32Fits DEF EndOf, Elements
<1> QED BY <1>3, <1>7, <1>8, <1>9 DEF d

(* The table a Delete leaves. *)
LEMMA ReindexedTable ==
  ASSUME data \in Seq(Elements), NEW k \in DOMAIN data, NEW total \in Nat
  PROVE  LET moved(i) == IF data[i].index > data[k].index
                         THEN [data[i] EXCEPT !.index = AsU32(@ - total)]
                         ELSE data[i]
             table == Reindexed(k, total)
         IN /\ table \in Seq(Elements)
            /\ Len(table) = Len(data) - 1
            /\ \A i \in 1 .. Len(data) - 1 :
                 table[i] = IF i < k THEN moved(i) ELSE moved(i + 1)
<1> DEFINE moved(i) == IF data[i].index > data[k].index
                       THEN [data[i] EXCEPT !.index = AsU32(@ - total)]
                       ELSE data[i]
           n == Len(data)
           all == [i \in DOMAIN data |-> moved(i)]
<1>1. n \in Nat /\ DOMAIN data = 1 .. n /\ k \in 1 .. n
        /\ \A i \in 1 .. n : data[i] \in Elements
  BY LenProperties, ElementOfSeq
<1>2. \A i \in 1 .. n : moved(i) \in Elements
  <2> TAKE i \in 1 .. n
  <2>1. data[i] \in Elements /\ data[i].index - total \in Int
    BY <1>1 DEF Elements
  <2>2. AsU32(data[i].index - total) \in Nat
    BY <2>1, AsU32Fits
  <2>3. [data[i] EXCEPT !.index = AsU32(data[i].index - total)] \in Elements
    BY <2>1, <2>2, IndexedElement
  <2> QED BY <2>1, <2>3
<1>3. all \in [1 .. n -> Elements] /\ \A i \in 1 .. n : all[i] = moved(i)
  BY <1>1, <1>2
<1>4. Reindexed(k, total) = SubSeq(all, 1, k - 1) \o SubSeq(all, k + 1, Len(all))
  BY DEF Reindexed, RemoveAt
<1> HIDE DEF all, moved
<1>5. all \in Seq(Elements) /\ Len(all) = n
  BY <1>1, <1>3, SeqDef
<1> DEFINE left == SubSeq(all, 1, k - 1)
           right == SubSeq(all, k + 1, n)
<1>6. left \in Seq(Elements) /\ Len(left) = k - 1
        /\ \A i \in 1 .. k - 1 : left[i] = all[i]
  BY <1>1, <1>3, SubSeqProperties
<1>7. right \in Seq(Elements) /\ Len(right) = n - k
        /\ \A i \in 1 .. n - k : right[i] = all[k + i]
  BY <1>1, <1>3, SubSeqProperties, SMTT(30)
<1> HIDE DEF left, right
<1>8. /\ left \o right \in Seq(Elements)
      /\ Len(left \o right) = Len(left) + Len(right)
      /\ \A i \in 1 .. Len(left) + Len(right) :
           (left \o right)[i] =
             IF i <= Len(left) THEN left[i] ELSE right[i - Len(left)]
  BY <1>6, <1>7, ConcatProperties, Zenon
<1>9. Reindexed(k, total) = left \o right
  BY <1>4, <1>5 DEF left, right
<1>10. Len(left \o right) = n - 1
  BY <1>1, <1>6, <1>7, <1>8
<1>11. ASSUME NEW i \in 1 .. n - 1
       PROVE  (left \o right)[i] = IF i < k THEN moved(i) ELSE moved(i + 1)
  <2>1. CASE i < k
    <3>1. (left \o right)[i] = left[i] /\ left[i] = all[i]
      BY <1>1, <1>6, <1>7, <1>8, <2>1
    <3> QED BY <1>1, <1>3, <2>1, <3>1
  <2>2. CASE i >= k
    <3> DEFINE j == i - (k - 1)
    <3>1. j \in 1 .. n - k /\ k + j = i + 1 /\ i + 1 \in 1 .. n
      BY <1>1, <2>2
    <3>2. (left \o right)[i] = right[j]
      BY <1>1, <1>6, <1>7, <1>8, <2>2, SMTT(30)
    <3>3. right[j] = all[i + 1]
      BY <1>7, <3>1
    <3> QED BY <1>1, <1>3, <2>2, <3>1, <3>2, <3>3
  <2>3. i < k \/ i >= k
    BY <1>1
  <2> QED BY <2>1, <2>2, <2>3, Zenon
<1> QED BY <1>8, <1>9, <1>10, <1>11 DEF moved

-----------------------------------------------------------------------------
(* Type correctness. *)

LEMMA InitType ==
  ASSUME Init
  PROVE  TypeOK
<1>1. EmptyBlock \in Block(p_size) /\ p_size \in Nat
  BY EmptyBlockType DEF Init
<1>2. data \in Seq(Elements)
  BY DEF Init
<1> QED BY <1>1, <1>2, NullBlock DEF Init, TypeOK, Errors, Calls

LEMMA InitHeaderType ==
  ASSUME InitHeader
  PROVE  /\ validData' \in BOOLEAN /\ data' \in Seq(Elements)
         /\ p_size' \in Nat /\ mem_used' \in Nat /\ el_size' \in Nat
         /\ p_data' \in Block(p_size')
BY EmptyBlockType DEF InitHeader

LEMMA FailType ==
  ASSUME TypeOK, NEW op \in Calls, NEW name, NEW type, NEW error \in Errors,
         Fail(op, name, type, error)
  PROVE  TypeOK'
BY DEF TypeOK, Fail, Return, object, parser, IsBlock, Cells, Block

LEMMA ConstructType ==
  ASSUME TypeOK, Construct
  PROVE  TypeOK'
<1>1. IsBlock(p_ex_data')
  BY NullBlock DEF Construct
<1> QED BY <1>1, InitHeaderType
        DEF Construct, Return, parser, TypeOK, Errors, Calls, IsBlock, Cells, Block

LEMMA ClearType ==
  ASSUME TypeOK, Clear
  PROVE  TypeOK'
<1>1. CASE readOnly
  BY <1>1 DEF Clear, Return, object, parser, TypeOK, Calls, IsBlock, Cells, Block
<1>2. CASE ~readOnly
  BY <1>2, InitHeaderType
  DEF Clear, Return, parser, TypeOK, Calls, IsBlock, Cells, Block
<1> QED BY <1>1, <1>2

LEMMA SourceBlock ==
  ASSUME TypeOK
  PROVE  IsBlock(SourceData)
<1>1. IsBlock(p_data)
  BY CellsOfBlock DEF TypeOK
<1> QED BY <1>1 DEF SourceData, TypeOK

LEMMA CloneType ==
  ASSUME TypeOK, CopyObject, NEW error \in Errors,
         Return("Clone", NoName, NoType, TRUE, error, << >>)
  PROVE  TypeOK'
<1>1. p_data' \in Block(p_size') /\ p_size' \in Nat
  BY SourceBlock, ResizeBlock DEF CopyObject, TypeOK
<1>2. IsBlock(p_ex_data')
  BY NullBlock DEF CopyObject
<1> QED BY <1>1, <1>2
        DEF CopyObject, Return, parser, TypeOK, Errors, Calls, IsBlock, Cells, Block

LEMMA BeginWrapType ==
  ASSUME TypeOK, BeginWrap
  PROVE  TypeOK'
<1>1. data' \in Seq(Elements)
  BY DEF BeginWrap
<1>2. p_data' \in Block(p_size') /\ p_size' \in Nat
  BY NullBlock DEF BeginWrap
<1>3. IsBlock(p_ex_data') /\ IsBlock(wire')
  BY NullBlock DEF BeginWrap, TypeOK
<1>4. mem_used' \in Nat /\ el_size' \in Nat
  <2>1. HeaderTaken => wire[SIZE] \in Nat /\ wire[ELEMENTS] \in Nat
    <3> SUFFICES ASSUME HeaderTaken
                 PROVE  wire[SIZE] \in Nat /\ wire[ELEMENTS] \in Nat
      OBVIOUS
    <3>1. Cells(wire) \in Nat /\ Cells(wire) >= 3 /\ IsBlock(wire)
      BY DEF HeaderTaken, TypeOK, IsBlock
    <3>2. 1 \in 0 .. Cells(wire) - 1 /\ 2 \in 0 .. Cells(wire) - 1
      BY <3>1
    <3>3. wire \in [0 .. Cells(wire) - 1 -> Nat]
      BY <3>1 DEF IsBlock, Block
    <3> QED BY <3>2, <3>3, Zenon
  <2> QED BY <2>1 DEF BeginWrap
<1>5. HeaderError \in Errors
  BY DEF HeaderError, Errors
<1>6. pc' \in {"ready", "parsing"} /\ curr_index' \in Nat
  BY DEF BeginWrap
<1> QED BY <1>1, <1>2, <1>3, <1>4, <1>5, <1>6 DEF BeginWrap, Return, TypeOK, Calls

LEMMA ParseType ==
  ASSUME TypeOK, Parse
  PROVE  TypeOK'
<1>1. CASE ParseElement
  <2>1. ElementAt(curr_index) \in Elements
          /\ AsU32(EndOf(ElementAt(curr_index))) \in Nat
    BY <1>1, ParsedElement DEF ParseElement, TypeOK
  <2>2. data' \in Seq(Elements)
    BY <1>1, <2>1, AppendProperties DEF ParseElement, TypeOK
  <2> QED BY <1>1, <2>1, <2>2 DEF ParseElement, TypeOK, IsBlock, Cells, Block
<1>2. ASSUME NEW ok \in BOOLEAN, NEW error \in Errors, EndParse(ok, error)
      PROVE  TypeOK'
  BY <1>2 DEF EndParse, Return, TypeOK, Calls, IsBlock, Cells, Block
<1>3. CASE ParseReject
  BY <1>2, <1>3 DEF ParseReject, Errors
<1>4. CASE ParseDone
  BY <1>2, <1>4 DEF ParseDone, Errors
<1> QED BY <1>1, <1>3, <1>4 DEF Parse

LEMMA AddErrorType ==
  ASSUME NEW name, NEW null
  PROVE  AddError(name, null) \in Errors
BY DEF AddError, Errors

LEMMA LookupErrorType ==
  ASSUME NEW name, NEW type
  PROVE  LookupError(name, type) \in Errors
BY DEF LookupError, Errors

LEMMA AddElementType ==
  ASSUME TypeOK, NEW e \in Elements, NEW value \in Seq(Nat), e.size <= Len(value),
         AddElementToBuffer(e, value)
  PROVE  /\ p_size' \in Nat /\ mem_used' \in Nat /\ el_size' \in Nat
         /\ p_data' \in Block(p_size')
<1> DEFINE cells  == Encode(e, value)
           size   == p_size + Reserve(p_size, mem_used, Len(cells))
           stored == Write(Resize(p_data, size), mem_used, cells)
<1>1. cells \in Seq(Nat) /\ Len(cells) \in Nat
  BY EncodeCells, LenProperties
<1>2. p_size' = size /\ mem_used' = mem_used + Len(cells)
        /\ el_size' = AsU64(el_size + 1)
        /\ p_data' = WriteHeader(stored, mem_used', el_size')
  BY DEF AddElementToBuffer
<1> HIDE DEF cells
<1>3. size \in Nat
  <2>1. p_size \in Nat /\ mem_used \in Nat
    BY DEF TypeOK
  <2>2. Reserve(p_size, mem_used, Len(cells)) \in Nat
    BY <1>1, <2>1, ReserveEnough
  <2> QED BY <2>1, <2>2
<1> HIDE DEF size
<1>4. Resize(p_data, size) \in Block(size)
  BY <1>3, CellsOfBlock, ResizeBlock DEF TypeOK
<1>5. stored \in Block(size)
  BY <1>1, <1>3, <1>4, WriteBlock DEF TypeOK
<1> HIDE DEF stored
<1>6. mem_used' \in Nat /\ el_size' \in Nat
  BY <1>1, <1>2, AsU64Fits DEF TypeOK
<1> QED BY <1>2, <1>3, <1>5, <1>6, HeaderBlock

(* AddValue gives up before it changes anything.                           *)
Refused(e, null) ==
  Fail("Add", e.name, IF null THEN NoType ELSE e.type, AddError(e.name, null))

LEMMA AddValueType ==
  ASSUME TypeOK, NEW e \in Elements, NEW value \in Seq(Nat), e.size <= Len(value),
         NEW null, AddValue(e, value, null)
  PROVE  TypeOK'
<1>1. CASE Refused(e, null)
  BY <1>1, AddErrorType, FailType DEF Refused, Calls
<1>2. CASE ~Refused(e, null)
  <2> DEFINE d == [e EXCEPT !.index = AsU32(mem_used + HeaderBytes(e))]
  <2>1. /\ AddElementToBuffer(e, value)
        /\ data' = Append(data, d)
        /\ Return("Add", e.name, e.type, TRUE, "None", value)
        /\ UNCHANGED <<readOnly, validData, p_ex_data, parser, wire, sent>>
    BY <1>2 DEF AddValue, Refused
  <2>2. mem_used + HeaderBytes(e) \in Int
    BY HeaderBytesNat DEF TypeOK
  <2>3. d \in Elements
    BY <2>2, AsU32Fits, IndexedElement
  <2>4. data' \in Seq(Elements)
    BY <2>1, <2>3, AppendProperties DEF TypeOK
  <2>5. /\ p_size' \in Nat /\ mem_used' \in Nat /\ el_size' \in Nat
        /\ p_data' \in Block(p_size')
    BY <2>1, AddElementType
  <2> QED BY <2>1, <2>4, <2>5
          DEF Return, parser, TypeOK, Errors, Calls, IsBlock, Cells, Block
<1> QED BY <1>1, <1>2

LEMMA UpdateType ==
  ASSUME TypeOK, NEW name, NEW type, NEW value \in Seq(Nat), Update(name, type, value)
  PROVE  TypeOK'
<1> DEFINE error == IF readOnly THEN "ReadOnly" ELSE LookupError(name, type)
<1>1. error \in Errors
  BY LookupErrorType DEF Errors
<1>2. CASE error # "None"
  BY <1>1, <1>2, FailType DEF Update, Calls
<1>3. CASE error = "None"
  <2>1. Find(name) \in DOMAIN data
    <3>1. Find(name) # 0
      BY <1>3 DEF LookupError
    <3> QED BY <3>1, FindIsThere DEF TypeOK
  <2>2. data[Find(name)].index \in Int
    <3>1. data[Find(name)] \in Elements
      BY <2>1, ElementOfSeq, LenProperties DEF TypeOK
    <3> QED BY <3>1 DEF Elements
  <2>3. /\ p_data' = Write(p_data, data[Find(name)].index, value)
        /\ Return("Update", name, type, TRUE, "None", value)
        /\ UNCHANGED <<readOnly, validData, data, p_ex_data, p_size, mem_used,
                       el_size, parser, wire, sent>>
    BY <1>3 DEF Update
  <2>4. p_data' \in Block(p_size)
    BY <2>2, <2>3, WriteBlock DEF TypeOK
  <2> QED BY <2>3, <2>4
          DEF Return, parser, TypeOK, Errors, Calls, IsBlock, Cells, Block
<1> QED BY <1>2, <1>3

LEMMA GetType ==
  ASSUME TypeOK, NEW name, NEW type, Get(name, type)
  PROVE  TypeOK'
<1>1. CASE LookupError(name, type) # "None"
  BY <1>1, LookupErrorType, FailType DEF Get, Calls
<1>2. CASE LookupError(name, type) = "None"
  <2>1. /\ Return("Get", name, type, TRUE, "None",
                ValueOf(SourceData, data[Find(name)]))
        /\ UNCHANGED <<object, parser, wire, sent>>
    BY <1>2 DEF Get
  <2> QED BY <2>1 DEF Return, object, parser, TypeOK, Errors, Calls, IsBlock, Cells,
                      Block
<1> QED BY <1>1, <1>2

LEMMA DeleteType ==
  ASSUME TypeOK, NEW name, Delete(name)
  PROVE  TypeOK'
<1> DEFINE error == IF readOnly THEN "ReadOnly"
                    ELSE IF Find(name) = 0 THEN "NotFound" ELSE "None"
           k == Find(name)
           e == data[k]
           total == HeaderBytes(e) + e.size
<1>1. error \in Errors
  BY DEF Errors
<1>2. CASE error # "None"
  BY <1>1, <1>2, FailType DEF Delete, Calls
<1>3. CASE error = "None"
  <2>1. k \in DOMAIN data
    BY <1>3, FindIsThere DEF TypeOK
  <2>2. e \in Elements
    BY <2>1, ElementOfSeq, LenProperties DEF TypeOK
  <2>3. total \in Nat /\ StartOf(e) \in Int
    BY <2>2, HeaderBytesNat DEF Elements, StartOf
  <2>4. /\ mem_used' = AsU64(mem_used - total)
        /\ el_size' = AsU64(el_size - 1)
        /\ data' = Reindexed(k, total)
        /\ p_data' = WriteHeader(CloseGap(p_data, StartOf(e), total, mem_used),
                                 mem_used', el_size')
        /\ Return("Delete", name, NoType, TRUE, "None", << >>)
        /\ UNCHANGED <<readOnly, validData, p_ex_data, p_size, parser, wire, sent>>
    BY <1>3 DEF Delete, Erase
  <2>5. data' \in Seq(Elements)
    BY <2>1, <2>3, <2>4, ReindexedTable DEF TypeOK
  <2>6. mem_used' \in Nat /\ el_size' \in Nat
    BY <2>3, <2>4, AsU64Fits DEF TypeOK
  <2>7. p_data' \in Block(p_size)
    BY <2>3, <2>4, <2>6, CloseGapBlock, HeaderBlock DEF TypeOK
  <2> QED BY <2>4, <2>5, <2>6, <2>7
          DEF Return, parser, TypeOK, Errors, Calls, IsBlock, Cells, Block
<1> QED BY <1>2, <1>3

LEMMA ChannelType ==
  ASSUME TypeOK, Send \/ Lose \/ Damage
  PROVE  TypeOK'
<1>1. CASE Send
  <2>1. wire' \in Block(mem_used) /\ mem_used \in Nat
    BY <1>1, SourceBlock, ResizeBlock DEF Send, TypeOK
  <2>2. IsBlock(wire')
    BY <2>1, CellsOfBlock
  <2> QED BY <1>1, <2>2
          DEF Send, Return, object, TypeOK, Calls, IsBlock, Cells, Block
<1>2. CASE Lose
  BY <1>2, NullBlock DEF Lose, object, TypeOK, IsBlock, Cells, Block
<1>3. CASE Damage
  <2>1. IsBlock(wire')
    <3>1. CASE \E k \in DOMAIN wire, c \in DamageCells : wire' = [wire EXCEPT ![k] = c]
      BY <3>1, CallerAssumption DEF TypeOK, IsBlock, Cells, Block
    <3>2. CASE \E n \in DOMAIN wire \ {0} : wire' = Resize(wire, n)
      <4>1. PICK n \in DOMAIN wire : wire' = Resize(wire, n)
        BY <3>2
      <4>2. n \in Nat
        BY DEF TypeOK, IsBlock, Block
      <4> QED BY <4>1, <4>2, ResizeBlock, CellsOfBlock DEF TypeOK
    <3> QED BY <1>3, <3>1, <3>2 DEF Damage
  <2> QED BY <1>3, <2>1 DEF Damage, object, parser, TypeOK, IsBlock, Cells, Block
<1> QED BY <1>1, <1>2, <1>3

LEMMA CallType ==
  ASSUME TypeOK, NEW name \in Names, Call(name)
  PROVE  TypeOK'
<1>1. name \in Nat
  BY CallerAssumption
<1>2. ASSUME NEW type \in Types, NEW value \in Values,
             AddScalar(name, type, value) \/ Update(name, type, value)
               \/ \E null \in BOOLEAN : AddVariable(name, type, value, null)
      PROVE  TypeOK'
  <2>1. type \in KnownTypes /\ value \in Seq(Nat)
    BY CallerAssumption
  <2>2. CASE AddScalar(name, type, value)
    BY <1>1, <2>1, <2>2, ScalarElement, AddValueType DEF AddScalar
  <2>3. CASE Update(name, type, value)
    BY <2>1, <2>3, UpdateType
  <2>4. CASE \E null \in BOOLEAN : AddVariable(name, type, value, null)
    BY <1>1, <2>1, <2>4, VariableElement, AddValueType DEF AddVariable
  <2> QED BY <1>2, <2>2, <2>3, <2>4
<1>3. CASE AddNoItems(name)
  BY <1>3, FailType DEF AddNoItems, Errors, Calls
<1> QED BY <1>2, <1>3, GetType, DeleteType DEF Call

LEMMA StepType ==
  ASSUME TypeOK, [NextDamage]_vars
  PROVE  TypeOK'
<1>1. CASE UNCHANGED vars
  BY <1>1 DEF vars, object, parser, TypeOK, IsBlock, Cells, Block
<1>2. CASE Clone
  <2>1. "None" \in Errors
    BY DEF Errors
  <2> QED BY <1>2, <2>1, CloneType DEF Clone
<1>3. CASE NextDamage /\ ~Clone
  BY <1>3, ConstructType, ClearType, BeginWrapType, ParseType, CallType,
     ChannelType DEF NextDamage, Next
<1> QED BY <1>1, <1>2, <1>3

(* The object's members, its block, the buffers it is made over and the    *)
(* local state of its constructor keep their types, whatever is called and *)
(* whatever the channel does.                                              *)
THEOREM TypeCorrect == SpecDamage => []TypeOK
<1>1. TypeOK /\ [NextDamage]_vars => TypeOK'
  BY StepType
<1> QED BY InitType, <1>1, PTL DEF SpecDamage

-----------------------------------------------------------------------------
(* The layout: facts about tables and blocks. *)

LEMMA ElementBounds ==
  ASSUME NEW e \in Elements
  PROVE  /\ e.index \in Nat /\ e.size \in Nat
         /\ HeaderBytes(e) = IF e.basic_type THEN 2 ELSE 3
         /\ StartOf(e) \in Int /\ e.index = StartOf(e) + HeaderBytes(e)
         /\ EndOf(e) \in Nat /\ EndOf(e) = e.index + e.size
BY DEF Elements, HeaderBytes, StartOf, EndOf

(* A copy of an element is described by a copy of its header cells. *)
LEMMA CopyDescribed ==
  ASSUME NEW b, NEW c, NEW e \in Elements, NEW d \in Elements,
         d.type = e.type, d.name = e.name, d.size = e.size,
         d.basic_type = e.basic_type,
         Describes(b, e),
         \A k \in 0 .. 2 : k < HeaderBytes(e) =>
           Peek(c, StartOf(d) + k) = Peek(b, StartOf(e) + k)
  PROVE  Describes(c, d)
<1>1. StartOf(e) \in Int /\ StartOf(d) \in Int
        /\ HeaderBytes(e) = IF e.basic_type THEN 2 ELSE 3
  BY ElementBounds
<1>2. Peek(c, StartOf(d)) = Peek(b, StartOf(e))
  <2>1. Peek(c, StartOf(d) + 0) = Peek(b, StartOf(e) + 0)
    BY <1>1
  <2>2. StartOf(d) + 0 = StartOf(d) /\ StartOf(e) + 0 = StartOf(e)
    BY <1>1
  <2> QED BY <2>1, <2>2
<1>3. Peek(c, StartOf(d) + 1) = Peek(b, StartOf(e) + 1)
  BY <1>1
<1>4. ~e.basic_type => Peek(c, StartOf(d) + 2) = Peek(b, StartOf(e) + 2)
  BY <1>1
<1> QED BY <1>2, <1>3, <1>4 DEF Describes

(* A block that has the header cells of all elements carries the table. *)
LEMMA CopyTiled ==
  ASSUME NEW table \in Seq(Elements), NEW b, NEW c, NEW limit,
         Tiled(table, b, limit), limit \in HEADER_ELEMENTS .. Cells(c),
         \A i \in DOMAIN table : \A k \in Int :
           StartOf(table[i]) <= k /\ k < table[i].index => Peek(c, k) = Peek(b, k)
  PROVE  Tiled(table, c, limit)
<1>1. ASSUME NEW i \in DOMAIN table
      PROVE  Describes(c, table[i])
  <2>1. table[i] \in Elements
    BY ElementOfSeq, LenProperties
  <2>2. Describes(b, table[i])
    BY DEF Tiled
  <2>3. ASSUME NEW k \in 0 .. 2, k < HeaderBytes(table[i])
        PROVE  Peek(c, StartOf(table[i]) + k) = Peek(b, StartOf(table[i]) + k)
    <3>1. /\ StartOf(table[i]) + k \in Int
          /\ StartOf(table[i]) <= StartOf(table[i]) + k
          /\ StartOf(table[i]) + k < table[i].index
      <4>1. /\ StartOf(table[i]) \in Int
            /\ table[i].index = StartOf(table[i]) + HeaderBytes(table[i])
            /\ HeaderBytes(table[i]) \in {2, 3}
        BY <2>1, ElementBounds, HeaderBytesNat
      <4> QED BY <2>3, <4>1
    <3> QED BY <3>1
  <2> QED BY <2>1, <2>2, <2>3, CopyDescribed
<1> QED BY <1>1 DEF Tiled

LEMMA EmptyTiled ==
  ASSUME NEW block, HEADER_ELEMENTS \in HEADER_ELEMENTS .. Cells(block)
  PROVE  /\ Tiled(<< >>, block, HEADER_ELEMENTS)
         /\ Ordered(<< >>, HEADER_ELEMENTS)
BY DEF Tiled, Ordered, Boundary

(* An element described behind the last one of a table joins it. *)
LEMMA AppendTiled ==
  ASSUME NEW table \in Seq(Elements), NEW block, NEW limit, NEW e \in Elements,
         Cells(block) \in Nat,
         Tiled(table, block, limit), Ordered(table, limit),
         StartOf(e) = limit, EndOf(e) <= Cells(block), Describes(block, e)
  PROVE  /\ Tiled(Append(table, e), block, EndOf(e))
         /\ Ordered(Append(table, e), EndOf(e))
<1> DEFINE n == Len(table)
           long == Append(table, e)
<1>1. n \in Nat /\ DOMAIN table = 1 .. n
  BY LenProperties
<1>2. /\ long \in Seq(Elements) /\ Len(long) = n + 1
      /\ \A i \in 1 .. n : long[i] = table[i]
      /\ long[n + 1] = e
  BY AppendProperties
<1>3. DOMAIN long = 1 .. n + 1
  BY <1>2, LenProperties
<1>4. \A i \in 1 .. n : table[i] \in Elements
  BY ElementOfSeq
<1> HIDE DEF n, long
<1>5. limit \in Nat /\ limit >= HEADER_ELEMENTS /\ limit = Boundary(table, n + 1)
  BY DEF Tiled, n
<1>6. /\ e.index \in Nat /\ EndOf(e) \in Nat /\ limit < EndOf(e)
  BY <1>5, ElementBounds, SMTT(30)
<1>7. Boundary(long, n + 2) = EndOf(e)
  BY <1>1, <1>2 DEF Boundary
<1>8. \A i \in 1 .. n + 1 : Boundary(long, i) = Boundary(table, i)
  BY <1>1, <1>2 DEF Boundary
<1>9. \A i \in 1 .. n + 1 :
        StartOf(long[i]) = Boundary(long, i) /\ Describes(block, long[i])
  <2>1. \A i \in 1 .. n :
          StartOf(table[i]) = Boundary(table, i) /\ Describes(block, table[i])
    BY <1>1 DEF Tiled
  <2> TAKE i \in 1 .. n + 1
  <2>2. CASE i \in 1 .. n
    BY <1>2, <1>8, <2>1, <2>2
  <2>3. CASE i = n + 1
    BY <1>1, <1>2, <1>5, <1>8, <2>3
  <2> QED BY <1>1, <2>2, <2>3
<1>10. Tiled(long, block, EndOf(e))
  <2>1. EndOf(e) = Boundary(long, Len(long) + 1)
    BY <1>1, <1>2, <1>7
  <2>2. EndOf(e) \in HEADER_ELEMENTS .. Cells(block)
    BY <1>5, <1>6
  <2> QED BY <1>3, <1>9, <2>1, <2>2 DEF Tiled
<1>11. Ordered(long, EndOf(e))
  <2>1. \A i \in 1 .. n :
          /\ HEADER_ELEMENTS <= StartOf(table[i])
          /\ EndOf(table[i]) <= limit
          /\ \A j \in 1 .. n : i < j => EndOf(table[i]) <= StartOf(table[j])
    BY <1>1 DEF Ordered
  <2>2. \A i \in 1 .. n : EndOf(table[i]) \in Nat
    BY <1>4, ElementBounds
  <2>3. ASSUME NEW i \in 1 .. n + 1
        PROVE  /\ HEADER_ELEMENTS <= StartOf(long[i])
               /\ EndOf(long[i]) <= EndOf(e)
               /\ \A j \in 1 .. n + 1 : i < j => EndOf(long[i]) <= StartOf(long[j])
    <3>1. CASE i = n + 1
      BY <1>1, <1>2, <1>5, <1>6, <3>1
    <3>2. CASE i \in 1 .. n
      <4>1. HEADER_ELEMENTS <= StartOf(long[i])
        BY <1>2, <2>1, <3>2
      <4>2. EndOf(long[i]) <= EndOf(e)
        BY <1>2, <1>5, <1>6, <2>1, <2>2, <3>2
      <4>3. ASSUME NEW j \in 1 .. n + 1, i < j
            PROVE  EndOf(long[i]) <= StartOf(long[j])
        <5>1. CASE j \in 1 .. n
          BY <1>2, <2>1, <3>2, <4>3, <5>1
        <5>2. CASE j = n + 1
          BY <1>2, <2>1, <3>2, <5>2
        <5> QED BY <1>1, <5>1, <5>2
      <4> QED BY <4>1, <4>2, <4>3
    <3> QED BY <1>1, <3>1, <3>2
  <2> QED BY <1>3, <2>3 DEF Ordered
<1> QED BY <1>10, <1>11 DEF long

-----------------------------------------------------------------------------
(* The layout: the invariant in parts, and the steps. *)

Sound ==
  validData =>
    /\ Tiled(data, SourceData, mem_used) /\ GoodVersion(SourceData)
    /\ Ordered(data, mem_used)
    /\ mem_used <= MaxCells
    /\ pc # "parsing"

Parsing ==
  pc = "parsing" =>
    /\ Tiled(data, p_ex_data, curr_index) /\ GoodVersion(p_ex_data)
    /\ Ordered(data, curr_index)
    /\ readOnly
    /\ mem_used = Cells(p_ex_data) /\ mem_used <= MaxCells

Small == Cells(wire) <= MaxCells

LEMMA LayoutParts == LayoutInv <=> TypeOK /\ Sound /\ Parsing /\ Small
BY DEF LayoutInv, LayoutOK, Sound, Parsing, Small

LEMMA PartsTogether ==
  ASSUME TypeOK', Sound', Parsing', Small'
  PROVE  LayoutInv'
BY DEF LayoutInv, LayoutOK, Sound, Parsing, Small

(* A step that touches neither the object nor its constructor. *)
LEMMA IdleSound ==
  ASSUME Sound, UNCHANGED object, pc' # "parsing"
  PROVE  Sound' /\ Parsing'
BY DEF Sound, Parsing, object, SourceData

LEMMA EmptySound ==
  ASSUME InitHeader, ~readOnly', pc' # "parsing"
  PROVE  Sound' /\ Parsing'
<1>1. SourceData' = EmptyBlock /\ mem_used' = HEADER_ELEMENTS /\ data' = << >>
  BY DEF InitHeader, SourceData
<1> DEFINE n == Reserve(0, 0, HEADER_ELEMENTS)
<1>2. n \in Nat /\ n >= HEADER_ELEMENTS /\ EmptyBlock \in Block(n)
        /\ EmptyBlock[VERSION] = MESS_VERSION
  BY EmptyBlockType
<1> HIDE DEF n
<1>3. Cells(EmptyBlock) = n
  BY <1>2, CellsOfBlock
<1>4. Tiled(<< >>, EmptyBlock, HEADER_ELEMENTS) /\ Ordered(<< >>, HEADER_ELEMENTS)
  BY <1>2, <1>3, EmptyTiled
<1>5. GoodVersion(EmptyBlock)
  BY <1>2 DEF GoodVersion, MESS_VERSION, MIN_MESS_VERSION
<1> QED BY <1>1, <1>4, <1>5, CallerAssumption DEF Sound, Parsing

(* The cells of a table that a copy must have. *)
LEMMA HeadersInside ==
  ASSUME NEW table \in Seq(Elements), NEW limit \in Nat, Ordered(table, limit),
         NEW i \in DOMAIN table, NEW k \in Int,
         StartOf(table[i]) <= k, k < table[i].index
  PROVE  k \in HEADER_ELEMENTS .. limit - 1
<1>1. table[i] \in Elements
  BY ElementOfSeq, LenProperties
<1>2. HEADER_ELEMENTS <= StartOf(table[i]) /\ EndOf(table[i]) <= limit
  BY DEF Ordered
<1>3. /\ StartOf(table[i]) \in Int /\ table[i].index \in Nat
      /\ EndOf(table[i]) \in Nat /\ table[i].index <= EndOf(table[i])
  <2>1. table[i].size \in Nat /\ EndOf(table[i]) = table[i].index + table[i].size
    BY <1>1, ElementBounds
  <2> QED BY <1>1, <2>1, ElementBounds
<1> QED BY <1>2, <1>3

LEMMA CloneSound ==
  ASSUME LayoutInv, CopyObject
  PROVE  Sound' /\ Parsing'
<1> DEFINE b == SourceData
           c == Resize(SourceData, mem_used)
<1>1. SourceData' = c /\ pc' = "ready"
        /\ UNCHANGED <<validData, data, mem_used>>
  BY DEF CopyObject, SourceData, parser
<1>2. mem_used \in Nat /\ data \in Seq(Elements) /\ IsBlock(b)
  BY SourceBlock DEF LayoutInv, TypeOK
<1>3. CASE validData
  <2>1. /\ Tiled(data, b, mem_used) /\ GoodVersion(b)
        /\ Ordered(data, mem_used) /\ mem_used <= MaxCells
    BY <1>3 DEF LayoutInv, LayoutOK
  <2>2. mem_used \in HEADER_ELEMENTS .. Cells(b) /\ Cells(b) \in Nat
    BY <1>2, <2>1 DEF Tiled, IsBlock
  <2>3. c \in Block(mem_used) /\ \A k \in 0 .. mem_used - 1 : c[k] = Peek(b, k)
    BY <1>2, ResizeBlock
  <2>4. Cells(c) = mem_used /\ IsBlock(c)
    BY <1>2, <2>3, CellsOfBlock
  <2> HIDE DEF b, c
  <2>5. \A k \in 0 .. mem_used - 1 : Peek(c, k) = Peek(b, k)
    BY <2>3, <2>4, PeekCell
  <2>6. \A i \in DOMAIN data : \A k \in Int :
          StartOf(data[i]) <= k /\ k < data[i].index => Peek(c, k) = Peek(b, k)
    <3> TAKE i \in DOMAIN data
    <3> TAKE k \in Int
    <3> HAVE StartOf(data[i]) <= k /\ k < data[i].index
    <3>1. k \in HEADER_ELEMENTS .. mem_used - 1
      BY <1>2, <2>1, HeadersInside
    <3> QED BY <1>2, <2>5, <3>1
  <2>7. Tiled(data, c, mem_used)
    <3>1. mem_used \in HEADER_ELEMENTS .. Cells(c)
      BY <2>2, <2>4
    <3> QED BY <1>2, <2>1, <2>6, <3>1, CopyTiled
  <2>8. GoodVersion(c)
    <3>1. 0 \in 0 .. mem_used - 1 /\ 0 \in 0 .. Cells(b) - 1
      BY <2>2
    <3>2. c[0] = b[0]
      BY <1>2, <2>3, <3>1, PeekCell
    <3> QED BY <2>1, <3>2 DEF GoodVersion
  <2> QED BY <1>1, <2>1, <2>7, <2>8 DEF Sound, Parsing
<1> QED BY <1>1, <1>3 DEF Sound, Parsing

LEMMA BeginWrapSound ==
  ASSUME LayoutInv, BeginWrap
  PROVE  Sound' /\ Parsing' /\ Small'
<1>1. Small'
  BY NullBlock, CallerAssumption DEF BeginWrap, Small
<1>2. Sound'
  BY DEF BeginWrap, Sound
<1>3. Parsing'
  <2>1. CASE HeaderError # "None"
    BY <2>1 DEF BeginWrap, Parsing
  <2>2. CASE HeaderError = "None"
    <3>1. /\ Cells(wire) >= HEADER_ELEMENTS /\ GoodVersion(wire)
          /\ wire[SIZE] = Cells(wire)
      BY <2>2 DEF HeaderError, LayoutInv, TypeOK, IsBlock
    <3>2. /\ data' = << >> /\ p_ex_data' = wire /\ readOnly'
          /\ curr_index' = HEADER_ELEMENTS /\ mem_used' = Cells(wire)
      BY <2>2, <3>1 DEF BeginWrap, HeaderTaken
    <3>3. Cells(wire) \in Nat /\ Cells(wire) <= MaxCells
      BY DEF LayoutInv, TypeOK, IsBlock
    <3>4. Tiled(<< >>, wire, HEADER_ELEMENTS) /\ Ordered(<< >>, HEADER_ELEMENTS)
      BY <3>1, <3>3, EmptyTiled
    <3> QED BY <3>1, <3>2, <3>3, <3>4 DEF Parsing
  <2> QED BY <2>1, <2>2
<1> QED BY <1>1, <1>2, <1>3

LEMMA ParseElementSound ==
  ASSUME MaxCells < U32, LayoutInv, ParseElement
  PROVE  Sound' /\ Parsing'
<1> DEFINE at == curr_index
           e == ElementAt(at)
           b == p_ex_data
<1>1. /\ TypeOK /\ at \in Nat /\ mem_used \in Nat /\ data \in Seq(Elements)
      /\ IsBlock(b) /\ Readable(at)
  BY DEF ParseElement, LayoutInv, TypeOK
<1>2. /\ Tiled(data, b, at) /\ Ordered(data, at) /\ readOnly
      /\ mem_used = Cells(b) /\ mem_used <= MaxCells /\ GoodVersion(b)
      /\ ~validData
  BY DEF ParseElement, LayoutInv, LayoutOK
<1>3. /\ data' = Append(data, e) /\ at' = AsU32(EndOf(e))
      /\ UNCHANGED <<readOnly, validData, p_ex_data, mem_used, pc>>
  BY DEF ParseElement
<1>4. /\ mem_used - at >= 2
      /\ e.basic_type \/ mem_used - AsU32(at + 2) >= 1
      /\ mem_used - e.index >= e.size
  BY <1>1 DEF Readable
<1>5. /\ e \in Elements /\ e.type = Peek(b, at)
      /\ e.name = Peek(b, AsU32(at + 1))
      /\ e.basic_type <=> SType[e.type] # 0
      /\ e.basic_type => e.size = SType[e.type]
      /\ ~e.basic_type => e.size = AsU32(Peek(b, AsU32(at + 2)))
      /\ e.index = AsU32(at + HeaderBytes(e))
  <2>1. at + 1 + DTYPE_SIZE_NAME = at + 2
    BY <1>1
  <2> QED BY <1>1, <2>1, ParsedElement
<1> HIDE DEF e, at
<1>6. MaxCells \in Nat /\ U32 \in Nat
  BY CallerAssumption, FormatAssumption
<1>7. AsU32(at + 1) = at + 1 /\ AsU32(at + 2) = at + 2
  <2>1. at + 1 \in 0 .. U32 - 1 /\ at + 2 \in 0 .. U32 - 1
    BY <1>1, <1>2, <1>4, <1>6
  <2> QED BY <1>1, <2>1, AsU32Fits
<1>8. HeaderBytes(e) = (IF e.basic_type THEN 2 ELSE 3)
  BY DEF HeaderBytes
<1>9. e.index = at + HeaderBytes(e)
  <2>1. at + HeaderBytes(e) <= mem_used
    BY <1>1, <1>4, <1>7, <1>8
  <2>2. at + HeaderBytes(e) \in 0 .. U32 - 1
    BY <1>1, <1>2, <1>6, <1>8, <2>1
  <2> QED BY <1>1, <1>5, <2>2, AsU32Fits
<1>10. /\ e.index \in Nat /\ e.size \in Nat /\ StartOf(e) = at
       /\ EndOf(e) \in Nat /\ EndOf(e) <= mem_used
  <2>1. /\ e.index \in Nat /\ e.size \in Nat /\ StartOf(e) \in Int
        /\ e.index = StartOf(e) + HeaderBytes(e)
        /\ EndOf(e) \in Nat /\ EndOf(e) = e.index + e.size
    BY <1>5, ElementBounds
  <2>2. StartOf(e) = at
    BY <1>1, <1>8, <1>9, <2>1
  <2> QED BY <1>1, <1>4, <2>1, <2>2
<1>11. AsU32(EndOf(e)) = EndOf(e)
  <2>1. EndOf(e) \in 0 .. U32 - 1
    BY <1>1, <1>2, <1>6, <1>10
  <2> QED BY <2>1, AsU32Fits
<1>12. Describes(b, e)
  BY <1>5, <1>7, <1>10 DEF Describes
<1>13. Tiled(Append(data, e), b, EndOf(e)) /\ Ordered(Append(data, e), EndOf(e))
  BY <1>1, <1>2, <1>5, <1>10, <1>12, AppendTiled
<1>14. at' = EndOf(e)
  BY <1>3, <1>11
<1> QED BY <1>2, <1>3, <1>13, <1>14 DEF Sound, Parsing, at

LEMMA ParseSound ==
  ASSUME MaxCells < U32, LayoutInv, Parse
  PROVE  Sound' /\ Parsing' /\ Small'
<1>1. CASE ParseElement
  BY <1>1, ParseElementSound DEF ParseElement, LayoutInv, Small
<1>2. CASE ParseReject
  BY <1>2 DEF ParseReject, EndParse, LayoutInv, Sound, Parsing, Small
<1>3. CASE ParseDone
  <2>1. /\ curr_index >= mem_used /\ curr_index \in Nat /\ mem_used \in Nat
        /\ Tiled(data, p_ex_data, curr_index) /\ Ordered(data, curr_index)
        /\ readOnly /\ GoodVersion(p_ex_data)
        /\ mem_used = Cells(p_ex_data) /\ mem_used <= MaxCells
    BY <1>3 DEF ParseDone, LayoutInv, LayoutOK, TypeOK
  <2>2. curr_index = mem_used
    <3>1. curr_index <= Cells(p_ex_data)
      BY <2>1 DEF Tiled
    <3> QED BY <2>1, <3>1
  <2>3. /\ SourceData' = p_ex_data /\ pc' = "ready"
        /\ UNCHANGED <<data, mem_used, wire>>
    BY <1>3, <2>1 DEF ParseDone, EndParse, SourceData
  <2> QED BY <2>1, <2>2, <2>3 DEF LayoutInv, Sound, Parsing, Small
<1> QED BY <1>1, <1>2, <1>3 DEF Parse

(* What the callers of AddValue pass. *)
Addable(e, value) ==
  /\ e \in Elements /\ value \in Seq(Nat) /\ e.size <= Len(value)
  /\ e.basic_type <=> SType[e.type] # 0
  /\ IF e.basic_type THEN e.size = SType[e.type] ELSE e.size < U32

(* The block after an Add has the old cells and behind them those of the   *)
(* new element, but for the two it writes as counts of the header.         *)
LEMMA AddedCells ==
  ASSUME TypeOK, NEW e, NEW value, Addable(e, value), AddElementToBuffer(e, value),
         mem_used <= p_size
  PROVE  /\ mem_used' = mem_used + HeaderBytes(e) + e.size
         /\ p_data' \in Block(p_size') /\ p_size' \in Nat /\ mem_used' <= p_size'
         /\ \A k \in 0 .. mem_used - 1 :
              k \notin {SIZE, ELEMENTS} => p_data'[k] = p_data[k]
         /\ \A m \in Int :
              mem_used <= m /\ m < mem_used' /\ m \notin {SIZE, ELEMENTS} =>
                p_data'[m] = Encode(e, value)[m - mem_used + 1]
<1> DEFINE cells  == Encode(e, value)
           more   == Reserve(p_size, mem_used, Len(cells))
           size   == p_size + more
           wider  == Resize(p_data, size)
           stored == Write(wider, mem_used, cells)
<1>1. cells \in Seq(Nat) /\ Len(cells) = HeaderBytes(e) + e.size
  BY EncodeCells DEF Addable
<1>2. e.size \in Nat /\ HeaderBytes(e) \in Nat
  BY HeaderBytesNat, ElementBounds DEF Addable
<1>3. /\ p_size' = size /\ mem_used' = mem_used + Len(cells)
      /\ el_size' = AsU64(el_size + 1)
      /\ p_data' = WriteHeader(stored, mem_used', el_size')
  BY DEF AddElementToBuffer
<1> HIDE DEF cells
<1>4. p_size \in Nat /\ mem_used \in Nat /\ el_size \in Nat /\ p_data \in Block(p_size)
  BY DEF TypeOK
<1>5. Len(cells) \in Nat
  BY <1>1, <1>2
<1>6. more \in Nat /\ p_size + more >= mem_used + Len(cells)
  BY <1>4, <1>5, ReserveEnough
<1> HIDE DEF more
<1>7. size \in Nat /\ size >= mem_used + Len(cells) /\ size >= p_size
  BY <1>4, <1>6
<1> HIDE DEF size
<1>8. /\ wider \in Block(size)
      /\ \A k \in 0 .. size - 1 : wider[k] = Peek(p_data, k)
      /\ IsBlock(p_data) /\ Cells(p_data) = p_size
  BY <1>4, <1>7, CellsOfBlock, ResizeBlock
<1> HIDE DEF wider
<1>9. /\ stored \in Block(size)
      /\ \A k \in 0 .. size - 1 :
           stored[k] = IF mem_used <= k /\ k < mem_used + Len(cells)
                       THEN cells[k - mem_used + 1] ELSE wider[k]
  BY <1>1, <1>4, <1>7, <1>8, WriteBlock
<1> HIDE DEF stored
<1>10. mem_used' \in Nat /\ el_size' \in Nat
  BY <1>3, <1>4, <1>5, AsU64Fits
<1>11. /\ p_data' \in Block(size)
       /\ \A k \in 0 .. size - 1 :
            k \notin {SIZE, ELEMENTS} => p_data'[k] = stored[k]
  <2>1. /\ WriteHeader(stored, mem_used', el_size') \in Block(size)
        /\ \A k \in 0 .. size - 1 :
             k \notin {SIZE, ELEMENTS} =>
               WriteHeader(stored, mem_used', el_size')[k] = stored[k]
    BY <1>7, <1>9, <1>10, HeaderBlock
  <2> QED BY <1>3, <2>1
<1>12. ASSUME NEW k \in 0 .. mem_used - 1, k \notin {SIZE, ELEMENTS}
       PROVE  p_data'[k] = p_data[k]
  <2>1. k \in 0 .. size - 1 /\ k \in 0 .. p_size - 1 /\ ~(mem_used <= k)
    BY <1>4, <1>5, <1>7
  <2>2. p_data'[k] = stored[k] /\ stored[k] = wider[k]
    BY <1>9, <1>11, <1>12, <2>1
  <2>3. wider[k] = Peek(p_data, k) /\ Peek(p_data, k) = p_data[k]
    BY <1>8, <2>1, PeekCell
  <2> QED BY <2>2, <2>3
<1>13. ASSUME NEW m \in Int, mem_used <= m, m < mem_used', m \notin {SIZE, ELEMENTS}
       PROVE  p_data'[m] = cells[m - mem_used + 1]
  <2>1. m < mem_used + Len(cells)
    BY <1>3, <1>13
  <2>2. m \in 0 .. size - 1
    BY <1>4, <1>5, <1>7, <1>13, <2>1
  <2>3. p_data'[m] = stored[m]
    BY <1>11, <1>13, <2>2
  <2>4. stored[m] = cells[m - mem_used + 1]
    BY <1>9, <1>13, <2>1, <2>2
  <2> QED BY <2>3, <2>4
<1>14. mem_used' = mem_used + HeaderBytes(e) + e.size
  BY <1>1, <1>2, <1>3, <1>4
<1>15. p_size' \in Nat /\ mem_used' <= p_size' /\ p_data' \in Block(p_size')
  BY <1>3, <1>7, <1>11
<1> QED BY <1>12, <1>13, <1>14, <1>15 DEF cells

(* In a message with a header these are all the cells of the element.      *)
LEMMA AddedBlock ==
  ASSUME TypeOK, NEW e, NEW value, Addable(e, value), AddElementToBuffer(e, value),
         mem_used <= p_size, HEADER_ELEMENTS <= mem_used
  PROVE  /\ mem_used' = mem_used + HeaderBytes(e) + e.size
         /\ p_data' \in Block(p_size') /\ p_size' \in Nat /\ mem_used' <= p_size'
         /\ \A k \in 0 .. mem_used - 1 :
              k \notin {SIZE, ELEMENTS} => p_data'[k] = p_data[k]
         /\ p_data'[mem_used] = e.type /\ p_data'[mem_used + 1] = e.name
         /\ ~e.basic_type => p_data'[mem_used + 2] = AsU32(e.size)
         /\ \A i \in 1 .. e.size : p_data'[mem_used + HeaderBytes(e) + i - 1] = value[i]
<1> DEFINE cells == Encode(e, value)
<1>1. /\ cells[1] = e.type /\ cells[2] = e.name
      /\ ~e.basic_type => cells[3] = AsU32(e.size)
      /\ \A i \in 1 .. e.size : cells[HeaderBytes(e) + i] = value[i]
  BY EncodeCells DEF Addable
<1>2. e.size \in Nat /\ HeaderBytes(e) = IF e.basic_type THEN 2 ELSE 3
  BY ElementBounds DEF Addable
<1>3. mem_used \in Nat
  BY DEF TypeOK
<1>4. /\ mem_used' = mem_used + HeaderBytes(e) + e.size
      /\ p_data' \in Block(p_size') /\ p_size' \in Nat /\ mem_used' <= p_size'
      /\ \A k \in 0 .. mem_used - 1 :
           k \notin {SIZE, ELEMENTS} => p_data'[k] = p_data[k]
  BY AddedCells
<1>5. ASSUME NEW i \in 1 .. HeaderBytes(e) + e.size
      PROVE  p_data'[mem_used + i - 1] = cells[i]
  <2> DEFINE m == mem_used + i - 1
  <2>1. /\ m \in Int /\ mem_used <= m /\ m < mem_used' /\ m \notin {1, 2}
        /\ m - mem_used + 1 = i
    BY <1>2, <1>3, <1>4
  <2> HIDE DEF m
  <2>2. p_data'[m] = cells[m - mem_used + 1]
    BY <2>1, AddedCells
  <2> QED BY <2>1, <2>2 DEF m
<1> HIDE DEF cells
<1>6. p_data'[mem_used] = e.type
  <2>1. 1 \in 1 .. HeaderBytes(e) + e.size /\ mem_used + 1 - 1 = mem_used
    BY <1>2, <1>3
  <2> QED BY <1>1, <1>5, <2>1
<1>7. p_data'[mem_used + 1] = e.name
  <2>1. 2 \in 1 .. HeaderBytes(e) + e.size /\ mem_used + 2 - 1 = mem_used + 1
    BY <1>2, <1>3
  <2> QED BY <1>1, <1>5, <2>1
<1>8. ~e.basic_type => p_data'[mem_used + 2] = AsU32(e.size)
  <2>1. mem_used + 3 - 1 = mem_used + 2
    BY <1>3
  <2>2. ~e.basic_type => 3 \in 1 .. HeaderBytes(e) + e.size
    BY <1>2
  <2> QED BY <1>1, <1>5, <2>1, <2>2
<1>9. ASSUME NEW i \in 1 .. e.size
      PROVE  p_data'[mem_used + HeaderBytes(e) + i - 1] = value[i]
  <2>1. /\ HeaderBytes(e) + i \in 1 .. HeaderBytes(e) + e.size
        /\ mem_used + (HeaderBytes(e) + i) - 1 = mem_used + HeaderBytes(e) + i - 1
    BY <1>2, <1>3
  <2> QED BY <1>1, <1>5, <2>1
<1> QED BY <1>4, <1>6, <1>7, <1>8, <1>9

LEMMA AddValueSound ==
  ASSUME MaxCells < U32, LayoutInv, pc # "parsing",
         NEW e, NEW value, NEW null, Addable(e, value), AddValue(e, value, null)
  PROVE  Sound' /\ Parsing' /\ Small'
<1> DEFINE error == AddError(e.name, null)
           d == [e EXCEPT !.index = AsU32(mem_used + HeaderBytes(e))]
<1>1. CASE error # "None"
  <2>1. UNCHANGED <<object, parser, wire>>
    BY <1>1 DEF AddValue, Fail
  <2> QED BY <2>1, IdleSound, LayoutParts DEF parser, Small
<1>2. CASE error = "None"
  <2>1. /\ ~readOnly
        /\ mem_used + HeaderBytes(e) + e.size <= MaxCells
        /\ AddElementToBuffer(e, value) /\ data' = Append(data, d)
        /\ UNCHANGED <<readOnly, validData, p_ex_data, parser, wire>>
    <3>1. ~readOnly
      BY <1>2 DEF AddError
    <3> QED BY <1>2, <3>1 DEF AddValue, Fail, Return
  <2>2. Parsing' /\ Small'
    BY <2>1 DEF Parsing, Small, LayoutInv, parser
  <2>3. CASE ~validData
    BY <2>1, <2>2, <2>3 DEF Sound
  <2>4. CASE validData
    <3>1. /\ SourceData = p_data /\ SourceData' = p_data'
          /\ Tiled(data, p_data, mem_used) /\ GoodVersion(p_data)
          /\ Ordered(data, mem_used)
      BY <2>1, <2>4 DEF LayoutInv, LayoutOK, SourceData
    <3>2. /\ TypeOK /\ data \in Seq(Elements) /\ mem_used \in Nat /\ p_size \in Nat
          /\ p_data \in Block(p_size) /\ Cells(p_data) = p_size /\ IsBlock(p_data)
      BY CellsOfBlock DEF LayoutInv, TypeOK
    <3>3. mem_used <= p_size /\ HEADER_ELEMENTS <= mem_used
      BY <3>1, <3>2 DEF Tiled
    <3> DEFINE size == p_size'
    <3>4. /\ mem_used' = mem_used + HeaderBytes(e) + e.size
          /\ p_data' \in Block(size) /\ size \in Nat /\ mem_used' <= size
          /\ \A k \in 0 .. mem_used - 1 :
               k \notin {SIZE, ELEMENTS} => p_data'[k] = p_data[k]
          /\ p_data'[mem_used] = e.type /\ p_data'[mem_used + 1] = e.name
          /\ ~e.basic_type => p_data'[mem_used + 2] = AsU32(e.size)
      BY <2>1, <3>2, <3>3, AddedBlock
    <3> HIDE DEF size
    <3>5. /\ e \in Elements /\ e.size \in Nat /\ e.type \in Nat /\ e.name \in Nat
          /\ HeaderBytes(e) = IF e.basic_type THEN 2 ELSE 3
      BY ElementBounds DEF Addable, Elements, KnownTypes
    <3>6. MaxCells \in Nat /\ U32 \in Nat
      BY CallerAssumption, FormatAssumption
    <3>18. size \in Nat /\ mem_used + 2 <= size
      <4>1. mem_used + HeaderBytes(e) + e.size <= size /\ size \in Nat
        BY <3>4
      <4>2. mem_used \in Nat /\ HeaderBytes(e) \in {2, 3} /\ e.size \in Nat
        BY <3>2, <3>5
      <4> QED BY <4>1, <4>2
    <3>19. ~e.basic_type => mem_used + 3 <= size
      <4>1. mem_used + HeaderBytes(e) + e.size <= size /\ size \in Nat
        BY <3>4
      <4>2. mem_used \in Nat /\ e.size \in Nat
        BY <3>2, <3>5
      <4>3. ~e.basic_type => HeaderBytes(e) = 3
        BY <3>5
      <4> QED BY <4>1, <4>2, <4>3
    <3>7. AsU32(mem_used + HeaderBytes(e)) = mem_used + HeaderBytes(e)
      <4>1. mem_used + HeaderBytes(e) \in 0 .. U32 - 1
        BY <2>1, <3>2, <3>5, <3>6
      <4> QED BY <4>1, AsU32Fits
    <3>8. /\ d \in Elements /\ d.index = mem_used + HeaderBytes(e)
          /\ d.type = e.type /\ d.name = e.name /\ d.size = e.size
          /\ d.basic_type = e.basic_type
      <4>1. mem_used + HeaderBytes(e) \in Nat
        BY <3>2, <3>5
      <4> QED BY <3>5, <3>7, <4>1, IndexedElement
    <3> HIDE DEF d
    <3>9. StartOf(d) = mem_used /\ EndOf(d) = mem_used'
      <4>1. HeaderBytes(d) = HeaderBytes(e)
        BY <3>8 DEF HeaderBytes
      <4>2. /\ StartOf(d) \in Int /\ d.index = StartOf(d) + HeaderBytes(d)
            /\ EndOf(d) = d.index + d.size
        BY <3>8, ElementBounds
      <4> QED BY <3>2, <3>4, <3>5, <3>8, <4>1, <4>2
    <3>10. Cells(p_data') = size /\ IsBlock(p_data')
      BY <3>4, CellsOfBlock
    <3>11. \A k \in 0 .. size - 1 : Peek(p_data', k) = p_data'[k]
      BY <3>10, PeekCell
    <3>12. \A k \in HEADER_ELEMENTS .. mem_used - 1 :
             Peek(p_data', k) = Peek(p_data, k)
      <4> TAKE k \in HEADER_ELEMENTS .. mem_used - 1
      <4>1. /\ k \in 0 .. size - 1 /\ k \in 0 .. p_size - 1
            /\ k \in 0 .. mem_used - 1 /\ k \notin {SIZE, ELEMENTS}
        <5>1. mem_used \in Nat /\ p_size \in Nat /\ mem_used <= p_size
          BY <3>2, <3>3
        <5> QED BY <3>18, <5>1
      <4>2. Peek(p_data', k) = p_data'[k]
        BY <3>11, <4>1
      <4>3. Peek(p_data, k) = p_data[k]
        BY <3>2, <4>1, PeekCell
      <4>4. p_data'[k] = p_data[k]
        BY <3>4, <4>1
      <4> QED BY <4>2, <4>3, <4>4
    <3>13. Tiled(data, p_data', mem_used)
      <4>1. \A i \in DOMAIN data : \A k \in Int :
              StartOf(data[i]) <= k /\ k < data[i].index =>
                Peek(p_data', k) = Peek(p_data, k)
        BY <3>1, <3>2, <3>12, HeadersInside
      <4>2. mem_used \in HEADER_ELEMENTS .. Cells(p_data')
        BY <3>2, <3>3, <3>4, <3>5, <3>10
      <4> QED BY <3>1, <3>2, <4>1, <4>2, CopyTiled
    <3>14. Describes(p_data', d)
      <4>1. /\ Peek(p_data', mem_used) = d.type
            /\ Peek(p_data', mem_used + 1) = d.name
            /\ ~d.basic_type => Peek(p_data', mem_used + 2) = AsU32(d.size)
        <5>1. mem_used \in 0 .. size - 1 /\ mem_used + 1 \in 0 .. size - 1
          <6>1. mem_used \in Nat
            BY <3>2
          <6> QED BY <3>18, <6>1
        <5>2. ~e.basic_type => mem_used + 2 \in 0 .. size - 1
          <6>1. mem_used \in Nat
            BY <3>2
          <6> QED BY <3>18, <3>19, <6>1
        <5> QED BY <3>4, <3>8, <3>11, <5>1, <5>2
      <4>2. ~d.basic_type => AsU32(d.size) = d.size /\ AsU32(AsU32(d.size)) = d.size
        <5>1. ~e.basic_type => e.size \in 0 .. U32 - 1
          BY <3>5, <3>6 DEF Addable
        <5>2. ~e.basic_type => AsU32(e.size) = e.size
          BY <5>1, AsU32Fits
        <5> QED BY <3>8, <5>2
      <4>3. /\ d.basic_type <=> SType[d.type] # 0
            /\ d.basic_type => d.size = SType[d.type]
        BY <3>8 DEF Addable
      <4> QED BY <3>9, <4>1, <4>2, <4>3 DEF Describes
    <3>15. Tiled(data', p_data', mem_used') /\ Ordered(data', mem_used')
      <4>1. Cells(p_data') \in Nat /\ EndOf(d) <= Cells(p_data')
        BY <3>4, <3>9, <3>10
      <4> QED BY <2>1, <3>1, <3>2, <3>8, <3>9, <3>13, <3>14, <4>1, AppendTiled
    <3>16. GoodVersion(p_data')
      <4>1. 0 \in 0 .. mem_used - 1 /\ 0 \notin {SIZE, ELEMENTS}
        BY <3>2, <3>3
      <4>2. p_data'[0] = p_data[0]
        BY <3>4, <4>1
      <4> QED BY <3>1, <4>2 DEF GoodVersion
    <3>17. mem_used' <= MaxCells /\ pc' # "parsing"
      BY <2>1, <3>4 DEF parser
    <3> QED BY <2>2, <3>1, <3>15, <3>16, <3>17 DEF Sound
  <2> QED BY <2>3, <2>4
<1> QED BY <1>1, <1>2

LEMMA AddableScalar ==
  ASSUME NEW type \in KnownTypes, NEW name \in Nat, NEW value \in Seq(Nat),
         SType[type] # 0, Len(value) = SType[type]
  PROVE  Addable(DType(type, name), value)
<1> DEFINE e == DType(type, name)
<1>1. /\ e \in Elements /\ e.size <= Len(value)
      /\ e.size = SType[e.type] /\ e.basic_type /\ SType[e.type] # 0
  BY ScalarElement
<1> HIDE DEF e
<1>2. Addable(e, value)
  BY <1>1 DEF Addable
<1> QED BY <1>2 DEF e

LEMMA AddableVariable ==
  ASSUME NEW type \in KnownTypes, NEW name \in Nat, NEW value \in Seq(Nat),
         SType[type] = 0
  PROVE  Addable([DType(type, name) EXCEPT !.size = AsU32(Len(value))], value)
<1> DEFINE e == [DType(type, name) EXCEPT !.size = AsU32(Len(value))]
<1>1. /\ e \in Elements /\ e.size <= Len(value)
      /\ ~e.basic_type /\ SType[e.type] = 0 /\ e.size < U32
  BY VariableElement
<1> HIDE DEF e
<1>2. Addable(e, value)
  BY <1>1 DEF Addable
<1> QED BY <1>2 DEF e

(* An Update writes inside the value of its element, which no header       *)
(* overlaps.                                                               *)
LEMMA UpdateSound ==
  ASSUME LayoutInv, NEW name, NEW type, NEW value \in Seq(Nat),
         Update(name, type, value)
  PROVE  Sound' /\ Parsing' /\ Small'
<1> DEFINE error == IF readOnly THEN "ReadOnly" ELSE LookupError(name, type)
           k == Find(name)
<1>1. CASE error # "None"
  <2>1. UNCHANGED <<object, parser, wire>> /\ pc = "ready"
    BY <1>1 DEF Update, Fail
  <2> QED BY <2>1, IdleSound, LayoutParts DEF parser, Small
<1>2. CASE error = "None"
  <2>1. /\ ~readOnly /\ k # 0 /\ data[k].type = type
    BY <1>2 DEF LookupError
  <2>2. /\ p_data' = Write(p_data, data[k].index, value)
        /\ UNCHANGED <<readOnly, validData, data, p_ex_data, p_size,
                       mem_used, el_size, parser, wire>>
        /\ pc = "ready" /\ SType[type] # 0 /\ Len(value) = SType[type]
    BY <1>2 DEF Update
  <2>3. Parsing' /\ Small'
    BY <2>2 DEF Parsing, Small, LayoutInv, parser
  <2>4. CASE ~validData
    BY <2>2, <2>3, <2>4 DEF Sound
  <2>5. CASE validData
    <3>1. /\ SourceData = p_data /\ SourceData' = p_data'
          /\ Tiled(data, p_data, mem_used) /\ GoodVersion(p_data)
          /\ Ordered(data, mem_used) /\ mem_used <= MaxCells
      BY <2>1, <2>2, <2>5 DEF LayoutInv, LayoutOK, SourceData
    <3>2. /\ TypeOK /\ data \in Seq(Elements) /\ mem_used \in Nat /\ p_size \in Nat
          /\ p_data \in Block(p_size) /\ Cells(p_data) = p_size /\ IsBlock(p_data)
      BY CellsOfBlock DEF LayoutInv, TypeOK
    <3>3. k \in DOMAIN data
      BY <2>1, <3>2, FindIsThere
    <3> HIDE DEF k
    <3> DEFINE e == data[k]
    <3>4. e \in Elements
      BY <3>2, <3>3, ElementOfSeq, LenProperties
    <3>5. EndOf(e) = e.index + Len(value)
      <4>1. Describes(p_data, e)
        BY <3>1, <3>3 DEF Tiled
      <4>2. e.size = SType[type]
        BY <2>1, <2>2, <4>1 DEF Describes
      <4> QED BY <2>2, <3>4, <4>2, ElementBounds
    <3>6. /\ e.index \in Nat /\ StartOf(e) \in Int /\ StartOf(e) <= e.index
          /\ EndOf(e) \in Nat /\ e.index <= EndOf(e)
          /\ HEADER_ELEMENTS <= StartOf(e)
      <4>1. HEADER_ELEMENTS <= StartOf(e)
        BY <3>1, <3>3 DEF Ordered
      <4>2. /\ e.index \in Nat /\ e.size \in Nat /\ StartOf(e) \in Int
            /\ e.index = StartOf(e) + HeaderBytes(e)
            /\ EndOf(e) \in Nat /\ EndOf(e) = e.index + e.size
            /\ HeaderBytes(e) \in {2, 3}
        BY <3>4, ElementBounds, HeaderBytesNat
      <4>3. StartOf(e) <= e.index
        BY <4>2
      <4>4. e.index <= EndOf(e)
        BY <4>2
      <4> QED BY <4>1, <4>2, <4>3, <4>4
    <3>7. /\ p_data' \in Block(p_size)
          /\ \A c \in 0 .. p_size - 1 :
               p_data'[c] = IF e.index <= c /\ c < e.index + Len(value)
                            THEN value[c - e.index + 1] ELSE p_data[c]
      <4>1. /\ Write(p_data, e.index, value) \in Block(p_size)
            /\ \A c \in 0 .. p_size - 1 :
                 Write(p_data, e.index, value)[c] =
                   IF e.index <= c /\ c < e.index + Len(value)
                   THEN value[c - e.index + 1] ELSE p_data[c]
        <5>1. e.index \in Int
          BY <3>6
        <5> QED BY <3>2, <5>1, WriteBlock, Zenon
      <4> QED BY <2>2, <4>1
    <3>8. Cells(p_data') = p_size /\ IsBlock(p_data')
      BY <3>2, <3>7, CellsOfBlock
    <3>9. HEADER_ELEMENTS <= mem_used /\ mem_used <= p_size
      BY <3>1, <3>2 DEF Tiled
    <3>10. ASSUME NEW i \in DOMAIN data, NEW c \in Int,
                  StartOf(data[i]) <= c, c < data[i].index
           PROVE  ~(e.index <= c /\ c < EndOf(e))
      <4>1. data[i] \in Elements /\ i \in Nat /\ k \in Nat
        BY <3>2, <3>3, ElementOfSeq, LenProperties
      <4>2. /\ data[i].index \in Nat /\ StartOf(data[i]) \in Int
            /\ EndOf(data[i]) \in Nat /\ data[i].index <= EndOf(data[i])
        <5>1. data[i].size \in Nat /\ EndOf(data[i]) = data[i].index + data[i].size
          BY <4>1, ElementBounds
        <5> QED BY <4>1, <5>1, ElementBounds
      <4>3. CASE i = k
        BY <3>6, <3>10, <4>3
      <4>4. CASE i < k
        <5>1. EndOf(data[i]) <= StartOf(e)
          BY <3>1, <3>3, <4>4 DEF Ordered
        <5>2. c < StartOf(e)
          BY <3>6, <3>10, <4>2, <5>1
        <5> QED BY <3>6, <5>2
      <4>5. CASE k < i
        <5>1. EndOf(e) <= StartOf(data[i])
          BY <3>1, <3>3, <4>5 DEF Ordered
        <5> QED BY <3>6, <3>10, <4>2, <5>1
      <4> QED BY <4>1, <4>3, <4>4, <4>5
    <3> HIDE DEF e
    <3>11. ASSUME NEW c \in 0 .. mem_used - 1, ~(e.index <= c /\ c < EndOf(e))
           PROVE  Peek(p_data', c) = Peek(p_data, c) /\ p_data'[c] = p_data[c]
      <4>1. c \in 0 .. p_size - 1
        BY <3>2, <3>9
      <4>2. p_data'[c] = p_data[c]
        BY <3>5, <3>7, <3>11, <4>1
      <4>3. Peek(p_data', c) = p_data'[c] /\ Peek(p_data, c) = p_data[c]
        BY <3>2, <3>8, <4>1, PeekCell
      <4> QED BY <4>2, <4>3
    <3>12. ASSUME NEW i \in DOMAIN data, NEW c \in Int,
                  StartOf(data[i]) <= c, c < data[i].index
           PROVE  Peek(p_data', c) = Peek(p_data, c)
      <4>1. c \in HEADER_ELEMENTS .. mem_used - 1
        BY <3>1, <3>2, <3>12, HeadersInside
      <4>2. c \in 0 .. mem_used - 1
        BY <3>2, <4>1
      <4> QED BY <3>10, <3>11, <3>12, <4>2
    <3>13. Tiled(data, p_data', mem_used)
      <4>1. mem_used \in HEADER_ELEMENTS .. Cells(p_data')
        BY <3>2, <3>8, <3>9
      <4> QED BY <3>1, <3>2, <3>12, <4>1, CopyTiled
    <3>14. GoodVersion(p_data')
      <4>1. 0 \in 0 .. mem_used - 1 /\ ~(e.index <= 0)
        <5>1. 3 <= e.index
          BY <3>6
        <5> QED BY <3>2, <3>6, <3>9, <5>1
      <4>2. p_data'[0] = p_data[0]
        BY <3>11, <4>1
      <4> QED BY <3>1, <4>2 DEF GoodVersion
    <3> QED BY <2>2, <2>3, <3>1, <3>13, <3>14 DEF Sound, parser
  <2> QED BY <2>4, <2>5
<1> QED BY <1>1, <1>2

(* In a tiled and ordered table: where the elements are. *)
LEMMA Places ==
  ASSUME NEW table \in Seq(Elements), NEW limit \in Nat, Ordered(table, limit),
         NEW i \in DOMAIN table
  PROVE  LET e == table[i]
         IN /\ e \in Elements /\ StartOf(e) \in Nat /\ e.index \in Nat
            /\ EndOf(e) \in Nat
            /\ HEADER_ELEMENTS <= StartOf(e) /\ StartOf(e) < e.index
            /\ e.index <= EndOf(e) /\ EndOf(e) <= limit
            /\ HeaderBytes(e) + e.size = EndOf(e) - StartOf(e)
<1> DEFINE e == table[i]
<1>1. e \in Elements
  BY ElementOfSeq, LenProperties
<1>2. HEADER_ELEMENTS <= StartOf(e) /\ EndOf(e) <= limit
  BY DEF Ordered
<1> HIDE DEF e
<1>3. /\ e.index \in Nat /\ e.size \in Nat /\ StartOf(e) \in Int
      /\ e.index = StartOf(e) + HeaderBytes(e)
      /\ EndOf(e) \in Nat /\ EndOf(e) = e.index + e.size
      /\ HeaderBytes(e) \in {2, 3}
  BY <1>1, ElementBounds, HeaderBytesNat
<1>4. StartOf(e) \in Nat /\ StartOf(e) < e.index
  BY <1>2, <1>3
<1>5. e.index <= EndOf(e) /\ HeaderBytes(e) + e.size = EndOf(e) - StartOf(e)
  BY <1>3, SMTT(30)
<1> QED BY <1>1, <1>2, <1>3, <1>4, <1>5 DEF e

(* The elements of a table that follow one another up to limit, wherever   *)
(* the first begins.                                                       *)
Apart(table, limit) ==
  \A i \in DOMAIN table :
    /\ 0 <= StartOf(table[i]) /\ EndOf(table[i]) <= limit
    /\ \A j \in DOMAIN table : i < j => EndOf(table[i]) <= StartOf(table[j])

LEMMA OrderedApart ==
  ASSUME NEW table \in Seq(Elements), NEW limit \in Nat, Ordered(table, limit)
  PROVE  Apart(table, limit)
<1>1. ASSUME NEW i \in DOMAIN table
      PROVE  0 <= StartOf(table[i]) /\ EndOf(table[i]) <= limit
  <2>1. StartOf(table[i]) \in Nat /\ EndOf(table[i]) <= limit
    BY Places
  <2> QED BY <2>1
<1>2. \A i, j \in DOMAIN table : i < j => EndOf(table[i]) <= StartOf(table[j])
  BY DEF Ordered
<1> QED BY <1>1, <1>2 DEF Apart

LEMMA ApartPlaces ==
  ASSUME NEW table \in Seq(Elements), NEW limit \in Nat, Apart(table, limit),
         NEW i \in DOMAIN table
  PROVE  LET e == table[i]
         IN /\ e \in Elements /\ StartOf(e) \in Nat /\ e.index \in Nat
            /\ EndOf(e) \in Nat
            /\ StartOf(e) < e.index /\ e.index <= EndOf(e) /\ EndOf(e) <= limit
            /\ HeaderBytes(e) + e.size = EndOf(e) - StartOf(e)
<1> DEFINE e == table[i]
<1>1. e \in Elements
  BY ElementOfSeq, LenProperties
<1>2. 0 <= StartOf(e) /\ EndOf(e) <= limit
  BY DEF Apart
<1> HIDE DEF e
<1>3. /\ e.index \in Nat /\ e.size \in Nat /\ StartOf(e) \in Int
      /\ e.index = StartOf(e) + HeaderBytes(e)
      /\ EndOf(e) \in Nat /\ EndOf(e) = e.index + e.size
      /\ HeaderBytes(e) \in {2, 3}
  BY <1>1, ElementBounds, HeaderBytesNat
<1>4. StartOf(e) \in Nat /\ StartOf(e) < e.index
  BY <1>2, <1>3
<1>5. e.index <= EndOf(e) /\ HeaderBytes(e) + e.size = EndOf(e) - StartOf(e)
  BY <1>3, SMTT(30)
<1> QED BY <1>1, <1>2, <1>3, <1>4, <1>5 DEF e

(* The table a Delete leaves: the elements behind the deleted one, and     *)
(* only they, move up by its cells.                                        *)
LEMMA DeletedTable ==
  ASSUME data \in Seq(Elements), NEW limit \in Nat, limit < U32,
         Apart(data, limit), NEW k \in DOMAIN data, NEW total \in Nat,
         total = EndOf(data[k]) - StartOf(data[k])
  PROVE  LET table == Reindexed(k, total)
         IN /\ table \in Seq(Elements) /\ Len(table) = Len(data) - 1
            /\ \A i \in 1 .. Len(data) - 1 :
                 IF i < k THEN table[i] = data[i]
                 ELSE /\ table[i] =
                           [data[i + 1] EXCEPT !.index = data[i + 1].index - total]
                      /\ StartOf(table[i]) = StartOf(data[i + 1]) - total
                      /\ EndOf(table[i]) = EndOf(data[i + 1]) - total
                      /\ data[i + 1].index - total \in Nat
<1> DEFINE n == Len(data)
           table == Reindexed(k, total)
           moved(i) == IF data[i].index > data[k].index
                       THEN [data[i] EXCEPT !.index = AsU32(@ - total)]
                       ELSE data[i]
<1>1. n \in Nat /\ DOMAIN data = 1 .. n /\ k \in 1 .. n
  BY LenProperties
<1>2. /\ table \in Seq(Elements) /\ Len(table) = n - 1
      /\ \A i \in 1 .. n - 1 :
           table[i] = IF i < k THEN moved(i) ELSE moved(i + 1)
  BY ReindexedTable
<1> HIDE DEF table, n
<1>3. /\ StartOf(data[k]) \in Nat /\ data[k].index \in Nat /\ EndOf(data[k]) \in Nat
      /\ StartOf(data[k]) < data[k].index /\ data[k].index <= EndOf(data[k])
  BY ApartPlaces
<1>4. ASSUME NEW i \in 1 .. n - 1, i < k
      PROVE  table[i] = data[i]
  <2>1. i \in DOMAIN data
    BY <1>1, <1>4
  <2>2. /\ data[i].index \in Nat /\ EndOf(data[i]) \in Nat
        /\ data[i].index <= EndOf(data[i])
    BY <2>1, ApartPlaces
  <2>3. EndOf(data[i]) <= StartOf(data[k])
    BY <1>4, <2>1 DEF Apart
  <2>4. ~(data[i].index > data[k].index)
    BY <1>3, <2>2, <2>3
  <2> QED BY <1>2, <1>4, <2>4
<1>5. ASSUME NEW i \in 1 .. n - 1, ~(i < k)
      PROVE  /\ table[i] = [data[i + 1] EXCEPT !.index = data[i + 1].index - total]
             /\ StartOf(table[i]) = StartOf(data[i + 1]) - total
             /\ EndOf(table[i]) = EndOf(data[i + 1]) - total
             /\ data[i + 1].index - total \in Nat
  <2> DEFINE d == data[i + 1]
             e == table[i]
  <2>1. i + 1 \in DOMAIN data /\ k < i + 1
    BY <1>1, <1>5
  <2>2. /\ d \in Elements /\ StartOf(d) \in Nat /\ d.index \in Nat
        /\ EndOf(d) \in Nat
        /\ StartOf(d) < d.index /\ d.index <= EndOf(d) /\ EndOf(d) <= limit
    BY <2>1, ApartPlaces
  <2>3. EndOf(data[k]) <= StartOf(d)
    BY <2>1 DEF Apart
  <2>4. d.index > data[k].index
    BY <1>3, <2>2, <2>3, SMTT(30)
  <2>5. e = [d EXCEPT !.index = AsU32(d.index - total)]
    BY <1>2, <1>5, <2>4
  <2> HIDE DEF d, e
  <2>6. d.index - total \in 0 .. U32 - 1
    <3> DEFINE start == StartOf(data[k])
               stop  == EndOf(data[k])
               at    == d.index
    <3>1. start \in Nat /\ stop \in Nat /\ total = stop - start
      BY <1>3
    <3>2. start <= stop
      BY <1>3
    <3>3. at \in Nat /\ stop <= at /\ at <= limit
      BY <2>2, <2>3, <3>1
    <3>4. U32 \in Nat
      BY FormatAssumption
    <3> HIDE DEF start, stop, at
    <3>5. at - total \in 0 .. U32 - 1
      BY <3>1, <3>2, <3>3, <3>4
    <3> QED BY <3>5 DEF at
  <2>7. AsU32(d.index - total) = d.index - total
    BY <2>6, AsU32Fits
  <2>8. d.index - total \in Nat
    BY <2>6
  <2>9. e = [d EXCEPT !.index = d.index - total]
    BY <2>5, <2>7
  <2>10. /\ e.index = d.index - total /\ e.size = d.size
         /\ e.basic_type = d.basic_type /\ d.size \in Nat
    BY <2>2, <2>8, <2>9, IndexedElement DEF Elements
  <2>11. HeaderBytes(e) = HeaderBytes(d) /\ HeaderBytes(d) \in {2, 3}
    BY <2>10 DEF HeaderBytes
  <2>12. StartOf(e) = StartOf(d) - total
    <3>1. /\ StartOf(e) = e.index - HeaderBytes(e)
          /\ StartOf(d) = d.index - HeaderBytes(d)
      BY DEF StartOf
    <3>2. d.index \in Nat /\ HeaderBytes(d) \in Nat
      BY <2>2, <2>11
    <3> QED BY <2>10, <2>11, <3>1, <3>2
  <2>13. EndOf(e) = EndOf(d) - total
    BY <2>2, <2>10 DEF EndOf
  <2> QED BY <2>8, <2>9, <2>12, <2>13 DEF d, e
<1>6. ASSUME NEW i \in 1 .. n - 1
      PROVE  IF i < k THEN table[i] = data[i]
             ELSE /\ table[i] =
                       [data[i + 1] EXCEPT !.index = data[i + 1].index - total]
                  /\ StartOf(table[i]) = StartOf(data[i + 1]) - total
                  /\ EndOf(table[i]) = EndOf(data[i + 1]) - total
                  /\ data[i + 1].index - total \in Nat
  BY <1>4, <1>5, Zenon
<1> QED BY <1>2, <1>6 DEF n, table

(* The block of a message after a Delete: the cells behind the element     *)
(* have moved to where it was.                                             *)
LEMMA ErasedBlock ==
  ASSUME TypeOK, NEW k \in DOMAIN data, Erase(k),
         mem_used < U64, StartOf(data[k]) \in Nat, EndOf(data[k]) <= mem_used
  PROVE  LET start == StartOf(data[k])
             total == HeaderBytes(data[k]) + data[k].size
         IN /\ total \in Nat /\ total = EndOf(data[k]) - start
            /\ mem_used' = mem_used - total /\ mem_used' \in Nat
            /\ start <= mem_used'
            /\ p_data' \in Block(p_size)
            /\ \A j \in 0 .. p_size - 1 :
                 j \notin {SIZE, ELEMENTS} =>
                   p_data'[j] = IF start <= j /\ j < mem_used'
                                THEN Peek(p_data, j + total) ELSE p_data[j]
<1> DEFINE start == StartOf(data[k])
           total == HeaderBytes(data[k]) + data[k].size
           used == mem_used - total
           b == CloseGap(p_data, start, total, mem_used)
<1>1. /\ data \in Seq(Elements) /\ mem_used \in Nat /\ p_size \in Nat
      /\ el_size \in Nat /\ p_data \in Block(p_size)
  BY DEF TypeOK
<1>2. /\ mem_used' = AsU64(used) /\ el_size' = AsU64(el_size - 1)
      /\ p_data' = WriteHeader(b, mem_used', el_size')
  BY DEF Erase
<1>3. data[k] \in Elements
  BY <1>1, ElementOfSeq, LenProperties
<1>4. total \in Nat /\ total = EndOf(data[k]) - start
  BY <1>3, ElementBounds
<1> HIDE DEF total
<1>5. used \in 0 .. mem_used /\ start <= used
  BY <1>1, <1>3, <1>4, ElementBounds
<1>6. mem_used' = used /\ el_size' \in Nat
  <2>1. used \in 0 .. U64 - 1
    BY <1>1, <1>5, FormatAssumption
  <2> QED BY <1>1, <1>2, <1>5, <2>1, AsU64Fits
<1>7. /\ b \in Block(p_size)
      /\ \A j \in 0 .. p_size - 1 :
           b[j] = IF start <= j /\ j < mem_used - total THEN Peek(p_data, j + total)
                  ELSE p_data[j]
  <2>1. start \in Int /\ total \in Nat
    BY <1>4
  <2> HIDE DEF start
  <2>2. CloseGap(p_data, start, total, mem_used) \in Block(p_size)
    BY <1>1, <2>1, CloseGapBlock
  <2>3. \A j \in 0 .. p_size - 1 :
          CloseGap(p_data, start, total, mem_used)[j] =
            IF start <= j /\ j < mem_used - total THEN Peek(p_data, j + total)
            ELSE p_data[j]
    BY <1>1, <2>1, CloseGapBlock
  <2> QED BY <2>2, <2>3
<1> HIDE DEF b, start
<1>8. /\ p_data' \in Block(p_size)
      /\ \A j \in 0 .. p_size - 1 :
           j \notin {SIZE, ELEMENTS} => p_data'[j] = b[j]
  <2>1. mem_used' \in Nat
    BY <1>5, <1>6
  <2> HIDE DEF used
  <2>2. b \in Block(p_size) /\ el_size' \in Nat
    BY <1>6, <1>7
  <2>3. WriteHeader(b, mem_used', el_size') \in Block(p_size)
    BY <1>1, <2>1, <2>2, HeaderBlock
  <2>4. \A j \in 0 .. p_size - 1 :
          j \notin {SIZE, ELEMENTS} => WriteHeader(b, mem_used', el_size')[j] = b[j]
    BY <1>1, <2>1, <2>2, HeaderBlock
  <2> QED BY <1>2, <2>3, <2>4
<1> QED BY <1>4, <1>5, <1>6, <1>7, <1>8 DEF total, start

LEMMA EraseSound ==
  ASSUME MaxCells < U32, LayoutInv, validData, ~readOnly,
         NEW k \in DOMAIN data, Erase(k), UNCHANGED <<readOnly, p_size>>
  PROVE  /\ Tiled(data', p_data', mem_used') /\ GoodVersion(p_data')
         /\ Ordered(data', mem_used') /\ mem_used' <= MaxCells
<1> DEFINE n == Len(data)
           start == StartOf(data[k])
           total == HeaderBytes(data[k]) + data[k].size
           used == mem_used - total
           T == Reindexed(k, total)
           c == p_data'
<1>1. /\ Tiled(data, p_data, mem_used) /\ GoodVersion(p_data)
      /\ Ordered(data, mem_used) /\ mem_used <= MaxCells
      /\ data \in Seq(Elements) /\ mem_used \in Nat /\ p_size \in Nat
      /\ el_size \in Nat
      /\ p_data \in Block(p_size) /\ Cells(p_data) = p_size /\ IsBlock(p_data)
  BY CellsOfBlock DEF LayoutInv, LayoutOK, TypeOK, SourceData
<1>2. n \in Nat /\ DOMAIN data = 1 .. n /\ k \in 1 .. n
  BY <1>1, LenProperties
<1>3. /\ start \in Nat /\ EndOf(data[k]) \in Nat /\ EndOf(data[k]) <= mem_used
      /\ HEADER_ELEMENTS <= start /\ start < EndOf(data[k])
      /\ total = EndOf(data[k]) - start
  <2>1. /\ StartOf(data[k]) \in Nat /\ data[k].index \in Nat
        /\ EndOf(data[k]) \in Nat
        /\ HEADER_ELEMENTS <= StartOf(data[k])
        /\ StartOf(data[k]) < data[k].index /\ data[k].index <= EndOf(data[k])
        /\ EndOf(data[k]) <= mem_used
        /\ HeaderBytes(data[k]) + data[k].size = EndOf(data[k]) - StartOf(data[k])
    BY <1>1, Places
  <2> QED BY <2>1
<1>4. data' = T
  BY DEF Erase
<1>5. mem_used <= p_size /\ mem_used < U32 /\ mem_used < U64
  <2>1. mem_used <= p_size
    BY <1>1 DEF Tiled
  <2> QED BY <1>1, <2>1, CallerAssumption, FormatAssumption
<1>6. /\ total \in Nat /\ mem_used' = used
      /\ c \in Block(p_size)
      /\ \A j \in 0 .. p_size - 1 :
           j \notin {SIZE, ELEMENTS} =>
             c[j] = IF start <= j /\ j < used THEN Peek(p_data, j + total)
                    ELSE p_data[j]
  <2>1. mem_used < U64 /\ start \in Nat /\ EndOf(data[k]) <= mem_used /\ TypeOK
    BY <1>3, <1>5 DEF LayoutInv
  <2> QED BY <2>1, ErasedBlock
<1> HIDE DEF n, start, T, c, total
<1>7. used \in Nat /\ HEADER_ELEMENTS <= used /\ used <= mem_used
        /\ used + total = mem_used /\ start <= used
  BY <1>1, <1>3, <1>6
<1>8. mem_used' = used
  BY <1>6
<1> HIDE DEF used
<1>9. /\ T \in Seq(Elements) /\ Len(T) = n - 1
      /\ \A i \in 1 .. n - 1 :
           IF i < k THEN T[i] = data[i]
           ELSE /\ T[i] = [data[i + 1] EXCEPT !.index = data[i + 1].index - total]
                /\ StartOf(T[i]) = StartOf(data[i + 1]) - total
                /\ EndOf(T[i]) = EndOf(data[i + 1]) - total
                /\ data[i + 1].index - total \in Nat
  <2>1. Apart(data, mem_used)
    BY <1>1, OrderedApart
  <2> QED BY <1>1, <1>3, <1>5, <1>6, <2>1, DeletedTable, ZenonT(30) DEF T, start, n
<1>10. DOMAIN T = 1 .. n - 1
  BY <1>9, LenProperties
(* The cells of the block. *)
<1>12. Cells(c) = p_size /\ IsBlock(c)
  BY <1>1, <1>6, CellsOfBlock
<1>14. ASSUME NEW j \in 0 .. start - 1, j \notin {SIZE, ELEMENTS}
       PROVE  c[j] = p_data[j] /\ Peek(c, j) = Peek(p_data, j)
  <2>1. j \in 0 .. p_size - 1 /\ ~(start <= j)
    BY <1>1, <1>3, <1>5, <1>7
  <2>2. c[j] = p_data[j]
    BY <1>6, <1>14, <2>1
  <2>3. Peek(c, j) = c[j] /\ Peek(p_data, j) = p_data[j]
    BY <1>1, <1>12, <2>1, PeekCell
  <2> QED BY <2>2, <2>3
<1>15. ASSUME NEW j \in start .. used - 1
       PROVE  Peek(c, j) = Peek(p_data, j + total)
  <2>1. j \in 0 .. p_size - 1 /\ j \notin {SIZE, ELEMENTS}
    BY <1>1, <1>3, <1>5, <1>7
  <2>2. start <= j /\ j < used
    BY <1>3, <1>7
  <2>3. c[j] = Peek(p_data, j + total)
    BY <1>6, <2>1, <2>2
  <2>4. Peek(c, j) = c[j]
    BY <1>12, <2>1, PeekCell
  <2> QED BY <2>3, <2>4
(* The positions of the elements. *)
<1>16. ASSUME NEW i \in 1 .. n
       PROVE  /\ data[i] \in Elements /\ StartOf(data[i]) \in Nat
              /\ data[i].index \in Nat /\ EndOf(data[i]) \in Nat
              /\ HEADER_ELEMENTS <= StartOf(data[i])
              /\ StartOf(data[i]) < data[i].index
              /\ data[i].index <= EndOf(data[i]) /\ EndOf(data[i]) <= mem_used
              /\ StartOf(data[i]) = Boundary(data, i)
              /\ Describes(p_data, data[i])
              /\ \A j \in 1 .. n : i < j => EndOf(data[i]) <= StartOf(data[j])
  <2>1. i \in DOMAIN data
    BY <1>2
  <2>2. /\ data[i] \in Elements /\ StartOf(data[i]) \in Nat
        /\ data[i].index \in Nat /\ EndOf(data[i]) \in Nat
        /\ HEADER_ELEMENTS <= StartOf(data[i])
        /\ StartOf(data[i]) < data[i].index
        /\ data[i].index <= EndOf(data[i]) /\ EndOf(data[i]) <= mem_used
    BY <1>1, <2>1, Places
  <2>3. StartOf(data[i]) = Boundary(data, i) /\ Describes(p_data, data[i])
    BY <1>1, <2>1 DEF Tiled
  <2>4. \A j \in 1 .. n : i < j => EndOf(data[i]) <= StartOf(data[j])
    BY <1>1, <1>2, <2>1 DEF Ordered
  <2> QED BY <2>2, <2>3, <2>4
<1>17. ASSUME NEW i \in 2 .. n
       PROVE  StartOf(data[i]) = EndOf(data[i - 1])
  <2>1. i \in 1 .. n /\ i # 1
    BY <1>2
  <2>2. StartOf(data[i]) = Boundary(data, i)
    BY <1>16, <2>1
  <2> QED BY <2>1, <2>2 DEF Boundary
<1>18. ASSUME NEW i \in 1 .. n - 1, i >= k
       PROVE  /\ StartOf(T[i]) = StartOf(data[i + 1]) - total
              /\ EndOf(T[i]) = EndOf(data[i + 1]) - total
              /\ StartOf(data[i + 1]) = EndOf(data[i])
              /\ start <= StartOf(T[i])
  <2>1. i + 1 \in 2 .. n /\ i + 1 - 1 = i /\ ~(i < k) /\ i + 1 \in 1 .. n
          /\ k < i + 1
    BY <1>2, <1>18
  <2>2. /\ StartOf(T[i]) = StartOf(data[i + 1]) - total
        /\ EndOf(T[i]) = EndOf(data[i + 1]) - total
    BY <1>9, <2>1
  <2>3. StartOf(data[i + 1]) = EndOf(data[i + 1 - 1])
    BY <1>17, <2>1
  <2>4. StartOf(data[i + 1]) \in Nat /\ EndOf(data[k]) <= StartOf(data[i + 1])
    BY <1>2, <1>16, <2>1
  <2>5. start <= StartOf(data[i + 1]) - total
    BY <1>3, <1>6, <2>4
  <2> QED BY <2>1, <2>2, <2>3, <2>5
<1>19. ASSUME NEW i \in 2 .. n
       PROVE  EndOf(T[i - 1]) = IF i <= k THEN EndOf(data[i - 1])
                                ELSE EndOf(data[i]) - total
  <2>1. i - 1 \in 1 .. n - 1 /\ i - 1 + 1 = i
    BY <1>2
  <2>2. CASE i <= k
    <3>1. i - 1 < k
      BY <1>2, <2>2
    <3>2. T[i - 1] = data[i - 1]
      BY <1>9, <2>1, <3>1
    <3> QED BY <2>2, <3>2
  <2>3. CASE ~(i <= k)
    <3>1. ~(i - 1 < k)
      BY <1>2, <2>3
    <3>2. EndOf(T[i - 1]) = EndOf(data[i - 1 + 1]) - total
      BY <1>9, <2>1, <3>1
    <3> QED BY <2>1, <2>3, <3>2
  <2> QED BY <2>2, <2>3
<1>20. ASSUME NEW i \in 1 .. n - 1
       PROVE  StartOf(T[i]) = Boundary(T, i)
  <2>1. CASE i = 1 /\ i < k
    <3>1. StartOf(data[1]) = Boundary(data, 1) /\ T[1] = data[1]
      <4>1. 1 \in 1 .. n /\ 1 \in 1 .. n - 1 /\ 1 < k
        BY <1>2, <2>1
      <4>2. T[1] = data[1]
        BY <1>9, <4>1
      <4> QED BY <1>16, <4>1, <4>2
    <3> QED BY <2>1, <3>1 DEF Boundary
  <2>2. CASE i = 1 /\ ~(i < k)
    <3>1. k = 1 /\ i >= k
      BY <1>2, <2>2
    <3>2. StartOf(T[i]) = EndOf(data[k]) - total
      BY <1>18, <2>2, <3>1
    <3>3. StartOf(T[i]) = start
      BY <1>3, <3>2
    <3>4. start = Boundary(data, 1)
      BY <1>2, <1>16, <3>1 DEF start
    <3> QED BY <2>2, <3>3, <3>4 DEF Boundary
  <2>3. CASE i # 1 /\ i < k
    <3>1. i \in 2 .. n /\ i <= k
      BY <1>2, <2>3
    <3>2. T[i] = data[i] /\ StartOf(data[i]) = EndOf(data[i - 1])
      BY <1>9, <1>17, <2>3, <3>1
    <3>3. EndOf(T[i - 1]) = EndOf(data[i - 1])
      BY <1>19, <3>1
    <3> QED BY <2>3, <3>2, <3>3 DEF Boundary
  <2>4. CASE i # 1 /\ ~(i < k)
    <3>1. i \in 2 .. n /\ i >= k
      BY <1>2, <2>4
    <3>2. StartOf(T[i]) = EndOf(data[i]) - total
      BY <1>18, <3>1
    <3>3. EndOf(T[i - 1]) = EndOf(data[i]) - total
      <4>1. CASE i = k
        <5>1. EndOf(T[i - 1]) = EndOf(data[i - 1]) /\ StartOf(data[i]) = EndOf(data[i - 1])
          BY <1>17, <1>19, <3>1, <4>1
        <5>2. StartOf(data[i]) = EndOf(data[i]) - total
          BY <1>3, <4>1 DEF start
        <5> QED BY <5>1, <5>2
      <4>2. CASE i # k
        <5>1. ~(i <= k)
          BY <1>2, <3>1, <4>2
        <5> QED BY <1>19, <3>1, <5>1
      <4> QED BY <4>1, <4>2
    <3> QED BY <2>4, <3>2, <3>3 DEF Boundary
  <2> QED BY <2>1, <2>2, <2>3, <2>4
<1>21. used = Boundary(T, n)
  <2>1. mem_used = EndOf(data[n])
    <3> DEFINE m == n + 1
    <3>1. mem_used = Boundary(data, m)
      BY <1>1 DEF Tiled, n
    <3>2. m # 1 /\ m - 1 = n
      BY <1>2
    <3> HIDE DEF m
    <3>3. Boundary(data, m) = EndOf(data[m - 1])
      BY <3>2 DEF Boundary
    <3> QED BY <3>1, <3>2, <3>3
  <2>2. CASE n = 1
    <3>1. k = 1
      BY <1>2, <2>2
    <3>2. start = Boundary(data, 1) /\ mem_used = EndOf(data[k])
      BY <1>2, <1>16, <2>1, <2>2, <3>1 DEF start
    <3>3. used = start
      BY <1>1, <1>3, <1>6, <1>7, <3>2, SMTT(30)
    <3> QED BY <2>2, <3>2, <3>3 DEF Boundary
  <2>3. CASE n # 1 /\ k = n
    <3>1. n \in 2 .. n /\ n <= k
      BY <1>2, <2>3
    <3>2. EndOf(T[n - 1]) = EndOf(data[n - 1]) /\ StartOf(data[n]) = EndOf(data[n - 1])
      BY <1>17, <1>19, <3>1
    <3>3. used = StartOf(data[n])
      BY <1>1, <1>3, <1>6, <1>7, <2>1, <2>3 DEF start
    <3> QED BY <2>3, <3>2, <3>3 DEF Boundary
  <2>4. CASE n # 1 /\ k # n
    <3>1. n \in 2 .. n /\ ~(n <= k)
      BY <1>2, <2>4
    <3>2. EndOf(T[n - 1]) = EndOf(data[n]) - total
      BY <1>19, <3>1
    <3>3. used = EndOf(data[n]) - total
      BY <1>1, <1>6, <1>7, <2>1
    <3> QED BY <2>4, <3>2, <3>3 DEF Boundary
  <2> QED BY <2>2, <2>3, <2>4
<1>22. ASSUME NEW i \in 1 .. n - 1
       PROVE  Describes(c, T[i])
  <2>1. CASE i < k
    <3>1. i \in 1 .. n /\ T[i] = data[i]
      BY <1>2, <1>9, <2>1
    <3>2. EndOf(data[i]) <= start
      BY <1>2, <1>16, <2>1, <3>1 DEF start
    <3>3. /\ StartOf(data[i]) \in Nat /\ data[i].index \in Nat
          /\ EndOf(data[i]) \in Nat /\ 3 <= StartOf(data[i])
          /\ data[i].index <= EndOf(data[i]) /\ data[i] \in Elements
          /\ Describes(p_data, data[i])
          /\ data[i].index = StartOf(data[i]) + HeaderBytes(data[i])
      BY <1>16, <3>1, ElementBounds
    <3>4. ASSUME NEW m \in 0 .. 2, m < HeaderBytes(data[i])
          PROVE  Peek(c, StartOf(data[i]) + m) = Peek(p_data, StartOf(data[i]) + m)
      <4>1. HeaderBytes(data[i]) \in {2, 3}
        BY HeaderBytesNat
      <4>2. /\ StartOf(data[i]) + m \in 0 .. start - 1
            /\ StartOf(data[i]) + m \notin {1, 2}
        BY <1>3, <3>2, <3>3, <3>4, <4>1
      <4> QED BY <1>14, <4>2
    <3> QED BY <3>1, <3>3, <3>4, CopyDescribed
  <2>2. CASE ~(i < k)
    <3> DEFINE d == data[i + 1]
               e == T[i]
    <3>1. i + 1 \in 1 .. n /\ i >= k
      BY <1>2, <2>2
    <3>2. /\ d \in Elements /\ StartOf(d) \in Nat /\ d.index \in Nat
          /\ EndOf(d) \in Nat /\ d.index <= EndOf(d) /\ EndOf(d) <= mem_used
          /\ Describes(p_data, d)
          /\ d.index = StartOf(d) + HeaderBytes(d)
      BY <1>16, <3>1, ElementBounds
    <3>3. /\ e = [d EXCEPT !.index = d.index - total] /\ d.index - total \in Nat
          /\ StartOf(e) = StartOf(d) - total /\ start <= StartOf(e)
      BY <1>9, <1>18, <2>2, <3>1
    <3> HIDE DEF d, e
    <3>4. /\ e \in Elements /\ e.type = d.type /\ e.name = d.name /\ e.size = d.size
          /\ e.basic_type = d.basic_type
      BY <3>2, <3>3, IndexedElement
    <3>5. ASSUME NEW m \in 0 .. 2, m < HeaderBytes(d)
          PROVE  Peek(c, StartOf(e) + m) = Peek(p_data, StartOf(d) + m)
      <4>1. HeaderBytes(d) \in {2, 3}
        BY HeaderBytesNat
      <4>2. StartOf(e) + m \in start .. used - 1 /\ StartOf(e) + m + total = StartOf(d) + m
        <5>1. StartOf(d) + m < mem_used
          BY <1>1, <3>2, <3>5, <4>1
        <5>2. StartOf(e) + m + total = StartOf(d) + m /\ StartOf(e) \in Int
          BY <1>6, <3>2, <3>3
        <5>3. start <= StartOf(e) /\ start \in Nat /\ used + total = mem_used
          BY <1>3, <1>7, <3>3
        <5> QED BY <1>1, <1>6, <1>7, <5>1, <5>2, <5>3
      <4>3. Peek(c, StartOf(e) + m) = Peek(p_data, StartOf(e) + m + total)
        BY <1>15, <4>2
      <4> QED BY <4>2, <4>3
    <3>6. Describes(c, e)
      BY <3>2, <3>4, <3>5, CopyDescribed
    <3> QED BY <3>6 DEF e
  <2> QED BY <2>1, <2>2
<1>23. Tiled(T, c, used)
  <2>1. used = Boundary(T, Len(T) + 1)
    BY <1>2, <1>9, <1>21
  <2>2. used \in HEADER_ELEMENTS .. Cells(c)
    BY <1>1, <1>5, <1>7, <1>12
  <2> QED BY <1>10, <1>20, <1>22, <2>1, <2>2 DEF Tiled
<1>24. ASSUME NEW i \in 1 .. n - 1
       PROVE  /\ HEADER_ELEMENTS <= StartOf(T[i])
              /\ EndOf(T[i]) <= used
              /\ \A j \in 1 .. n - 1 : i < j => EndOf(T[i]) <= StartOf(T[j])
  <2>1. CASE i < k
    <3>1. i \in 1 .. n /\ T[i] = data[i]
      BY <1>2, <1>9, <2>1
    <3>2. EndOf(data[i]) <= start /\ EndOf(data[i]) \in Nat
      BY <1>2, <1>16, <2>1, <3>1 DEF start
    <3>3. HEADER_ELEMENTS <= StartOf(T[i]) /\ EndOf(T[i]) <= used
      BY <1>3, <1>7, <1>16, <3>1, <3>2
    <3>4. ASSUME NEW j \in 1 .. n - 1, i < j
          PROVE  EndOf(T[i]) <= StartOf(T[j])
      <4>1. CASE j < k
        <5>1. j \in 1 .. n /\ T[j] = data[j]
          BY <1>2, <1>9, <4>1
        <5> QED BY <1>16, <3>1, <3>4, <5>1
      <4>2. CASE j >= k
        <5>1. start <= StartOf(T[j]) /\ StartOf(T[j]) = StartOf(data[j + 1]) - total
          BY <1>18, <4>2
        <5>2. j + 1 \in 1 .. n
          BY <1>2
        <5>3. StartOf(data[j + 1]) \in Nat
          BY <1>16, <5>2
        <5> QED BY <1>3, <1>6, <3>1, <3>2, <5>1, <5>3
      <4> QED BY <1>2, <4>1, <4>2
    <3> QED BY <3>3, <3>4
  <2>2. CASE i >= k
    <3>1. i + 1 \in 1 .. n
      BY <1>2
    <3>2. /\ StartOf(T[i]) = StartOf(data[i + 1]) - total
          /\ EndOf(T[i]) = EndOf(data[i + 1]) - total
          /\ start <= StartOf(T[i])
      BY <1>18, <2>2
    <3>3. /\ StartOf(data[i + 1]) \in Nat /\ EndOf(data[i + 1]) \in Nat
          /\ EndOf(data[i + 1]) <= mem_used
      BY <1>16, <3>1
    <3>4. HEADER_ELEMENTS <= StartOf(T[i])
      BY <1>3, <1>6, <3>2, <3>3
    <3>5. EndOf(T[i]) <= used
      BY <1>1, <1>6, <1>7, <3>2, <3>3
    <3>6. ASSUME NEW j \in 1 .. n - 1, i < j
          PROVE  EndOf(T[i]) <= StartOf(T[j])
      <4>1. j >= k /\ j + 1 \in 1 .. n /\ i + 1 < j + 1
        BY <1>2, <2>2, <3>6
      <4>2. StartOf(T[j]) = StartOf(data[j + 1]) - total
        BY <1>18, <4>1
      <4>3. EndOf(data[i + 1]) <= StartOf(data[j + 1]) /\ StartOf(data[j + 1]) \in Nat
        BY <1>16, <3>1, <4>1
      <4> QED BY <1>6, <3>2, <3>3, <4>2, <4>3
    <3> QED BY <3>4, <3>5, <3>6
  <2> QED BY <1>2, <2>1, <2>2
<1>25. Ordered(T, used)
  BY <1>10, <1>24 DEF Ordered
<1>26. GoodVersion(c)
  <2>1. 0 \in 0 .. start - 1
    BY <1>3
  <2>2. c[0] = p_data[0]
    BY <1>14, <2>1
  <2> QED BY <1>1, <2>2 DEF GoodVersion
<1>27. used <= MaxCells
  BY <1>1, <1>7, CallerAssumption
<1> QED BY <1>4, <1>8, <1>23, <1>25, <1>26, <1>27 DEF c

LEMMA DeleteSound ==
  ASSUME MaxCells < U32, LayoutInv, NEW name, Delete(name)
  PROVE  Sound' /\ Parsing' /\ Small'
<1> DEFINE error == IF readOnly THEN "ReadOnly"
                    ELSE IF Find(name) = 0 THEN "NotFound" ELSE "None"
           k == Find(name)
<1>1. CASE error # "None"
  <2>1. UNCHANGED <<object, parser, wire>> /\ pc = "ready"
    BY <1>1 DEF Delete, Fail
  <2> QED BY <2>1, IdleSound, LayoutParts DEF parser, Small
<1>2. CASE error = "None"
  <2>1. /\ ~readOnly /\ k # 0 /\ pc = "ready" /\ Erase(k)
        /\ UNCHANGED <<readOnly, validData, p_ex_data, p_size, parser, wire>>
    BY <1>2 DEF Delete
  <2>2. Parsing' /\ Small'
    BY <2>1 DEF Parsing, Small, LayoutInv, parser
  <2>3. CASE ~validData
    BY <2>1, <2>2, <2>3 DEF Sound
  <2>4. CASE validData
    <3>1. k \in DOMAIN data
      BY <2>1, FindIsThere DEF LayoutInv, TypeOK
    <3> HIDE DEF k
    <3>2. /\ Tiled(data', p_data', mem_used') /\ GoodVersion(p_data')
          /\ Ordered(data', mem_used') /\ mem_used' <= MaxCells
      BY <2>1, <2>4, <3>1, EraseSound
    <3>3. SourceData' = p_data' /\ pc' = "ready"
      BY <2>1 DEF SourceData, parser
    <3> QED BY <2>2, <3>2, <3>3 DEF Sound
  <2> QED BY <2>3, <2>4
<1> QED BY <1>1, <1>2

LEMMA CallSound ==
  ASSUME MaxCells < U32, LayoutInv, NEW name \in Names, Call(name)
  PROVE  Sound' /\ Parsing' /\ Small'
<1>1. name \in Nat
  BY CallerAssumption
<1>2. ASSUME NEW type \in Types, NEW value \in Values,
             AddScalar(name, type, value) \/ Update(name, type, value)
               \/ \E null \in BOOLEAN : AddVariable(name, type, value, null)
      PROVE  Sound' /\ Parsing' /\ Small'
  <2>1. type \in KnownTypes /\ value \in Seq(Nat)
    BY CallerAssumption
  <2>2. CASE AddScalar(name, type, value)
    <3>1. /\ pc = "ready" /\ SType[type] # 0 /\ Len(value) = SType[type]
          /\ AddValue(DType(type, name), value, FALSE)
      BY <2>2 DEF AddScalar
    <3>2. Addable(DType(type, name), value)
      BY <1>1, <2>1, <3>1, AddableScalar
    <3> QED BY <3>1, <3>2, AddValueSound
  <2>3. CASE Update(name, type, value)
    BY <2>1, <2>3, UpdateSound
  <2>4. CASE \E null \in BOOLEAN : AddVariable(name, type, value, null)
    <3> DEFINE e == [DType(type, name) EXCEPT !.size = AsU32(Len(value))]
    <3>1. PICK null \in BOOLEAN : AddVariable(name, type, value, null)
      BY <2>4
    <3>2. pc = "ready" /\ SType[type] = 0 /\ AddValue(e, value, null)
      BY <3>1 DEF AddVariable
    <3>3. Addable(e, value)
      BY <1>1, <2>1, <3>2, AddableVariable
    <3> HIDE DEF e
    <3> QED BY <3>2, <3>3, AddValueSound
  <2> QED BY <1>2, <2>2, <2>3, <2>4
<1>3. ASSUME NEW type \in Types, Get(name, type)
      PROVE  Sound' /\ Parsing' /\ Small'
  <2>1. UNCHANGED <<object, parser, wire>> /\ pc = "ready"
    BY <1>3 DEF Get, Fail
  <2> QED BY <2>1, IdleSound, LayoutParts DEF parser, Small
<1>4. CASE AddNoItems(name)
  <2>1. UNCHANGED <<object, parser, wire>> /\ pc = "ready"
    BY <1>4 DEF AddNoItems, Fail
  <2> QED BY <2>1, IdleSound, LayoutParts DEF parser, Small
<1> QED BY <1>2, <1>3, <1>4, DeleteSound DEF Call

LEMMA ChannelSound ==
  ASSUME LayoutInv, Send \/ Lose \/ Damage
  PROVE  Sound' /\ Parsing' /\ Small'
<1>1. Sound' /\ Parsing'
  <2>1. UNCHANGED object /\ pc' # "parsing"
    BY DEF Send, Lose, Damage, parser
  <2> QED BY <2>1, IdleSound, LayoutParts
<1>2. Small'
  <2>1. CASE Send
    <3>1. wire' \in Block(mem_used) /\ mem_used \in Nat /\ mem_used <= MaxCells
      BY <2>1, SourceBlock, ResizeBlock, CallerAssumption DEF Send, LayoutInv, TypeOK
    <3> QED BY <3>1, CellsOfBlock DEF Small
  <2>2. CASE Lose
    BY <2>2, NullBlock, CallerAssumption DEF Lose, Small
  <2>3. CASE Damage
    <3>1. IsBlock(wire) /\ Cells(wire) \in Nat /\ Cells(wire) <= MaxCells
      BY DEF LayoutInv, TypeOK, IsBlock
    <3>2. CASE \E k \in DOMAIN wire, c \in DamageCells : wire' = [wire EXCEPT ![k] = c]
      <4>1. DOMAIN wire' = DOMAIN wire
        BY <3>2
      <4> QED BY <3>1, <4>1 DEF Small, Cells
    <3>3. CASE \E n \in DOMAIN wire \ {0} : wire' = Resize(wire, n)
      <4>1. PICK n \in DOMAIN wire : wire' = Resize(wire, n)
        BY <3>3
      <4>2. n \in Nat /\ n < Cells(wire)
        BY <3>1 DEF IsBlock, Block
      <4>3. Cells(wire') = n
        BY <3>1, <4>1, <4>2, ResizeBlock, CellsOfBlock
      <4> QED BY <3>1, <4>2, <4>3, CallerAssumption DEF Small
    <3> QED BY <2>3, <3>2, <3>3 DEF Damage
  <2> QED BY <2>1, <2>2, <2>3
<1> QED BY <1>1, <1>2

LEMMA ResetSound ==
  ASSUME LayoutInv, Construct \/ Clear \/ Clone
  PROVE  Sound' /\ Parsing' /\ Small'
<1>1. Small' /\ pc' # "parsing"
  BY DEF Construct, Clear, Clone, CopyObject, parser, LayoutInv, Small
<1>2. CASE Construct
  BY <1>1, <1>2, EmptySound DEF Construct
<1>3. CASE Clear
  <2>1. CASE readOnly
    <3>1. UNCHANGED object
      BY <1>3, <2>1 DEF Clear
    <3> QED BY <1>1, <3>1, IdleSound, LayoutParts
  <2>2. CASE ~readOnly
    BY <1>1, <1>3, <2>2, EmptySound DEF Clear
  <2> QED BY <2>1, <2>2
<1>4. CASE Clone
  BY <1>1, <1>4, CloneSound DEF Clone
<1> QED BY <1>2, <1>3, <1>4

LEMMA LayoutStep ==
  ASSUME MaxCells < U32, LayoutInv, [NextDamage]_vars
  PROVE  LayoutInv'
<1>1. TypeOK'
  BY StepType DEF LayoutInv
<1>2. Sound' /\ Parsing' /\ Small'
  <2>1. CASE UNCHANGED vars
    BY <2>1, LayoutParts DEF vars, object, parser, Sound, Parsing, Small, SourceData
  <2>2. CASE Construct \/ Clear \/ Clone
    BY <2>2, ResetSound
  <2>3. CASE Send \/ Lose \/ Damage
    BY <2>3, ChannelSound
  <2>4. CASE BeginWrap
    BY <2>4, BeginWrapSound
  <2>5. CASE Parse
    BY <2>5, ParseSound
  <2>6. CASE \E name \in Names : Call(name)
    BY <2>6, CallSound
  <2> QED BY <2>1, <2>2, <2>3, <2>4, <2>5, <2>6 DEF NextDamage, Next
<1> QED BY <1>1, <1>2, PartsTogether

LEMMA LayoutInit ==
  ASSUME Init
  PROVE  LayoutInv
<1> DEFINE n == Reserve(0, 0, HEADER_ELEMENTS)
<1>1. /\ n \in Nat /\ n >= HEADER_ELEMENTS /\ EmptyBlock \in Block(n)
      /\ EmptyBlock[VERSION] = MESS_VERSION
  BY EmptyBlockType
<1> HIDE DEF n
<1>2. Cells(EmptyBlock) = n
  BY <1>1, CellsOfBlock
<1>3. Tiled(<< >>, EmptyBlock, HEADER_ELEMENTS) /\ Ordered(<< >>, HEADER_ELEMENTS)
  BY <1>1, <1>2, EmptyTiled
<1>4. GoodVersion(EmptyBlock)
  BY <1>1 DEF GoodVersion, MESS_VERSION, MIN_MESS_VERSION
<1>5. /\ data = << >> /\ SourceData = EmptyBlock /\ mem_used = HEADER_ELEMENTS
      /\ pc = "ready" /\ wire = NULL
  BY DEF Init, SourceData
<1>6. Sound /\ Parsing /\ Small
  BY <1>3, <1>4, <1>5, NullBlock, CallerAssumption DEF Sound, Parsing, Small
<1> QED BY <1>6, InitType, LayoutParts

(* The layout invariant, in every state of the object and of a channel     *)
(* that loses and damages what it carries: ParseData, Add, Update, Delete  *)
(* and Clone each keep the table ordered and tiled, and no offset the code *)
(* stores in a uint32_t overflows it.                                      *)
THEOREM LayoutInvariant ==
  ASSUME MaxCells < U32
  PROVE  SpecDamage => []LayoutInv
<1>1. LayoutInv /\ [NextDamage]_vars => LayoutInv'
  BY LayoutStep
<1> QED BY LayoutInit, <1>1, PTL DEF SpecDamage

(* While the channel only loses messages, whatever the fairness: the table *)
(* of a valid message tiles its buffer, so that every value a Get copies   *)
(* lies inside the buffer under the header of its own element.             *)
THEOREM LayoutCorrect ==
  ASSUME MaxCells < U32
  PROVE  Spec => []LayoutOK
<1>1. LayoutInv /\ [Next]_vars => LayoutInv'
  BY LayoutStep DEF NextDamage
<1>2. LayoutInv => LayoutOK
  BY DEF LayoutInv
<1> QED BY LayoutInit, <1>1, <1>2, PTL DEF Spec

-----------------------------------------------------------------------------
(* Get never reads outside the block of a message, valid or not: GetInside.*)
(*                                                                         *)
(* The layout invariant speaks of valid messages.  What a refused          *)
(* constructor leaves in its table, what a Clone copies of it and what     *)
(* Adds and Deletes make of the clone need not describe their block, nor   *)
(* begin behind a header; but they follow one another inside it.           *)

Inside ==
  /\ ~readOnly => mem_used <= p_size
  /\ data # << >> =>
       Apart(data, mem_used) /\ mem_used <= Cells(SourceData) /\ mem_used <= MaxCells

InsideInv == LayoutInv /\ Inside

-----------------------------------------------------------------------------
(* What the layout says of valid messages and of those that are parsed.    *)

LEMMA ValidInside ==
  ASSUME LayoutInv, validData
  PROVE  Inside
<1>1. /\ data \in Seq(Elements) /\ mem_used \in Nat /\ Ordered(data, mem_used)
      /\ mem_used <= MaxCells /\ mem_used <= Cells(SourceData)
  BY DEF LayoutInv, LayoutOK, TypeOK, Tiled
<1>2. ~readOnly => mem_used <= p_size
  BY <1>1, CellsOfBlock DEF LayoutInv, TypeOK, SourceData
<1>3. Apart(data, mem_used)
  BY <1>1, OrderedApart
<1> QED BY <1>1, <1>2, <1>3 DEF Inside

LEMMA ParsingInside ==
  ASSUME LayoutInv, pc = "parsing"
  PROVE  Inside
<1>1. /\ data \in Seq(Elements) /\ curr_index \in Nat /\ mem_used \in Nat
      /\ readOnly /\ Ordered(data, curr_index) /\ curr_index <= mem_used
      /\ mem_used = Cells(p_ex_data) /\ mem_used <= MaxCells
  BY DEF LayoutInv, LayoutOK, TypeOK, Tiled
<1>2. Ordered(data, mem_used)
  <2>1. ASSUME NEW i \in DOMAIN data
        PROVE  EndOf(data[i]) <= mem_used
    <3>1. EndOf(data[i]) \in Nat /\ EndOf(data[i]) <= curr_index
      BY <1>1, Places
    <3> QED BY <1>1, <3>1
  <2> QED BY <1>1, <2>1 DEF Ordered
<1>3. Apart(data, mem_used)
  BY <1>1, <1>2, OrderedApart
<1> QED BY <1>1, <1>3 DEF Inside, SourceData

LEMMA LayoutInside ==
  (LayoutInv /\ (validData \/ pc = "parsing") => Inside)'
<1>1. LayoutInv /\ (validData \/ pc = "parsing") => Inside
  BY ValidInside, ParsingInside
<1> QED BY <1>1, PTL

LEMMA SameInside ==
  ASSUME Inside, UNCHANGED object
  PROVE  Inside'
BY DEF Inside, object, SourceData

-----------------------------------------------------------------------------
(* The operations on a message that is not valid. *)

LEMMA CloneInside ==
  ASSUME TypeOK, Inside, CopyObject
  PROVE  Inside'
<1>1. /\ mem_used \in Nat /\ ~readOnly' /\ p_size' = mem_used
      /\ p_data' = Resize(SourceData, mem_used) /\ UNCHANGED <<data, mem_used>>
  BY DEF TypeOK, CopyObject
<1>2. Cells(p_data') = mem_used
  BY <1>1, SourceBlock, ResizeBlock, CellsOfBlock
<1> QED BY <1>1, <1>2 DEF Inside, SourceData

LEMMA AppendApart ==
  ASSUME NEW table \in Seq(Elements), NEW limit \in Nat,
         table # << >> => Apart(table, limit),
         NEW d \in Elements, StartOf(d) = limit
  PROVE  Apart(Append(table, d), EndOf(d))
<1> DEFINE n    == Len(table)
           long == Append(table, d)
<1>1. /\ n \in Nat /\ DOMAIN table = 1 .. n /\ DOMAIN long = 1 .. n + 1
      /\ long[n + 1] = d /\ \A i \in 1 .. n : long[i] = table[i]
  BY AppendProperties, LenProperties
<1>2. EndOf(d) \in Nat /\ limit <= EndOf(d)
  BY ElementBounds
<1>3. ASSUME NEW i \in 1 .. n
      PROVE  /\ 0 <= StartOf(table[i]) /\ EndOf(table[i]) <= limit
             /\ EndOf(table[i]) \in Nat
             /\ \A j \in 1 .. n : i < j => EndOf(table[i]) <= StartOf(table[j])
  <2>1. table # << >>
    BY <1>1, <1>3
  <2>2. Apart(table, limit) /\ i \in DOMAIN table
    BY <1>1, <2>1
  <2>3. EndOf(table[i]) \in Nat
    BY <2>2, ApartPlaces
  <2> QED BY <1>1, <2>2, <2>3 DEF Apart
<1> HIDE DEF n, long
<1>4. ASSUME NEW i \in 1 .. n + 1
      PROVE  /\ 0 <= StartOf(long[i]) /\ EndOf(long[i]) <= EndOf(d)
             /\ \A j \in 1 .. n + 1 : i < j => EndOf(long[i]) <= StartOf(long[j])
  <2>1. CASE i = n + 1
    <3>1. long[i] = d /\ \A j \in 1 .. n + 1 : ~(i < j)
      BY <1>1, <2>1
    <3> QED BY <1>2, <3>1
  <2>2. CASE i # n + 1
    <3>1. i \in 1 .. n
      BY <1>1, <2>2
    <3>2. /\ long[i] = table[i] /\ 0 <= StartOf(table[i])
          /\ EndOf(table[i]) <= limit /\ EndOf(table[i]) \in Nat
      BY <1>1, <1>3, <3>1
    <3>3. ASSUME NEW j \in 1 .. n + 1, i < j
          PROVE  EndOf(long[i]) <= StartOf(long[j])
      <4>1. CASE j = n + 1
        BY <1>1, <3>2, <4>1
      <4>2. CASE j # n + 1
        <5>1. j \in 1 .. n
          BY <1>1, <4>2
        <5> QED BY <1>1, <1>3, <3>1, <3>2, <3>3, <5>1
      <4> QED BY <4>1, <4>2
    <3>4. EndOf(long[i]) <= EndOf(d)
      <4> DEFINE x == EndOf(table[i])
                 y == EndOf(d)
      <4>1. x \in Nat /\ y \in Nat /\ x <= limit /\ limit <= y
        BY <1>2, <3>2
      <4> HIDE DEF x, y
      <4>2. x <= y
        BY <4>1
      <4> QED BY <3>2, <4>2 DEF x, y
    <3> QED BY <3>2, <3>3, <3>4
  <2> QED BY <2>1, <2>2
<1> QED BY <1>1, <1>4 DEF Apart, long

LEMMA AddInside ==
  ASSUME MaxCells < U32, TypeOK, Inside, ~readOnly, ~readOnly',
         NEW e, NEW value, Addable(e, value), AddElementToBuffer(e, value),
         mem_used + HeaderBytes(e) + e.size <= MaxCells,
         data' = Append(data, [e EXCEPT !.index = AsU32(mem_used + HeaderBytes(e))])
  PROVE  Inside'
<1> DEFINE at     == mem_used + HeaderBytes(e)
           d      == [e EXCEPT !.index = at]
           cells  == Encode(e, value)
           more   == Reserve(p_size, mem_used, Len(cells))
           size   == p_size + more
           stored == Write(Resize(p_data, size), mem_used, cells)
<1>1. /\ data \in Seq(Elements) /\ mem_used \in Nat /\ p_size \in Nat
      /\ p_data \in Block(p_size) /\ el_size \in Nat /\ IsBlock(p_data)
  BY CellsOfBlock DEF TypeOK
<1>2. e \in Elements /\ e.size \in Nat /\ HeaderBytes(e) \in Nat
  BY HeaderBytesNat, SMTT(30) DEF Addable, Elements
<1>3. cells \in Seq(Nat) /\ Len(cells) = HeaderBytes(e) + e.size
  BY EncodeCells DEF Addable
<1>4. /\ p_size' = size /\ mem_used' = mem_used + Len(cells)
      /\ p_data' = WriteHeader(stored, mem_used', el_size')
      /\ el_size' = AsU64(el_size + 1)
  BY DEF AddElementToBuffer
<1> HIDE DEF cells
<1>5. more \in Nat /\ size >= mem_used + Len(cells)
  <2>1. Len(cells) \in Nat
    BY <1>2, <1>3
  <2> QED BY <1>1, <2>1, ReserveEnough
<1> HIDE DEF more
<1>6. size \in Nat /\ mem_used' \in Nat /\ mem_used' = at + e.size
      /\ mem_used' <= size
  BY <1>1, <1>2, <1>3, <1>4, <1>5, SMTT(30)
<1>7. Cells(p_data') = size
  <2> HIDE DEF size
  <2>1. Resize(p_data, size) \in Block(size)
    BY <1>1, <1>6, ResizeBlock
  <2>2. stored \in Block(size)
    <3>1. mem_used \in Int
      BY <1>1
    <3> QED BY <1>3, <1>6, <2>1, <3>1, WriteBlock
  <2>3. el_size' \in Nat
    <3>1. el_size + 1 \in Int
      BY <1>1
    <3> QED BY <1>4, <3>1, FormatAssumption DEF AsU64
  <2> HIDE DEF stored
  <2> QED BY <1>4, <1>6, <2>2, <2>3, HeaderBlock, CellsOfBlock
<1>8. AsU32(at) = at /\ at \in Nat
  <2>1. at \in 0 .. U32 - 1
    BY <1>1, <1>2, CallerAssumption, FormatAssumption
  <2> QED BY <2>1, AsU32Fits
<1>9. /\ d \in Elements /\ d.index = at /\ d.size = e.size
      /\ HeaderBytes(d) = HeaderBytes(e) /\ data' = Append(data, d)
  BY <1>2, <1>8, IndexedElement DEF HeaderBytes, Elements
<1> HIDE DEF d, size
<1>10. StartOf(d) = mem_used /\ EndOf(d) = mem_used'
  BY <1>1, <1>2, <1>6, <1>9 DEF StartOf, EndOf
<1>11. Apart(data', mem_used')
  <2>1. data # << >> => Apart(data, mem_used)
    BY DEF Inside
  <2> QED BY <1>1, <1>9, <1>10, <2>1, AppendApart
<1>12. mem_used' <= MaxCells
  BY <1>6
<1> QED BY <1>4, <1>6, <1>7, <1>11, <1>12 DEF Inside, SourceData

LEMMA DeletedApart ==
  ASSUME data \in Seq(Elements), NEW limit \in Nat, limit < U32,
         Apart(data, limit), NEW k \in DOMAIN data, NEW total \in Nat,
         total = EndOf(data[k]) - StartOf(data[k])
  PROVE  Apart(Reindexed(k, total), limit - total)
<1> DEFINE n == Len(data)
           T == Reindexed(k, total)
           from(i) == StartOf(data[i])
           to(i) == EndOf(data[i])
<1>1. n \in Nat /\ DOMAIN data = 1 .. n /\ k \in 1 .. n
  BY LenProperties
<1>2. /\ T \in Seq(Elements) /\ Len(T) = n - 1
      /\ \A i \in 1 .. n - 1 :
           IF i < k THEN T[i] = data[i]
           ELSE /\ T[i] = [data[i + 1] EXCEPT !.index = data[i + 1].index - total]
                /\ StartOf(T[i]) = from(i + 1) - total
                /\ EndOf(T[i]) = to(i + 1) - total
                /\ data[i + 1].index - total \in Nat
  BY DeletedTable
<1>3. DOMAIN T = 1 .. n - 1
  BY <1>2, LenProperties
<1>4. ASSUME NEW i \in 1 .. n
      PROVE  from(i) \in Nat /\ to(i) \in Nat /\ from(i) <= to(i) /\ to(i) <= limit
  <2>1. /\ StartOf(data[i]) \in Nat /\ EndOf(data[i]) \in Nat
        /\ data[i].index \in Nat /\ StartOf(data[i]) < data[i].index
        /\ data[i].index <= EndOf(data[i]) /\ EndOf(data[i]) <= limit
    BY <1>1, ApartPlaces
  <2> QED BY <2>1
<1>5. \A i, j \in 1 .. n : i < j => to(i) <= from(j)
  BY <1>1 DEF Apart
<1>6. total = to(k) - from(k)
  OBVIOUS
<1>7. \A i \in 1 .. n - 1 :
        /\ i < k => StartOf(T[i]) = from(i) /\ EndOf(T[i]) = to(i)
        /\ ~(i < k) =>
             StartOf(T[i]) = from(i + 1) - total /\ EndOf(T[i]) = to(i + 1) - total
  BY <1>2
<1> HIDE DEF from, to, T, n
<1>8. ASSUME NEW i \in 1 .. n - 1
      PROVE  /\ 0 <= StartOf(T[i]) /\ EndOf(T[i]) <= limit - total
             /\ \A j \in 1 .. n - 1 : i < j => EndOf(T[i]) <= StartOf(T[j])
  <2>1. /\ i \in 1 .. n /\ i + 1 \in 1 .. n
        /\ from(k) \in Nat /\ to(k) \in Nat /\ from(k) <= to(k) /\ to(k) <= limit
        /\ from(i) \in Nat /\ to(i) \in Nat /\ to(i) <= limit
        /\ from(i + 1) \in Nat /\ to(i + 1) \in Nat /\ to(i + 1) <= limit
    <3>1. i \in 1 .. n /\ i + 1 \in 1 .. n
      BY <1>1
    <3> QED BY <1>1, <1>4, <3>1
  <2>2. CASE i < k
    <3>1. /\ StartOf(T[i]) = from(i) /\ EndOf(T[i]) = to(i) /\ to(i) <= from(k)
      BY <1>1, <1>5, <1>7, <2>1, <2>2
    <3>2. ASSUME NEW j \in 1 .. n - 1, i < j
          PROVE  EndOf(T[i]) <= StartOf(T[j])
      <4>1. j \in 1 .. n /\ j + 1 \in 1 .. n
        BY <1>1
      <4>2. CASE j < k
        BY <1>5, <1>7, <2>1, <3>1, <3>2, <4>1, <4>2
      <4>3. CASE ~(j < k)
        <5>1. k < j + 1
          BY <1>1, <4>3
        <5>2. StartOf(T[j]) = from(j + 1) - total /\ to(k) <= from(j + 1)
          BY <1>1, <1>5, <1>7, <4>1, <4>3, <5>1
        <5>3. from(j + 1) \in Nat
          BY <1>4, <4>1
        <5>4. to(i) <= from(j + 1) - total
          <6> DEFINE x == to(i)
                     y == from(k)
                     z == to(k)
                     w == from(j + 1)
          <6>1. /\ x \in Nat /\ y \in Nat /\ z \in Nat /\ w \in Nat
                /\ x <= y /\ z <= w /\ total = z - y
            BY <1>6, <2>1, <3>1, <5>2, <5>3
          <6> HIDE DEF x, y, z, w
          <6>2. x <= w - total
            BY <6>1
          <6> QED BY <6>2 DEF x, w
        <5> QED BY <3>1, <5>2, <5>4
      <4> QED BY <4>2, <4>3
    <3>3. EndOf(T[i]) <= limit - total /\ 0 <= StartOf(T[i])
      <4> DEFINE x == to(i)
                 y == from(k)
                 z == to(k)
      <4>1. /\ x \in Nat /\ y \in Nat /\ z \in Nat
            /\ x <= y /\ z <= limit /\ total = z - y
        BY <1>6, <2>1, <3>1
      <4> HIDE DEF x, y, z
      <4>2. x <= limit - total
        BY <4>1
      <4>3. EndOf(T[i]) <= limit - total
        BY <3>1, <4>2 DEF x
      <4>4. 0 <= StartOf(T[i])
        BY <2>1, <3>1
      <4> QED BY <4>3, <4>4
    <3> QED BY <3>2, <3>3
  <2>3. CASE ~(i < k)
    <3>1. k < i + 1
      BY <1>1, <2>3
    <3>2. /\ StartOf(T[i]) = from(i + 1) - total
          /\ EndOf(T[i]) = to(i + 1) - total /\ to(k) <= from(i + 1)
      BY <1>1, <1>5, <1>7, <2>1, <2>3, <3>1
    <3>3. ASSUME NEW j \in 1 .. n - 1, i < j
          PROVE  EndOf(T[i]) <= StartOf(T[j])
      <4>1. j + 1 \in 1 .. n /\ ~(j < k) /\ i + 1 < j + 1
        BY <1>1, <2>3, <3>3
      <4>2. StartOf(T[j]) = from(j + 1) - total
        BY <1>7, <4>1
      <4>3. to(i + 1) <= from(j + 1)
        BY <1>5, <2>1, <4>1
      <4>4. from(j + 1) \in Nat
        BY <1>4, <4>1
      <4> QED BY <2>1, <3>2, <4>2, <4>3, <4>4
    <3>4. EndOf(T[i]) <= limit - total /\ 0 <= StartOf(T[i])
      <4> DEFINE x == from(i + 1)
                 y == to(i + 1)
                 z == to(k)
                 w == from(k)
      <4>1. /\ x \in Nat /\ y \in Nat /\ z \in Nat /\ w \in Nat
            /\ z <= x /\ y <= limit /\ total = z - w
        BY <1>6, <2>1, <3>2
      <4> HIDE DEF x, y, z, w
      <4>2. y - total <= limit - total /\ 0 <= x - total
        BY <4>1
      <4> QED BY <3>2, <4>2 DEF x, y
    <3> QED BY <3>3, <3>4
  <2> QED BY <2>2, <2>3
<1> QED BY <1>3, <1>8 DEF Apart, T

LEMMA EraseInside ==
  ASSUME MaxCells < U32, TypeOK, Inside, ~readOnly, NEW k \in DOMAIN data,
         Erase(k), UNCHANGED <<readOnly, p_size>>
  PROVE  Inside'
<1> DEFINE total == HeaderBytes(data[k]) + data[k].size
<1>1. /\ data \in Seq(Elements) /\ mem_used \in Nat /\ p_size \in Nat
      /\ MaxCells \in Nat /\ U32 \in Nat /\ U64 \in Nat /\ U32 <= U64
  BY CallerAssumption, FormatAssumption DEF TypeOK
<1>2. data # << >>
  BY <1>1
<1>3. /\ Apart(data, mem_used) /\ mem_used <= MaxCells /\ mem_used <= p_size
  BY <1>2 DEF Inside
<1>4. mem_used < U32 /\ mem_used < U64
  BY <1>1, <1>3
<1>5. StartOf(data[k]) \in Nat /\ EndOf(data[k]) <= mem_used
  BY <1>1, <1>3, ApartPlaces
<1>6. /\ total \in Nat /\ total = EndOf(data[k]) - StartOf(data[k])
      /\ mem_used' = mem_used - total /\ p_data' \in Block(p_size)
  BY <1>4, <1>5, ErasedBlock
<1> HIDE DEF total
<1>7. Apart(data', mem_used')
  <2>1. data' = Reindexed(k, total)
    BY DEF Erase, total
  <2> QED BY <1>1, <1>3, <1>4, <1>6, <2>1, DeletedApart
<1>8. Cells(p_data') = p_size
  BY <1>1, <1>6, CellsOfBlock
<1>9. mem_used' <= p_size /\ mem_used' <= MaxCells
  BY <1>1, <1>3, <1>6
<1> QED BY <1>7, <1>8, <1>9 DEF Inside, SourceData

-----------------------------------------------------------------------------
(* The steps. *)

(* A call on a message that is not valid leaves it so. *)
LEMMA CallInside ==
  ASSUME MaxCells < U32, TypeOK, Inside, NEW name \in Names, Call(name)
  PROVE  Inside'
<1>1. /\ name \in Nat /\ \A v \in Values : v \in Seq(Nat)
      /\ \A type \in Types : type \in KnownTypes
  BY CallerAssumption
<1>2. ASSUME NEW e, NEW value, NEW null, Addable(e, value), AddValue(e, value, null)
      PROVE  Inside'
  <2>1. CASE Refused(e, null)
    BY <2>1, SameInside DEF Refused, Fail
  <2>2. CASE ~Refused(e, null)
    <3>1. /\ ~readOnly /\ readOnly' = readOnly /\ AddElementToBuffer(e, value)
          /\ mem_used + HeaderBytes(e) + e.size <= MaxCells
          /\ data' = Append(data, [e EXCEPT !.index = AsU32(mem_used + HeaderBytes(e))])
      BY <1>2, <2>2 DEF AddValue, AddError, Refused
    <3> QED BY <1>2, <3>1, AddInside
  <2> QED BY <2>1, <2>2
<1>3. ASSUME NEW type \in Types, NEW value \in Values, AddScalar(name, type, value)
      PROVE  Inside'
  <2>1. /\ SType[type] # 0 /\ Len(value) = SType[type]
        /\ AddValue(DType(type, name), value, FALSE)
    BY <1>3 DEF AddScalar
  <2>2. Addable(DType(type, name), value)
    BY <1>1, <2>1, AddableScalar
  <2> QED BY <1>2, <2>1, <2>2
<1>4. ASSUME NEW type \in Types, NEW value \in Values, NEW null \in BOOLEAN,
             AddVariable(name, type, value, null)
      PROVE  Inside'
  <2> DEFINE e == [DType(type, name) EXCEPT !.size = AsU32(Len(value))]
  <2>1. SType[type] = 0 /\ AddValue(e, value, null)
    BY <1>4 DEF AddVariable
  <2>2. Addable(e, value)
    BY <1>1, <2>1, AddableVariable
  <2> HIDE DEF e
  <2> QED BY <1>2, <2>1, <2>2
<1>5. ASSUME NEW type \in Types, NEW value \in Values, Update(name, type, value)
      PROVE  Inside'
  <2>1. CASE UNCHANGED object
    BY <2>1, SameInside
  <2>2. CASE ~(UNCHANGED object)
    <3>1. /\ ~readOnly /\ UNCHANGED <<readOnly, data, p_size, mem_used>>
      BY <1>5, <2>2 DEF Update, Fail
    <3>2. p_data' \in Block(p_size)
      <4>1. TypeOK'
        BY <1>1, <1>5, UpdateType
      <4> QED BY <3>1, <4>1 DEF TypeOK
    <3>3. Cells(p_data') = p_size /\ Cells(p_data) = p_size
      BY <3>2, CellsOfBlock DEF TypeOK
    <3> QED BY <3>1, <3>3 DEF Inside, SourceData
  <2> QED BY <2>1, <2>2
<1>6. ASSUME NEW type \in Types, Get(name, type)
      PROVE  Inside'
  BY <1>6, SameInside DEF Get, Fail
<1>7. CASE AddNoItems(name)
  BY <1>7, SameInside DEF AddNoItems, Fail
<1>8. CASE Delete(name)
  <2>1. CASE UNCHANGED object
    BY <2>1, SameInside
  <2>2. CASE ~(UNCHANGED object)
    <3>1. /\ ~readOnly /\ Find(name) # 0 /\ Erase(Find(name))
          /\ UNCHANGED <<readOnly, p_size>>
      BY <1>8, <2>2 DEF Delete, Fail
    <3>2. Find(name) \in DOMAIN data
      BY <3>1, FindIsThere DEF TypeOK
    <3> QED BY <3>1, <3>2, EraseInside
  <2> QED BY <2>1, <2>2
<1> QED BY <1>3, <1>4, <1>5, <1>6, <1>7, <1>8 DEF Call

LEMMA InsideStep ==
  ASSUME MaxCells < U32, InsideInv, [NextDamage]_vars
  PROVE  InsideInv'
<1>1. LayoutInv /\ LayoutInv' /\ TypeOK /\ Inside
  BY LayoutStep DEF InsideInv, LayoutInv
<1>2. SUFFICES Inside'
  BY <1>1 DEF InsideInv
<1>3. CASE validData' \/ pc' = "parsing"
  BY <1>1, <1>3, LayoutInside
<1>4. CASE ~validData' /\ pc' # "parsing"
  <2>1. CASE UNCHANGED vars \/ Clear \/ Send \/ Lose \/ Damage
    <3>1. UNCHANGED object
      BY <1>4, <2>1 DEF vars, Clear, InitHeader, Send, Lose, Damage
    <3> QED BY <1>1, <3>1, SameInside
  <2>2. ~Construct /\ ~ParseElement /\ ~ParseDone
    BY <1>4 DEF Construct, InitHeader, ParseElement, ParseDone, EndParse
  <2>3. CASE Clone
    BY <1>1, <2>3, CloneInside DEF Clone
  <2>4. CASE BeginWrap
    BY <2>4 DEF BeginWrap, Inside
  <2>5. CASE ParseReject
    <3>1. readOnly
      BY <1>1, <2>5 DEF ParseReject, LayoutInv
    <3> QED BY <1>1, <2>5, <3>1 DEF ParseReject, EndParse, Inside, SourceData
  <2>6. CASE \E name \in Names : Call(name)
    BY <1>1, <2>6, CallInside
  <2> QED BY <2>1, <2>2, <2>3, <2>4, <2>5, <2>6 DEF NextDamage, Next, Parse
<1> QED BY <1>3, <1>4

LEMMA InsideInit ==
  ASSUME MaxCells < U32, Init
  PROVE  InsideInv
<1>1. LayoutInv /\ validData
  BY LayoutInit DEF Init
<1> QED BY <1>1, ValidInside DEF InsideInv

LEMMA InsideBounds ==
  ASSUME InsideInv
  PROVE  GetInside
<1>1. ASSUME NEW i \in DOMAIN data
      PROVE  EndOf(data[i]) <= Cells(SourceData)
  <2>1. data \in Seq(Elements) /\ mem_used \in Nat /\ IsBlock(SourceData)
    BY SourceBlock DEF InsideInv, LayoutInv, TypeOK
  <2>2. data # << >>
    BY <1>1
  <2>3. Apart(data, mem_used) /\ mem_used <= Cells(SourceData)
    BY <2>2 DEF InsideInv, Inside
  <2>4. EndOf(data[i]) \in Nat /\ EndOf(data[i]) <= mem_used
    BY <2>1, <2>3, ApartPlaces
  <2>5. Cells(SourceData) \in Nat
    BY <2>1 DEF IsBlock
  <2> QED BY <2>1, <2>3, <2>4, <2>5
<1> QED BY <1>1 DEF GetInside

(* Whatever buffers arrive and whatever is called on what becomes of them, *)
(* the value of each element in the table lies inside the block that a Get *)
(* copies it from: in a refused object, which keeps what ParseData found,  *)
(* and in its clones too, although Get does not ask whether they are valid.*)
THEOREM GetInsideCorrect ==
  ASSUME MaxCells < U32
  PROVE  SpecDamage => []GetInside
<1>1. Init => InsideInv
  BY InsideInit
<1>2. InsideInv /\ [NextDamage]_vars => InsideInv'
  BY InsideStep
<1>3. InsideInv => GetInside
  BY InsideBounds
<1> QED BY <1>1, <1>2, <1>3, PTL DEF SpecDamage

=============================================================================
