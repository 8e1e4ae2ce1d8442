--------------------------- MODULE WireFormatProofs ---------------------------
(***************************************************************************)
(* Lemmas about the wire format and its helpers: what they return and      *)
(* which blocks they keep, for the modules that prove things of messages.  *)
(***************************************************************************)
EXTENDS WireFormat, FiniteSetsExt, TLAPS, SequenceTheorems, FiniteSetTheorems,
        WellFoundedInduction

USE DEF HEADER_ELEMENTS, DTYPE_SIZE_NAME, SIZEOF_U32, VERSION, SIZE, ELEMENTS

LEMMA CellsOfBlock ==
  ASSUME NEW n \in Nat, NEW b \in Block(n)
  PROVE  Cells(b) = n /\ IsBlock(b)
<1>1. DOMAIN b = 0 .. n - 1
  BY DEF Block
<1>2. Cardinality(0 .. n - 1) = n
  BY FS_Interval
<1> QED BY <1>1, <1>2 DEF Cells, IsBlock

LEMMA AsU32Fits ==
  ASSUME NEW n \in Int
  PROVE  AsU32(n) \in Nat /\ AsU32(n) < U32 /\ (n \in 0 .. U32 - 1 => AsU32(n) = n)
BY FormatAssumption DEF AsU32

LEMMA AsU64Fits ==
  ASSUME NEW n \in Int
  PROVE  AsU64(n) \in Nat /\ (n \in 0 .. U64 - 1 => AsU64(n) = n)
BY FormatAssumption DEF AsU64

LEMMA ReserveEnough ==
  ASSUME NEW size \in Nat, NEW used \in Nat, NEW n \in Nat
  PROVE  /\ Reserve(size, used, n) \in Nat
         /\ size + Reserve(size, used, n) >= used + n
BY FormatAssumption DEF Reserve

LEMMA SmallestMember ==
  ASSUME NEW I \in SUBSET Nat, I # {}
  PROVE  Min(I) \in I /\ \A y \in I : Min(I) =< y
<1> DEFINE T == {1 .. i : i \in I}
           N == UNION T
<1>1. T \subseteq FiniteSubsetsOf(N)
  <2>1. ASSUME NEW i \in I
        PROVE  IsFiniteSet(1 .. i)
    BY FS_Interval
  <2> QED BY <2>1, Zenon DEF FiniteSubsetsOf
<1>2. PICK x \in T : \A y \in T : ~ (<<y, x>> \in StrictSubsetOrdering(N))
  <2>1. T # {}
    BY Zenon
  <2>2. IsWellFoundedOn(StrictSubsetOrdering(N), FiniteSubsetsOf(N))
    BY FS_StrictSubsetOrderingWellFounded, Zenon
  <2> HIDE DEF T, N
  <2> QED BY <1>1, <2>1, <2>2, WFMin, Zenon
<1>3. PICK m \in I : x = 1 .. m
  BY <1>2
<1>4. ASSUME NEW y \in I, y < m
      PROVE  FALSE
  <2>1. 1 .. y \subseteq 1 .. m /\ m \in 1 .. m /\ m \notin 1 .. y
    BY <1>4
  <2>2. 1 .. y \in T /\ 1 .. m \in T
    OBVIOUS
  <2>3. <<1 .. y, 1 .. m>> \in StrictSubsetOrdering(N)
    BY <2>1, <2>2, Zenon DEF StrictSubsetOrdering
  <2> QED BY <1>2, <1>3, <2>2, <2>3
<1>5. \A y \in I : m =< y
  BY <1>4
<1> QED BY <1>5 DEF Min

-----------------------------------------------------------------------------
(* Blocks. *)

LEMMA PeekCell ==
  ASSUME NEW b, IsBlock(b), NEW k
  PROVE  Peek(b, k) \in Nat /\ (k \in 0 .. Cells(b) - 1 => Peek(b, k) = b[k])
BY FormatAssumption DEF Peek, IsBlock, Block

LEMMA NullBlock == NULL \in Block(0) /\ IsBlock(NULL) /\ Cells(NULL) = 0
<1>1. NULL \in Block(0)
  BY DEF NULL, Block
<1> QED BY <1>1, CellsOfBlock

LEMMA ResizeBlock ==
  ASSUME NEW b, IsBlock(b), NEW n \in Nat
  PROVE  /\ Resize(b, n) \in Block(n)
         /\ \A k \in 0 .. n - 1 : Resize(b, n)[k] = Peek(b, k)
BY PeekCell DEF Resize, Block

LEMMA WriteBlock ==
  ASSUME NEW n \in Nat, NEW b \in Block(n), NEW at \in Int, NEW cells \in Seq(Nat)
  PROVE  /\ Write(b, at, cells) \in Block(n)
         /\ \A k \in 0 .. n - 1 :
              Write(b, at, cells)[k] =
                IF at <= k /\ k < at + Len(cells) THEN cells[k - at + 1] ELSE b[k]
<1>1. DOMAIN b = 0 .. n - 1 /\ \A k \in 0 .. n - 1 : b[k] \in Nat
  BY DEF Block
<1>2. Len(cells) \in Nat /\ DOMAIN cells = 1 .. Len(cells)
  BY LenProperties
<1>3. \A i \in 1 .. Len(cells) : cells[i] \in Nat
  BY ElementOfSeq
<1>4. \A k \in 0 .. n - 1 :
        k - at + 1 \in DOMAIN cells <=> at <= k /\ k < at + Len(cells)
  BY <1>2
<1> QED BY <1>1, <1>2, <1>3, <1>4 DEF Write, Block

LEMMA CloseGapBlock ==
  ASSUME NEW size \in Nat, NEW b \in Block(size),
         NEW at \in Int, NEW n \in Nat, NEW used \in Nat
  PROVE  /\ CloseGap(b, at, n, used) \in Block(size)
         /\ \A k \in 0 .. size - 1 :
              CloseGap(b, at, n, used)[k] =
                IF at <= k /\ k < used - n THEN Peek(b, k + n) ELSE b[k]
<1>1. \A k : Peek(b, k) \in Nat
  BY CellsOfBlock, PeekCell
<1> QED BY <1>1 DEF CloseGap, Block

LEMMA HeaderBlock ==
  ASSUME NEW n \in Nat, NEW b \in Block(n), NEW used \in Nat, NEW count \in Nat
  PROVE  /\ WriteHeader(b, used, count) \in Block(n)
         /\ \A k \in 0 .. n - 1 :
              k \notin {SIZE, ELEMENTS} => WriteHeader(b, used, count)[k] = b[k]
BY DEF WriteHeader, Block

LEMMA EmptyBlockType ==
  LET n == Reserve(0, 0, HEADER_ELEMENTS)
  IN /\ n \in Nat /\ n >= HEADER_ELEMENTS
     /\ EmptyBlock \in Block(n)
     /\ EmptyBlock[VERSION] = MESS_VERSION
<1> DEFINE n == Reserve(0, 0, HEADER_ELEMENTS)
           cells == <<MESS_VERSION, 0, 0>>
<1>1. n \in Nat /\ n >= HEADER_ELEMENTS
  BY ReserveEnough
<1>2. Resize(NULL, n) \in Block(n)
  BY <1>1, NullBlock, ResizeBlock
<1>3. cells \in Seq(Nat) /\ Len(cells) = 3 /\ cells[1] = MESS_VERSION
  BY DEF MESS_VERSION
<1> HIDE DEF n, cells
<1>4. /\ Write(Resize(NULL, n), 0, cells) \in Block(n)
      /\ Write(Resize(NULL, n), 0, cells)[0] = cells[1]
  BY <1>1, <1>2, <1>3, WriteBlock
<1> QED BY <1>1, <1>3, <1>4 DEF EmptyBlock, n, cells

-----------------------------------------------------------------------------
(* Elements. *)

LEMMA DTypeElement ==
  ASSUME NEW type \in KnownTypes, NEW name \in Nat
  PROVE  /\ DType(type, name) \in Elements
         /\ DType(type, name).basic_type <=> SType[type] # 0
BY FormatAssumption DEF DType, Elements, KnownTypes

LEMMA HeaderBytesNat ==
  ASSUME NEW e
  PROVE  HeaderBytes(e) \in {2, 3}
BY DEF HeaderBytes

LEMMA EncodeCells ==
  ASSUME NEW e \in Elements, NEW value \in Seq(Nat), e.size <= Len(value)
  PROVE  /\ Encode(e, value) \in Seq(Nat)
         /\ Len(Encode(e, value)) = HeaderBytes(e) + e.size
         /\ Encode(e, value)[1] = e.type
         /\ Encode(e, value)[2] = e.name
         /\ ~e.basic_type => Encode(e, value)[3] = AsU32(e.size)
         /\ \A i \in 1 .. e.size : Encode(e, value)[HeaderBytes(e) + i] = value[i]
<1> DEFINE head == <<e.type, e.name>>
           size == IF e.basic_type THEN << >> ELSE <<AsU32(e.size)>>
           body == SubSeq(value, 1, e.size)
<1>1. head \in Seq(Nat) /\ Len(head) = 2 /\ head[1] = e.type /\ head[2] = e.name
  BY DEF Elements, KnownTypes
<1>2. size \in Seq(Nat) /\ Len(size) = HeaderBytes(e) - 2
        /\ (~e.basic_type => size[1] = AsU32(e.size))
  BY AsU32Fits DEF Elements, HeaderBytes
<1>3. /\ body \in Seq(Nat) /\ Len(body) = e.size
      /\ \A i \in 1 .. e.size : body[i] = value[i]
  <2>1. e.size \in Nat
    BY DEF Elements
  <2>2. \A i \in 1 .. e.size : value[i] \in Nat
    BY <2>1, ElementOfSeq, LenProperties
  <2> QED BY <2>1, <2>2, SubSeqProperties
<1> HIDE DEF head, size, body
<1> DEFINE front == head \o size
<1>4. /\ front \in Seq(Nat)
      /\ Len(front) = HeaderBytes(e)
      /\ front[1] = e.type /\ front[2] = e.name
      /\ ~e.basic_type => front[3] = AsU32(e.size)
  <2>1. /\ front \in Seq(Nat)
        /\ Len(front) = Len(head) + Len(size)
        /\ \A i \in 1 .. Len(head) + Len(size) :
             front[i] = IF i <= Len(head) THEN head[i] ELSE size[i - Len(head)]
    BY <1>1, <1>2, ConcatProperties, Zenon
  <2>2. HeaderBytes(e) = IF e.basic_type THEN 2 ELSE 3
    BY DEF HeaderBytes
  <2>3. Len(front) = HeaderBytes(e)
    BY <1>1, <1>2, <2>1, <2>2
  <2>4. front[1] = head[1] /\ front[2] = head[2]
    BY <1>1, <1>2, <2>1, <2>2
  <2>5. ~e.basic_type => front[3] = size[1]
    BY <1>1, <1>2, <2>1, <2>2
  <2> HIDE DEF front
  <2> QED BY <1>1, <1>2, <2>1, <2>3, <2>4, <2>5
<1>5. /\ front \o body \in Seq(Nat)
      /\ Len(front \o body) = HeaderBytes(e) + e.size
      /\ \A i \in 1 .. HeaderBytes(e) : (front \o body)[i] = front[i]
      /\ \A i \in 1 .. e.size : (front \o body)[HeaderBytes(e) + i] = body[i]
  <2> HIDE DEF front
  <2>1. /\ front \o body \in Seq(Nat)
        /\ Len(front \o body) = Len(front) + Len(body)
        /\ \A i \in 1 .. Len(front) + Len(body) :
             (front \o body)[i] =
               IF i <= Len(front) THEN front[i] ELSE body[i - Len(front)]
    BY <1>3, <1>4, ConcatProperties, Zenon
  <2>2. HeaderBytes(e) \in Nat /\ e.size \in Nat
    BY HeaderBytesNat DEF Elements
  <2>3. ASSUME NEW i \in 1 .. e.size
        PROVE  (front \o body)[HeaderBytes(e) + i] = body[i]
    <3> DEFINE j == HeaderBytes(e) + i
    <3>1. /\ j \in 1 .. Len(front) + Len(body) /\ ~(j <= Len(front))
          /\ j - Len(front) = i
      BY <1>3, <1>4, <2>2, SMTT(30)
    <3> HIDE DEF j
    <3>2. (front \o body)[j] = body[i]
      BY <2>1, <3>1
    <3> QED BY <3>2 DEF j
  <2>4. ASSUME NEW i \in 1 .. HeaderBytes(e)
        PROVE  (front \o body)[i] = front[i]
    <3>1. i \in 1 .. Len(front) + Len(body) /\ i <= Len(front)
      BY <1>3, <1>4, <2>2
    <3> QED BY <2>1, <3>1
  <2>5. front \o body \in Seq(Nat) /\ Len(front \o body) = HeaderBytes(e) + e.size
    BY <1>3, <1>4, <2>1
  <2> QED BY <2>3, <2>4, <2>5
<1>6. Encode(e, value) = front \o body
  BY DEF Encode, head, size, body
<1> HIDE DEF front
<1>7. HeaderBytes(e) = IF e.basic_type THEN 2 ELSE 3
  BY DEF HeaderBytes
<1>8. /\ Encode(e, value) \in Seq(Nat)
      /\ Len(Encode(e, value)) = HeaderBytes(e) + e.size
      /\ \A i \in 1 .. e.size : Encode(e, value)[HeaderBytes(e) + i] = value[i]
  BY <1>3, <1>5, <1>6
<1>9. /\ Encode(e, value)[1] = e.type /\ Encode(e, value)[2] = e.name
      /\ ~e.basic_type => Encode(e, value)[3] = AsU32(e.size)
  BY <1>4, <1>5, <1>6, <1>7
<1> QED BY <1>8, <1>9

LEMMA IndexedElement ==
  ASSUME NEW e \in Elements, NEW n \in Nat
  PROVE  LET d == [e EXCEPT !.index = n]
         IN /\ d \in Elements
            /\ d.index = n
            /\ d.type = e.type /\ d.name = e.name /\ d.size = e.size
            /\ d.basic_type = e.basic_type
BY DEF Elements

LEMMA ScalarElement ==
  ASSUME NEW type \in KnownTypes, NEW name \in Nat, NEW value \in Seq(Nat),
         SType[type] # 0, Len(value) = SType[type]
  PROVE  LET e == DType(type, name)
         IN /\ e \in Elements /\ e.name = name /\ e.size <= Len(value)
            /\ e.size = SType[e.type] /\ e.basic_type /\ SType[e.type] # 0
<1>1. SType[type] \in Nat
  BY FormatAssumption DEF KnownTypes
<1> QED BY <1>1, DTypeElement DEF DType

LEMMA VariableElement ==
  ASSUME NEW type \in KnownTypes, NEW name \in Nat, NEW value \in Seq(Nat),
         SType[type] = 0
  PROVE  LET e == [DType(type, name) EXCEPT !.size = AsU32(Len(value))]
         IN /\ e \in Elements /\ e.name = name /\ e.size <= Len(value)
            /\ ~e.basic_type /\ SType[e.type] = 0 /\ e.size < U32
<1>1. Len(value) \in Nat
  BY LenProperties
<1>2. AsU32(Len(value)) \in Nat /\ AsU32(Len(value)) < U32
  BY <1>1, AsU32Fits
<1>3. AsU32(Len(value)) <= Len(value)
  BY <1>1, FormatAssumption DEF AsU32
<1> QED BY <1>2, <1>3, DTypeElement DEF DType, Elements

=============================================================================
