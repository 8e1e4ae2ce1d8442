----------------------------- MODULE CountsProofs -----------------------------
(***************************************************************************)
(* A message no channel has damaged counts its elements right and has no   *)
(* two of one name: CountsOK, for all types, names and values.             *)
(*                                                                         *)
(* The counts of a message go with its buffer from object to object, so    *)
(* that the invariant follows them: in the object, in the copy in flight   *)
(* and, against the table that ParseData is going to find, in a receiver.  *)
(* The clone of a message that was refused has no header of its own; that  *)
(* its bytes are never accepted as a message is a part of the invariant.   *)
(* At the end, the same of an object whose allocations may fail.           *)
(***************************************************************************)
EXTENDS AllocFailure, RoundTripProofs

USE DEF HEADER_ELEMENTS, VERSION, SIZE, ELEMENTS

(* What the theorem takes for granted.  A message without a header begins  *)
(* with the type code and the name of its first element.  Its receiver     *)
(* reads them as a version, which must not be a good one, or it takes for  *)
(* valid what has lost that element to the words written over it.          *)
TypesAreNoVersions ==
  \A type \in Types : type \notin MIN_MESS_VERSION .. MESS_VERSION

Distinct(table) ==
  \A i, j \in DOMAIN table : table[i].name = table[j].name => i = j

(* The counts of the object. *)
Counted ==
  /\ validData =>
       /\ Distinct(data)
       /\ el_size = Len(data)
       /\ SourceData[ELEMENTS] = Len(data)
       /\ data = << >> => SourceData[SIZE] \in {0, mem_used}
  /\ ~validData /\ readOnly /\ pc # "parsing" => data = << >> /\ mem_used = 0

(* Those in flight, and in a receiver that has read a part.                *)
Counting ==
  /\ pc = "sent" => wire = Resize(SourceData, mem_used) /\ mem_used > 0
  /\ pc = "parsing" =>
       \E T : /\ Carries(p_ex_data, T) /\ Prefix(data, T) /\ Distinct(T)
              /\ el_size = Len(T) /\ p_ex_data[ELEMENTS] = Len(T)

(* The elements of a message that never had a header follow one another    *)
(* from offset 0 on, each beginning with its type code.                    *)
From(table, i) == IF i = 1 THEN 0 ELSE EndOf(table[i - 1])

Coded(block, e) ==
  /\ e.type \in Types
  /\ e.basic_type <=> SType[e.type] # 0
  /\ e.basic_type => e.size = SType[e.type]
  /\ Peek(block, StartOf(e)) = e.type

Headless(table, block, limit) ==
  /\ limit = From(table, Len(table) + 1)
  /\ \A i \in DOMAIN table :
       StartOf(table[i]) = From(table, i) /\ Coded(block, table[i])

Stray == ~validData /\ ~readOnly => Headless(data, p_data, mem_used)

CountsInv == RoundTripInv /\ Inside /\ Counted /\ Stray /\ Counting

-----------------------------------------------------------------------------
(* An element takes cells of its own: there are no more elements than      *)
(* cells, so that no count wraps.                                          *)
LEMMA FewElements ==
  ASSUME NEW table \in Seq(Elements), NEW limit \in Nat, Ordered(table, limit)
  PROVE  Len(table) <= limit
<1> DEFINE n == Len(table)
           late == {i \in 1 .. n : StartOf(table[i]) < i}
<1>1. n \in Nat /\ DOMAIN table = 1 .. n
  BY LenProperties
<1>2. ASSUME NEW i \in 1 .. n
      PROVE  /\ StartOf(table[i]) \in Nat /\ EndOf(table[i]) \in Nat
             /\ 3 <= StartOf(table[i])
             /\ StartOf(table[i]) < EndOf(table[i]) /\ EndOf(table[i]) <= limit
  <2>1. /\ StartOf(table[i]) \in Nat /\ table[i].index \in Nat
        /\ EndOf(table[i]) \in Nat /\ 3 <= StartOf(table[i])
        /\ StartOf(table[i]) < table[i].index
        /\ table[i].index <= EndOf(table[i]) /\ EndOf(table[i]) <= limit
    BY <1>1, Places
  <2> QED BY <2>1
<1>3. late = {}
  <2>1. SUFFICES ASSUME late # {}
                 PROVE  FALSE
    OBVIOUS
  <2> DEFINE m == Min(late)
  <2>2. m \in late /\ \A i \in late : m <= i
    <3>1. late \in SUBSET Nat
      BY <1>1
    <3> HIDE DEF late
    <3> QED BY <2>1, <3>1, SmallestMember
  <2> HIDE DEF m
  <2>3. m \in 1 .. n /\ StartOf(table[m]) < m
    BY <2>2
  <2>4. m - 1 \in 1 .. n
    BY <1>1, <1>2, <2>3
  <2>5. ~(StartOf(table[m - 1]) < m - 1)
    BY <2>2, <2>3, <2>4
  <2>6. EndOf(table[m - 1]) <= StartOf(table[m])
    BY <1>1, <2>3, <2>4 DEF Ordered
  <2> QED BY <1>2, <2>3, <2>4, <2>5, <2>6, SMTT(30)
<1>4. CASE n = 0
  BY <1>4
<1>5. CASE n # 0
  <2>1. n \in 1 .. n
    BY <1>1, <1>5
  <2>2. ~(StartOf(table[n]) < n)
    BY <1>3, <2>1
  <2> QED BY <1>1, <1>2, <2>1, <2>2
<1> QED BY <1>4, <1>5

-----------------------------------------------------------------------------
(* The counts of a valid message after an Add and after a Delete.          *)

LEMMA AddedCounts ==
  ASSUME MaxCells < U32, LayoutInv, LayoutInv', Counted, validData, validData',
         ~readOnly, ~readOnly', NEW e, NEW value, Addable(e, value),
         AddElementToBuffer(e, value), Find(e.name) = 0,
         NEW at \in Nat, data' = Append(data, [e EXCEPT !.index = at])
  PROVE  Counted'
<1> DEFINE n == Len(data)
           d == [e EXCEPT !.index = at]
<1>1. /\ data \in Seq(Elements) /\ data' \in Seq(Elements)
      /\ mem_used' \in Nat /\ Ordered(data', mem_used') /\ mem_used' <= MaxCells
  BY DEF LayoutInv, TypeOK
<1>2. d \in Elements /\ d.name = e.name
  BY IndexedElement DEF Addable, Elements
<1> HIDE DEF d
<1>3. /\ n \in Nat /\ Len(data') = n + 1
      /\ DOMAIN data = 1 .. n /\ DOMAIN data' = 1 .. n + 1
      /\ data'[n + 1] = d /\ \A i \in 1 .. n : data'[i] = data[i]
  BY <1>1, <1>2, AppendProperties, LenProperties DEF d
<1>4. el_size' = n + 1
  <2>1. el_size' = AsU64(n + 1)
    BY DEF AddElementToBuffer, Counted
  <2>2. n + 1 <= mem_used'
    BY <1>1, <1>3, FewElements
  <2>3. n + 1 \in 0 .. U64 - 1
    BY <1>1, <1>3, <2>2, FormatAssumption, CallerAssumption
  <2> QED BY <2>1, <2>3, AsU64Fits
<1>5. Distinct(data')
  <2>1. \A i \in 1 .. n : data[i].name # e.name
    BY <1>1, <1>3, FindHas
  <2>2. \A i, j \in 1 .. n : data[i].name = data[j].name => i = j
    BY <1>3 DEF Counted, Distinct
  <2>3. ASSUME NEW i \in 1 .. n + 1, NEW j \in 1 .. n + 1,
               data'[i].name = data'[j].name
        PROVE  i = j
    <3>1. i \in 1 .. n \/ i = n + 1
      BY <1>3
    <3>2. j \in 1 .. n \/ j = n + 1
      BY <1>3
    <3> QED BY <1>2, <1>3, <2>1, <2>2, <2>3, <3>1, <3>2
  <2> QED BY <1>3, <2>3 DEF Distinct
<1>6. p_data'[ELEMENTS] = el_size' /\ p_data'[SIZE] = mem_used'
  BY AddedWords
<1> QED BY <1>3, <1>4, <1>5, <1>6 DEF Counted, SourceData

LEMMA ErasedCounts ==
  ASSUME MaxCells < U32, LayoutInv, Counted, validData, validData',
         ~readOnly, ~readOnly', NEW k \in DOMAIN data, Erase(k)
  PROVE  Counted'
<1> DEFINE n == Len(data)
           total == HeaderBytes(data[k]) + data[k].size
<1>1. /\ data \in Seq(Elements) /\ mem_used \in Nat
      /\ Ordered(data, mem_used) /\ mem_used <= MaxCells
      /\ MaxCells \in Nat /\ U32 \in Nat /\ U64 \in Nat /\ U32 <= U64
  BY FormatAssumption, CallerAssumption DEF LayoutInv, TypeOK
<1>2. n \in Nat /\ DOMAIN data = 1 .. n /\ k \in 1 .. n /\ n <= mem_used
  BY <1>1, FewElements, LenProperties
<1>3. total \in Nat /\ total = EndOf(data[k]) - StartOf(data[k])
  BY <1>1, Places
<1> HIDE DEF total
<1>4. /\ data' \in Seq(Elements) /\ Len(data') = n - 1
      /\ \A i \in 1 .. n - 1 :
           data'[i].name = IF i < k THEN data[i].name ELSE data[i + 1].name
  <2>1. data' = Reindexed(k, total)
    BY DEF Erase, total
  <2>2. /\ data' \in Seq(Elements) /\ Len(data') = n - 1
        /\ \A i \in 1 .. n - 1 :
             IF i < k THEN data'[i] = data[i]
             ELSE data'[i] = [data[i + 1] EXCEPT !.index = data[i + 1].index - total]
    <3>1. Apart(data, mem_used) /\ mem_used < U32
      BY <1>1, OrderedApart
    <3> QED BY <1>1, <1>3, <2>1, <3>1, DeletedTable, SMTT(30)
  <2>3. ASSUME NEW i \in 1 .. n - 1, ~(i < k)
        PROVE  data'[i].name = data[i + 1].name
    <3>1. data[i + 1] \in Elements
      <4>1. i + 1 \in 1 .. n
        BY <1>2
      <4> QED BY <1>1, <1>2, <4>1, ElementOfSeq
    <3> QED BY <2>2, <2>3, <3>1 DEF Elements
  <2> QED BY <2>2, <2>3
<1>5. el_size' = n - 1
  <2>1. el_size' = AsU64(n - 1)
    BY DEF Erase, Counted
  <2>2. n - 1 \in 0 .. U64 - 1
    BY <1>1, <1>2
  <2> QED BY <2>1, <2>2, AsU64Fits
<1>6. Distinct(data')
  <2>1. DOMAIN data' = 1 .. n - 1
    BY <1>4, LenProperties
  <2>2. \A i, j \in 1 .. n : data[i].name = data[j].name => i = j
    BY <1>2 DEF Counted, Distinct
  <2>3. ASSUME NEW i \in 1 .. n - 1, NEW j \in 1 .. n - 1,
               data'[i].name = data'[j].name
        PROVE  i = j
    <3> DEFINE from(x) == IF x < k THEN x ELSE x + 1
    <3>1. from(i) \in 1 .. n /\ from(j) \in 1 .. n
      BY <1>2
    <3>2. /\ data'[i].name = data[from(i)].name
          /\ data'[j].name = data[from(j)].name
      BY <1>4
    <3>3. from(i) = from(j)
      BY <2>2, <2>3, <3>1, <3>2
    <3> QED BY <1>2, <3>3
  <2> QED BY <2>1, <2>3 DEF Distinct
<1>7. p_data'[ELEMENTS] = el_size' /\ p_data'[SIZE] = mem_used'
  BY ErasedWords
<1> QED BY <1>4, <1>5, <1>6, <1>7 DEF Counted, SourceData

-----------------------------------------------------------------------------
(* Messages that never had a header. *)

(* No element is so short that the counts written to the header are in     *)
(* the type code of another.                                               *)
LEMMA HeadlessPlaces ==
  ASSUME NEW table \in Seq(Elements), NEW block, NEW limit \in Nat,
         Headless(table, block, limit), Apart(table, limit), NEW i \in DOMAIN table
  PROVE  LET e == table[i]
         IN /\ e \in Elements /\ StartOf(e) \in Nat /\ EndOf(e) \in Nat
            /\ StartOf(e) + 3 <= EndOf(e) /\ EndOf(e) <= limit
            /\ StartOf(e) = 0 \/ 3 <= StartOf(e)
<1>1. DOMAIN table = 1 .. Len(table) /\ Len(table) \in Nat
  BY LenProperties
<1>2. ASSUME NEW j \in DOMAIN table
      PROVE  /\ table[j] \in Elements
             /\ StartOf(table[j]) \in Nat /\ EndOf(table[j]) \in Nat
             /\ StartOf(table[j]) + 3 <= EndOf(table[j]) /\ EndOf(table[j]) <= limit
  <2> DEFINE e == table[j]
  <2>1. /\ e \in Elements /\ StartOf(e) \in Nat /\ EndOf(e) \in Nat
        /\ HeaderBytes(e) + e.size = EndOf(e) - StartOf(e) /\ EndOf(e) <= limit
    BY ApartPlaces
  <2>2. Coded(block, e)
    BY DEF Headless
  <2> HIDE DEF e
  <2>3. e.size \in Nat /\ HeaderBytes(e) = IF e.basic_type THEN 2 ELSE 3
    BY <2>1, ElementBounds
  <2>4. e.basic_type => e.size # 0
    BY <2>2 DEF Coded
  <2> QED BY <2>1, <2>3, <2>4 DEF e
<1>3. StartOf(table[i]) = 0 \/ 3 <= StartOf(table[i])
  <2>1. StartOf(table[i]) = From(table, i)
    BY DEF Headless
  <2>2. CASE i # 1
    <3>1. i - 1 \in DOMAIN table
      BY <1>1, <2>2
    <3> QED BY <1>2, <2>1, <2>2, <3>1 DEF From
  <2> QED BY <2>1, <2>2 DEF From
<1> QED BY <1>2, <1>3

LEMMA CloneStray ==
  ASSUME TypeOK, Inside, Counted, Stray, CopyObject
  PROVE  Stray'
<1>1. /\ ~readOnly' /\ p_data' = Resize(SourceData, mem_used)
      /\ pc = "ready" /\ UNCHANGED <<validData, data, mem_used>>
      /\ data \in Seq(Elements) /\ mem_used \in Nat /\ IsBlock(p_data)
  BY CellsOfBlock DEF CopyObject, TypeOK
<1>2. CASE validData
  BY <1>1, <1>2 DEF Stray
<1>3. CASE ~validData /\ readOnly
  <2>1. data = << >> /\ mem_used = 0
    BY <1>1, <1>3 DEF Counted
  <2> QED BY <1>1, <2>1 DEF Stray, Headless, From
<1>4. CASE ~validData /\ ~readOnly
  <2>1. Headless(data, p_data, mem_used) /\ p_data' = Resize(p_data, mem_used)
    BY <1>1, <1>4 DEF Stray, SourceData
  <2>2. ASSUME NEW i \in DOMAIN data
        PROVE  Peek(p_data', StartOf(data[i])) = Peek(p_data, StartOf(data[i]))
    <3>1. Apart(data, mem_used)
      BY <1>1 DEF Inside
    <3>2. StartOf(data[i]) \in 0 .. mem_used - 1
      <4>1. /\ StartOf(data[i]) \in Nat /\ EndOf(data[i]) \in Nat
            /\ StartOf(data[i]) + 3 <= EndOf(data[i]) /\ EndOf(data[i]) <= mem_used
        BY <1>1, <2>1, <3>1, HeadlessPlaces
      <4> QED BY <1>1, <4>1
    <3>3. DOMAIN p_data' = 0 .. mem_used - 1
      BY <2>1 DEF Resize
    <3> QED BY <2>1, <3>2, <3>3 DEF Resize, Peek
  <2> QED BY <1>1, <2>1, <2>2 DEF Stray, Headless, From, Coded
<1> QED BY <1>2, <1>3, <1>4

(* An element ends before the block does, and begins three cells earlier.  *)
LEMMA InBlock ==
  ASSUME NEW c \in Nat, NEW y \in Nat, NEW used \in Nat, NEW size \in Nat,
         c + 3 <= y \/ c < y, y <= used, used <= size
  PROVE  c \in 0 .. used - 1 /\ c \in 0 .. size - 1
OBVIOUS

LEMMA AddStray ==
  ASSUME MaxCells < U32, TypeOK, Inside, Stray, ~validData, ~readOnly, ~readOnly',
         NEW e, NEW value, Addable(e, value), AddElementToBuffer(e, value),
         e.type \in Types, mem_used + HeaderBytes(e) + e.size <= MaxCells,
         data' = Append(data, [e EXCEPT !.index = AsU32(mem_used + HeaderBytes(e))])
  PROVE  Headless(data', p_data', mem_used')
<1> DEFINE at == mem_used + HeaderBytes(e)
           d  == [e EXCEPT !.index = at]
           n  == Len(data)
<1>1. /\ data \in Seq(Elements) /\ mem_used \in Nat /\ p_size \in Nat
      /\ mem_used <= p_size /\ IsBlock(p_data) /\ Cells(p_data) = p_size
      /\ Headless(data, p_data, mem_used)
  BY CellsOfBlock DEF TypeOK, Inside, Stray
<1>2. /\ e \in Elements /\ e.size \in Nat
      /\ HeaderBytes(e) = IF e.basic_type THEN 2 ELSE 3
  BY ElementBounds DEF Addable
<1>3. AsU32(at) = at /\ at \in Nat
  <2>1. at \in 0 .. U32 - 1
    BY <1>1, <1>2, CallerAssumption, FormatAssumption
  <2> QED BY <2>1, AsU32Fits
<1>4. /\ d \in Elements /\ d.index = at /\ d.size = e.size /\ d.type = e.type
      /\ d.basic_type = e.basic_type /\ HeaderBytes(d) = HeaderBytes(e)
      /\ data' = Append(data, d)
  BY <1>2, <1>3, IndexedElement DEF HeaderBytes, Elements
<1>5. /\ mem_used' = mem_used + HeaderBytes(e) + e.size
      /\ p_data' \in Block(p_size') /\ p_size' \in Nat /\ mem_used' <= p_size'
      /\ \A k \in 0 .. mem_used - 1 :
           k \notin {1, 2} => p_data'[k] = p_data[k]
      /\ \A m \in Int :
           mem_used <= m /\ m < mem_used' /\ m \notin {1, 2} =>
             p_data'[m] = Encode(e, value)[m - mem_used + 1]
  BY <1>1, AddedCells
<1>6. IsBlock(p_data') /\ Cells(p_data') = p_size'
  BY <1>5, CellsOfBlock
<1>grows. /\ mem_used' \in Nat /\ p_size' \in Nat
       /\ mem_used < mem_used' /\ mem_used' <= p_size'
  <2>1. /\ mem_used' = mem_used + HeaderBytes(e) + e.size
        /\ p_size' \in Nat /\ mem_used' <= p_size'
    BY <1>5
  <2>2. HeaderBytes(e) \in {2, 3} /\ mem_used \in Nat /\ e.size \in Nat
    BY <1>1, <1>2
  <2> QED BY <2>1, <2>2
<1> HIDE DEF d
<1>7. StartOf(d) = mem_used /\ EndOf(d) = mem_used'
  BY <1>1, <1>2, <1>4, <1>5 DEF StartOf, EndOf
<1>8. /\ n \in Nat /\ DOMAIN data = 1 .. n /\ DOMAIN data' = 1 .. n + 1
      /\ Len(data') = n + 1
      /\ data'[n + 1] = d /\ \A i \in 1 .. n : data'[i] = data[i]
  BY <1>1, <1>4, AppendProperties, LenProperties
<1>9. mem_used = From(data, n + 1)
  BY <1>1 DEF Headless
<1>10. mem_used = 0 \/ 3 <= mem_used
  <2>1. CASE n = 0
    BY <1>9, <2>1 DEF From
  <2>2. CASE n # 0
    <3>1. n \in DOMAIN data /\ data # << >>
      BY <1>8, <2>2
    <3>2. Apart(data, mem_used)
      BY <3>1 DEF Inside
    <3>3. /\ StartOf(data[n]) \in Nat /\ EndOf(data[n]) \in Nat
          /\ StartOf(data[n]) + 3 <= EndOf(data[n]) /\ EndOf(data[n]) <= mem_used
      BY <1>1, <3>1, <3>2, HeadlessPlaces
    <3> DEFINE x == StartOf(data[n])
               y == EndOf(data[n])
    <3>4. x \in Nat /\ y \in Nat /\ x + 3 <= y /\ y <= mem_used
      BY <3>3
    <3> HIDE DEF x, y
    <3> QED BY <1>1, <3>4
  <2> QED BY <2>1, <2>2
<1>11. Coded(p_data', d)
  <2>1. p_data'[mem_used] = e.type
    <3>1. /\ mem_used \in Int /\ mem_used <= mem_used /\ mem_used < mem_used'
          /\ mem_used \notin {1, 2} /\ mem_used - mem_used + 1 = 1
      BY <1>1, <1>2, <1>5, <1>10, SMTT(30)
    <3>2. Encode(e, value)[1] = e.type
      BY EncodeCells DEF Addable
    <3> QED BY <1>5, <3>1, <3>2
  <2>2. Peek(p_data', mem_used) = p_data'[mem_used]
    <3>1. mem_used \in Nat
      BY <1>1
    <3>2. mem_used' <= mem_used'
      BY <1>grows
    <3>3. mem_used \in 0 .. p_size' - 1
      BY <1>grows, <3>1, <3>2, InBlock, Zenon
    <3> QED BY <1>6, <3>3, PeekCell
  <2> QED BY <1>4, <1>7, <2>1, <2>2 DEF Coded, Addable
<1>12. ASSUME NEW i \in 1 .. n
       PROVE  StartOf(data'[i]) = From(data', i) /\ Coded(p_data', data'[i])
  <2>1. i \in DOMAIN data /\ data # << >> /\ data'[i] = data[i]
    BY <1>8
  <2>2. Apart(data, mem_used)
    BY <2>1 DEF Inside
  <2>3. /\ StartOf(data[i]) \in Nat /\ EndOf(data[i]) \in Nat
        /\ StartOf(data[i]) + 3 <= EndOf(data[i]) /\ EndOf(data[i]) <= mem_used
        /\ StartOf(data[i]) = 0 \/ 3 <= StartOf(data[i])
    BY <1>1, <2>1, <2>2, HeadlessPlaces
  <2> DEFINE c == StartOf(data[i])
             y == EndOf(data[i])
  <2>4. /\ c \in 0 .. mem_used - 1 /\ c \notin {1, 2}
        /\ c \in 0 .. p_size - 1 /\ c \in 0 .. p_size' - 1
    <3>1. c \in Nat /\ y \in Nat /\ c + 3 <= y /\ y <= mem_used /\ (c = 0 \/ 3 <= c)
      BY <2>3
    <3>2. mem_used \in Nat /\ p_size \in Nat /\ mem_used <= p_size
      BY <1>1
    <3> HIDE DEF c, y
    <3>3. c \in 0 .. mem_used - 1 /\ c \in 0 .. p_size - 1
      BY <3>1, <3>2, InBlock, Zenon
    <3>4. mem_used <= p_size'
      BY <1>grows, <3>2
    <3>5. c \in 0 .. p_size' - 1
      BY <1>grows, <3>1, <3>2, <3>4, InBlock, Zenon
    <3>6. c \notin {1, 2}
      BY <3>1
    <3> QED BY <3>3, <3>5, <3>6, Zenon
  <2> HIDE DEF c
  <2>5. Peek(p_data', c) = Peek(p_data, c)
    <3>1. p_data'[c] = p_data[c]
      BY <1>5, <2>4
    <3>2. Peek(p_data', c) = p_data'[c]
      BY <1>6, <2>4, PeekCell
    <3>3. Peek(p_data, c) = p_data[c]
      BY <1>1, <2>4, PeekCell
    <3> QED BY <3>1, <3>2, <3>3
  <2>6. StartOf(data[i]) = From(data, i) /\ Coded(p_data, data[i])
    BY <1>1, <2>1 DEF Headless
  <2>7. From(data', i) = From(data, i)
    <3>1. i # 1 => i - 1 \in 1 .. n
      BY <1>8
    <3> QED BY <1>8, <3>1 DEF From
  <2> QED BY <2>1, <2>5, <2>6, <2>7 DEF Coded, c
<1>13. StartOf(d) = From(data', n + 1)
  <2>1. From(data', n + 1) = From(data, n + 1)
    <3>1. CASE n = 0
      BY <3>1 DEF From
    <3>2. CASE n # 0
      <4>1. n \in 1 .. n /\ n + 1 # 1 /\ n + 1 - 1 = n
        BY <1>8, <3>2
      <4>2. data'[n] = data[n]
        BY <1>8, <4>1
      <4> QED BY <4>1, <4>2 DEF From
    <3> QED BY <3>1, <3>2
  <2> QED BY <1>7, <1>9, <2>1
<1>14. mem_used' = From(data', Len(data') + 1)
  <2>1. n + 1 + 1 # 1 /\ n + 1 + 1 - 1 = n + 1
    BY <1>8
  <2> QED BY <1>7, <1>8, <2>1 DEF From
<1> HIDE DEF n
<1>15. ASSUME NEW i \in DOMAIN data'
       PROVE  StartOf(data'[i]) = From(data', i) /\ Coded(p_data', data'[i])
  <2>1. i \in 1 .. n \/ i = n + 1
    BY <1>8
  <2> QED BY <1>8, <1>11, <1>12, <1>13, <2>1
<1> QED BY <1>14, <1>15 DEF Headless

LEMMA UpdateStray ==
  ASSUME TypeOK, Inside, Stray, ~validData, ~readOnly,
         NEW type, NEW value \in Seq(Nat), SType[type] # 0, Len(value) = SType[type],
         NEW k \in DOMAIN data, data[k].type = type,
         p_data' = Write(p_data, data[k].index, value)
  PROVE  Headless(data, p_data', mem_used)
<1> DEFINE e == data[k]
<1>1. /\ data \in Seq(Elements) /\ mem_used \in Nat /\ p_size \in Nat
      /\ p_data \in Block(p_size) /\ IsBlock(p_data) /\ Cells(p_data) = p_size
      /\ mem_used <= p_size /\ Headless(data, p_data, mem_used)
  BY CellsOfBlock DEF TypeOK, Inside, Stray
<1>2. DOMAIN data = 1 .. Len(data) /\ Len(data) \in Nat /\ data # << >>
  BY <1>1, LenProperties
<1>3. Apart(data, mem_used)
  BY <1>2 DEF Inside
<1>4. /\ e \in Elements /\ StartOf(e) \in Nat /\ e.index \in Nat /\ EndOf(e) \in Nat
      /\ StartOf(e) < e.index /\ e.index <= EndOf(e)
  BY <1>1, <1>3, ApartPlaces
<1>5. EndOf(e) = e.index + Len(value)
  <2>1. Coded(p_data, e)
    BY <1>1 DEF Headless
  <2>2. e.size = Len(value)
    BY <2>1 DEF Coded
  <2> QED BY <2>2 DEF EndOf
<1>6. /\ p_data' \in Block(p_size)
      /\ \A c \in 0 .. p_size - 1 :
           p_data'[c] = IF e.index <= c /\ c < e.index + Len(value)
                        THEN value[c - e.index + 1] ELSE p_data[c]
  <2>1. e.index \in Int
    BY <1>4
  <2> HIDE DEF e
  <2>2. /\ Write(p_data, e.index, value) \in Block(p_size)
        /\ \A c \in 0 .. p_size - 1 :
             Write(p_data, e.index, value)[c] =
               IF e.index <= c /\ c < e.index + Len(value)
               THEN value[c - e.index + 1] ELSE p_data[c]
    BY <1>1, <2>1, WriteBlock, Zenon
  <2> QED BY <2>2 DEF e
<1>7. IsBlock(p_data') /\ Cells(p_data') = p_size
  BY <1>1, <1>6, CellsOfBlock
<1> HIDE DEF e
<1>8. ASSUME NEW i \in DOMAIN data
      PROVE  Peek(p_data', StartOf(data[i])) = Peek(p_data, StartOf(data[i]))
  <2> DEFINE c == StartOf(data[i])
  <2>1. /\ c \in Nat /\ EndOf(data[i]) \in Nat /\ c + 3 <= EndOf(data[i])
        /\ EndOf(data[i]) <= mem_used
    BY <1>1, <1>3, HeadlessPlaces
  <2>2. c \in 0 .. p_size - 1
    BY <1>1, <2>1
  <2>3. ~(e.index <= c /\ c < EndOf(e))
    <3>1. CASE i = k
      BY <1>4, <3>1 DEF e
    <3>2. CASE i < k
      <4>1. EndOf(data[i]) <= StartOf(e)
        BY <1>3, <3>2 DEF Apart, e
      <4> QED BY <1>4, <2>1, <4>1
    <3>3. CASE k < i
      <4>1. EndOf(e) <= c
        BY <1>3, <3>3 DEF Apart, e
      <4> QED BY <1>4, <2>1, <4>1
    <3> QED BY <1>2, <3>1, <3>2, <3>3
  <2> HIDE DEF c
  <2>4. p_data'[c] = p_data[c]
    BY <1>5, <1>6, <2>2, <2>3
  <2> QED BY <1>1, <1>7, <2>2, <2>4, PeekCell DEF c
<1> QED BY <1>1, <1>8 DEF Headless, Coded

LEMMA DeleteStray ==
  ASSUME MaxCells < U32, TypeOK, Inside, Stray, ~validData, ~readOnly,
         NEW k \in DOMAIN data, Erase(k)
  PROVE  Headless(data', p_data', mem_used')
<1> DEFINE n     == Len(data)
           start == StartOf(data[k])
           stop  == EndOf(data[k])
           total == HeaderBytes(data[k]) + data[k].size
           T     == data'
<1>1. /\ data \in Seq(Elements) /\ mem_used \in Nat /\ p_size \in Nat
      /\ p_data \in Block(p_size) /\ IsBlock(p_data) /\ Cells(p_data) = p_size
      /\ mem_used <= p_size /\ Headless(data, p_data, mem_used)
      /\ MaxCells \in Nat /\ U32 \in Nat /\ U64 \in Nat /\ U32 <= U64
  BY CellsOfBlock, CallerAssumption, FormatAssumption DEF TypeOK, Inside, Stray
<1>2. DOMAIN data = 1 .. n /\ n \in Nat /\ k \in 1 .. n /\ data # << >>
  BY <1>1, LenProperties
<1>3. Apart(data, mem_used) /\ mem_used < U32 /\ mem_used < U64
  <2>1. Apart(data, mem_used) /\ mem_used <= MaxCells
    BY <1>2 DEF Inside
  <2> QED BY <1>1, <2>1
<1>4. ASSUME NEW i \in 1 .. n
      PROVE  /\ data[i] \in Elements
             /\ StartOf(data[i]) \in Nat /\ EndOf(data[i]) \in Nat
             /\ StartOf(data[i]) + 3 <= EndOf(data[i]) /\ EndOf(data[i]) <= mem_used
             /\ StartOf(data[i]) = 0 \/ 3 <= StartOf(data[i])
             /\ StartOf(data[i]) = From(data, i) /\ Coded(p_data, data[i])
  <2>1. i \in DOMAIN data
    BY <1>2
  <2> QED BY <1>1, <1>3, <2>1, HeadlessPlaces DEF Headless
<1>5. /\ start \in Nat /\ stop \in Nat /\ start + 3 <= stop /\ stop <= mem_used
      /\ start = 0 \/ 3 <= start
  BY <1>2, <1>4
<1>6. /\ total \in Nat /\ total = stop - start
      /\ mem_used' = mem_used - total /\ mem_used' \in Nat /\ start <= mem_used'
      /\ p_data' \in Block(p_size)
      /\ \A j \in 0 .. p_size - 1 :
           j \notin {1, 2} =>
             p_data'[j] = IF start <= j /\ j < mem_used'
                          THEN Peek(p_data, j + total) ELSE p_data[j]
  BY <1>3, <1>5, ErasedBlock
<1>7. IsBlock(p_data') /\ Cells(p_data') = p_size
  BY <1>1, <1>6, CellsOfBlock
<1>8. /\ T \in Seq(Elements) /\ Len(T) = n - 1
      /\ \A i \in 1 .. n - 1 :
           IF i < k THEN T[i] = data[i]
           ELSE /\ T[i] = [data[i + 1] EXCEPT !.index = data[i + 1].index - total]
                /\ StartOf(T[i]) = StartOf(data[i + 1]) - total
                /\ EndOf(T[i]) = EndOf(data[i + 1]) - total
                /\ data[i + 1].index - total \in Nat
  <2>1. data' = Reindexed(k, total) /\ total = EndOf(data[k]) - StartOf(data[k])
    BY <1>6 DEF Erase
  <2>2. mem_used \in Nat /\ total \in Nat /\ data \in Seq(Elements)
    BY <1>1, <1>6
  <2> DEFINE W == Reindexed(k, total)
  <2> HIDE DEF total, start, stop, n
  <2>3. /\ W \in Seq(Elements) /\ Len(W) = Len(data) - 1
        /\ \A i \in 1 .. Len(data) - 1 :
             IF i < k THEN W[i] = data[i]
             ELSE /\ W[i] = [data[i + 1] EXCEPT !.index = data[i + 1].index - total]
                  /\ StartOf(W[i]) = StartOf(data[i + 1]) - total
                  /\ EndOf(W[i]) = EndOf(data[i + 1]) - total
                  /\ data[i + 1].index - total \in Nat
    BY <1>3, <2>1, <2>2, DeletedTable
  <2>4. T = W
    BY <2>1
  <2> HIDE DEF T, W
  <2> QED BY <2>3, <2>4 DEF n
<1>9. DOMAIN T = 1 .. n - 1
  BY <1>8, LenProperties
<1> HIDE DEF T, total, start, stop, n
<1>10. stop = From(data, k + 1)
  BY <1>2 DEF From, stop
<1>11. start = From(data, k)
  BY <1>2, <1>4 DEF start
<1>12. ASSUME NEW i \in 1 .. n, i <= k
       PROVE  From(T, i) = From(data, i)
  <2>1. CASE i = 1
    BY <2>1 DEF From
  <2>2. CASE i # 1
    <3>1. i - 1 \in 1 .. n - 1 /\ i - 1 < k
      BY <1>2, <1>12, <2>2
    <3> QED BY <1>8, <2>2, <3>1 DEF From
  <2> QED BY <2>1, <2>2
<1>13. ASSUME NEW i \in 1 .. n, k < i
       PROVE  From(T, i) = From(data, i + 1) - total
  <2>1. i - 1 \in 1 .. n - 1 /\ ~(i - 1 < k) /\ i - 1 + 1 = i /\ i + 1 - 1 = i
        /\ i # 1 /\ i + 1 # 1
    BY <1>2, <1>13
  <2>2. EndOf(T[i - 1]) = EndOf(data[i]) - total
    BY <1>8, <2>1
  <2> QED BY <2>1, <2>2 DEF From
<1>14. From(T, k) = From(data, k + 1) - total
  <2>1. From(T, k) = start
    BY <1>2, <1>11, <1>12
  <2> QED BY <1>5, <1>6, <1>10, <2>1
<1>15. mem_used' = From(T, Len(T) + 1)
  <2>1. mem_used = From(data, n + 1) /\ Len(T) + 1 = n
    BY <1>1, <1>2, <1>8 DEF Headless, n
  <2>2. n = k \/ k < n
    BY <1>2
  <2>3. n \in 1 .. n
    BY <1>2
  <2> QED BY <1>6, <1>13, <1>14, <2>1, <2>2, <2>3
<1>16. ASSUME NEW i \in 1 .. n - 1, i < k
       PROVE  StartOf(T[i]) = From(T, i) /\ Coded(p_data', T[i])
  <2>1. T[i] = data[i] /\ i \in 1 .. n /\ i \in DOMAIN data /\ k \in DOMAIN data
    BY <1>2, <1>8, <1>16
  <2> DEFINE c == StartOf(data[i])
  <2>2. /\ c \in Nat /\ EndOf(data[i]) \in Nat /\ c + 3 <= EndOf(data[i])
        /\ EndOf(data[i]) <= start /\ c \notin {1, 2}
    BY <1>3, <1>4, <1>16, <2>1 DEF Apart, start
  <2>3. c \in 0 .. p_size - 1 /\ ~(start <= c)
    BY <1>1, <1>5, <2>2
  <2> HIDE DEF c
  <2>4. p_data'[c] = p_data[c]
    BY <1>6, <2>2, <2>3
  <2>5. Peek(p_data', c) = Peek(p_data, c)
    BY <1>1, <1>7, <2>3, <2>4, PeekCell
  <2>6. c = From(data, i) /\ Coded(p_data, data[i])
    BY <1>4, <2>1 DEF c
  <2>7. From(T, i) = From(data, i)
    BY <1>2, <1>12, <1>16, <2>1
  <2> QED BY <2>1, <2>5, <2>6, <2>7 DEF Coded, c
<1>17. ASSUME NEW i \in 1 .. n - 1, ~(i < k)
       PROVE  StartOf(T[i]) = From(T, i) /\ Coded(p_data', T[i])
  <2> DEFINE d == data[i + 1]
             c == StartOf(d)
  <2>1. i + 1 \in 1 .. n /\ i \in 1 .. n /\ k < i + 1
        /\ i + 1 \in DOMAIN data /\ k \in DOMAIN data
    BY <1>2, <1>17
  <2>2. /\ d \in Elements /\ c \in Nat /\ EndOf(d) \in Nat
        /\ c + 3 <= EndOf(d) /\ EndOf(d) <= mem_used
        /\ c = From(data, i + 1) /\ Coded(p_data, d)
    BY <1>4, <2>1
  <2>3. stop <= c
    BY <1>3, <2>1 DEF Apart, stop
  <2>4. /\ T[i] = [d EXCEPT !.index = d.index - total]
        /\ StartOf(T[i]) = c - total /\ d.index - total \in Nat
    BY <1>8, <1>17
  <2>5. /\ T[i].type = d.type /\ T[i].basic_type = d.basic_type
        /\ T[i].size = d.size
    BY <2>2, <2>4, IndexedElement DEF Elements
  <2>6. c - total = From(T, i)
    <3>1. i = k \/ k < i
      BY <1>2, <1>17
    <3> QED BY <1>13, <1>14, <2>1, <2>2, <3>1
  <2> HIDE DEF c, d
  <2>7. c - total = 0 \/ 3 <= c - total
    <3>1. CASE i = k
      <4>1. c - total = start
        BY <1>11, <1>12, <2>1, <2>6, <3>1
      <4> QED BY <1>5, <4>1
    <3>2. CASE i # k
      <4>1. /\ i - 1 \in 1 .. n - 1 /\ ~(i - 1 < k) /\ i - 1 + 1 = i
            /\ k \in DOMAIN data /\ i \in DOMAIN data /\ k < i
        BY <1>2, <1>17, <3>2
      <4>2. /\ StartOf(data[i]) \in Nat /\ EndOf(data[i]) \in Nat
            /\ StartOf(data[i]) + 3 <= EndOf(data[i])
        BY <1>4, <2>1
      <4>3. stop <= StartOf(data[i])
        BY <1>3, <4>1 DEF Apart, stop
      <4>4. EndOf(data[i]) <= c
        BY <1>3, <2>1, <4>1 DEF Apart, c, d
      <4> QED BY <1>5, <1>6, <2>2, <4>2, <4>3, <4>4
    <3> QED BY <3>1, <3>2
  <2>8. /\ c - total \in 0 .. p_size - 1 /\ start <= c - total
        /\ c - total < mem_used' /\ c - total + total = c
        /\ c \in 0 .. p_size - 1 /\ c - total \notin {1, 2}
    <3> DEFINE y == EndOf(d)
    <3>1. c \in Nat /\ y \in Nat /\ c + 3 <= y /\ y <= mem_used
      BY <2>2
    <3> HIDE DEF y
    <3>2. /\ start \in Nat /\ stop \in Nat /\ total = stop - start
          /\ start + 3 <= stop /\ mem_used' = mem_used - total
      BY <1>5, <1>6
    <3> QED BY <1>1, <2>3, <2>7, <3>1, <3>2
  <2>9. p_data'[c - total] = Peek(p_data, c)
    <3> DEFINE j == c - total
    <3>1. /\ j \in 0 .. p_size - 1 /\ j \notin {1, 2} /\ start <= j /\ j < mem_used'
          /\ j + total = c
      BY <2>8
    <3> HIDE DEF j
    <3>2. p_data'[j] = Peek(p_data, j + total)
      BY <1>6, <3>1
    <3> QED BY <3>1, <3>2 DEF j
  <2>10. Peek(p_data', c - total) = Peek(p_data, c)
    BY <1>7, <2>8, <2>9, PeekCell
  <2> QED BY <2>2, <2>4, <2>5, <2>6, <2>10 DEF Coded, c
<1>18. ASSUME NEW i \in DOMAIN T
       PROVE  StartOf(T[i]) = From(T, i) /\ Coded(p_data', T[i])
  BY <1>9, <1>16, <1>17
<1> QED BY <1>15, <1>18 DEF Headless, T

(* A call on a message that is not valid leaves its elements headless. *)
LEMMA CallStray ==
  ASSUME MaxCells < U32, TypeOK, Inside, Stray, NEW name \in Names, Call(name)
  PROVE  Stray'
<1>1. /\ name \in Nat /\ \A v \in Values : v \in Seq(Nat)
      /\ \A type \in Types : type \in KnownTypes
  BY CallerAssumption
<1>2. ASSUME UNCHANGED object
      PROVE  Stray'
  BY <1>2 DEF Stray, object
<1>3. ASSUME NEW e, NEW value, NEW null, e.type \in Types,
             Addable(e, value), AddValue(e, value, null)
      PROVE  Stray'
  <2>1. CASE Refused(e, null)
    BY <1>2, <2>1 DEF Refused, Fail
  <2>2. CASE ~Refused(e, null)
    <3>1. /\ ~readOnly /\ UNCHANGED <<readOnly, validData>>
          /\ AddElementToBuffer(e, value)
          /\ mem_used + HeaderBytes(e) + e.size <= MaxCells
          /\ data' = Append(data, [e EXCEPT !.index = AsU32(mem_used + HeaderBytes(e))])
      BY <1>3, <2>2 DEF AddValue, AddError, Refused
    <3> QED BY <1>3, <3>1, AddStray DEF Stray
  <2> QED BY <2>1, <2>2
<1>4. ASSUME NEW type \in Types, NEW value \in Values, AddScalar(name, type, value)
      PROVE  Stray'
  <2>1. /\ SType[type] # 0 /\ Len(value) = SType[type]
        /\ AddValue(DType(type, name), value, FALSE)
    BY <1>4 DEF AddScalar
  <2>2. Addable(DType(type, name), value) /\ DType(type, name).type \in Types
    BY <1>1, <2>1, AddableScalar DEF DType
  <2> QED BY <1>3, <2>1, <2>2
<1>5. ASSUME NEW type \in Types, NEW value \in Values, NEW null \in BOOLEAN,
             AddVariable(name, type, value, null)
      PROVE  Stray'
  <2> DEFINE e == [DType(type, name) EXCEPT !.size = AsU32(Len(value))]
  <2>1. SType[type] = 0 /\ AddValue(e, value, null)
    BY <1>5 DEF AddVariable
  <2>2. Addable(e, value) /\ e.type \in Types
    BY <1>1, <2>1, AddableVariable DEF DType
  <2> HIDE DEF e
  <2> QED BY <1>3, <2>1, <2>2
<1>6. ASSUME NEW type \in Types, NEW value \in Values, Update(name, type, value)
      PROVE  Stray'
  <2>1. CASE UNCHANGED object
    BY <1>2, <2>1
  <2>2. CASE ~(UNCHANGED object)
    <3>1. /\ ~readOnly /\ UNCHANGED <<readOnly, validData, data, mem_used>>
          /\ Find(name) # 0 /\ data[Find(name)].type = type
          /\ SType[type] # 0 /\ Len(value) = SType[type]
          /\ p_data' = Write(p_data, data[Find(name)].index, value)
      BY <1>6, <2>2 DEF Update, LookupError, Fail
    <3>2. Find(name) \in DOMAIN data /\ value \in Seq(Nat)
      BY <1>1, <3>1, FindIsThere DEF TypeOK
    <3>3. ~validData => Headless(data, p_data', mem_used)
      BY <3>1, <3>2, UpdateStray
    <3> QED BY <3>1, <3>3 DEF Stray
  <2> QED BY <2>1, <2>2
<1>7. CASE AddNoItems(name) \/ \E type \in Types : Get(name, type)
  <2>1. UNCHANGED object
    BY <1>7 DEF AddNoItems, Get, Fail
  <2> QED BY <1>2, <2>1
<1>8. CASE Delete(name)
  <2>1. CASE UNCHANGED object
    BY <1>2, <2>1
  <2>2. CASE ~(UNCHANGED object)
    <3>1. /\ ~readOnly /\ Find(name) # 0 /\ Erase(Find(name))
          /\ UNCHANGED <<readOnly, validData>>
      BY <1>8, <2>2 DEF Delete, Fail
    <3>2. Find(name) \in DOMAIN data
      BY <3>1, FindIsThere DEF TypeOK
    <3>3. ~validData => Headless(data', p_data', mem_used')
      BY <3>1, <3>2, DeleteStray
    <3> QED BY <3>1, <3>3 DEF Stray
  <2> QED BY <2>1, <2>2
<1> QED BY <1>4, <1>5, <1>6, <1>7, <1>8 DEF Call

(* No receiver takes a message without a header for a valid one. *)
LEMMA StrayVersion ==
  ASSUME TypesAreNoVersions, TypeOK, Inside, Stray,
         ~validData, ~readOnly, mem_used > 0
  PROVE  Peek(p_data, VERSION) \notin MIN_MESS_VERSION .. MESS_VERSION
<1>1. data \in Seq(Elements) /\ Headless(data, p_data, mem_used)
  BY DEF TypeOK, Stray
<1>2. DOMAIN data = 1 .. Len(data) /\ Len(data) \in Nat
  BY <1>1, LenProperties
<1>3. Len(data) # 0
  BY <1>1 DEF Headless, From
<1>4. 1 \in DOMAIN data
  BY <1>2, <1>3
<1>5. /\ StartOf(data[1]) = 0 /\ data[1].type \in Types
      /\ Peek(p_data, StartOf(data[1])) = data[1].type
  BY <1>1, <1>4 DEF Headless, From, Coded
<1> QED BY <1>5 DEF TypesAreNoVersions

-----------------------------------------------------------------------------
(* The calls. *)

LEMMA SameCounts ==
  ASSUME Counted, UNCHANGED <<object, pc>>
  PROVE  Counted'
BY DEF Counted, Distinct, SourceData, object

LEMMA EmptyWords == EmptyBlock[SIZE] = 0 /\ EmptyBlock[ELEMENTS] = 0
<1> DEFINE size  == Reserve(0, 0, HEADER_ELEMENTS)
           cells == <<MESS_VERSION, 0, 0>>
<1>1. EmptyBlock = Write(Resize(NULL, size), 0, cells)
  BY DEF EmptyBlock
<1>2. size \in Nat /\ 3 <= size
  <2>1. Reserve(0, 0, 3) \in Nat /\ 0 + Reserve(0, 0, 3) >= 0 + 3
    BY ReserveEnough
  <2> QED BY <2>1
<1> HIDE DEF size
<1>3. DOMAIN Resize(NULL, size) = 0 .. size - 1
  BY DEF Resize
<1>4. 1 \in 0 .. size - 1 /\ 2 \in 0 .. size - 1
  BY <1>2
<1>5. /\ 1 - 0 + 1 \in DOMAIN cells /\ cells[1 - 0 + 1] = 0
      /\ 2 - 0 + 1 \in DOMAIN cells /\ cells[2 - 0 + 1] = 0
  OBVIOUS
<1> HIDE DEF cells
<1> QED BY <1>1, <1>3, <1>4, <1>5 DEF Write

LEMMA EmptyCounts ==
  ASSUME InitHeader, ~readOnly'
  PROVE  Counted'
BY EmptyWords DEF InitHeader, Counted, Distinct, SourceData

LEMMA CloneCounts ==
  ASSUME LayoutInv, Counted, CopyObject
  PROVE  Counted'
<1>1. /\ ~readOnly' /\ p_data' = Resize(SourceData, mem_used)
      /\ pc = "ready" /\ UNCHANGED <<validData, data, mem_used, el_size, pc>>
  BY DEF CopyObject, parser
<1>2. CASE ~validData
  BY <1>1, <1>2 DEF Counted
<1>3. CASE validData
  <2>1. /\ data \in Seq(Elements) /\ IsBlock(SourceData) /\ mem_used \in Nat
        /\ Tiled(data, SourceData, mem_used) /\ Ordered(data, mem_used)
        /\ GoodVersion(SourceData)
    BY <1>3, SourceBlock DEF LayoutInv, LayoutOK, TypeOK
  <2>2. 1 \in 0 .. mem_used - 1 /\ 2 \in 0 .. mem_used - 1
    BY <2>1 DEF Tiled
  <2>3. p_data'[1] = SourceData[1] /\ p_data'[2] = SourceData[2]
    BY <1>1, <2>1, <2>2, CopyCarries
  <2>4. SourceData' = p_data'
    BY <1>1 DEF SourceData
  <2> QED BY <1>1, <1>3, <2>3, <2>4 DEF Counted, Distinct
<1> QED BY <1>2, <1>3

LEMMA AddCounts ==
  ASSUME MaxCells < U32, LayoutInv, LayoutInv', Counted,
         NEW e, NEW value, NEW null, Addable(e, value), AddValue(e, value, null)
  PROVE  Counted'
<1>1. CASE Refused(e, null)
  <2>1. UNCHANGED <<object, pc>>
    BY <1>1 DEF Refused, Fail, parser
  <2> QED BY <2>1, SameCounts
<1>2. CASE ~Refused(e, null)
  <2> DEFINE at == AsU32(mem_used + HeaderBytes(e))
             d  == [e EXCEPT !.index = at]
  <2>1. /\ ~readOnly /\ Find(e.name) = 0 /\ AddElementToBuffer(e, value)
        /\ data' = Append(data, d)
        /\ UNCHANGED <<readOnly, validData, pc>>
    BY <1>2 DEF AddValue, AddError, Refused, parser
  <2>2. data \in Seq(Elements) /\ mem_used \in Nat
    BY DEF LayoutInv, TypeOK
  <2>3. at \in Nat
    <3>1. mem_used + HeaderBytes(e) \in Int
      BY <2>2, HeaderBytesNat DEF Addable
    <3> QED BY <3>1, AsU32Fits
  <2> HIDE DEF at
  <2>4. CASE validData
    BY <2>1, <2>3, <2>4, AddedCounts
  <2>5. CASE ~validData
    BY <2>1, <2>5 DEF Counted
  <2> QED BY <2>4, <2>5
<1> QED BY <1>1, <1>2

LEMMA UpdateCounts ==
  ASSUME LayoutInv, Counted, NEW name, NEW type, NEW value \in Seq(Nat),
         Update(name, type, value)
  PROVE  Counted'
<1> DEFINE error == IF readOnly THEN "ReadOnly" ELSE LookupError(name, type)
<1>1. CASE error # "None"
  <2>1. UNCHANGED <<object, pc>>
    BY <1>1 DEF Update, Fail, parser
  <2> QED BY <2>1, SameCounts
<1>2. CASE error = "None"
  <2>1. /\ pc = "ready" /\ ~readOnly /\ Find(name) # 0
        /\ p_data' = Write(p_data, data[Find(name)].index, value)
        /\ UNCHANGED <<readOnly, validData, data, mem_used, el_size, pc>>
    BY <1>2 DEF Update, LookupError, parser
  <2>2. Find(name) \in DOMAIN data
    BY <2>1, FindIsThere DEF LayoutInv, TypeOK
  <2>3. validData =>
          p_data'[SIZE] = p_data[SIZE] /\ p_data'[ELEMENTS] = p_data[ELEMENTS]
    BY <2>1, <2>2, UpdatedWords
  <2> QED BY <2>1, <2>3 DEF Counted, Distinct, SourceData
<1> QED BY <1>1, <1>2

LEMMA DeleteCounts ==
  ASSUME MaxCells < U32, LayoutInv, Counted, NEW name, Delete(name)
  PROVE  Counted'
<1> DEFINE error == IF readOnly THEN "ReadOnly"
                    ELSE IF Find(name) = 0 THEN "NotFound" ELSE "None"
<1>1. CASE error # "None"
  <2>1. UNCHANGED <<object, pc>>
    BY <1>1 DEF Delete, Fail, parser
  <2> QED BY <2>1, SameCounts
<1>2. CASE error = "None"
  <2>1. /\ pc = "ready" /\ ~readOnly /\ Find(name) # 0 /\ Erase(Find(name))
        /\ UNCHANGED <<readOnly, validData, pc>>
    BY <1>2 DEF Delete, parser
  <2>2. Find(name) \in DOMAIN data
    BY <2>1, FindIsThere DEF LayoutInv, TypeOK
  <2>3. CASE validData
    BY <2>1, <2>2, <2>3, ErasedCounts
  <2>4. CASE ~validData
    BY <2>1, <2>4 DEF Counted
  <2> QED BY <2>3, <2>4
<1> QED BY <1>1, <1>2

LEMMA CallCounts ==
  ASSUME MaxCells < U32, LayoutInv, LayoutInv', Counted,
         NEW name \in Names, Call(name)
  PROVE  Counted'
<1>1. name \in Nat
  BY CallerAssumption
<1>2. ASSUME NEW type \in Types, NEW value \in Values, AddScalar(name, type, value)
      PROVE  Counted'
  <2>1. type \in KnownTypes /\ value \in Seq(Nat)
    BY CallerAssumption
  <2>2. /\ SType[type] # 0 /\ Len(value) = SType[type]
        /\ AddValue(DType(type, name), value, FALSE)
    BY <1>2 DEF AddScalar
  <2>3. Addable(DType(type, name), value)
    BY <1>1, <2>1, <2>2, AddableScalar
  <2> QED BY <2>2, <2>3, AddCounts
<1>3. ASSUME NEW type \in Types, NEW value \in Values, Update(name, type, value)
      PROVE  Counted'
  BY <1>3, UpdateCounts, CallerAssumption
<1>4. ASSUME NEW type \in Types, NEW value \in Values, NEW null \in BOOLEAN,
             AddVariable(name, type, value, null)
      PROVE  Counted'
  <2> DEFINE e == [DType(type, name) EXCEPT !.size = AsU32(Len(value))]
  <2>1. type \in KnownTypes /\ value \in Seq(Nat)
    BY CallerAssumption
  <2>2. SType[type] = 0 /\ AddValue(e, value, null)
    BY <1>4 DEF AddVariable
  <2>3. Addable(e, value)
    BY <1>1, <2>1, <2>2, AddableVariable
  <2> HIDE DEF e
  <2> QED BY <2>2, <2>3, AddCounts
<1>5. CASE AddNoItems(name) \/ \E type \in Types : Get(name, type)
  <2>1. UNCHANGED <<object, pc>>
    BY <1>5 DEF AddNoItems, Get, Fail, parser
  <2> QED BY <2>1, SameCounts
<1> QED BY <1>2, <1>3, <1>4, <1>5, DeleteCounts DEF Call

-----------------------------------------------------------------------------
(* The way from sender to receiver. *)

(* A valid message in flight is received with its counts, unless it is one *)
(* that was never added to; any other is refused.                          *)
LEMMA WrapCounts ==
  ASSUME TypesAreNoVersions, CountsInv, BeginWrap
  PROVE  Counted' /\ Counting'
<1>1. /\ pc = IF wire = NULL THEN "ready" ELSE "sent"
      /\ ~validData' /\ data' = << >> /\ p_ex_data' = wire
      /\ mem_used' = IF HeaderTaken THEN wire[SIZE] ELSE 0
      /\ el_size' = IF HeaderTaken THEN wire[ELEMENTS] ELSE 0
      /\ pc' = IF HeaderError = "None" THEN "parsing" ELSE "ready"
  BY DEF BeginWrap
<1>2. CASE wire = NULL
  <2>1. HeaderError = "InvalidArgument" /\ ~HeaderTaken
    <3>1. Cells(wire) = 0
      BY <1>2, NullBlock
    <3> QED BY <1>2, <3>1 DEF HeaderError, HeaderTaken
  <2> QED BY <1>1, <2>1 DEF Counted, Counting
<1>3. CASE wire # NULL /\ ~validData
  <2>1. /\ wire = Resize(SourceData, mem_used) /\ mem_used > 0 /\ mem_used \in Nat
        /\ pc = "sent" /\ ~readOnly
    <3>1. wire = Resize(SourceData, mem_used) /\ mem_used > 0 /\ pc = "sent"
      BY <1>1, <1>3 DEF CountsInv, Counting
    <3>2. mem_used \in Nat /\ ~readOnly
      BY <1>3, <3>1 DEF CountsInv, Counted, RoundTripInv, LayoutInv, TypeOK
    <3> QED BY <3>1, <3>2
  <2>2. wire[VERSION] = Peek(p_data, VERSION)
    <3>1. 0 \in 0 .. mem_used - 1
      BY <2>1
    <3> QED BY <2>1, <3>1 DEF Resize, SourceData
  <2>3. ~GoodVersion(wire)
    <3>1. TypeOK /\ Inside /\ Stray
      BY DEF CountsInv, RoundTripInv, LayoutInv
    <3> QED BY <1>3, <2>1, <2>2, <3>1, StrayVersion DEF GoodVersion
  <2>4. ~HeaderTaken /\ HeaderError = "InvalidData"
    BY <1>3, <2>3 DEF HeaderTaken, HeaderError
  <2> QED BY <1>1, <2>4 DEF Counted, Counting
<1>4. CASE wire # NULL /\ validData
  <2>1. validData /\ wire = Resize(SourceData, mem_used)
    BY <1>1, <1>4 DEF CountsInv, Counting
  <2>2. /\ data \in Seq(Elements) /\ IsBlock(SourceData) /\ mem_used \in Nat
        /\ Tiled(data, SourceData, mem_used) /\ Ordered(data, mem_used)
        /\ GoodVersion(SourceData)
    BY <2>1, SourceBlock DEF CountsInv, RoundTripInv, LayoutInv, LayoutOK, TypeOK
  <2>3. /\ IsBlock(wire) /\ Cells(wire) = mem_used
        /\ \A k \in 0 .. mem_used - 1 : wire[k] = SourceData[k]
        /\ Tiled(data, wire, mem_used) /\ GoodVersion(wire)
    BY <2>1, <2>2, CopyCarries
  <2>4. 3 <= mem_used
    BY <2>2 DEF Tiled
  <2>5. wire[SIZE] = SourceData[SIZE] /\ wire[ELEMENTS] = SourceData[ELEMENTS]
    <3>1. 1 \in 0 .. mem_used - 1 /\ 2 \in 0 .. mem_used - 1
      BY <2>2, <2>4
    <3> QED BY <2>3, <3>1
  <2>6. /\ Distinct(data) /\ wire[ELEMENTS] = Len(data)
        /\ wire[SIZE] = mem_used \/ (data = << >> /\ wire[SIZE] = 0)
    BY <2>1, <2>5 DEF CountsInv, Counted, RoundTripInv, SizeWord
  <2>7. HeaderTaken
    BY <2>2, <2>3, <2>4 DEF HeaderTaken
  <2>8. CASE wire[SIZE] = mem_used
    <3>1. Carries(wire, data)
      BY <2>2, <2>3, <2>8 DEF Carries
    <3>2. HeaderError = "None"
      BY <1>4, <2>3, <3>1, HeaderAccepted
    <3>3. Prefix(<< >>, data)
      BY <2>2, LenProperties DEF Prefix
    <3>4. /\ Carries(p_ex_data', data) /\ Prefix(data', data) /\ Distinct(data)
          /\ el_size' = Len(data) /\ p_ex_data'[ELEMENTS] = Len(data)
      BY <1>1, <2>6, <2>7, <3>1, <3>3
    <3> QED BY <1>1, <3>2, <3>4 DEF Counted, Counting
  <2>9. CASE wire[SIZE] # mem_used
    <3>1. HeaderError = "InvalidData"
      BY <1>4, <2>2, <2>3, <2>4, <2>9 DEF HeaderError
    <3> QED BY <1>1, <2>6, <2>7, <2>9, <3>1 DEF Counted, Counting
  <2> QED BY <2>8, <2>9
<1> QED BY <1>2, <1>3, <1>4

LEMMA ParseCounts ==
  ASSUME MaxCells < U32, CountsInv, Parse
  PROVE  Counted' /\ Counting'
<1>1. pc = "parsing" /\ LayoutInv /\ ~validData /\ readOnly /\ data \in Seq(Elements)
  BY DEF Parse, ParseElement, ParseReject, ParseDone, CountsInv, RoundTripInv,
         LayoutInv, TypeOK
<1>2. PICK T : /\ Carries(p_ex_data, T) /\ Prefix(data, T) /\ Distinct(T)
               /\ el_size = Len(T) /\ p_ex_data[ELEMENTS] = Len(T)
  BY <1>1 DEF CountsInv, Counting
<1>3. CASE ParseElement
  <2> DEFINE n == Len(data)
             e == ElementAt(curr_index)
  <2>1. n + 1 \in DOMAIN T /\ e = T[n + 1]
    BY <1>1, <1>2, <1>3, NextElement DEF ParseElement
  <2>2. T \in Seq(Elements) /\ DOMAIN T = 1 .. Len(T) /\ Len(T) \in Nat
    BY <1>2, LenProperties DEF Carries
  <2>3. e \in Elements
    BY <2>1, <2>2, ElementOfSeq
  <2>4. data' = Append(data, e) /\ ~validData' /\ UNCHANGED <<p_ex_data, el_size, pc>>
    BY <1>1, <1>3 DEF ParseElement
  <2> HIDE DEF e
  <2>5. /\ n \in Nat /\ Len(data') = n + 1 /\ data'[n + 1] = e
        /\ \A i \in 1 .. n : data'[i] = data[i]
    BY <1>1, <2>3, <2>4, AppendProperties, LenProperties
  <2> HIDE DEF n
  <2>6. Prefix(data', T)
    <3>1. ASSUME NEW i \in 1 .. n + 1
          PROVE  data'[i] = T[i]
      BY <1>2, <2>1, <2>5 DEF Prefix, n
    <3> QED BY <2>1, <2>2, <2>5, <3>1 DEF Prefix
  <2> QED BY <1>1, <1>2, <2>4, <2>6 DEF Counted, Counting
<1>4. ~ParseReject
  BY <1>1, <1>2, NextElement DEF ParseReject
<1>5. CASE ParseDone
  <2>1. data = T
    BY <1>1, <1>2, <1>5, AllFound DEF ParseDone
  <2>2. /\ UNCHANGED <<readOnly, data, p_ex_data, mem_used, el_size>>
        /\ pc' = "ready" /\ validData'
    BY <1>5 DEF ParseDone, EndParse
  <2>3. p_ex_data[SIZE] = mem_used
    BY <1>1 DEF CountsInv, RoundTripInv, SizeWord
  <2> QED BY <1>1, <1>2, <2>1, <2>2, <2>3 DEF Counted, Counting, SourceData, Distinct
<1> QED BY <1>3, <1>4, <1>5 DEF Parse

LEMMA StrayStep ==
  ASSUME MaxCells < U32, LayoutInv, Inside, Counted, Stray, [Next]_vars
  PROVE  Stray'
<1>1. TypeOK
  BY DEF LayoutInv
<1>2. CASE UNCHANGED vars \/ Clear \/ Send \/ Lose
  <2>1. UNCHANGED object \/ validData'
    BY <1>2 DEF vars, Clear, InitHeader, Send, Lose
  <2> QED BY <2>1 DEF Stray, object
<1>3. CASE Construct \/ BeginWrap
  BY <1>3 DEF Construct, InitHeader, BeginWrap, Stray
<1>4. CASE Clone
  BY <1>1, <1>4, CloneStray DEF Clone
<1>5. CASE Parse
  <2>1. readOnly /\ readOnly' = readOnly
    BY <1>5 DEF Parse, ParseElement, ParseReject, ParseDone, EndParse, LayoutInv
  <2> QED BY <2>1 DEF Stray
<1>6. CASE \E name \in Names : Call(name)
  BY <1>1, <1>6, CallStray
<1> QED BY <1>2, <1>3, <1>4, <1>5, <1>6 DEF Next

LEMMA CountsStep ==
  ASSUME MaxCells < U32, TypesAreNoVersions, CountsInv, [Next]_vars
  PROVE  CountsInv'
<1> SUFFICES Counted' /\ Counting'
  <2>1. RoundTripInv' /\ InsideInv'
    BY RoundTripInvStep, InsideStep DEF CountsInv, RoundTripInv, InsideInv, NextDamage
  <2>2. Stray'
    BY StrayStep DEF CountsInv, RoundTripInv
  <2> QED BY <2>1, <2>2 DEF CountsInv, InsideInv
<1>1. /\ LayoutInv /\ RoundTripInv /\ RoundTripInv' /\ LayoutInv'
      /\ Counted /\ Counting
  BY RoundTripInvStep DEF CountsInv, RoundTripInv, NextDamage
<1>2. CASE UNCHANGED vars
  <2>1. UNCHANGED <<object, parser, wire>>
    BY <1>2 DEF vars
  <2> QED BY <1>1, <2>1, SameCounts DEF Counting, CountsInv, parser, object, SourceData
<1>3. CASE Construct \/ Clear \/ Clone \/ (\E name \in Names : Call(name)) \/ Lose
  <2>1. pc' = "ready" /\ Counted'
    <3>1. CASE Construct
      BY <3>1, EmptyCounts DEF Construct, parser
    <3>2. CASE Clear
      <4>1. CASE readOnly
        <5>1. UNCHANGED <<object, pc>> /\ pc = "ready"
          BY <3>2, <4>1 DEF Clear, parser
        <5> QED BY <1>1, <5>1, SameCounts
      <4>2. CASE ~readOnly
        BY <3>2, <4>2, EmptyCounts DEF Clear, parser, object
      <4> QED BY <4>1, <4>2
    <3>3. CASE Clone
      BY <1>1, <3>3, CloneCounts DEF Clone, CopyObject, parser
    <3>4. CASE Lose
      <4>1. pc = "sent" /\ pc' = "ready" /\ UNCHANGED object
        BY <3>4 DEF Lose
      <4> QED BY <1>1, <4>1 DEF Counted, Distinct, SourceData, object
    <3>5. ASSUME NEW name \in Names, Call(name)
          PROVE  pc' = "ready" /\ Counted'
      <4>1. pc = "ready" /\ UNCHANGED pc
        <5>1. pc = "ready"
          BY <3>5 DEF Call, AddScalar, AddVariable, AddNoItems, Get, Update, Delete
        <5>2. ASSUME NEW type, NEW value, NEW null,
                     AddScalar(name, type, value) \/ AddVariable(name, type, value, null)
              PROVE  UNCHANGED pc
          BY <5>2 DEF AddScalar, AddVariable, AddValue, Fail, parser
        <5>3. ASSUME NEW type, NEW value,
                     Update(name, type, value) \/ Get(name, type)
              PROVE  UNCHANGED pc
          BY <5>3 DEF Update, Get, Fail, parser
        <5>4. CASE AddNoItems(name) \/ Delete(name)
          BY <5>4 DEF AddNoItems, Delete, Fail, parser
        <5> QED BY <3>5, <5>1, <5>2, <5>3, <5>4 DEF Call
      <4> QED BY <1>1, <3>5, <4>1, CallCounts
    <3> QED BY <1>3, <3>1, <3>2, <3>3, <3>4, <3>5
  <2> QED BY <1>1, <2>1 DEF CountsInv, Counting
<1>4. CASE Send
  <2>1. /\ pc = "ready" /\ pc' = "sent" /\ UNCHANGED object
        /\ wire' = Resize(SourceData, mem_used) /\ mem_used \in 1 .. MaxCells
    BY <1>4 DEF Send
  <2>2. mem_used > 0
    BY <2>1
  <2>3. /\ UNCHANGED <<readOnly, validData, data, p_data, p_ex_data, mem_used, el_size>>
        /\ SourceData' = SourceData
    BY <2>1 DEF object, SourceData
  <2> QED BY <1>1, <2>1, <2>2, <2>3 DEF CountsInv, Counted, Counting, Distinct
<1>5. CASE BeginWrap \/ Parse
  BY <1>1, <1>5, WrapCounts, ParseCounts DEF CountsInv
<1> QED BY <1>2, <1>3, <1>4, <1>5 DEF Next

LEMMA CountsInit ==
  ASSUME MaxCells < U32, Init
  PROVE  CountsInv
<1>1. RoundTripInv
  BY RoundTripInit
<1>2. EmptyBlock[1] = 0 /\ EmptyBlock[2] = 0
  BY EmptyWords
<1>3. Counted /\ Counting /\ Stray
  BY <1>2 DEF Init, Counted, Counting, Distinct, SourceData, Stray
<1>4. Inside
  BY InsideInit DEF InsideInv
<1> QED BY <1>1, <1>3, <1>4 DEF CountsInv

(* A valid message that no channel has damaged has no two elements of one  *)
(* name, and its table, el_size and the words of its header agree, in the  *)
(* object that was built, in clones and in receivers.                      *)
THEOREM CountsCorrect ==
  ASSUME MaxCells < U32, TypesAreNoVersions
  PROVE  Spec => []CountsOK
<1>1. Init => CountsInv
  BY CountsInit
<1>2. CountsInv /\ [Next]_vars => CountsInv'
  BY CountsStep
<1>3. CountsInv => CountsOK
  BY DEF CountsInv, Counted, CountsOK, Distinct, RoundTripInv, SizeWord
<1> QED BY <1>1, <1>2, <1>3, PTL DEF Spec

-----------------------------------------------------------------------------
(* What failed allocations do to a message: SoundUnlessUnstored and        *)
(* LossReported.                                                           *)
(*                                                                         *)
(* A call that fails for want of memory changes nothing, or leaves an      *)
(* object that says it is invalid, or succeeds all the same; each keeps    *)
(* the invariant of the counts.  The one that does not, the Add that goes  *)
(* on without memory, ends the model.                                      *)

(* The invariant until an Add goes on without memory. *)
FailureInv ==
  ~unstored =>
    \/ CountsInv
    \/ pc = "crashed" /\ ~validData

-----------------------------------------------------------------------------
(* The calls that fail. *)

(* A call that gives up before it changes anything. *)
LEMMA GiveUpCounts ==
  ASSUME CountsInv, pc = "ready", NEW name, NEW type,
         Fail("Add", name, type, "OutOfMemory")
  PROVE  CountsInv'
<1>1. /\ UNCHANGED <<object, parser, wire, sent>>
      /\ last_error' = "OutOfMemory" /\ ret'.op = "Add" /\ ret'.ok = FALSE
  BY DEF Fail, Return
<1>2. TypeOK /\ LayoutInv /\ SizeWord /\ InFlight /\ Inside /\ Counted /\ Stray
  BY DEF CountsInv, RoundTripInv, LayoutInv
<1>3. TypeOK'
  BY <1>1, <1>2 DEF TypeOK, object, parser, IsBlock, Cells, Block, Errors, Calls
<1>4. LayoutInv'
  <2>1. Sound' /\ Parsing' /\ Small'
    BY <1>1, <1>2, LayoutParts
    DEF object, parser, Sound, Parsing, Small, SourceData
  <2> QED BY <1>3, <2>1, PartsTogether
<1>5. SizeWord'
  BY <1>1, <1>2 DEF object, parser, SizeWord, SourceData
<1>6. InFlight'
  BY <1>1, <1>2 DEF parser, InFlight
<1>7. Counted' /\ Counting'
  BY <1>1, <1>2, SameCounts DEF parser, Counting
<1>8. Inside' /\ Stray'
  BY <1>1, <1>2, SameInside DEF object, Stray
<1> QED BY <1>4, <1>5, <1>6, <1>7, <1>8 DEF CountsInv, RoundTripInv

(* A call that ends without a block leaves an object marked invalid. *)
LEMMA NoBlockCounts ==
  ASSUME CountsInv, pc = "ready", NoBlock, ~readOnly', readOnly' \in BOOLEAN,
         IsBlock(p_ex_data'), UNCHANGED <<parser, wire, sent>>,
         NEW op \in Calls, Return(op, NoName, NoType, TRUE, "OutOfMemory", << >>)
  PROVE  CountsInv'
<1>1. /\ last_error' = "OutOfMemory" /\ ret'.op = op /\ ret'.ok = TRUE
      /\ pc' = "ready" /\ ~validData'
      /\ p_data' = NULL /\ p_size' = 0 /\ data' = << >>
  BY DEF Return, parser, NoBlock
<1>2. TypeOK /\ Small /\ InFlight
  BY LayoutParts DEF CountsInv, RoundTripInv
<1>3. TypeOK'
  <2>1. p_data' \in Block(p_size')
    BY <1>1, NullBlock
  <2>2. data' \in Seq(Elements)
    BY <1>1
  <2>3. /\ mem_used' = 0 /\ el_size' = 0 /\ p_size' = 0
        /\ validData' \in BOOLEAN /\ readOnly' \in BOOLEAN
    BY <1>1 DEF NoBlock
  <2>4. pc' \in {"ready", "sent", "parsing"} /\ curr_index' \in Nat /\ IsBlock(wire')
    BY <1>2 DEF TypeOK, parser, IsBlock
  <2>5. last_error' \in Errors /\ ret'.op \in Calls /\ ret'.ok \in BOOLEAN
    BY <1>1 DEF Errors
  <2>6. IsBlock(p_ex_data')
    OBVIOUS
  <2> QED BY <2>1, <2>2, <2>3, <2>4, <2>5, <2>6 DEF TypeOK, IsBlock
<1>4. LayoutInv'
  <2>1. Sound' /\ Parsing' /\ Small'
    BY <1>1, <1>2 DEF Sound, Parsing, Small
  <2> QED BY <1>3, <2>1, PartsTogether
<1>5. SizeWord' /\ InFlight'
  BY <1>1, <1>2 DEF SizeWord, InFlight
<1>6. Counted' /\ Counting'
  BY <1>1 DEF Counted, Counting
<1>7. Inside' /\ Stray'
  <2>1. mem_used' = 0 /\ p_size' = 0 /\ data' = << >>
    BY DEF NoBlock
  <2> QED BY <1>1, <2>1, NullBlock DEF Inside, SourceData, Stray, Headless, From
<1> QED BY <1>4, <1>5, <1>6, <1>7 DEF CountsInv, RoundTripInv

LEMMA RecoveryCounts ==
  ASSUME CountsInv, CloneRecovers
  PROVE  CountsInv'
<1>1. /\ CopyObject /\ Return("Clone", NoName, NoType, TRUE, "OutOfMemory", << >>)
      /\ pc = "ready" /\ pc' = "ready" /\ UNCHANGED <<wire, sent>>
  BY DEF CloneRecovers, CopyObject, parser
<1>2. /\ LayoutInv /\ TypeOK /\ Small /\ SizeWord /\ InFlight
      /\ Inside /\ Counted /\ Stray
  BY LayoutParts DEF CountsInv, RoundTripInv
<1>3. TypeOK'
  <2>1. "OutOfMemory" \in Errors
    BY DEF Errors
  <2> QED BY <1>1, <1>2, <2>1, CloneType
<1>4. LayoutInv'
  <2>1. Sound' /\ Parsing' /\ Small'
    BY <1>1, <1>2, CloneSound DEF Small
  <2> QED BY <1>3, <2>1, PartsTogether
<1>5. SizeWord' /\ InFlight'
  BY <1>1, <1>2, CloneSize DEF InFlight
<1>6. Counted' /\ Counting'
  BY <1>1, <1>2, CloneCounts DEF Counting
<1>7. Inside' /\ Stray'
  BY <1>1, <1>2, CloneInside, CloneStray
<1> QED BY <1>4, <1>5, <1>6, <1>7 DEF CountsInv, RoundTripInv

(* The header is written through a null pointer only in an object that is  *)
(* invalid: a valid one has a block.                                       *)
LEMMA CrashInvalid ==
  ASSUME CountsInv, NEW name, NEW type, NEW value, AddCrashes(name, type, value)
  PROVE  pc' = "crashed" /\ ~validData'
<1>1. p_data = NULL /\ ~readOnly /\ pc' = "crashed" /\ validData' = validData
  BY DEF AddCrashes, Adding, AddError, object
<1>2. validData => FALSE
  <2>1. LayoutOK /\ mem_used \in Nat
    BY DEF CountsInv, RoundTripInv, LayoutInv, TypeOK
  <2>2. validData => mem_used \in 3 .. Cells(NULL)
    BY <1>1, <2>1 DEF LayoutOK, Tiled, SourceData
  <2>3. Cells(NULL) = 0
    BY NullBlock
  <2> QED BY <2>2, <2>3
<1> QED BY <1>1, <1>2

LEMMA FailedCallCounts ==
  ASSUME CountsInv, FailedCall
  PROVE  CountsInv' \/ (pc' = "crashed" /\ ~validData')
<1>1. CASE ConstructFails \/ ClearFails \/ CloneFails
  <2>1. readOnly \in BOOLEAN /\ IsBlock(p_ex_data) /\ IsBlock(NULL)
    BY NullBlock DEF CountsInv, RoundTripInv, LayoutInv, TypeOK
  <2>2. "Construct" \in Calls /\ "Clear" \in Calls /\ "Clone" \in Calls
    BY DEF Calls
  <2>3. CASE ConstructFails
    <3>1. /\ pc = "ready" /\ NoBlock /\ readOnly' = FALSE /\ p_ex_data' = NULL
          /\ Return("Construct", NoName, NoType, TRUE, "OutOfMemory", << >>)
          /\ UNCHANGED <<parser, wire, sent>>
      BY <2>3 DEF ConstructFails
    <3> QED BY <3>1, <2>1, <2>2, NoBlockCounts
  <2>4. CASE ClearFails
    <3>1. /\ pc = "ready" /\ NoBlock /\ ~readOnly
          /\ readOnly' = readOnly /\ p_ex_data' = p_ex_data
          /\ Return("Clear", NoName, NoType, TRUE, "OutOfMemory", << >>)
          /\ UNCHANGED <<parser, wire, sent>>
      BY <2>4 DEF ClearFails
    <3>2. ~readOnly' /\ readOnly' \in BOOLEAN /\ IsBlock(p_ex_data')
      BY <3>1, <2>1
    <3> QED BY <3>1, <3>2, <2>2, NoBlockCounts
  <2>5. CASE CloneFails
    <3>1. /\ pc = "ready" /\ NoBlock /\ readOnly' = FALSE /\ p_ex_data' = NULL
          /\ Return("Clone", NoName, NoType, TRUE, "OutOfMemory", << >>)
          /\ UNCHANGED <<parser, wire, sent>>
      BY <2>5 DEF CloneFails
    <3> QED BY <3>1, <2>1, <2>2, NoBlockCounts
  <2> QED BY <1>1, <2>3, <2>4, <2>5
<1>2. CASE CloneRecovers
  BY <1>2, RecoveryCounts
<1>3. ASSUME NEW name, ItemsGiveUp(name)
      PROVE  CountsInv'
  BY <1>3, GiveUpCounts DEF ItemsGiveUp
<1>4. ASSUME NEW name, NEW type, NEW value, AddGivesUp(name, type, value)
      PROVE  CountsInv'
  BY <1>4, GiveUpCounts DEF AddGivesUp, Adding
<1> QED BY <1>1, <1>2, <1>3, <1>4, CrashInvalid DEF FailedCall

-----------------------------------------------------------------------------
(* The steps. *)

(* After a crash nothing happens. *)
LEMMA CrashEnds ==
  ASSUME pc = "crashed"
  PROVE  /\ ~Next /\ ~FailedCall
         /\ \A name, type, value : ~AddGoesOn(name, type, value)
<1>1. pc # "ready" /\ pc # "sent" /\ pc # "parsing"
  OBVIOUS
<1>2. \A name \in Names : ~Call(name)
  BY <1>1 DEF Call, AddScalar, AddVariable, AddNoItems, Get, Update, Delete
<1>3. ~Next
  BY <1>1, <1>2 DEF Next, Construct, Clear, Clone, CopyObject, Send, Lose, BeginWrap,
                    Parse, ParseElement, ParseReject, ParseDone
<1>4. ~FailedCall
  BY <1>1 DEF FailedCall, ConstructFails, ClearFails, CloneFails, CloneRecovers,
              CopyObject, ItemsGiveUp, AddGivesUp, AddCrashes, Adding
<1>5. \A name, type, value : ~AddGoesOn(name, type, value)
  BY <1>1 DEF AddGoesOn, Adding
<1> QED BY <1>3, <1>4, <1>5

LEMMA FailureStep ==
  ASSUME MaxCells < U32, TypesAreNoVersions, FailureInv, [NextOOM]_<<vars, unstored>>
  PROVE  FailureInv'
<1>1. CASE unstored'
  BY <1>1 DEF FailureInv
<1>2. CASE ~unstored' /\ UNCHANGED <<vars, unstored>>
  <2>1. CASE CountsInv
    <3>1. [Next]_vars
      BY <1>2
    <3> QED BY <2>1, <3>1, CountsStep DEF FailureInv
  <2>2. CASE pc = "crashed" /\ ~validData
    BY <1>2, <2>2 DEF FailureInv, vars, object, parser
  <2> QED BY <1>2, <2>1, <2>2 DEF FailureInv
<1>3. CASE ~unstored' /\ NextOOM
  <2>1. ~unstored /\ (Next \/ FailedCall)
    BY <1>3 DEF NextOOM, AddGoesOn
  <2>2. CountsInv
    BY <2>1, CrashEnds DEF FailureInv
  <2> QED BY <2>1, <2>2, CountsStep, FailedCallCounts DEF FailureInv
<1> QED BY <1>1, <1>2, <1>3

(* Allocations that fail in the constructor, in Clear, in Clone or before  *)
(* an Add has begun leave every valid message with a table that agrees     *)
(* with its buffer and right counts, and the program ends only in an       *)
(* object that has been reported invalid.                                  *)
THEOREM SoundAfterFailures ==
  ASSUME MaxCells < U32, TypesAreNoVersions
  PROVE  SpecOOM => []SoundUnlessUnstored
<1>1. Init => FailureInv
  BY CountsInit DEF FailureInv
<1>2. FailureInv /\ [NextOOM]_<<vars, unstored>> => FailureInv'
  BY FailureStep
<1>3. FailureInv => SoundUnlessUnstored
  <2>1. CountsInv => LayoutOK /\ CountsOK /\ pc # "crashed"
    BY DEF CountsInv, Counted, CountsOK, Distinct, RoundTripInv, SizeWord,
           LayoutInv, TypeOK
  <2>2. pc = "crashed" /\ ~validData => LayoutOK /\ CountsOK
    BY DEF LayoutOK, CountsOK
  <2> QED BY <2>1, <2>2 DEF FailureInv, SoundUnlessUnstored
<1> QED BY <1>1, <1>2, <1>3, PTL DEF SpecOOM

(* A valid message becomes invalid only together with the error that says  *)
(* why, whichever of the calls ran out of memory.                          *)
THEOREM LossIsReported == SpecOOM => LossReported
<1> DEFINE Told == validData /\ ~validData' /\ ret'.op # "Wrap" =>
                     last_error' = "OutOfMemory"
<1>1. ASSUME Next, validData, ~validData', ret'.op # "Wrap"
      PROVE  FALSE
  <2>1. ~(Construct \/ Clear \/ Clone \/ Send \/ Lose)
    BY <1>1 DEF Construct, Clear, Clone, CopyObject, InitHeader, Send, Lose, object
  <2>2. ~BeginWrap /\ ~Parse
    <3>1. ASSUME NEW error, NEW ok, Return("Wrap", NoName, NoType, ok, error, << >>)
          PROVE  ret'.op = "Wrap"
      BY <3>1 DEF Return
    <3>2. ~BeginWrap
      BY <1>1, <3>1 DEF BeginWrap
    <3>3. ~ParseReject /\ ~ParseDone
      BY <1>1, <3>1 DEF ParseReject, ParseDone, EndParse
    <3> QED BY <1>1, <3>2, <3>3 DEF Parse, ParseElement
  <2>3. ASSUME NEW name, Call(name)
        PROVE  FALSE
    <3>1. ASSUME NEW type, NEW value, NEW null,
                 AddScalar(name, type, value) \/ AddVariable(name, type, value, null)
          PROVE  FALSE
      BY <1>1, <3>1 DEF AddScalar, AddVariable, AddValue, Fail, object
    <3>2. ASSUME NEW type, NEW value, Update(name, type, value) \/ Get(name, type)
          PROVE  FALSE
      BY <1>1, <3>2 DEF Update, Get, Fail, object
    <3>3. ~AddNoItems(name) /\ ~Delete(name)
      BY <1>1 DEF AddNoItems, Delete, Fail, object
    <3> QED BY <2>3, <3>1, <3>2, <3>3 DEF Call
  <2> QED BY <1>1, <2>1, <2>2, <2>3 DEF Next
<1>2. FailedCall => Told
  BY DEF FailedCall, ConstructFails, ClearFails, CloneFails, CloneRecovers,
         CopyObject, ItemsGiveUp, AddGivesUp, AddCrashes, Fail, Return, object
<1>3. \A name, type, value : AddGoesOn(name, type, value) => Told
  BY DEF AddGoesOn
<1>4. [NextOOM]_<<vars, unstored>> => [Told]_vars
  BY <1>1, <1>2, <1>3 DEF NextOOM
<1> QED BY <1>4, PTL DEF SpecOOM, LossReported

=============================================================================
