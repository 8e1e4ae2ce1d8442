--------------------------- MODULE RefinementProofs ---------------------------
(***************************************************************************)
(* DcMsg implements Dictionary, for all types, names and values: every     *)
(* step of the object is one of the dictionary's or changes nothing a      *)
(* caller can see.                                                         *)
(*                                                                         *)
(* What there is to show is a frame: an operation that moves cells about   *)
(* moves the indices of the table with them, so that each element it is    *)
(* not about keeps its value.                                              *)
(***************************************************************************)
EXTENDS DcMsgRefinement, RoundTripProofs

USE DEF HEADER_ELEMENTS, DTYPE_SIZE_NAME, SIZEOF_U32, VERSION, SIZE, ELEMENTS

-----------------------------------------------------------------------------
(* What a message says, as a sequence. *)

Entry == [name : Nat, type : KnownTypes, value : Seq(Nat)]

LEMMA ValueSeq ==
  ASSUME NEW b, IsBlock(b), NEW e \in Elements
  PROVE  /\ ValueOf(b, e) \in Seq(Nat)
         /\ Len(ValueOf(b, e)) = e.size /\ DOMAIN ValueOf(b, e) = 1 .. e.size
<1>1. e.size \in Nat
  BY ElementBounds
<1>2. ValueOf(b, e) \in [1 .. e.size -> Nat]
  BY PeekCell DEF ValueOf
<1>3. ValueOf(b, e) \in Seq(Nat)
  BY <1>1, <1>2, SeqDef
<1> QED BY <1>1, <1>2, <1>3, LenProperties

LEMMA EntriesSeq ==
  ASSUME NEW table \in Seq(Elements), NEW b, IsBlock(b)
  PROVE  /\ Entries(table, b) \in Seq(Entry)
         /\ Len(Entries(table, b)) = Len(table)
         /\ DOMAIN Entries(table, b) = 1 .. Len(table)
         /\ \A i \in 1 .. Len(table) :
              /\ Entries(table, b)[i].name = table[i].name
              /\ Entries(table, b)[i].type = table[i].type
              /\ Entries(table, b)[i].value = ValueOf(b, table[i])
<1>1. Len(table) \in Nat /\ DOMAIN table = 1 .. Len(table)
  BY LenProperties
<1>2. ASSUME NEW i \in 1 .. Len(table)
      PROVE  [name |-> table[i].name, type |-> table[i].type,
              value |-> ValueOf(b, table[i])] \in Entry
  <2>1. table[i] \in Elements
    BY <1>1, <1>2, ElementOfSeq
  <2> QED BY <2>1, ValueSeq DEF Entry, Elements
<1>3. Entries(table, b) \in [1 .. Len(table) -> Entry]
  BY <1>1, <1>2 DEF Entries
<1>4. Entries(table, b) \in Seq(Entry)
  BY <1>1, <1>3, SeqDef
<1>5. \A i \in 1 .. Len(table) :
        Entries(table, b)[i] =
          [name |-> table[i].name, type |-> table[i].type,
           value |-> ValueOf(b, table[i])]
  BY <1>1 DEF Entries
<1>6. DOMAIN Entries(table, b) = 1 .. Len(table)
  BY <1>3
<1> QED BY <1>1, <1>4, <1>5, <1>6, LenProperties

LEMMA EntryEqual ==
  ASSUME NEW a \in Entry, NEW b \in Entry,
         a.name = b.name, a.type = b.type, a.value = b.value
  PROVE  a = b
BY DEF Entry

(* A sequence without its k-th element. *)
LEMMA RemovedSeq ==
  ASSUME NEW S, NEW s \in Seq(S), NEW k \in 1 .. Len(s)
  PROVE  LET r == SubSeq(s, 1, k - 1) \o SubSeq(s, k + 1, Len(s))
         IN /\ r \in Seq(S) /\ Len(r) = Len(s) - 1
            /\ \A i \in 1 .. Len(s) - 1 : r[i] = IF i < k THEN s[i] ELSE s[i + 1]
<1> DEFINE n == Len(s)
           left == SubSeq(s, 1, k - 1)
           right == SubSeq(s, k + 1, n)
<1>1. n \in Nat /\ k \in 1 .. n /\ \A i \in 1 .. n : s[i] \in S
  BY LenProperties, ElementOfSeq
<1>2. /\ left \in Seq(S) /\ Len(left) = k - 1
      /\ \A i \in 1 .. k - 1 : left[i] = s[i]
  BY <1>1, SubSeqProperties
<1>3. /\ right \in Seq(S) /\ Len(right) = n - k
      /\ \A i \in 1 .. n - k : right[i] = s[k + i]
  BY <1>1, SubSeqProperties
<1> HIDE DEF left, right
<1>4. /\ left \o right \in Seq(S)
      /\ Len(left \o right) = Len(left) + Len(right)
      /\ \A i \in 1 .. Len(left) + Len(right) :
           (left \o right)[i] =
             IF i <= Len(left) THEN left[i] ELSE right[i - Len(left)]
  BY <1>2, <1>3, ConcatProperties, Zenon
<1>5. ASSUME NEW i \in 1 .. n - 1
      PROVE  (left \o right)[i] = IF i < k THEN s[i] ELSE s[i + 1]
  <2>1. CASE i < k
    BY <1>1, <1>2, <1>3, <1>4, <2>1
  <2>2. CASE i >= k
    <3> DEFINE j == i - (k - 1)
    <3>1. j \in 1 .. n - k /\ k + j = i + 1
      BY <1>1, <2>2
    <3>2. (left \o right)[i] = right[j]
      BY <1>1, <1>2, <1>3, <1>4, <2>2
    <3>3. right[j] = s[i + 1]
      BY <1>3, <3>1
    <3> QED BY <1>1, <2>2, <3>2, <3>3
  <2>3. i < k \/ i >= k
    BY <1>1
  <2> QED BY <2>1, <2>2, <2>3
<1>6. Len(left \o right) = n - 1
  BY <1>1, <1>2, <1>3, <1>4
<1> QED BY <1>4, <1>5, <1>6 DEF left, right

(* An element that lies where it lay, with its cells shifted by the same   *)
(* distance, has the value it had.                                         *)
LEMMA MovedValue ==
  ASSUME NEW b, NEW c, NEW e \in Elements, NEW d \in Elements, NEW n \in Int,
         d.index = e.index - n, d.size = e.size,
         \A k \in d.index .. EndOf(d) - 1 : Peek(c, k) = Peek(b, k + n)
  PROVE  ValueOf(c, d) = ValueOf(b, e)
<1>1. /\ e.size \in Nat /\ e.index \in Nat /\ d.index \in Nat
      /\ EndOf(d) = d.index + e.size
  BY ElementBounds
<1>2. ASSUME NEW k \in 1 .. e.size
      PROVE  Peek(c, d.index + k - 1) = Peek(b, e.index + k - 1)
  <2>1. /\ d.index + k - 1 \in d.index .. EndOf(d) - 1
        /\ d.index + k - 1 + n = e.index + k - 1
    BY <1>1
  <2>2. Peek(c, d.index + k - 1) = Peek(b, d.index + k - 1 + n)
    BY <2>1
  <2> QED BY <2>1, <2>2
<1> QED BY <1>2 DEF ValueOf

(* Two messages that agree on each element are equal. *)
LEMMA EntriesEqual ==
  ASSUME NEW s \in Seq(Entry), NEW t \in Seq(Entry), Len(s) = Len(t),
         \A i \in 1 .. Len(s) :
           s[i].name = t[i].name /\ s[i].type = t[i].type /\ s[i].value = t[i].value
  PROVE  s = t
<1>1. ASSUME NEW i \in 1 .. Len(s)
      PROVE  s[i] = t[i]
  BY ElementOfSeq, EntryEqual
<1> QED BY <1>1, SeqEqual

LEMMA AddedEntries ==
  ASSUME MaxCells < U32, LayoutInv, validData, ~readOnly, ~readOnly',
         NEW e, NEW value, Addable(e, value), e.size = Len(value),
         mem_used + HeaderBytes(e) + e.size <= MaxCells,
         AddElementToBuffer(e, value),
         data' = Append(data, [e EXCEPT !.index = AsU32(mem_used + HeaderBytes(e))])
  PROVE  Contents' = Append(Contents, [name |-> e.name, type |-> e.type,
                                       value |-> value])
<1> DEFINE at == mem_used + HeaderBytes(e)
           d  == [e EXCEPT !.index = at]
           n  == Len(data)
           x  == [name |-> e.name, type |-> e.type, value |-> value]
<1>1. /\ TypeOK /\ data \in Seq(Elements) /\ mem_used \in Nat
      /\ p_data \in Block(p_size) /\ p_size \in Nat /\ IsBlock(p_data)
      /\ Cells(p_data) = p_size
      /\ Tiled(data, p_data, mem_used) /\ Ordered(data, mem_used)
  BY CellsOfBlock DEF LayoutInv, LayoutOK, TypeOK, SourceData
<1>2. /\ e \in Elements /\ e.size \in Nat /\ value \in Seq(Nat)
      /\ HeaderBytes(e) \in Nat
  BY HeaderBytesNat DEF Addable, Elements
<1>3. at \in Nat /\ AsU32(at) = at
  <2>1. at \in 0 .. U32 - 1
    BY <1>1, <1>2, CallerAssumption, FormatAssumption
  <2> QED BY <2>1, AsU32Fits
<1>4. /\ d \in Elements /\ d.index = at /\ d.name = e.name /\ d.type = e.type
      /\ d.size = e.size /\ EndOf(d) = at + e.size
  BY <1>2, <1>3, IndexedElement DEF EndOf
<1>5. data' = Append(data, d)
  BY <1>3
<1> HIDE DEF d
<1>6. /\ mem_used' = at + e.size
      /\ p_data' \in Block(p_size') /\ p_size' \in Nat /\ mem_used' <= p_size'
      /\ \A k \in 0 .. mem_used - 1 :
           k \notin {SIZE, ELEMENTS} => p_data'[k] = p_data[k]
      /\ \A i \in 1 .. e.size : p_data'[at + i - 1] = value[i]
  <2>1. mem_used <= p_size /\ HEADER_ELEMENTS <= mem_used
    BY <1>1 DEF Tiled
  <2> QED BY <1>1, <2>1, AddedBlock
<1>7. IsBlock(p_data') /\ Cells(p_data') = p_size'
  BY <1>6, CellsOfBlock
<1>8. ASSUME NEW k \in HEADER_ELEMENTS .. mem_used - 1
      PROVE  Peek(p_data', k) = Peek(p_data, k)
  <2> DEFINE size == p_size'
  <2>1. /\ mem_used \in Nat /\ p_size \in Nat /\ size \in Nat
        /\ mem_used <= p_size /\ mem_used <= size
    BY <1>1, <1>2, <1>6, SMTT(30) DEF Tiled
  <2> HIDE DEF size
  <2>2. /\ k \in 0 .. mem_used - 1 /\ k \notin {SIZE, ELEMENTS}
        /\ k \in 0 .. p_size - 1 /\ k \in 0 .. size - 1
    BY <2>1
  <2>3. Peek(p_data, k) = p_data[k] /\ Peek(p_data', k) = p_data'[k]
    BY <1>1, <1>7, <2>2, PeekCell DEF size
  <2> QED BY <1>6, <2>2, <2>3
<1>9. Entries(data, p_data') = Entries(data, p_data)
  BY <1>1, <1>8, CopyEntries
<1>10. ValueOf(p_data', d) = value
  <2>1. ASSUME NEW i \in 1 .. e.size
        PROVE  ValueOf(p_data', d)[i] = value[i]
    <3>1. at + i - 1 \in 0 .. p_size' - 1
      BY <1>1, <1>2, <1>6, SMTT(30)
    <3>2. Peek(p_data', at + i - 1) = p_data'[at + i - 1]
      BY <1>7, <3>1, PeekCell
    <3> QED BY <1>4, <1>6, <3>2 DEF ValueOf
  <2>2. ValueOf(p_data', d) \in Seq(Nat) /\ Len(ValueOf(p_data', d)) = e.size
    BY <1>4, <1>7, ValueSeq
  <2> QED BY <1>2, <2>1, <2>2, SeqEqual
<1>11. /\ data' \in Seq(Elements) /\ n \in Nat /\ Len(data') = n + 1
       /\ data'[n + 1] = d /\ \A i \in 1 .. n : data'[i] = data[i]
  BY <1>1, <1>4, <1>5, AppendProperties, LenProperties
<1> DEFINE s == Entries(data', p_data')
           t == Entries(data, p_data)
<1>12. /\ s \in Seq(Entry) /\ Len(s) = n + 1
       /\ \A i \in 1 .. n + 1 :
            /\ s[i].name = data'[i].name /\ s[i].type = data'[i].type
            /\ s[i].value = ValueOf(p_data', data'[i])
  <2>0. data' \in Seq(Elements) /\ IsBlock(p_data')
    BY <1>7, <1>11
  <2>1. /\ s \in Seq(Entry) /\ Len(s) = Len(data')
        /\ \A i \in 1 .. Len(data') :
             /\ s[i].name = data'[i].name /\ s[i].type = data'[i].type
             /\ s[i].value = ValueOf(p_data', data'[i])
    BY <2>0, EntriesSeq, ZenonT(30)
  <2> QED BY <1>11, <2>1
<1>13. /\ t \in Seq(Entry) /\ Len(t) = n
       /\ \A i \in 1 .. n :
            /\ t[i].name = data[i].name /\ t[i].type = data[i].type
            /\ t[i].value = ValueOf(p_data', data[i])
  BY <1>1, <1>7, <1>9, EntriesSeq
<1>14. x \in Entry /\ x.name = e.name /\ x.type = e.type /\ x.value = value
  BY <1>2 DEF Entry, Elements
<1>15. Contents' = s /\ Contents = t
  BY ContentsEntries DEF Contents, Entries, SourceData
<1> HIDE DEF s, t, x, at
<1>16. /\ Append(t, x) \in Seq(Entry) /\ Len(Append(t, x)) = n + 1
       /\ Append(t, x)[n + 1] = x /\ \A i \in 1 .. n : Append(t, x)[i] = t[i]
  BY <1>13, <1>14, AppendProperties
<1>17. ASSUME NEW i \in 1 .. n + 1
       PROVE  /\ s[i].name = Append(t, x)[i].name
              /\ s[i].type = Append(t, x)[i].type
              /\ s[i].value = Append(t, x)[i].value
  <2>1. CASE i = n + 1
    BY <1>4, <1>10, <1>11, <1>12, <1>14, <1>16, <2>1
  <2>2. CASE i # n + 1
    <3>1. i \in 1 .. n
      BY <1>11, <2>2
    <3> QED BY <1>11, <1>12, <1>13, <1>16, <3>1
  <2> QED BY <2>1, <2>2
<1>18. s = Append(t, x)
  BY <1>12, <1>16, <1>17, EntriesEqual
<1> QED BY <1>15, <1>18 DEF x

(* An element and the cells of its value lie apart from any other.         *)
LEMMA ElementsApart ==
  ASSUME NEW table \in Seq(Elements), NEW limit \in Nat, Ordered(table, limit),
         NEW i \in DOMAIN table, NEW j \in DOMAIN table, i # j
  PROVE  EndOf(table[i]) <= table[j].index \/ EndOf(table[j]) <= table[i].index
<1>1. /\ StartOf(table[i]) \in Nat /\ table[i].index \in Nat
      /\ StartOf(table[i]) < table[i].index /\ EndOf(table[i]) \in Nat
  BY Places
<1>2. /\ StartOf(table[j]) \in Nat /\ table[j].index \in Nat
      /\ StartOf(table[j]) < table[j].index /\ EndOf(table[j]) \in Nat
  BY Places
<1>3. i < j => EndOf(table[i]) <= StartOf(table[j])
  BY DEF Ordered
<1>4. j < i => EndOf(table[j]) <= StartOf(table[i])
  BY DEF Ordered
<1>5. i < j \/ j < i
  BY LenProperties
<1> QED BY <1>1, <1>2, <1>3, <1>4, <1>5

LEMMA UpdatedEntries ==
  ASSUME LayoutInv, validData, ~readOnly, UNCHANGED <<readOnly, data>>,
         NEW k \in DOMAIN data, NEW value \in Seq(Nat),
         Len(value) = data[k].size,
         p_data' = Write(p_data, data[k].index, value)
  PROVE  Contents' = [Contents EXCEPT ![k].value = value]
<1> DEFINE n  == Len(data)
           at == data[k].index
           c  == Write(p_data, at, value)
           s  == Entries(data, c)
           t  == Entries(data, p_data)
<1>1. /\ data \in Seq(Elements) /\ mem_used \in Nat
      /\ p_data \in Block(p_size) /\ p_size \in Nat /\ IsBlock(p_data)
      /\ Cells(p_data) = p_size /\ mem_used <= p_size
      /\ Ordered(data, mem_used)
  BY CellsOfBlock DEF LayoutInv, LayoutOK, TypeOK, SourceData, Tiled
<1>2. n \in Nat /\ DOMAIN data = 1 .. n /\ k \in 1 .. n
  BY <1>1, LenProperties
<1>3. ASSUME NEW i \in DOMAIN data
      PROVE  /\ data[i] \in Elements /\ data[i].index \in Nat
             /\ EndOf(data[i]) \in Nat /\ EndOf(data[i]) <= mem_used
             /\ data[i].size \in Nat /\ EndOf(data[i]) = data[i].index + data[i].size
  BY <1>1, Places, ElementBounds
<1>4. at \in Nat /\ at + Len(value) <= mem_used /\ Len(value) \in Nat
  BY <1>3
<1> HIDE DEF at
<1>5. /\ c \in Block(p_size)
      /\ \A j \in 0 .. p_size - 1 :
           c[j] = IF at <= j /\ j < at + Len(value) THEN value[j - at + 1]
                  ELSE p_data[j]
  <2>1. at \in Int
    BY <1>4
  <2> QED BY <1>1, <2>1, WriteBlock
<1> HIDE DEF c
<1>6. IsBlock(c) /\ Cells(c) = p_size
  BY <1>1, <1>5, CellsOfBlock
<1>7. ASSUME NEW i \in DOMAIN data, i # k
      PROVE  ValueOf(c, data[i]) = ValueOf(p_data, data[i])
  <2>1. EndOf(data[i]) <= at \/ at + Len(value) <= data[i].index
    <3>1. EndOf(data[i]) <= data[k].index \/ EndOf(data[k]) <= data[i].index
      BY <1>1, <1>7, ElementsApart
    <3> QED BY <1>3, <3>1 DEF at
  <2>2. ASSUME NEW j \in data[i].index .. EndOf(data[i]) - 1
        PROVE  Peek(c, j) = Peek(p_data, j + 0)
    <3> DEFINE from == data[i].index
               to   == EndOf(data[i])
    <3>1. /\ from \in Nat /\ to \in Nat /\ to <= mem_used
          /\ to <= at \/ at + Len(value) <= from
      BY <1>3, <2>1
    <3> HIDE DEF from, to
    <3>2. /\ j \in 0 .. p_size - 1 /\ ~(at <= j /\ j < at + Len(value))
          /\ j + 0 = j
      <4>1. j \in from .. to - 1
        BY DEF from, to
      <4> QED BY <1>1, <1>4, <3>1, <4>1
    <3>3. Peek(c, j) = c[j] /\ Peek(p_data, j) = p_data[j]
      BY <1>1, <1>6, <3>2, PeekCell
    <3> QED BY <1>5, <3>2, <3>3
  <2>3. 0 \in Int /\ data[i].index = data[i].index - 0 /\ data[i] \in Elements
    BY <1>3
  <2>4. \A j \in data[i].index .. EndOf(data[i]) - 1 : Peek(c, j) = Peek(p_data, j + 0)
    BY <2>2
  <2> QED BY <2>3, <2>4, MovedValue, Zenon
<1>8. ValueOf(c, data[k]) = value
  <2>1. ASSUME NEW j \in 1 .. data[k].size
        PROVE  ValueOf(c, data[k])[j] = value[j]
    <3>1. /\ at + j - 1 \in 0 .. p_size - 1
          /\ at <= at + j - 1 /\ at + j - 1 < at + Len(value)
          /\ at + j - 1 - at + 1 = j
      BY <1>1, <1>4
    <3>2. Peek(c, at + j - 1) = c[at + j - 1]
      BY <1>6, <3>1, PeekCell
    <3>3. c[at + j - 1] = value[j]
      <4> DEFINE m == at + j - 1
      <4> HIDE DEF m
      <4>1. /\ m \in 0 .. p_size - 1 /\ at <= m /\ m < at + Len(value)
            /\ m - at + 1 = j
        <5>1. m \in 0 .. p_size - 1
          BY <3>1, Zenon DEF m
        <5>2. at <= m
          BY <3>1, Zenon DEF m
        <5>3. m < at + Len(value)
          BY <3>1, Zenon DEF m
        <5>4. m - at + 1 = j
          BY <1>4 DEF m
        <5> QED BY <5>1, <5>2, <5>3, <5>4
      <4>2. c[m] = value[m - at + 1]
        BY <1>5, <4>1
      <4> QED BY <4>1, <4>2 DEF m
    <3> QED BY <3>2, <3>3 DEF ValueOf, at
  <2>2. ValueOf(c, data[k]) \in Seq(Nat) /\ Len(ValueOf(c, data[k])) = data[k].size
    BY <1>3, <1>6, ValueSeq
  <2> QED BY <2>1, <2>2, SeqEqual
<1>9. /\ s \in Seq(Entry) /\ Len(s) = n
      /\ \A i \in 1 .. n :
           /\ s[i].name = data[i].name /\ s[i].type = data[i].type
           /\ s[i].value = ValueOf(c, data[i])
  BY <1>1, <1>6, EntriesSeq
<1>10. /\ t \in Seq(Entry) /\ Len(t) = n
       /\ \A i \in 1 .. n :
            /\ t[i].name = data[i].name /\ t[i].type = data[i].type
            /\ t[i].value = ValueOf(p_data, data[i])
  BY <1>1, EntriesSeq
<1>11. Contents' = s /\ Contents = t
  BY ContentsEntries DEF Contents, Entries, SourceData, c, at
<1> DEFINE x == [t[k] EXCEPT !.value = value]
<1> HIDE DEF s, t
<1>12. x \in Entry /\ x.name = t[k].name /\ x.type = t[k].type /\ x.value = value
  <2>1. t[k] \in Entry
    BY <1>2, <1>10, ElementOfSeq
  <2> QED BY <2>1 DEF Entry
<1>13. [t EXCEPT ![k].value = value] = [t EXCEPT ![k] = x]
  OBVIOUS
<1> HIDE DEF x
<1> DEFINE u == [t EXCEPT ![k] = x]
<1>14. /\ u \in Seq(Entry) /\ Len(u) = n
       /\ \A i \in 1 .. n : u[i] = IF i = k THEN x ELSE t[i]
  BY <1>2, <1>10, <1>12, ExceptSeq
<1> HIDE DEF u
<1>15. ASSUME NEW i \in 1 .. n
       PROVE  s[i].name = u[i].name /\ s[i].type = u[i].type /\ s[i].value = u[i].value
  <2>1. CASE i = k
    BY <1>2, <1>8, <1>9, <1>10, <1>12, <1>14, <2>1
  <2>2. CASE i # k
    BY <1>2, <1>7, <1>9, <1>10, <1>14, <2>2
  <2> QED BY <2>1, <2>2
<1>16. s = u
  BY <1>9, <1>14, <1>15, EntriesEqual
<1> QED BY <1>11, <1>13, <1>16 DEF u

LEMMA ErasedEntries ==
  ASSUME MaxCells < U32, LayoutInv, validData, ~readOnly, UNCHANGED readOnly,
         NEW k \in DOMAIN data, Erase(k)
  PROVE  Contents' = SubSeq(Contents, 1, k - 1)
                       \o SubSeq(Contents, k + 1, Len(Contents))
<1> DEFINE n     == Len(data)
           start == StartOf(data[k])
           total == HeaderBytes(data[k]) + data[k].size
           T     == Reindexed(k, total)
           used  == mem_used'
           c     == p_data'
           s     == Entries(T, c)
           t     == Entries(data, p_data)
<1>1. /\ TypeOK /\ data \in Seq(Elements) /\ mem_used \in Nat
      /\ p_data \in Block(p_size) /\ p_size \in Nat /\ IsBlock(p_data)
      /\ Cells(p_data) = p_size /\ mem_used <= p_size
      /\ Ordered(data, mem_used) /\ mem_used <= MaxCells
  BY CellsOfBlock DEF LayoutInv, LayoutOK, TypeOK, SourceData, Tiled
<1>2. n \in Nat /\ DOMAIN data = 1 .. n /\ k \in 1 .. n
  BY <1>1, LenProperties
<1>3. mem_used < U32 /\ mem_used < U64 /\ T = data'
  BY <1>1, CallerAssumption, FormatAssumption DEF Erase
<1>4. ASSUME NEW i \in DOMAIN data
      PROVE  /\ data[i] \in Elements /\ data[i].index \in Nat
             /\ StartOf(data[i]) \in Nat /\ StartOf(data[i]) < data[i].index
             /\ EndOf(data[i]) \in Nat /\ EndOf(data[i]) <= mem_used
             /\ 3 <= StartOf(data[i]) /\ data[i].index <= EndOf(data[i])
  BY <1>1, Places
<1>5. /\ total \in Nat /\ total = EndOf(data[k]) - start
      /\ used = mem_used - total /\ used \in Nat /\ start <= used
      /\ c \in Block(p_size)
      /\ \A j \in 0 .. p_size - 1 :
           j \notin {SIZE, ELEMENTS} =>
             c[j] = IF start <= j /\ j < used THEN Peek(p_data, j + total)
                    ELSE p_data[j]
  BY <1>1, <1>3, <1>4, ErasedBlock
<1>6. /\ T \in Seq(Elements) /\ Len(T) = n - 1
      /\ \A i \in 1 .. n - 1 :
           IF i < k THEN T[i] = data[i]
           ELSE /\ T[i] = [data[i + 1] EXCEPT !.index = data[i + 1].index - total]
                /\ StartOf(T[i]) = StartOf(data[i + 1]) - total
                /\ EndOf(T[i]) = EndOf(data[i + 1]) - total
                /\ data[i + 1].index - total \in Nat
  <2>1. Apart(data, mem_used)
    BY <1>1, OrderedApart
  <2> QED BY <1>1, <1>3, <1>5, <2>1, DeletedTable
<1>7. start \in Nat /\ 3 <= start /\ EndOf(data[k]) \in Nat
  BY <1>4
<1> HIDE DEF start, total, T, used, c
<1>8. IsBlock(c) /\ Cells(c) = p_size
  BY <1>1, <1>5, CellsOfBlock
<1>9. ASSUME NEW i \in 1 .. n - 1, i < k
      PROVE  ValueOf(c, T[i]) = ValueOf(p_data, data[i])
  <2>0. i \in DOMAIN data
    BY <1>2, <1>9
  <2>1. T[i] = data[i] /\ EndOf(data[i]) <= start
    <3>1. T[i] = data[i]
      BY <1>6, <1>9, Zenon
    <3>2. EndOf(data[i]) <= StartOf(data[k])
      BY <1>1, <1>9, <2>0 DEF Ordered
    <3> QED BY <3>1, <3>2 DEF start
  <2> DEFINE from == data[i].index
             to   == EndOf(data[i])
  <2>2. from \in Nat /\ 3 <= from /\ to \in Nat /\ to <= start
    BY <1>4, <2>0, <2>1
  <2> HIDE DEF from, to
  <2>3. ASSUME NEW j \in from .. to - 1
        PROVE  Peek(c, j) = Peek(p_data, j + 0)
    <3>1. /\ j \in 0 .. p_size - 1 /\ j \notin {SIZE, ELEMENTS}
          /\ ~(start <= j) /\ j + 0 = j
      BY <1>1, <1>5, <1>7, <2>2
    <3>2. Peek(c, j) = c[j] /\ Peek(p_data, j) = p_data[j]
      BY <1>1, <1>8, <3>1, PeekCell
    <3> QED BY <1>5, <3>1, <3>2
  <2>4. 0 \in Int /\ data[i].index = data[i].index - 0 /\ data[i] \in Elements
    BY <1>4, <2>0
  <2>5. \A j \in data[i].index .. EndOf(data[i]) - 1 : Peek(c, j) = Peek(p_data, j + 0)
    BY <2>3 DEF from, to
  <2>6. ValueOf(c, data[i]) = ValueOf(p_data, data[i])
    BY <2>4, <2>5, MovedValue, Zenon
  <2> QED BY <2>1, <2>6
<1>10. ASSUME NEW i \in 1 .. n - 1, ~(i < k)
       PROVE  ValueOf(c, T[i]) = ValueOf(p_data, data[i + 1])
  <2> DEFINE e    == data[i + 1]
             d    == T[i]
             from == d.index
             to   == EndOf(d)
  <2>1. i + 1 \in DOMAIN data /\ k < i + 1
    BY <1>2, <1>10
  <2>2. /\ e \in Elements /\ e.index \in Nat /\ StartOf(e) \in Nat
        /\ StartOf(e) < e.index /\ EndOf(e) \in Nat /\ EndOf(e) <= mem_used
    BY <1>4, <2>1
  <2>3. EndOf(data[k]) <= StartOf(e)
    BY <1>1, <2>1 DEF Ordered
  <2>4. /\ d = [e EXCEPT !.index = e.index - total] /\ e.index - total \in Nat
        /\ to = EndOf(e) - total
    BY <1>6, <1>10
  <2> HIDE DEF e, d
  <2>5. d \in Elements /\ d.size = e.size /\ d.index = e.index - total
    BY <2>2, <2>4, IndexedElement
  <2>6. from \in Nat /\ start <= from /\ to <= used /\ to \in Int
    <3>1. /\ total \in Nat /\ start + total = EndOf(data[k]) /\ start \in Nat
          /\ used = mem_used - total
      BY <1>5, <1>7
    <3>2. from = e.index - total
      BY <2>5
    <3> DEFINE x == EndOf(data[k])
               y == StartOf(e)
               z == EndOf(e)
               w == e.index
    <3>3. /\ x \in Nat /\ y \in Nat /\ z \in Nat /\ w \in Nat
          /\ x <= y /\ y < w /\ z <= mem_used /\ mem_used \in Nat
          /\ total \in Nat /\ start \in Nat /\ start + total = x
      BY <1>1, <1>7, <2>2, <2>3, <3>1
    <3>4. from = w - total /\ to = z - total /\ from \in Nat
      BY <2>4, <3>2
    <3> HIDE DEF from, to, x, y, z, w
    <3> QED BY <3>1, <3>3, <3>4
  <2> HIDE DEF from, to
  <2>7. ASSUME NEW j \in from .. to - 1
        PROVE  Peek(c, j) = Peek(p_data, j + total)
    <3>1. /\ j \in 0 .. p_size - 1 /\ j \notin {SIZE, ELEMENTS}
          /\ start <= j /\ j < used
      BY <1>1, <1>5, <1>7, <2>6
    <3>2. Peek(c, j) = c[j]
      BY <1>8, <3>1, PeekCell
    <3> QED BY <1>5, <3>1, <3>2
  <2>8. total \in Int
    BY <1>5
  <2>9. \A j \in d.index .. EndOf(d) - 1 : Peek(c, j) = Peek(p_data, j + total)
    BY <2>7 DEF from, to
  <2>10. ValueOf(c, d) = ValueOf(p_data, e)
    <3>1. e \in Elements
      BY <2>2
    <3>2. d \in Elements
      BY <2>5
    <3>3. d.size = e.size
      BY <2>5
    <3>4. d.index = e.index - total
      BY <2>5
    <3> QED BY <2>8, <2>9, <3>1, <3>2, <3>3, <3>4, MovedValue, ZenonT(60)
  <2> QED BY <2>10 DEF e, d
<1>11. /\ s \in Seq(Entry) /\ Len(s) = n - 1
       /\ \A i \in 1 .. n - 1 :
            /\ s[i].name = T[i].name /\ s[i].type = T[i].type
            /\ s[i].value = ValueOf(c, T[i])
  BY <1>6, <1>8, EntriesSeq
<1>12. /\ t \in Seq(Entry) /\ Len(t) = n
       /\ \A i \in 1 .. n :
            /\ t[i].name = data[i].name /\ t[i].type = data[i].type
            /\ t[i].value = ValueOf(p_data, data[i])
  BY <1>1, EntriesSeq
<1>13. Contents' = s /\ Contents = t
  BY <1>3, ContentsEntries DEF Contents, Entries, SourceData, c
<1> HIDE DEF s, t
<1> DEFINE u == SubSeq(t, 1, k - 1) \o SubSeq(t, k + 1, Len(t))
<1>14. /\ u \in Seq(Entry) /\ Len(u) = n - 1
       /\ \A i \in 1 .. n - 1 : u[i] = IF i < k THEN t[i] ELSE t[i + 1]
  <2>1. k \in 1 .. Len(t)
    BY <1>2, <1>12
  <2>2. /\ u \in Seq(Entry) /\ Len(u) = Len(t) - 1
        /\ \A i \in 1 .. Len(t) - 1 : u[i] = IF i < k THEN t[i] ELSE t[i + 1]
    BY <1>12, <2>1, RemovedSeq
  <2> HIDE DEF u
  <2> QED BY <1>12, <2>2
<1> HIDE DEF u
<1>15. ASSUME NEW i \in 1 .. n - 1
       PROVE  s[i].name = u[i].name /\ s[i].type = u[i].type /\ s[i].value = u[i].value
  <2>1. CASE i < k
    <3>1. /\ i \in 1 .. n
          /\ T[i] = data[i] /\ u[i] = t[i]
      <4>1. i \in 1 .. n
        BY <1>2
      <4>2. T[i] = data[i] /\ u[i] = t[i]
        BY <1>6, <1>14, <2>1, Zenon
      <4> QED BY <4>1, <4>2
    <3>2. ValueOf(c, T[i]) = ValueOf(p_data, data[i])
      BY <1>9, <2>1
    <3> QED BY <1>11, <1>12, <3>1, <3>2
  <2>2. CASE ~(i < k)
    <3>1. i + 1 \in 1 .. n
      BY <1>2
    <3>2. T[i].name = data[i + 1].name /\ T[i].type = data[i + 1].type
      <4>1. data[i + 1] \in Elements
        BY <1>2, <1>4, <3>1
      <4>2. T[i] = [data[i + 1] EXCEPT !.index = data[i + 1].index - total]
        BY <1>6, <2>2
      <4> QED BY <4>1, <4>2 DEF Elements
    <3>3. ValueOf(c, T[i]) = ValueOf(p_data, data[i + 1]) /\ u[i] = t[i + 1]
      BY <1>10, <1>14, <2>2
    <3> QED BY <1>11, <1>12, <3>1, <3>2, <3>3
  <2> QED BY <2>1, <2>2
<1>16. s = u
  BY <1>11, <1>14, <1>15, EntriesEqual
<1> QED BY <1>13, <1>16 DEF u

-----------------------------------------------------------------------------
(* The steps, one by one. *)

LEMMA NothingSaid ==
  /\ data = << >> => Contents = << >>
  /\ data' = << >> => Contents' = << >>
BY DEF Contents

LEMMA SameSaid ==
  ASSUME UNCHANGED object
  PROVE  Contents' = Contents
BY DEF object, Contents, SourceData

LEMMA ConstructRefines ==
  ASSUME Construct
  PROVE  Promise!Fresh
<1>1. Contents' = << >> /\ validData' /\ ~readOnly'
  BY NothingSaid DEF Construct, InitHeader
<1> QED BY <1>1 DEF Construct, Return, parser, Promise!Fresh, Promise!Succeed,
                    Promise!Reply, NoName, NoType,
                    Promise!NoName, Promise!NoType

LEMMA ClearRefines ==
  ASSUME Clear, readOnly \in BOOLEAN
  PROVE  Promise!Clear
<1>1. /\ pc = "ready" /\ UNCHANGED <<pc, sent, readOnly, last_error>>
      /\ ret' = [op |-> "Clear", name |-> 0, type |-> 0, ok |-> TRUE, out |-> << >>]
  BY DEF Clear, Return, parser, object, NoName, NoType
<1>2. CASE readOnly
  <2>1. UNCHANGED object
    BY <1>2 DEF Clear
  <2>2. Contents' = Contents /\ validData' = validData
    BY <2>1, SameSaid DEF object
  <2> QED BY <1>1, <1>2, <2>2 DEF Promise!Clear, Promise!Reply,
                                  Promise!NoName, Promise!NoType
<1>3. CASE ~readOnly
  <2>1. Contents' = << >> /\ validData' = TRUE
    BY <1>3, NothingSaid DEF Clear, InitHeader
  <2> QED BY <1>1, <1>3, <2>1 DEF Promise!Clear, Promise!Reply,
                                  Promise!NoName, Promise!NoType
<1> QED BY <1>2, <1>3

LEMMA CloneRefines ==
  ASSUME LayoutInv, Clone
  PROVE  Promise!Duplicate
<1>1. /\ pc = "ready" /\ UNCHANGED <<pc, sent, validData, data>> /\ ~readOnly'
      /\ p_data' = Resize(SourceData, mem_used) /\ last_error' = "None"
      /\ ret' = [op |-> "Clone", name |-> 0, type |-> 0, ok |-> TRUE, out |-> << >>]
  BY DEF Clone, CopyObject, Return, parser, NoName, NoType
<1>2. ASSUME validData
      PROVE  Contents' = Contents
  <2>1. /\ data \in Seq(Elements) /\ IsBlock(SourceData) /\ mem_used \in Nat
        /\ Tiled(data, SourceData, mem_used) /\ Ordered(data, mem_used)
        /\ GoodVersion(SourceData)
    BY <1>2, SourceBlock DEF LayoutInv, LayoutOK, TypeOK
  <2>2. Entries(data, p_data') = Entries(data, SourceData)
    BY <1>1, <2>1, CopyCarries
  <2>3. Contents' = Entries(data, p_data')
    BY <1>1 DEF Contents, SourceData, Entries
  <2> QED BY <2>2, <2>3, ContentsEntries
<1> QED BY <1>1, <1>2 DEF Promise!Duplicate, Promise!Succeed, Promise!Reply,
                          Promise!NoName, Promise!NoType

LEMMA SendRefines ==
  ASSUME RoundTripInv, Send
  PROVE  Promise!Publish
<1>1. /\ pc = "ready" /\ pc' = "sent" /\ UNCHANGED <<object, last_error>>
      /\ sent'.ok = (validData /\ data # << >>) /\ sent'.entries = Contents
      /\ ret' = [op |-> "Send", name |-> 0, type |-> 0, ok |-> TRUE, out |-> << >>]
  <2>1. sent' = [ok |-> validData /\ data # << >>, faults |-> sent.faults,
                 entries |-> Contents]
    BY DEF Send, RoundTripInv, InFlight
  <2> QED BY <2>1 DEF Send, Return, NoName, NoType
<1>2. UNCHANGED <<readOnly, validData>> /\ Contents' = Contents
  BY <1>1, SameSaid DEF object
<1> QED BY <1>1, <1>2, NothingSaid DEF Promise!Publish, Promise!Reply,
                                       Promise!NoName, Promise!NoType

LEMMA LoseRefines ==
  ASSUME RoundTripInv, Lose
  PROVE  Promise!Lost
<1>1. /\ pc = "sent" /\ pc' = "ready" /\ ~sent'.ok
      /\ UNCHANGED <<object, last_error, ret>>
  BY ForgetOK DEF Lose, RoundTripInv, InFlight
<1>2. UNCHANGED <<readOnly, validData>> /\ Contents' = Contents
  BY <1>1, SameSaid DEF object
<1> QED BY <1>1, <1>2 DEF Promise!Lost

LEMMA WrapRefines ==
  ASSUME RoundTripInv, BeginWrap
  PROVE  Promise!Arrive \/ Promise!Reject
<1>1. /\ pc = IF wire = NULL THEN "ready" ELSE "sent"
      /\ readOnly' /\ ~validData' /\ last_error' = HeaderError
      /\ pc' = IF HeaderError = "None" THEN "parsing" ELSE "ready"
      /\ IF HeaderError = "None" THEN UNCHANGED sent ELSE Forget
      /\ ret' = [op |-> "Wrap", name |-> 0, type |-> 0, ok |-> FALSE, out |-> << >>]
  BY DEF BeginWrap, Return, NoName, NoType
<1>2. CASE HeaderError = "None"
  <2>1. wire # NULL
    BY <1>2 DEF HeaderError
  <2> QED BY <1>1, <1>2, <2>1 DEF Promise!Arrive, Promise!Reply,
                                  Promise!NoName, Promise!NoType
<1>3. CASE HeaderError # "None"
  <2>1. ~sent.ok
    <3>1. SUFFICES ASSUME sent.ok
                   PROVE  FALSE
      OBVIOUS
    <3>2. pc = "sent" /\ wire # NULL
      BY <1>1, <3>1 DEF RoundTripInv, InFlight
    <3>3. PICK T : Carries(wire, T)
      BY <3>1, <3>2 DEF RoundTripInv, InFlight
    <3> QED BY <1>3, <3>2, <3>3, HeaderAccepted
              DEF RoundTripInv, LayoutInv, TypeOK
  <2>2. ~sent'.ok
    BY <1>1, <1>3, ForgetOK DEF RoundTripInv, InFlight
  <2>3. HeaderError \in {"InvalidArgument", "InvalidData"}
    BY <1>3 DEF HeaderError
  <2> QED BY <1>1, <1>3, <2>1, <2>2, <2>3
          DEF Promise!Reject, Promise!Reply, Promise!NoName, Promise!NoType
<1> QED BY <1>2, <1>3

(* The dictionary does not see the elements ParseData finds, only the last. *)
LEMMA ElementRefines ==
  ASSUME RoundTripInv, ParseElement
  PROVE  UNCHANGED Promise!vars
<1>1. UNCHANGED <<readOnly, validData, last_error, pc, sent, ret>>
  BY DEF ParseElement
<1>2. ~validData
  BY DEF ParseElement, RoundTripInv, LayoutInv
<1> QED BY <1>1, <1>2 DEF Promise!vars

LEMMA RejectRefines ==
  ASSUME MaxCells < U32, RoundTripInv, ParseReject
  PROVE  Promise!Reject
<1>1. /\ pc = "parsing" /\ curr_index < mem_used /\ ~Readable(curr_index)
      /\ pc' = "ready" /\ ~validData' /\ readOnly' = readOnly /\ Forget
      /\ last_error' = "InvalidData"
      /\ ret' = [op |-> "Wrap", name |-> 0, type |-> 0, ok |-> FALSE, out |-> << >>]
  BY DEF ParseReject, EndParse, Return, NoName, NoType
<1>2. ~sent.ok
  <2>1. SUFFICES ASSUME sent.ok
                 PROVE  FALSE
    OBVIOUS
  <2>2. PICK T : Carries(p_ex_data, T) /\ Prefix(data, T)
    BY <1>1, <2>1 DEF RoundTripInv, InFlight
  <2> QED BY <1>1, <2>2, NextElement DEF RoundTripInv
<1>3. ~sent'.ok /\ readOnly'
  BY <1>1, ForgetOK DEF RoundTripInv, InFlight, LayoutInv
<1> QED BY <1>1, <1>2, <1>3 DEF Promise!Reject, Promise!Reply,
                                Promise!NoName, Promise!NoType

LEMMA DoneRefines ==
  ASSUME RoundTripInv, ParseDone
  PROVE  Promise!Accept
<1>1. /\ pc = "parsing" /\ curr_index >= mem_used
      /\ pc' = "ready" /\ validData' /\ Forget
      /\ UNCHANGED <<readOnly, data, p_ex_data>>
      /\ last_error' = "None"
      /\ ret' = [op |-> "Wrap", name |-> 0, type |-> 0, ok |-> TRUE, out |-> << >>]
  BY DEF ParseDone, EndParse, Return, NoName, NoType
<1>2. ASSUME sent.ok
      PROVE  Contents' = sent.entries
  <2>1. PICK T : /\ Carries(p_ex_data, T) /\ sent.entries = Entries(T, p_ex_data)
                 /\ Prefix(data, T)
    BY <1>1, <1>2 DEF RoundTripInv, InFlight
  <2>2. data = T
    BY <1>1, <2>1, AllFound DEF RoundTripInv
  <2>3. Contents' = Entries(data, p_ex_data)
    BY <1>1 DEF RoundTripInv, LayoutInv, Contents, SourceData, Entries
  <2> QED BY <2>1, <2>2, <2>3
<1>3. ~sent'.ok
  BY <1>1, ForgetOK DEF RoundTripInv, InFlight
<1> QED BY <1>1, <1>2, <1>3 DEF Promise!Accept, Promise!Succeed, Promise!Reply,
                                Promise!NoName, Promise!NoType

-----------------------------------------------------------------------------
(* The calls. *)

(* A name is in the dictionary if Find finds it. *)
LEMMA HasFind ==
  ASSUME LayoutInv, validData, NEW name
  PROVE  /\ Promise!Has(name) <=> Find(name) # 0
         /\ Find(name) # 0 =>
              /\ Find(name) \in DOMAIN Contents
              /\ Contents[Find(name)].name = name
<1>1. data \in Seq(Elements)
  BY DEF LayoutInv, TypeOK
<1>2. /\ DOMAIN Contents = DOMAIN data
      /\ \A i \in DOMAIN data : Contents[i].name = data[i].name
  BY DEF Contents
<1>3. Promise!Has(name) <=> \E i \in DOMAIN Contents : Contents[i].name = name
  BY DEF Promise!Has
<1> QED BY <1>1, <1>2, <1>3, FindHas, FindIsThere

LEMMA InvalidRefines ==
  ASSUME pc = "ready", ~validData, UNCHANGED <<validData, pc, sent>>
  PROVE  Promise!Unspecified
BY DEF Promise!Unspecified

(* A call that fails gives a reason that there is. *)
LEMMA FailRefines ==
  ASSUME pc = "ready", NEW op \in {"Add", "Update", "Delete", "Get"},
         NEW name \in Names, NEW type \in Types \cup {NoType}, NEW reason,
         Fail(op, name, type, reason),
         validData => reason \in Promise!Reasons(op, name, type)
  PROVE  Promise!Next
<1>1. /\ UNCHANGED <<object, pc, sent>> /\ last_error' = reason
      /\ ret' = [op |-> op, name |-> name, type |-> type, ok |-> FALSE, out |-> << >>]
  BY DEF Fail, Return, parser
<1>2. UNCHANGED <<readOnly, validData>> /\ Contents' = Contents
  BY <1>1, SameSaid DEF object
<1>3. CASE validData
  <2>1. Promise!Refuse(op, name, type)
    BY <1>1, <1>2, <1>3 DEF Promise!Refuse, Promise!Reply
  <2> QED BY <2>1 DEF Promise!Next, NoType, Promise!NoType
<1>4. CASE ~validData
  BY <1>1, <1>2, <1>4, InvalidRefines DEF Promise!Next
<1> QED BY <1>3, <1>4

LEMMA AddReasons ==
  ASSUME LayoutInv, validData, NEW name, NEW null, NEW type,
         AddError(name, null) # "None"
  PROVE  AddError(name, null)
           \in Promise!Reasons("Add", name, IF null THEN NoType ELSE type)
<1>1. Promise!Has(name) <=> Find(name) # 0
  BY HasFind
<1> QED BY <1>1 DEF AddError, Promise!Reasons, NoType, Promise!NoType

LEMMA AddRefines ==
  ASSUME MaxCells < U32, LayoutInv, NEW e, NEW value \in Values, NEW null,
         Addable(e, value), e.size = Len(value),
         e.name \in Names, e.type \in Types, pc = "ready",
         AddValue(e, value, null)
  PROVE  Promise!Next
<1> DEFINE error == AddError(e.name, null)
           type  == IF null THEN NoType ELSE e.type
<1>1. CASE error # "None" /\ Fail("Add", e.name, type, error)
  <2>1. validData => error \in Promise!Reasons("Add", e.name, type)
    BY <1>1, AddReasons
  <2>2. type \in Types \cup {NoType}
    OBVIOUS
  <2> QED BY <1>1, <2>1, <2>2, FailRefines
<1>2. CASE ~(error # "None" /\ Fail("Add", e.name, type, error))
  <2>1. /\ error = "None"
        /\ mem_used + HeaderBytes(e) + e.size <= MaxCells
        /\ AddElementToBuffer(e, value)
        /\ data' = Append(data, [e EXCEPT !.index = AsU32(mem_used + HeaderBytes(e))])
        /\ ret' = [op |-> "Add", name |-> e.name, type |-> e.type, ok |-> TRUE, out |-> value]
        /\ last_error' = "None"
        /\ UNCHANGED <<readOnly, validData, pc, sent>>
    BY <1>2 DEF AddValue, Return, parser
  <2>2. e.name \notin LongNames /\ Find(e.name) = 0 /\ ~readOnly
    BY <2>1 DEF AddError
  <2>3. CASE validData
    <3>1. Contents' = Append(Contents, [name |-> e.name, type |-> e.type,
                                        value |-> value])
      BY <2>1, <2>2, <2>3, AddedEntries
    <3>2. ~Promise!Has(e.name)
      BY <2>2, <2>3, HasFind
    <3>3. Promise!Add(e.name, e.type, value)
      BY <2>1, <2>2, <2>3, <3>1, <3>2
      DEF Promise!Add, Promise!Succeed, Promise!Reply
    <3> QED BY <3>3 DEF Promise!Next
  <2>4. CASE ~validData
    BY <2>1, <2>4, InvalidRefines DEF Promise!Next
  <2> QED BY <2>3, <2>4
<1> QED BY <1>1, <1>2

(* Where Find points in a valid message: the element, its width, its value. *)
LEMMA Found ==
  ASSUME LayoutInv, validData, NEW name, Find(name) # 0
  PROVE  LET k == Find(name)
         IN /\ k \in DOMAIN data /\ DOMAIN Contents = DOMAIN data
            /\ Contents[k].name = name
            /\ Contents[k].type = data[k].type
            /\ Contents[k].value = ValueOf(SourceData, data[k])
            /\ Len(Contents[k].value) = data[k].size
            /\ SType[data[k].type] # 0 => data[k].size = SType[data[k].type]
<1> DEFINE k == Find(name)
<1>1. /\ data \in Seq(Elements) /\ IsBlock(SourceData)
      /\ Tiled(data, SourceData, mem_used)
  BY SourceBlock DEF LayoutInv, LayoutOK, TypeOK
<1>2. k \in DOMAIN data /\ data[k].name = name
  BY <1>1, FindIsThere
<1> HIDE DEF k
<1>3. data[k] \in Elements
  BY <1>1, <1>2, ElementOfSeq, LenProperties
<1>4. /\ DOMAIN Contents = DOMAIN data
      /\ Contents[k].name = data[k].name
      /\ Contents[k].type = data[k].type
      /\ Contents[k].value = ValueOf(SourceData, data[k])
  BY <1>2 DEF Contents
<1>5. Len(ValueOf(SourceData, data[k])) = data[k].size
  BY <1>1, <1>3, ValueSeq
<1>6. SType[data[k].type] # 0 => data[k].size = SType[data[k].type]
  BY <1>1, <1>2 DEF Tiled, Describes
<1> QED BY <1>2, <1>4, <1>5, <1>6 DEF k

LEMMA LookupReasons ==
  ASSUME LayoutInv, validData, NEW op \in {"Get", "Update"}, NEW name, NEW type,
         LookupError(name, type) # "None"
  PROVE  LookupError(name, type) \in Promise!Reasons(op, name, type)
<1>1. Promise!Has(name) <=> Find(name) # 0
  BY HasFind
<1>2. CASE Find(name) = 0
  BY <1>1, <1>2 DEF LookupError, Promise!Reasons
<1>3. CASE Find(name) # 0
  <2>1. LookupError(name, type) = "TypeMismatch" /\ data[Find(name)].type # type
    BY <1>3 DEF LookupError
  <2>2. Promise!HasOther(name, type)
    BY <1>3, <2>1, Found DEF Promise!HasOther
  <2> QED BY <2>1, <2>2 DEF Promise!Reasons
<1> QED BY <1>2, <1>3

LEMMA UpdateRefines ==
  ASSUME LayoutInv, NEW name \in Names, NEW type \in Types, NEW value \in Values,
         Update(name, type, value)
  PROVE  Promise!Next
<1> DEFINE error == IF readOnly THEN "ReadOnly" ELSE LookupError(name, type)
           k     == Find(name)
<1>0. pc = "ready" /\ SType[type] # 0 /\ Len(value) = SType[type]
  BY DEF Update
<1>1. CASE error # "None" /\ Fail("Update", name, type, error)
  <2>1. validData => error \in Promise!Reasons("Update", name, type)
    <3>1. CASE readOnly
      BY <3>1 DEF Promise!Reasons
    <3>2. CASE ~readOnly
      BY <1>1, <3>2, LookupReasons
    <3> QED BY <3>1, <3>2
  <2> QED BY <1>0, <1>1, <2>1, FailRefines
<1>2. CASE ~(error # "None" /\ Fail("Update", name, type, error))
  <2>1. /\ error = "None"
        /\ p_data' = Write(p_data, data[k].index, value)
        /\ ret' = [op |-> "Update", name |-> name, type |-> type, ok |-> TRUE, out |-> value]
        /\ last_error' = "None"
        /\ UNCHANGED <<readOnly, validData, data, pc, sent>>
    BY <1>2 DEF Update, Return, parser
  <2>2. ~readOnly /\ k # 0 /\ data[k].type = type
    BY <2>1 DEF LookupError
  <2>3. CASE validData
    <3>1. /\ k \in DOMAIN data /\ DOMAIN Contents = DOMAIN data
          /\ Contents[k].name = name
          /\ Contents[k].type = data[k].type
          /\ Len(Contents[k].value) = data[k].size
          /\ SType[data[k].type] # 0 => data[k].size = SType[data[k].type]
      BY <2>2, <2>3, Found
    <3> HIDE DEF k
    <3>2. Len(value) = data[k].size /\ value \in Seq(Nat)
      BY <1>0, <2>2, <3>1, CallerAssumption
    <3>3. Contents' = [Contents EXCEPT ![k].value = value]
      BY <2>1, <2>2, <2>3, <3>1, <3>2, UpdatedEntries
    <3>4. Promise!Update(k, value)
      BY <1>0, <2>1, <2>2, <2>3, <3>1, <3>2, <3>3
      DEF Promise!Update, Promise!Succeed, Promise!Reply
    <3>5. k \in DOMAIN (IF validData THEN Contents ELSE << >>)
      BY <2>3, <3>1
    <3> QED BY <3>4, <3>5 DEF Promise!Next
  <2>4. CASE ~validData
    BY <1>0, <2>1, <2>4, InvalidRefines DEF Promise!Next
  <2> QED BY <2>3, <2>4
<1> QED BY <1>1, <1>2

LEMMA GetRefines ==
  ASSUME LayoutInv, NEW name \in Names, NEW type \in Types, Get(name, type)
  PROVE  Promise!Next
<1> DEFINE error == LookupError(name, type)
           k     == Find(name)
<1>0. pc = "ready"
  BY DEF Get
<1>1. CASE error # "None" /\ Fail("Get", name, type, error)
  BY <1>0, <1>1, LookupReasons, FailRefines
<1>2. CASE ~(error # "None" /\ Fail("Get", name, type, error))
  <2>1. /\ error = "None"
        /\ ret' = [op |-> "Get", name |-> name, type |-> type, ok |-> TRUE,
                   out |-> ValueOf(SourceData, data[k])]
        /\ last_error' = "None"
        /\ UNCHANGED <<object, pc, sent>>
    BY <1>2 DEF Get, Return, parser
  <2>2. k # 0 /\ data[k].type = type
    BY <2>1 DEF LookupError
  <2>3. UNCHANGED <<readOnly, validData>> /\ Contents' = Contents
    BY <2>1, SameSaid DEF object
  <2>4. CASE validData
    <3>1. /\ k \in DOMAIN data /\ DOMAIN Contents = DOMAIN data
          /\ Contents[k].name = name
          /\ Contents[k].type = data[k].type
          /\ Contents[k].value = ValueOf(SourceData, data[k])
      BY <2>2, <2>4, Found
    <3> HIDE DEF k
    <3>2. Promise!Get(k)
      BY <1>0, <2>1, <2>2, <2>3, <2>4, <3>1
      DEF Promise!Get, Promise!Succeed, Promise!Reply
    <3>3. k \in DOMAIN (IF validData THEN Contents ELSE << >>)
      BY <2>4, <3>1
    <3> QED BY <3>2, <3>3 DEF Promise!Next
  <2>5. CASE ~validData
    BY <1>0, <2>1, <2>3, <2>5, InvalidRefines DEF Promise!Next
  <2> QED BY <2>4, <2>5
<1> QED BY <1>1, <1>2

LEMMA DeleteRefines ==
  ASSUME MaxCells < U32, LayoutInv, NEW name \in Names, Delete(name)
  PROVE  Promise!Next
<1> DEFINE error == IF readOnly THEN "ReadOnly"
                    ELSE IF Find(name) = 0 THEN "NotFound" ELSE "None"
           k     == Find(name)
<1>0. pc = "ready"
  BY DEF Delete
<1>1. CASE error # "None" /\ Fail("Delete", name, NoType, error)
  <2>1. validData => error \in Promise!Reasons("Delete", name, NoType)
    BY <1>1, HasFind DEF Promise!Reasons
  <2> QED BY <1>0, <1>1, <2>1, FailRefines
<1>2. CASE ~(error # "None" /\ Fail("Delete", name, NoType, error))
  <2>1. /\ error = "None" /\ Erase(k)
        /\ ret' = [op |-> "Delete", name |-> name, type |-> 0, ok |-> TRUE, out |-> << >>]
        /\ last_error' = "None"
        /\ UNCHANGED <<readOnly, validData, pc, sent>>
    BY <1>2 DEF Delete, Return, parser, NoType
  <2>2. ~readOnly /\ k # 0
    BY <2>1
  <2>3. CASE validData
    <3>1. /\ k \in DOMAIN data /\ DOMAIN Contents = DOMAIN data
          /\ Contents[k].name = name
      BY <2>2, <2>3, Found
    <3> HIDE DEF k
    <3>2. Contents' = SubSeq(Contents, 1, k - 1)
                        \o SubSeq(Contents, k + 1, Len(Contents))
      BY <2>1, <2>2, <2>3, <3>1, ErasedEntries
    <3>3. Promise!Remove(k)
      BY <1>0, <2>1, <2>2, <2>3, <3>1, <3>2
      DEF Promise!Remove, Promise!Succeed, Promise!Reply,
          NoType, Promise!NoType
    <3>4. k \in DOMAIN (IF validData THEN Contents ELSE << >>)
      BY <2>3, <3>1
    <3> QED BY <3>3, <3>4 DEF Promise!Next
  <2>4. CASE ~validData
    BY <1>0, <2>1, <2>4, InvalidRefines DEF Promise!Next
  <2> QED BY <2>3, <2>4
<1> QED BY <1>1, <1>2

(* The values callers add have a length that a uint32_t can hold. *)
ShortValues == \A v \in Values : Len(v) < U32

LEMMA CallRefines ==
  ASSUME MaxCells < U32, ShortValues, LayoutInv, NEW name \in Names, Call(name)
  PROVE  Promise!Next
<1>1. /\ name \in Nat /\ \A v \in Values : v \in Seq(Nat)
      /\ \A type \in Types : type \in KnownTypes
  BY CallerAssumption
<1>2. ASSUME NEW type \in Types, NEW value \in Values, AddScalar(name, type, value)
      PROVE  Promise!Next
  <2> DEFINE e == DType(type, name)
  <2>1. /\ pc = "ready" /\ SType[type] # 0 /\ Len(value) = SType[type]
        /\ AddValue(e, value, FALSE)
    BY <1>2 DEF AddScalar
  <2>2. e.name = name /\ e.type = type /\ e.size = Len(value)
    BY <2>1 DEF DType
  <2>3. Addable(e, value)
    BY <1>1, <2>1, AddableScalar
  <2> HIDE DEF e
  <2> QED BY <2>1, <2>2, <2>3, AddRefines
<1>3. ASSUME NEW type \in Types, NEW value \in Values, NEW null \in BOOLEAN,
             AddVariable(name, type, value, null)
      PROVE  Promise!Next
  <2> DEFINE e == [DType(type, name) EXCEPT !.size = AsU32(Len(value))]
  <2>1. pc = "ready" /\ SType[type] = 0 /\ AddValue(e, value, null)
    BY <1>3 DEF AddVariable
  <2>2. AsU32(Len(value)) = Len(value)
    <3>1. Len(value) \in 0 .. U32 - 1
      BY <1>1, LenProperties, FormatAssumption DEF ShortValues
    <3> QED BY <3>1, AsU32Fits
  <2>3. e.name = name /\ e.type = type /\ e.size = Len(value)
    BY <2>2 DEF DType
  <2>4. Addable(e, value)
    BY <1>1, <2>1, AddableVariable
  <2> HIDE DEF e
  <2> QED BY <2>1, <2>3, <2>4, AddRefines
<1>4. ASSUME AddNoItems(name)
      PROVE  Promise!Next
  <2>1. pc = "ready" /\ Fail("Add", name, NoType, "InvalidArgument")
    BY <1>4 DEF AddNoItems
  <2>2. "InvalidArgument" \in Promise!Reasons("Add", name, NoType)
    BY DEF Promise!Reasons, NoType, Promise!NoType
  <2> QED BY <2>1, <2>2, FailRefines
<1> QED BY <1>2, <1>3, <1>4, UpdateRefines, GetRefines, DeleteRefines DEF Call

LEMMA StepRefines ==
  ASSUME MaxCells < U32, ShortValues, RoundTripInv, [Next]_vars
  PROVE  [Promise!Next]_Promise!vars
<1>1. LayoutInv /\ readOnly \in BOOLEAN
  BY DEF RoundTripInv, LayoutInv, TypeOK
<1>2. CASE UNCHANGED vars
  <2>1. UNCHANGED <<object, pc, sent, ret, last_error, readOnly, validData>>
    BY <1>2 DEF vars, parser, object
  <2> QED BY <2>1, SameSaid DEF Promise!vars
<1>3. CASE Construct \/ Clear \/ Clone \/ Send \/ Lose
  BY <1>1, <1>3, ConstructRefines, ClearRefines, CloneRefines, SendRefines,
     LoseRefines DEF Promise!Next
<1>4. CASE BeginWrap
  BY <1>4, WrapRefines DEF Promise!Next
<1>5. CASE Parse
  BY <1>5, ElementRefines, RejectRefines, DoneRefines DEF Parse, Promise!Next
<1>6. CASE \E name \in Names : Call(name)
  BY <1>1, <1>6, CallRefines
<1> QED BY <1>2, <1>3, <1>4, <1>5, <1>6 DEF Next

LEMMA InitRefines ==
  ASSUME Init
  PROVE  Promise!Init
<1>1. Contents = << >>
  BY NothingSaid DEF Init
<1> QED BY <1>1 DEF Init, Promise!Init, NoName, NoType,
                    Promise!NoName, Promise!NoType

(* DcMsg keeps the promise Dictionary makes: an Add appends and an Update  *)
(* changes one value although the block may move, a Delete removes one     *)
(* element although it shifts the cells and the indices behind it, a Get   *)
(* returns what was last written, a call that fails changes nothing and    *)
(* says why, and a receiver finds what was sent.  A value longer than a    *)
(* uint32_t can say is cut by AddElementToBuffer and is not covered.       *)
THEOREM RefinesDictionary ==
  ASSUME MaxCells < U32, ShortValues
  PROVE  Spec => ImplementsDictionary
<1>1. Init => RoundTripInv /\ Promise!Init
  BY RoundTripInit, InitRefines
<1>2. RoundTripInv /\ [Next]_vars => RoundTripInv'
  <2>1. [Next]_vars => [NextDamage]_vars
    BY DEF NextDamage
  <2> QED BY <2>1, RoundTripInvStep
<1>3. RoundTripInv /\ [Next]_vars => [Promise!Next]_Promise!vars
  BY StepRefines
<1> QED BY <1>1, <1>2, <1>3, PTL DEF Spec, ImplementsDictionary, Promise!Spec

=============================================================================
