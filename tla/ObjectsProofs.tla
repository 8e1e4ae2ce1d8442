----------------------------- MODULE ObjectsProofs -----------------------------
(***************************************************************************)
(* Every block has one owner, and a message says exactly what was put into *)
(* it: OneOwner and Faithful, for any number of objects and blocks, all    *)
(* types, names and values.                                                *)
(*                                                                         *)
(* Who owns what follows from the calls alone; that an owner knows the     *)
(* size of its block needs the sizes and offsets it computes with to be    *)
(* numbers, also those that were read from a buffer.  That is OwnerInv.    *)
(*                                                                         *)
(* What a message says is its table, which is kept in the object, read     *)
(* over cells, which may be another object's.  FaithInv is what a step     *)
(* must not break: the table describes the cells it is over, element by    *)
(* element, and an owner's fills its message (Keeps); and a message that   *)
(* reads the block of an owner is over the front of the owner's message,   *)
(* or within one element of it (View), so that the owner's calls either    *)
(* leave its cells alone or are seen by the promise.                       *)
(***************************************************************************)
EXTENDS Objects, WireFormatProofs

USE DEF HEADER_ELEMENTS, DTYPE_SIZE_NAME, SIZEOF_U32, VERSION, SIZE, ELEMENTS

Entry ==
  [type: KnownTypes, basic_type: BOOLEAN, size: Nat, name: Nat, index: Int]

Pointers == [block: Blocks \cup {0}, at: Int]

Members ==
  [alive: BOOLEAN, readOnly: BOOLEAN, validData: BOOLEAN, data: Seq(Entry),
   p_data: Blocks \cup {0}, p_ex_data: Pointers, p_size: Nat, mem_used: Nat,
   el_size: Nat]

Memory == UNION {Block(n) : n \in Nat}

Typed == obj \in [Objects -> Members] /\ heap \in [Blocks -> Memory]

(* An object that is not constructed has no block to lose. *)
Idle == \A o \in Objects : ~obj[o].alive => obj[o].p_data = 0

OwnerInv == Typed /\ Idle /\ OneOwner

-----------------------------------------------------------------------------
(* Memory. *)

LEMMA MemoryBlock ==
  ASSUME NEW b
  PROVE  b \in Memory <=> IsBlock(b)
<1>1. ASSUME b \in Memory PROVE IsBlock(b)
  BY <1>1, CellsOfBlock DEF Memory
<1>2. ASSUME IsBlock(b) PROVE b \in Memory
  BY <1>2 DEF Memory, IsBlock
<1> QED BY <1>1, <1>2

(* What is allocated has cells. *)
LEMMA BlockThere ==
  ASSUME NEW n \in Nat, NEW b \in Block(n)
  PROVE  b # NULL <=> n > 0
<1>1. CASE n > 0
  <2>1. 0 \in DOMAIN b
    BY <1>1 DEF Block
  <2>2. 0 \notin DOMAIN NULL
    BY DEF NULL
  <2> QED BY <1>1, <2>1, <2>2
<1>2. CASE n = 0
  BY <1>2, NullBlock DEF Block
<1> QED BY <1>1, <1>2

LEMMA CellsThere ==
  ASSUME Typed, NEW ptr, ptr.block \in Blocks \cup {0}
  PROVE  /\ \A k : CellAt(ptr, k) \in Nat
         /\ \A n \in Nat : CellsAt(ptr, n) \in Block(n)
<1>1. ASSUME NEW k
      PROVE  CellAt(ptr, k) \in Nat
  <2>1. CASE ptr.block = 0
    BY <2>1, FormatAssumption DEF CellAt
  <2>2. CASE ptr.block # 0
    <3>1. IsBlock(heap[ptr.block])
      BY <2>2, MemoryBlock DEF Typed
    <3> QED BY <2>2, <3>1, PeekCell DEF CellAt
  <2> QED BY <2>1, <2>2
<1> QED BY <1>1 DEF CellsAt, Block

LEMMA MallocUnused ==
  ASSUME NEW b, Malloc(b)
  PROVE  /\ b \in Blocks /\ b # 0
         /\ heap[b] = NULL
         /\ \A o \in Objects : obj[o].p_data # b
<1>1. Unused \in SUBSET Nat /\ 0 \notin Blocks
  BY ObjectsAssumption DEF Unused
<1>2. b \in Unused
  BY <1>1, SmallestMember DEF Malloc
<1> QED BY <1>1, <1>2 DEF Unused

-----------------------------------------------------------------------------
(* Steps that change one object. *)

LEMMA OneChanges ==
  ASSUME OwnerInv, NEW o \in Objects, NEW m \in Members,
         obj' = [obj EXCEPT ![o] = m],
         heap' \in [Blocks -> Memory],
         ~m.alive => m.p_data = 0,
         \A b \in Blocks \ {obj[o].p_data, m.p_data} : heap'[b] = heap[b],
         obj[o].p_data # 0 /\ obj[o].p_data # m.p_data => heap'[obj[o].p_data] = NULL,
         m.p_data # 0 =>
           /\ heap'[m.p_data] # NULL
           /\ m.p_size = Cells(heap'[m.p_data])
           /\ \A v \in Objects \ {o} : obj[v].p_data # m.p_data
  PROVE  OwnerInv'
<1>1. /\ obj'[o] = m
      /\ \A v \in Objects \ {o} : obj'[v] = obj[v]
      /\ \A v \in Objects : obj[v] \in Members /\ obj'[v] \in Members
      /\ DOMAIN obj = Objects /\ DOMAIN obj' = Objects
  BY DEF OwnerInv, Typed
<1>2. Typed'
  BY <1>1 DEF OwnerInv, Typed
<1>3. Idle'
  BY <1>1 DEF OwnerInv, Idle
<1>4. \A v \in Objects : obj[v].p_data \in Blocks \cup {0}
  BY <1>1 DEF Members
<1>5. ASSUME NEW b \in Blocks, heap'[b] # NULL
      PROVE  \E v \in Objects : obj'[v].p_data = b
  <2>1. CASE b = m.p_data
    BY <1>1, <2>1
  <2>2. CASE b # m.p_data
    <3>1. b # obj[o].p_data
      BY <1>5, <2>2, ObjectsAssumption
    <3>2. heap[b] # NULL
      BY <1>5, <2>2, <3>1
    <3>3. PICK v \in Objects : obj[v].p_data = b
      BY <3>2 DEF OwnerInv, OneOwner
    <3> QED BY <1>1, <3>1, <3>3
  <2> QED BY <2>1, <2>2
<1>6. ASSUME NEW v \in Objects, obj'[v].p_data # 0
      PROVE  /\ heap'[obj'[v].p_data] # NULL
             /\ obj'[v].p_size = Cells(heap'[obj'[v].p_data])
             /\ \A w \in Objects : obj'[w].p_data = obj'[v].p_data => w = v
  <2>1. CASE v = o
    BY <1>1, <1>6, <2>1
  <2>2. CASE v # o
    <3>1. obj'[v] = obj[v] /\ obj[v].p_data \in Blocks
      BY <1>1, <1>4, <1>6, <2>2
    <3>2. /\ heap[obj[v].p_data] # NULL
          /\ obj[v].p_size = Cells(heap[obj[v].p_data])
          /\ \A w \in Objects : obj[w].p_data = obj[v].p_data => w = v
      BY <1>6, <3>1 DEF OwnerInv, OneOwner
    <3>3. obj[v].p_data # obj[o].p_data /\ obj[v].p_data # m.p_data
      BY <1>6, <2>2, <3>1, <3>2
    <3>4. heap'[obj[v].p_data] = heap[obj[v].p_data]
      BY <3>1, <3>3
    <3>5. ASSUME NEW w \in Objects, obj'[w].p_data = obj'[v].p_data
          PROVE  w = v
      BY <1>1, <3>1, <3>2, <3>3, <3>5
    <3> QED BY <3>1, <3>2, <3>4, <3>5
  <2> QED BY <2>1, <2>2
<1>7. OneOwner'
  BY <1>5, <1>6 DEF OneOwner
<1> QED BY <1>2, <1>3, <1>7 DEF OwnerInv

LEMMA FreeBlock ==
  ASSUME Typed, NEW b \in Blocks \cup {0}
  PROVE  /\ Free(heap, b) \in [Blocks -> Memory]
         /\ \A c \in Blocks \ {b} : Free(heap, b)[c] = heap[c]
         /\ b # 0 => Free(heap, b)[b] = NULL
<1>1. NULL \in Memory
  BY NullBlock, MemoryBlock
<1> QED BY <1>1 DEF Free, Typed

LEMMA BlockOfObject ==
  ASSUME OwnerInv, NEW o \in Objects
  PROVE  /\ obj[o] \in Members
         /\ obj[o].p_data \in Blocks \cup {0}
         /\ obj[o].p_data # 0 =>
              /\ heap[obj[o].p_data] \in Block(obj[o].p_size)
              /\ obj[o].p_size > 0
<1>1. obj[o] \in Members
  BY DEF OwnerInv, Typed
<1>2. obj[o].p_data \in Blocks \cup {0} /\ obj[o].p_size \in Nat
  BY <1>1 DEF Members
<1>3. ASSUME obj[o].p_data # 0
      PROVE  heap[obj[o].p_data] \in Block(obj[o].p_size) /\ obj[o].p_size > 0
  <2>1. IsBlock(heap[obj[o].p_data])
    BY <1>2, <1>3, MemoryBlock DEF OwnerInv, Typed
  <2>2. /\ heap[obj[o].p_data] # NULL
        /\ obj[o].p_size = Cells(heap[obj[o].p_data])
    BY <1>3 DEF OwnerInv, OneOwner
  <2>3. heap[obj[o].p_data] \in Block(obj[o].p_size)
    BY <2>1, <2>2 DEF IsBlock
  <2> QED BY <1>2, <2>2, <2>3, BlockThere
<1> QED BY <1>1, <1>2, <1>3

(* o gets a new block and gives up the one it had. *)
LEMMA NewBlock ==
  ASSUME OwnerInv, NEW o \in Objects, NEW m \in Members, NEW told,
         NEW b, Malloc(b), m.p_data = b, m.alive,
         m.p_size > 0, NEW c \in Block(m.p_size),
         Set(o, m, [Free(heap, obj[o].p_data) EXCEPT ![b] = c], told)
  PROVE  OwnerInv'
<1> DEFINE old == obj[o].p_data
           h == [Free(heap, old) EXCEPT ![b] = c]
<1>1. /\ b \in Blocks /\ b # 0
      /\ \A v \in Objects : obj[v].p_data # b
  BY MallocUnused
<1>2. old \in Blocks \cup {0} /\ b # old
  BY <1>1, BlockOfObject
<1>3. /\ Free(heap, old) \in [Blocks -> Memory]
      /\ \A d \in Blocks \ {old} : Free(heap, old)[d] = heap[d]
      /\ old # 0 => Free(heap, old)[old] = NULL
  BY <1>2, FreeBlock DEF OwnerInv
<1>4. m.p_size \in Nat
  BY DEF Members
<1>5. c \in Memory /\ c # NULL /\ Cells(c) = m.p_size
  BY <1>4, MemoryBlock, CellsOfBlock, BlockThere
<1>6. obj' = [obj EXCEPT ![o] = m] /\ heap' = h
  BY DEF Set, Becomes
<1>7. /\ h \in [Blocks -> Memory]
      /\ \A d \in Blocks \ {old, b} : h[d] = heap[d]
      /\ old # 0 => h[old] = NULL
      /\ h[b] = c
  BY <1>1, <1>2, <1>3, <1>5
<1> HIDE DEF old, h
<1>8. \A v \in Objects \ {o} : obj[v].p_data # m.p_data
  BY <1>1
<1>9. m.p_data # 0 => heap'[m.p_data] # NULL /\ m.p_size = Cells(heap'[m.p_data])
  BY <1>5, <1>6, <1>7
<1> QED BY <1>6, <1>7, <1>8, <1>9, OneChanges DEF old

(* o writes to its block, which may change its size. *)
LEMMA KeptBlock ==
  ASSUME OwnerInv, NEW o \in Objects, NEW m \in Members,
         obj[o].p_data # 0, m.p_data = obj[o].p_data, m.alive,
         m.p_size > 0, NEW c \in Block(m.p_size),
         obj' = [obj EXCEPT ![o] = m],
         heap' = [heap EXCEPT ![m.p_data] = c]
  PROVE  OwnerInv'
<1>1. m.p_size \in Nat
  BY DEF Members
<1>2. c \in Memory /\ c # NULL /\ Cells(c) = m.p_size
  BY <1>1, MemoryBlock, CellsOfBlock, BlockThere
<1>3. obj[o].p_data \in Blocks
  BY BlockOfObject
<1>4. /\ heap' \in [Blocks -> Memory]
      /\ \A d \in Blocks \ {m.p_data} : heap'[d] = heap[d]
      /\ heap'[m.p_data] = c
  BY <1>2, <1>3 DEF OwnerInv, Typed
<1>5. \A v \in Objects \ {o} : obj[v].p_data # m.p_data
  BY DEF OwnerInv, OneOwner
<1> QED BY <1>2, <1>4, <1>5, OneChanges

(* o gives up its block, if it had one. *)
LEMMA NoBlock ==
  ASSUME OwnerInv, NEW o \in Objects, NEW m \in Members,
         m.p_data = 0,
         obj' = [obj EXCEPT ![o] = m],
         heap' = Free(heap, obj[o].p_data)
  PROVE  OwnerInv'
<1>1. obj[o].p_data \in Blocks \cup {0}
  BY BlockOfObject
<1>2. /\ heap' \in [Blocks -> Memory]
      /\ \A d \in Blocks \ {obj[o].p_data} : heap'[d] = heap[d]
      /\ obj[o].p_data # 0 => heap'[obj[o].p_data] = NULL
  BY <1>1, FreeBlock DEF OwnerInv
<1> QED BY <1>2, OneChanges

-----------------------------------------------------------------------------
(* Moves. *)

LEMMA HollowMember ==
  /\ Hollow \in Members /\ [Hollow EXCEPT !.alive = TRUE] \in Members
  /\ Hollow.p_data = 0 /\ [Hollow EXCEPT !.alive = TRUE].p_data = 0
<1>1. << >> \in Seq(Entry) /\ Nowhere \in Pointers
  BY DEF Nowhere, Pointers
<1>2. Hollow \in Members
  BY <1>1 DEF Hollow, Members
<1>3. [Hollow EXCEPT !.alive = TRUE] \in Members
  BY <1>2 DEF Members
<1>4. Hollow.p_data = 0 /\ [Hollow EXCEPT !.alive = TRUE].p_data = 0
  BY DEF Hollow
<1> QED BY <1>2, <1>3, <1>4

LEMMA MoveOwner ==
  ASSUME OwnerInv, NEW o \in Objects, NEW s \in Objects, o # s,
         obj[s].alive, Move(o, s, Free(heap, obj[o].p_data))
  PROVE  OwnerInv'
<1> DEFINE old == obj[o].p_data
           husk == [Hollow EXCEPT !.alive = TRUE]
<1>1. husk \in Members /\ husk.p_data = 0 /\ husk.alive
  BY HollowMember DEF Hollow
<1>2. obj' = [obj EXCEPT ![o] = obj[s], ![s] = husk] /\ heap' = Free(heap, old)
  BY DEF Move, Becomes, Moved
<1> HIDE DEF husk
<1>3. /\ DOMAIN obj = Objects /\ DOMAIN obj' = Objects
      /\ obj'[o] = obj[s] /\ obj'[s] = husk
      /\ \A v \in Objects \ {o, s} : obj'[v] = obj[v]
      /\ \A v \in Objects : obj[v] \in Members
  BY <1>2 DEF OwnerInv, Typed
<1>4. old \in Blocks \cup {0}
  BY BlockOfObject
<1>5. /\ heap' \in [Blocks -> Memory]
      /\ \A d \in Blocks \ {old} : heap'[d] = heap[d]
      /\ old # 0 => heap'[old] = NULL
  BY <1>2, <1>4, FreeBlock DEF OwnerInv
<1>6. Typed'
  BY <1>1, <1>2, <1>3, <1>5 DEF OwnerInv, Typed
<1>7. Idle'
  BY <1>1, <1>3 DEF OwnerInv, Idle
<1>8. \A v \in Objects : obj[v].p_data # 0 =>
        /\ obj[v].p_data \in Blocks
        /\ heap[obj[v].p_data] # NULL
        /\ obj[v].p_size = Cells(heap[obj[v].p_data])
        /\ \A w \in Objects : obj[w].p_data = obj[v].p_data => w = v
  BY BlockOfObject DEF OwnerInv, OneOwner
<1>9. ASSUME NEW b \in Blocks, heap'[b] # NULL
      PROVE  \E v \in Objects : obj'[v].p_data = b
  <2>1. b # old
    BY <1>5, <1>9, ObjectsAssumption
  <2>2. PICK v \in Objects : obj[v].p_data = b
    BY <1>5, <1>9, <2>1 DEF OwnerInv, OneOwner
  <2>3. CASE v = s
    BY <1>3, <2>2, <2>3
  <2>4. CASE v # s
    BY <1>3, <2>1, <2>2, <2>4
  <2> QED BY <2>3, <2>4
<1>10. ASSUME NEW v \in Objects, obj'[v].p_data # 0
       PROVE  /\ heap'[obj'[v].p_data] # NULL
              /\ obj'[v].p_size = Cells(heap'[obj'[v].p_data])
              /\ \A w \in Objects : obj'[w].p_data = obj'[v].p_data => w = v
  <2> DEFINE u == IF v = o THEN s ELSE v
  <2>1. v # s /\ u \in Objects /\ u # o /\ obj'[v] = obj[u]
    BY <1>1, <1>3, <1>10
  <2> HIDE DEF u
  <2>2. obj[u].p_data # old
    BY <1>8, <1>10, <2>1
  <2>3. heap'[obj[u].p_data] = heap[obj[u].p_data]
    BY <1>5, <1>8, <1>10, <2>1, <2>2
  <2>4. ASSUME NEW w \in Objects, obj'[w].p_data = obj'[v].p_data
        PROVE  w = v
    <3>1. w # s
      BY <1>1, <1>3, <1>10, <2>4
    <3>2. CASE w = o
      BY <1>3, <1>8, <1>10, <2>1, <2>4, <3>2 DEF u
    <3>3. CASE w # o
      BY <1>3, <1>8, <1>10, <2>1, <2>4, <3>1, <3>3 DEF u
    <3> QED BY <3>2, <3>3
  <2> QED BY <1>8, <1>10, <2>1, <2>3, <2>4
<1>11. OneOwner'
  BY <1>9, <1>10 DEF OneOwner
<1> QED BY <1>6, <1>7, <1>11 DEF OwnerInv

LEMMA MovesOwner ==
  ASSUME OwnerInv, NEW o \in Objects, NEW s \in Objects,
         MoveConstruct(o, s) \/ MoveAssign(o, s)
  PROVE  OwnerInv'
<1>1. CASE MoveConstruct(o, s)
  <2>1. obj[o].p_data = 0 /\ o # s
    BY <1>1 DEF MoveConstruct, OwnerInv, Idle
  <2>2. Free(heap, obj[o].p_data) = heap
    BY <2>1 DEF Free
  <2> QED BY <1>1, <2>1, <2>2, MoveOwner DEF MoveConstruct
<1>2. CASE MoveAssign(o, s)
  BY <1>2, MoveOwner DEF MoveAssign
<1> QED BY <1>1, <1>2

-----------------------------------------------------------------------------
(* Construction, destruction, copies and Clear. *)

LEMMA InitHeaderMember ==
  ASSUME NEW m \in Members, NEW b \in Blocks
  PROVE  /\ InitHeader(m, b) \in Members
         /\ InitHeader(m, b).p_data = b
         /\ InitHeader(m, b).alive = m.alive
         /\ InitHeader(m, b).p_size > 0
         /\ EmptyBlock \in Block(InitHeader(m, b).p_size)
<1> DEFINE n == Reserve(0, 0, HEADER_ELEMENTS)
<1>1. n \in Nat /\ n >= 3 /\ EmptyBlock \in Block(n)
  BY EmptyBlockType
<1> HIDE DEF n
<1>2. Cells(EmptyBlock) = n
  BY <1>1, CellsOfBlock
<1> DEFINE d == InitHeader(m, b)
<1>3. d = [m EXCEPT !.p_data = b, !.p_size = n,
                    !.mem_used = HEADER_ELEMENTS, !.validData = TRUE]
  BY <1>2 DEF InitHeader
<1> HIDE DEF d
<1>4. d \in Members
  BY <1>1, <1>3 DEF Members
<1>5. d.p_data = b /\ d.alive = m.alive /\ d.p_size = n
  BY <1>3 DEF Members
<1> QED BY <1>1, <1>4, <1>5 DEF d

LEMMA ConstructOwner ==
  ASSUME OwnerInv, NEW o \in Objects, Construct(o)
  PROVE  OwnerInv'
<1> DEFINE fresh == [Hollow EXCEPT !.alive = TRUE, !.readOnly = FALSE]
<1>1. fresh \in Members /\ fresh.alive
  BY HollowMember DEF Members, Hollow
<1>2. obj[o].p_data = 0
  BY DEF Construct, OwnerInv, Idle
<1>3. Free(heap, obj[o].p_data) = heap
  BY <1>2 DEF Free
<1>4. PICK b \in Blocks :
        /\ Malloc(b)
        /\ Set(o, InitHeader(fresh, b), [heap EXCEPT ![b] = EmptyBlock], Says(<< >>))
  BY DEF Construct
<1> HIDE DEF fresh
<1> DEFINE m == InitHeader(fresh, b)
<1>5. /\ m \in Members /\ m.p_data = b /\ m.alive /\ m.p_size > 0
      /\ EmptyBlock \in Block(m.p_size)
  BY <1>1, InitHeaderMember
<1>6. Set(o, m, [Free(heap, obj[o].p_data) EXCEPT ![b] = EmptyBlock], Says(<< >>))
  BY <1>3, <1>4
<1> HIDE DEF m
<1> QED BY <1>4, <1>5, <1>6, NewBlock

LEMMA DestroyOwner ==
  ASSUME OwnerInv, NEW o \in Objects, Destroy(o)
  PROVE  OwnerInv'
<1>1. Hollow \in Members /\ Hollow.p_data = 0
  BY HollowMember
<1>2. obj' = [obj EXCEPT ![o] = Hollow] /\ heap' = Free(heap, obj[o].p_data)
  BY DEF Destroy, Set, Becomes
<1> QED BY <1>1, <1>2, NoBlock

LEMMA ClearOwner ==
  ASSUME OwnerInv, NEW o \in Objects, Clear(o)
  PROVE  OwnerInv'
<1> DEFINE bare == [obj[o] EXCEPT !.data = << >>, !.el_size = 0]
<1>1. bare \in Members /\ bare.alive
  <2>1. obj[o] \in Members /\ << >> \in Seq(Entry) /\ obj[o].alive
    BY BlockOfObject DEF Clear
  <2> QED BY <2>1 DEF Members
<1>2. PICK b \in Blocks :
        /\ Malloc(b)
        /\ Set(o, InitHeader(bare, b),
               [Free(heap, obj[o].p_data) EXCEPT ![b] = EmptyBlock], Says(<< >>))
  BY DEF Clear
<1> HIDE DEF bare
<1> DEFINE m == InitHeader(bare, b)
<1>3. /\ m \in Members /\ m.p_data = b /\ m.alive /\ m.p_size > 0
      /\ EmptyBlock \in Block(m.p_size)
  BY <1>1, InitHeaderMember
<1> HIDE DEF m
<1> QED BY <1>2, <1>3, NewBlock DEF m

LEMMA CopyMember ==
  ASSUME OwnerInv, NEW s \in Objects, obj[s].alive, NEW b \in Blocks
  PROVE  LET m == CopyOf(obj[s], b)
         IN /\ m \in Members /\ m.p_data = b /\ m.alive /\ m.p_size > 0
            /\ CopiedCells(obj[s]) \in Block(m.p_size)
<1>1. obj[s] \in Members
  BY BlockOfObject
<1>2. CASE ~obj[s].readOnly /\ obj[s].p_data # 0
  <2>1. CopyOf(obj[s], b) = [obj[s] EXCEPT !.p_data = b]
    BY <1>2 DEF CopyOf
  <2>2. CopiedCells(obj[s]) = heap[obj[s].p_data]
    BY <1>2 DEF CopiedCells
  <2>3. heap[obj[s].p_data] \in Block(obj[s].p_size) /\ obj[s].p_size > 0
    BY <1>2, BlockOfObject
  <2> QED BY <1>1, <2>1, <2>2, <2>3 DEF Members
<1>3. CASE ~(~obj[s].readOnly /\ obj[s].p_data # 0)
  <2>1. CopyOf(obj[s], b) = InitHeader(obj[s], b)
    BY <1>3 DEF CopyOf
  <2>2. CopiedCells(obj[s]) = EmptyBlock
    BY <1>3 DEF CopiedCells
  <2> QED BY <1>1, <2>1, <2>2, InitHeaderMember
<1> QED BY <1>2, <1>3

LEMMA CopyOwner ==
  ASSUME OwnerInv, NEW o \in Objects, NEW s \in Objects,
         CopyConstruct(o, s) \/ CopyAssign(o, s)
  PROVE  OwnerInv'
<1>1. PICK b \in Blocks :
        /\ Malloc(b)
        /\ Set(o, CopyOf(obj[s], b),
               [Free(heap, obj[o].p_data) EXCEPT ![b] = CopiedCells(obj[s])],
               ToldOf(s))
  <2>1. CASE CopyConstruct(o, s)
    <3>1. obj[o].p_data = 0
      BY <2>1 DEF CopyConstruct, OwnerInv, Idle
    <3>2. Free(heap, obj[o].p_data) = heap
      BY <3>1 DEF Free
    <3> QED BY <2>1, <3>2 DEF CopyConstruct
  <2>2. CASE CopyAssign(o, s)
    BY <2>2 DEF CopyAssign
  <2> QED BY <2>1, <2>2
<1>2. obj[s].alive
  BY DEF CopyConstruct, CopyAssign
<1> DEFINE m == CopyOf(obj[s], b)
<1>3. /\ m \in Members /\ m.p_data = b /\ m.alive /\ m.p_size > 0
      /\ CopiedCells(obj[s]) \in Block(m.p_size)
  BY <1>2, CopyMember
<1> HIDE DEF m
<1> QED BY <1>1, <1>3, NewBlock DEF m

LEMMA CloneOwner ==
  ASSUME OwnerInv, NEW o \in Objects, NEW s \in Objects, Clone(o, s)
  PROVE  OwnerInv'
<1> DEFINE m == obj[s]
           cells == CellsAt(SourceData(m), m.mem_used)
           told == IF m.validData /\ ~Short(m) THEN said[s] ELSE Nothing
           copy == [m EXCEPT !.readOnly = FALSE, !.p_ex_data = Nowhere,
                             !.p_size = m.mem_used]
<1>1. m \in Members /\ m.alive
  BY BlockOfObject DEF Clone
<1>2. copy \in Members /\ copy.alive /\ copy.p_size = m.mem_used
  <2>1. Nowhere \in Pointers
    BY DEF Nowhere, Pointers
  <2>2. copy \in Members
    BY <1>1, <2>1 DEF Members
  <2>3. copy.alive /\ copy.p_size = m.mem_used
    BY <1>1 DEF Members
  <2> QED BY <2>2, <2>3
<1>3. obj[o].p_data = 0
  BY DEF Clone, OwnerInv, Idle
<1>4. Free(heap, obj[o].p_data) = heap
  BY <1>3 DEF Free
<1> DEFINE Allocates(b) ==
             /\ Malloc(b)
             /\ Set(o, [copy EXCEPT !.p_data = b], [heap EXCEPT ![b] = cells], told)
           Empty == Set(o, [copy EXCEPT !.p_data = 0], heap, Nothing)
<1>5. \/ m.mem_used > 0 /\ \E b \in Blocks : Allocates(b)
      \/ m.mem_used = 0 /\ Empty
  BY Zenon DEF Clone
<1>6. CASE m.mem_used > 0 /\ \E b \in Blocks : Allocates(b)
  <2>1. PICK b \in Blocks : Allocates(b)
    BY <1>6
  <2>2. cells \in Block(m.mem_used)
    <3>1. m.mem_used \in Nat /\ SourceData(m).block \in Blocks \cup {0}
      BY <1>1 DEF Members, Pointers, SourceData
    <3> QED BY <3>1, CellsThere DEF OwnerInv
  <2> DEFINE d == [copy EXCEPT !.p_data = b]
  <2>3. d \in Members /\ d.p_data = b /\ d.alive /\ d.p_size = m.mem_used
    <3> HIDE DEF copy
    <3> QED BY <1>2 DEF Members
  <2> HIDE DEF d, copy, cells, told
  <2> QED BY <1>4, <1>6, <2>1, <2>2, <2>3, NewBlock DEF d
<1>7. CASE Empty
  <2>1. /\ obj' = [obj EXCEPT ![o] = [copy EXCEPT !.p_data = 0]]
        /\ heap' = Free(heap, obj[o].p_data)
    BY <1>4, <1>7 DEF Set, Becomes
  <2> HIDE DEF copy
  <2>2. /\ [copy EXCEPT !.p_data = 0] \in Members
        /\ [copy EXCEPT !.p_data = 0].p_data = 0
    BY <1>2 DEF Members
  <2> QED BY <2>1, <2>2, NoBlock
<1> HIDE DEF Allocates, Empty
<1> QED BY <1>5, <1>6, <1>7

-----------------------------------------------------------------------------
(* What ParseData finds.  Its loop goes on from the end of the element it  *)
(* has read, further on in the buffer, so that it is defined and typed for *)
(* the offsets from the end of the buffer down.                            *)

Parsed == [ok: BOOLEAN, data: Seq(Entry)]

(* The loop from offset at on, rest giving what it finds further on. *)
ParseStep(block, rest, at) ==
  IF at = Cells(block) THEN [ok |-> TRUE, data |-> << >>]
  ELSE IF ~Readable(block, at) THEN [ok |-> FALSE, data |-> << >>]
  ELSE LET e == ElementAt(block, at)
       IN [rest[EndOf(e)] EXCEPT !.data = <<e>> \o @]

LEMMA ParseDataLoop ==
  ASSUME NEW block
  PROVE  ParseData(block) =
           (CHOOSE from :
              from = [at \in HEADER_ELEMENTS .. Cells(block) |->
                        ParseStep(block, from, at)])[HEADER_ELEMENTS]
BY Zenon DEF ParseData, ParseStep

LEMMA ElementEntry ==
  ASSUME NEW N \in Nat, NEW block \in Block(N), NEW at \in Nat, Readable(block, at)
  PROVE  LET e == ElementAt(block, at)
         IN e \in Entry /\ EndOf(e) \in at + 1 .. N
<1> DEFINE d == DType(Peek(block, at), Peek(block, at + 1))
           size == IF d.basic_type THEN d.size
                   ELSE Peek(block, at + 1 + DTYPE_SIZE_NAME)
           e == ElementAt(block, at)
<1>1. Cells(block) = N /\ \A k : Peek(block, k) \in Nat
  BY CellsOfBlock, PeekCell
<1>2. d \in Elements
  BY <1>1, DTypeElement DEF Readable
<1>3. e = [d EXCEPT !.size = size, !.index = at + HeaderBytes(d)]
  BY DEF ElementAt
<1>4. size \in Nat
  BY <1>1, <1>2 DEF Elements
<1>5. HeaderBytes(d) \in {2, 3}
  BY HeaderBytesNat
<1>6. Cells(block) - e.index >= e.size
  BY DEF Readable
<1> HIDE DEF d, size, e
<1>7. e \in Entry /\ e.size = size /\ e.index = at + HeaderBytes(d)
  <2>1. at + HeaderBytes(d) \in Int
    BY <1>5
  <2> QED BY <1>2, <1>3, <1>4, <2>1 DEF Elements, Entry
<1>8. EndOf(e) \in at + 1 .. N
  BY <1>1, <1>4, <1>5, <1>6, <1>7 DEF EndOf
<1> QED BY <1>7, <1>8 DEF e

LEMMA ParseDataExists ==
  ASSUME NEW N \in Nat, N >= HEADER_ELEMENTS, NEW block \in Block(N)
  PROVE  \E from : from = [at \in HEADER_ELEMENTS .. N |-> ParseStep(block, from, at)]
<1> DEFINE Holds(n) == \E from : from = [at \in N - n .. N |-> ParseStep(block, from, at)]
           bad == {n \in 0 .. N - HEADER_ELEMENTS : ~Holds(n)}
<1>1. Cells(block) = N
  BY CellsOfBlock
<1>2. ASSUME NEW f, NEW g, NEW at \in Nat, \A k \in at + 1 .. N : f[k] = g[k]
      PROVE  ParseStep(block, f, at) = ParseStep(block, g, at)
  <2>1. CASE at # N /\ Readable(block, at)
    <3>1. EndOf(ElementAt(block, at)) \in at + 1 .. N
      BY <2>1, ElementEntry
    <3> QED BY <1>2, <2>1, <3>1 DEF ParseStep
  <2>2. CASE ~(at # N /\ Readable(block, at))
    BY <1>1, <2>2 DEF ParseStep
  <2> QED BY <2>1, <2>2
<1>3. ASSUME bad # {}
      PROVE  FALSE
  <2>1. bad \in SUBSET Nat
    BY DEF HEADER_ELEMENTS
  <2> DEFINE n == Min(bad)
  <2>2. n \in bad /\ \A y \in bad : n =< y
    <3> HIDE DEF bad
    <3> QED BY <1>3, <2>1, SmallestMember
  <2> HIDE DEF n
  <2>3. n \in 0 .. N - HEADER_ELEMENTS /\ ~Holds(n)
    BY <2>2
  <2>4. CASE n = 0
    <3> DEFINE g == [at \in N .. N |-> [ok |-> TRUE, data |-> << >>]]
    <3>1. \A at \in N .. N : ParseStep(block, g, at) = [ok |-> TRUE, data |-> << >>]
      BY <1>1 DEF ParseStep
    <3>2. g = [at \in N - n .. N |-> ParseStep(block, g, at)]
      <4>1. N - n = N
        BY <2>4
      <4> QED BY <3>1, <4>1
    <3> QED BY <2>3, <3>2
  <2>5. CASE n > 0
    <3>1. n - 1 \in 0 .. N - HEADER_ELEMENTS /\ n - 1 \notin bad
      <4> HIDE DEF Holds
      <4> QED BY <2>2, <2>3, <2>5
    <3>2. Holds(n - 1)
      <4> HIDE DEF Holds
      <4> QED BY <3>1
    <3>3. PICK f : f = [at \in N - (n - 1) .. N |-> ParseStep(block, f, at)]
      BY <3>2
    <3> DEFINE g == [at \in N - n .. N |->
                       IF at = N - n THEN ParseStep(block, f, at) ELSE f[at]]
    <3>4. ASSUME NEW at \in N - n .. N
          PROVE  g[at] = ParseStep(block, g, at)
      <4>1. at \in Nat /\ \A k \in at + 1 .. N : g[k] = f[k]
        BY <2>3
      <4>2. ParseStep(block, g, at) = ParseStep(block, f, at)
        <5> HIDE DEF g
        <5> QED BY <1>2, <4>1
      <4>3. CASE at = N - n
        BY <4>2, <4>3
      <4>4. CASE at # N - n
        <5>1. at \in N - (n - 1) .. N
          BY <2>3, <4>4
        <5>2. f[at] = ParseStep(block, f, at)
          BY <3>3, <5>1
        <5>3. g[at] = f[at]
          BY <4>4
        <5> QED BY <4>2, <5>2, <5>3
      <4> QED BY <4>3, <4>4
    <3>5. g = [at \in N - n .. N |-> ParseStep(block, g, at)]
      BY <3>4, Zenon
    <3> QED BY <2>3, <3>5
  <2> QED BY <2>3, <2>4, <2>5
<1>4. Holds(N - HEADER_ELEMENTS)
  <2>1. N - HEADER_ELEMENTS \in 0 .. N - HEADER_ELEMENTS
    OBVIOUS
  <2> QED BY <1>3, <2>1
<1>5. N - (N - HEADER_ELEMENTS) = HEADER_ELEMENTS
  OBVIOUS
<1> QED BY <1>4, <1>5

LEMMA ParsedTable ==
  ASSUME NEW N \in Nat, N >= HEADER_ELEMENTS, NEW block \in Block(N)
  PROVE  ParseData(block) \in Parsed
<1>1. Cells(block) = N
  BY CellsOfBlock
<1> DEFINE Loop(from) == from = [at \in HEADER_ELEMENTS .. N |-> ParseStep(block, from, at)]
           from == CHOOSE f : Loop(f)
<1>2. ParseData(block) = from[HEADER_ELEMENTS]
  BY <1>1, ParseDataLoop, Zenon
<1>3. Loop(from)
  BY ParseDataExists, Zenon
<1> HIDE DEF from
<1> DEFINE bad == {n \in 0 .. N - HEADER_ELEMENTS : from[N - n] \notin Parsed}
<1>4. ASSUME bad # {}
      PROVE  FALSE
  <2>1. bad \in SUBSET Nat
    OBVIOUS
  <2> DEFINE n == Min(bad)
             at == N - n
  <2>2. n \in bad /\ \A y \in bad : n =< y
    <3> HIDE DEF bad
    <3> QED BY <1>4, <2>1, SmallestMember
  <2> HIDE DEF n
  <2>3. n \in 0 .. N - HEADER_ELEMENTS /\ from[at] \notin Parsed
    BY <2>2
  <2>4. at \in HEADER_ELEMENTS .. N /\ at \in Nat /\ from[at] = ParseStep(block, from, at)
    BY <1>3, <2>3
  <2>5. << >> \in Seq(Entry)
    OBVIOUS
  <2>6. CASE at = N \/ ~Readable(block, at)
    BY <1>1, <2>3, <2>4, <2>5, <2>6 DEF ParseStep, Parsed
  <2>7. CASE at # N /\ Readable(block, at)
    <3> DEFINE e == ElementAt(block, at)
               rest == from[EndOf(e)]
    <3>1. e \in Entry /\ EndOf(e) \in at + 1 .. N
      BY <2>4, <2>7, ElementEntry
    <3> HIDE DEF e
    <3>2. N - EndOf(e) \in 0 .. N - HEADER_ELEMENTS /\ N - EndOf(e) < n
          /\ N - (N - EndOf(e)) = EndOf(e)
      BY <2>3, <2>4, <3>1
    <3>3. rest \in Parsed
      BY <2>2, <2>3, <3>2
    <3>4. from[at] = [rest EXCEPT !.data = <<e>> \o @]
      BY <1>1, <2>4, <2>7 DEF ParseStep, e
    <3>5. <<e>> \o rest.data \in Seq(Entry)
      BY <3>1, <3>3 DEF Parsed
    <3> HIDE DEF rest
    <3>6. from[at] \in Parsed
      BY <3>3, <3>4, <3>5 DEF Parsed
    <3> QED BY <2>3, <3>6
  <2> QED BY <2>6, <2>7
<1>5. N - HEADER_ELEMENTS \in 0 .. N - HEADER_ELEMENTS
      /\ N - (N - HEADER_ELEMENTS) = HEADER_ELEMENTS
  OBVIOUS
<1> QED BY <1>2, <1>4, <1>5

LEMMA OverMember ==
  ASSUME Typed, NEW ptr \in Pointers, NEW size \in Nat
  PROVE  LET m == Over(ptr, size)
         IN m \in Members /\ m.p_data = 0 /\ m.alive
<1> DEFINE block  == CellsAt(ptr, size)
           header == /\ size >= HEADER_ELEMENTS
                     /\ block[VERSION] \in MIN_MESS_VERSION .. MESS_VERSION
           parsed == IF header /\ block[SIZE] = size THEN ParseData(block)
                     ELSE [ok |-> FALSE, data |-> << >>]
           used   == IF header THEN block[SIZE] ELSE 0
           count  == IF header THEN block[ELEMENTS] ELSE 0
           husk   == [Hollow EXCEPT !.alive = TRUE]
           m      == Over(ptr, size)
<1>1. block \in Block(size)
  BY CellsThere DEF Pointers
<1> HIDE DEF block
<1>2. parsed \in Parsed
  <2>1. << >> \in Seq(Entry)
    OBVIOUS
  <2> QED BY <1>1, <2>1, ParsedTable DEF Parsed
<1>3. used \in Nat /\ count \in Nat
  BY <1>1 DEF Block
<1>4. m = [husk EXCEPT !.p_ex_data = ptr, !.mem_used = used, !.el_size = count,
                       !.data = parsed.data, !.validData = parsed.ok]
  BY DEF Over, block, Hollow
<1>5. husk \in Members /\ husk.p_data = 0 /\ husk.alive
  BY HollowMember DEF Hollow
<1> HIDE DEF header, parsed, used, count, husk, m
<1>6. parsed.data \in Seq(Entry) /\ parsed.ok \in BOOLEAN
  BY <1>2 DEF Parsed
<1>7. m \in Members
  BY <1>3, <1>4, <1>5, <1>6 DEF Members
<1>8. m.p_data = 0 /\ m.alive
  BY <1>4, <1>5 DEF Members
<1> QED BY <1>7, <1>8 DEF m

LEMMA SourcePointer ==
  ASSUME NEW m \in Members
  PROVE  SourceData(m) \in Pointers
BY DEF Members, Pointers, SourceData

LEMMA WrapOwner ==
  ASSUME OwnerInv, NEW o \in Objects, NEW s \in Objects, Wrap(o, s)
  PROVE  OwnerInv'
<1> DEFINE m == Over(SourceData(obj[s]), obj[s].mem_used)
<1>1. obj[s] \in Members
  BY BlockOfObject
<1>2. obj[s].mem_used \in Nat
  BY <1>1 DEF Members
<1>3. m \in Members /\ m.p_data = 0
  BY <1>1, <1>2, SourcePointer, OverMember DEF OwnerInv
<1>4. obj[o].p_data = 0
  BY DEF Wrap, OwnerInv, Idle
<1>5. obj' = [obj EXCEPT ![o] = m] /\ heap' = Free(heap, obj[o].p_data)
  BY <1>4 DEF Wrap, Set, Becomes, Free
<1> HIDE DEF m
<1> QED BY <1>3, <1>5, NoBlock

-----------------------------------------------------------------------------
(* Messages that are read out of others. *)

(* The sequences that Vectors are. *)
LEMMA VectorParts ==
  ASSUME NEW vector \in Vectors
  PROVE  /\ vector \in Seq(Objects)
         /\ Len(vector) \in {1, 2}
         /\ DOMAIN vector = 1 .. Len(vector)
<1>1. \/ \E s \in Objects : vector = <<s>>
      \/ \E s, t \in Objects : vector = <<s, t>>
  BY DEF Vectors
<1>2. CASE \E s \in Objects : vector = <<s>>
  BY <1>2
<1>3. CASE \E s, t \in Objects : vector = <<s, t>>
  <2>1. PICK s \in Objects, t \in Objects : vector = <<s, t>>
    BY <1>3
  <2>2. vector \in Seq(Objects) /\ Len(vector) = 2
    BY <2>1
  <2> QED BY <2>2, LenProperties
<1> QED BY <1>1, <1>2, <1>3

LEMMA RangeOfVector ==
  ASSUME NEW dest \in Seq(Objects)
  PROVE  Range(dest) \subseteq Objects /\ \A d \in Range(dest) : \E i \in DOMAIN dest : dest[i] = d
<1>1. \A i \in DOMAIN dest : dest[i] \in Objects
  BY ElementOfSeq, LenProperties
<1> QED BY <1>1 DEF Range

LEMMA TakeOutOwner ==
  ASSUME OwnerInv, NEW o \in Objects, NEW dest \in Seq(Objects), NEW parts, NEW items,
         \A i \in DOMAIN dest : parts[i].at \in Int /\ parts[i].size \in Nat,
         TakeOut(o, parts, items, dest)
  PROVE  OwnerInv'
<1> DEFINE Item(i) == Over([SourceData(obj[o]) EXCEPT !.at = @ + parts[i].at],
                           parts[i].size)
           Position(d) == CHOOSE i \in DOMAIN dest : dest[i] = d
           Emptied(b) == \E d \in Range(dest) : obj[d].p_data = b
<1>1. obj' = [d \in Objects |-> IF d \in Range(dest) THEN Item(Position(d)) ELSE obj[d]]
  BY Zenon DEF TakeOut, Becomes
<1>2. heap' = [b \in Blocks |-> IF Emptied(b) THEN NULL ELSE heap[b]]
  BY Zenon DEF TakeOut, Becomes
<1>3. /\ Range(dest) \subseteq Objects
      /\ \A d \in Range(dest) : Position(d) \in DOMAIN dest
  BY RangeOfVector, Zenon
<1>4. ASSUME NEW i \in DOMAIN dest
      PROVE  Item(i) \in Members /\ Item(i).p_data = 0 /\ Item(i).alive
  <2> DEFINE ptr == [SourceData(obj[o]) EXCEPT !.at = @ + parts[i].at]
  <2>1. SourceData(obj[o]) \in Pointers
    BY BlockOfObject, SourcePointer
  <2>2. ptr \in Pointers
    BY <1>4, <2>1 DEF Pointers
  <2> HIDE DEF ptr
  <2> QED BY <1>4, <2>2, OverMember DEF ptr, OwnerInv
<1> HIDE DEF Item, Position
<1>5. \A d \in Objects :
        /\ d \in Range(dest) =>
             obj'[d] \in Members /\ obj'[d].p_data = 0 /\ obj'[d].alive
        /\ d \notin Range(dest) => obj'[d] = obj[d]
  BY <1>1, <1>3, <1>4
<1>6. \A d \in Objects : obj[d] \in Members /\ obj[d].p_data \in Blocks \cup {0}
  BY BlockOfObject
<1>7. Typed'
  <2>1. NULL \in Memory
    BY NullBlock, MemoryBlock
  <2>2. heap' \in [Blocks -> Memory]
    BY <1>2, <2>1 DEF OwnerInv, Typed
  <2>3. obj' \in [Objects -> Members]
    BY <1>1, <1>5, <1>6
  <2> QED BY <2>2, <2>3 DEF Typed
<1>8. Idle'
  BY <1>5 DEF OwnerInv, Idle
<1>9. ASSUME NEW b \in Blocks, heap'[b] # NULL
      PROVE  \E v \in Objects : obj'[v].p_data = b
  <2>1. ~Emptied(b) /\ heap[b] # NULL
    BY <1>2, <1>9
  <2>2. PICK v \in Objects : obj[v].p_data = b
    BY <2>1 DEF OwnerInv, OneOwner
  <2>3. v \notin Range(dest)
    BY <2>1, <2>2
  <2> QED BY <1>5, <2>2, <2>3
<1>10. ASSUME NEW v \in Objects, obj'[v].p_data # 0
       PROVE  /\ heap'[obj'[v].p_data] # NULL
              /\ obj'[v].p_size = Cells(heap'[obj'[v].p_data])
              /\ \A w \in Objects : obj'[w].p_data = obj'[v].p_data => w = v
  <2>1. v \notin Range(dest) /\ obj'[v] = obj[v] /\ obj[v].p_data \in Blocks
    BY <1>5, <1>6, <1>10
  <2>2. /\ heap[obj[v].p_data] # NULL
        /\ obj[v].p_size = Cells(heap[obj[v].p_data])
        /\ \A w \in Objects : obj[w].p_data = obj[v].p_data => w = v
    BY <1>10, <2>1 DEF OwnerInv, OneOwner
  <2>3. ~Emptied(obj[v].p_data)
    BY <1>3, <2>1, <2>2
  <2>4. heap'[obj[v].p_data] = heap[obj[v].p_data]
    BY <1>2, <2>1, <2>3
  <2>5. \A w \in Objects : obj'[w].p_data = obj'[v].p_data => w = v
    BY <1>5, <1>10, <2>1, <2>2
  <2> QED BY <2>1, <2>2, <2>4, <2>5
<1>11. OneOwner'
  BY <1>9, <1>10 DEF OneOwner
<1> QED BY <1>7, <1>8, <1>11 DEF OwnerInv

LEMMA FoundEntry ==
  ASSUME NEW m \in Members, NEW name, Find(m, name) # 0
  PROVE  Find(m, name) \in DOMAIN m.data /\ m.data[Find(m, name)] \in Entry
<1> DEFINE I == {i \in 1 .. Len(m.data) : m.data[i].name = name}
<1>1. m.data \in Seq(Entry)
  BY DEF Members
<1>2. I # {}
  BY DEF Find, SelectInSeq
<1>3. Find(m, name) = Min(I)
  BY <1>2 DEF Find, SelectInSeq
<1>4. I \in SUBSET Nat
  OBVIOUS
<1>5. Min(I) \in I
  <2> HIDE DEF I
  <2> QED BY <1>2, <1>4, SmallestMember
<1>6. Find(m, name) \in DOMAIN m.data
  BY <1>1, <1>3, <1>5, LenProperties
<1> QED BY <1>1, <1>6, ElementOfSeq, LenProperties

LEMMA GetMessageOwner ==
  ASSUME OwnerInv, NEW o \in Objects, NEW name, NEW dest \in Objects,
         GetMessage(o, name, dest)
  PROVE  OwnerInv'
<1> DEFINE e == obj[o].data[Find(obj[o], name)]
           parts == <<[at |-> e.index, size |-> e.size]>>
<1>1. e \in Entry
  BY BlockOfObject, FoundEntry DEF GetMessage, Retrieves
<1>2. TakeOut(o, parts, <<PutInto(o, name)>>, <<dest>>)
  BY DEF GetMessage
<1> HIDE DEF e
<1>3. \A i \in DOMAIN <<dest>> : parts[i].at \in Int /\ parts[i].size \in Nat
  BY <1>1 DEF Entry
<1>4. <<dest>> \in Seq(Objects)
  OBVIOUS
<1> HIDE DEF parts
<1> QED BY <1>2, <1>3, <1>4, TakeOutOwner

(* Where the items are, of an array of one or two. *)
(* Where the items of an array of one or two are: the first behind the     *)
(* number of items and its own size, the second behind the first.          *)
LEMMA PartsAre ==
  ASSUME Typed, NEW m \in Members, NEW e \in Entry, ItemCount(m, e) \in {1, 2},
         NEW parts, parts = PartsOf(m, e)
  PROVE  /\ parts[1].at = e.index + 2
         /\ parts[1].size = CellAt(SourceData(m), e.index + 1)
         /\ ItemCount(m, e) = 2 =>
              /\ parts[2].at = (parts[1].at + parts[1].size) + 1
              /\ parts[2].size = CellAt(SourceData(m), parts[1].at + parts[1].size)
<1> DEFINE n == ItemCount(m, e)
           Start(part, i) == IF i = 1 THEN e.index + 1
                             ELSE part[i - 1].at + part[i - 1].size
           Loop(part) ==
             part = [i \in 1 .. n |->
                       [at   |-> Start(part, i) + 1,
                        size |-> CellAt(SourceData(m), Start(part, i))]]
           part == CHOOSE p : Loop(p)
<1>1. PartsOf(m, e) = part
  BY Zenon DEF PartsOf
<1> HIDE DEF n
<1>4. n \in {1, 2}
  BY DEF n
<1>5. \E p : Loop(p)
  <2> DEFINE first  == [at |-> e.index + 2, size |-> CellAt(SourceData(m), e.index + 1)]
             next   == first.at + first.size
             second == [at |-> next + 1, size |-> CellAt(SourceData(m), next)]
             p      == [i \in 1 .. n |-> IF i = 1 THEN first ELSE second]
  <2>1. e.index + 1 + 1 = e.index + 2
    BY DEF Entry
  <2>2. \A i \in 1 .. n : i = 1 \/ i = 2
    BY <1>4
  <2>3. \A i \in 1 .. n :
          p[i] = [at |-> Start(p, i) + 1, size |-> CellAt(SourceData(m), Start(p, i))]
    BY <1>4, <2>1, <2>2
  <2>4. Loop(p)
    <3> HIDE DEF first, second, next, Start
    <3> QED BY <2>3, Zenon
  <2> QED BY <2>4
<1>6. Loop(part)
  BY <1>5, Zenon
<1> HIDE DEF part
<1>7. \A i \in 1 .. n :
        /\ part[i].at = Start(part, i) + 1
        /\ part[i].size = CellAt(SourceData(m), Start(part, i))
  <2> TAKE i \in 1 .. n
  <2>1. part[i] = [at   |-> Start(part, i) + 1,
                   size |-> CellAt(SourceData(m), Start(part, i))]
    BY <1>6, Zenon
  <2> HIDE DEF Start
  <2> QED BY <2>1
<1>8. /\ part[1].at = e.index + 2
      /\ part[1].size = CellAt(SourceData(m), e.index + 1)
  <2>1. e.index + 1 + 1 = e.index + 2
    BY DEF Entry
  <2>2. 1 \in 1 .. n /\ Start(part, 1) = e.index + 1
    BY <1>4
  <2> HIDE DEF Start
  <2> QED BY <1>7, <2>1, <2>2
<1>9. ASSUME n = 2
      PROVE  /\ part[2].at = (part[1].at + part[1].size) + 1
             /\ part[2].size = CellAt(SourceData(m), part[1].at + part[1].size)
  <2>1. 2 \in 1 .. n /\ Start(part, 2) = part[1].at + part[1].size
    BY <1>9
  <2> HIDE DEF Start
  <2> QED BY <1>7, <2>1
<1> QED BY <1>1, <1>8, <1>9 DEF n

LEMMA PartsFound ==
  ASSUME Typed, NEW m \in Members, NEW e \in Entry, ItemCount(m, e) \in {1, 2}
  PROVE  \A i \in 1 .. ItemCount(m, e) :
           PartsOf(m, e)[i].at \in Int /\ PartsOf(m, e)[i].size \in Nat
<1> DEFINE n     == ItemCount(m, e)
           parts == PartsOf(m, e)
<1>1. SourceData(m).block \in Blocks \cup {0}
  BY SourcePointer DEF Pointers
<1>2. \A k : CellAt(SourceData(m), k) \in Nat
  BY <1>1, CellsThere
<1>3. /\ parts[1].at = e.index + 2
      /\ parts[1].size = CellAt(SourceData(m), e.index + 1)
      /\ n = 2 => /\ parts[2].at = (parts[1].at + parts[1].size) + 1
                  /\ parts[2].size = CellAt(SourceData(m), parts[1].at + parts[1].size)
  BY PartsAre
<1> HIDE DEF n, parts
<1>4. parts[1].at \in Int /\ parts[1].size \in Nat
  BY <1>2, <1>3 DEF Entry
<1>5. n = 2 => parts[2].at \in Int /\ parts[2].size \in Nat
  BY <1>2, <1>3, <1>4
<1>6. \A i \in 1 .. n : i = 1 \/ (i = 2 /\ n = 2)
  BY DEF n
<1> QED BY <1>4, <1>5, <1>6 DEF n, parts

LEMMA GetMessageArrayOwner ==
  ASSUME OwnerInv, NEW o \in Objects, NEW name, NEW dest \in Vectors,
         GetMessageArray(o, name, dest)
  PROVE  OwnerInv'
<1> DEFINE e == obj[o].data[Find(obj[o], name)]
           parts == PartsOf(obj[o], e)
<1>1. e \in Entry /\ obj[o] \in Members
  BY BlockOfObject, FoundEntry DEF GetMessageArray, Retrieves
<1>2. /\ Len(dest) = ItemCount(obj[o], e)
      /\ TakeOut(o, parts, ItemsOf(PutInto(o, name)), dest)
  BY DEF GetMessageArray
<1> HIDE DEF e
<1>3. /\ dest \in Seq(Objects) /\ ItemCount(obj[o], e) \in {1, 2}
      /\ DOMAIN dest = 1 .. ItemCount(obj[o], e)
  BY <1>2, VectorParts
<1>4. \A i \in DOMAIN dest : parts[i].at \in Int /\ parts[i].size \in Nat
  BY <1>1, <1>3, PartsFound DEF OwnerInv
<1> HIDE DEF parts
<1> QED BY <1>2, <1>3, <1>4, TakeOutOwner

-----------------------------------------------------------------------------
(* Building. *)

LEMMA AddedCells ==
  ASSUME OwnerInv, NEW o \in Objects, NEW e \in Elements, NEW value \in Seq(Nat),
         e.size <= Len(value)
  PROVE  LET m     == obj[o]
             cells == Encode(e, value)
             size  == m.p_size + Reserve(m.p_size, m.mem_used, Len(cells))
             used  == m.mem_used + Len(cells)
             old   == IF m.p_data = 0 THEN NULL ELSE heap[m.p_data]
         IN /\ size \in Nat /\ used \in Nat
            /\ Reserve(m.p_size, m.mem_used, Len(cells)) \in Nat
            /\ WriteHeader(Write(Resize(old, size), m.mem_used, cells),
                           used, m.el_size + 1) \in Block(size)
<1> DEFINE m     == obj[o]
           cells == Encode(e, value)
           size  == m.p_size + Reserve(m.p_size, m.mem_used, Len(cells))
           used  == m.mem_used + Len(cells)
           old   == IF m.p_data = 0 THEN NULL ELSE heap[m.p_data]
<1>1. m.p_size \in Nat /\ m.mem_used \in Nat /\ m.el_size \in Nat
  BY BlockOfObject DEF Members
<1>2. cells \in Seq(Nat) /\ Len(cells) \in Nat
  BY EncodeCells, LenProperties
<1> HIDE DEF m, cells
<1>3. Reserve(m.p_size, m.mem_used, Len(cells)) \in Nat
  BY <1>1, <1>2, ReserveEnough
<1>4. size \in Nat /\ used \in Nat /\ m.el_size + 1 \in Nat
  BY <1>1, <1>2, <1>3
<1>5. IsBlock(old)
  <2>1. m.p_data # 0 => heap[m.p_data] \in Block(m.p_size)
    BY BlockOfObject DEF m
  <2> QED BY <1>1, <2>1, NullBlock, CellsOfBlock
<1> HIDE DEF size, used, old
<1>6. Resize(old, size) \in Block(size)
  BY <1>4, <1>5, ResizeBlock
<1>7. Write(Resize(old, size), m.mem_used, cells) \in Block(size)
  BY <1>1, <1>2, <1>4, <1>6, WriteBlock
<1>8. WriteHeader(Write(Resize(old, size), m.mem_used, cells), used, m.el_size + 1)
        \in Block(size)
  BY <1>4, <1>7, HeaderBlock
<1> QED BY <1>3, <1>4, <1>8 DEF m, cells, size, used, old

LEMMA AddOwner ==
  ASSUME OwnerInv, NEW o \in Objects, NEW e \in Elements, NEW value \in Seq(Nat),
         e.size <= Len(value), NEW told, Add(o, e, value, told)
  PROVE  OwnerInv'
<1> DEFINE m     == obj[o]
           cells == Encode(e, value)
           more  == Reserve(m.p_size, m.mem_used, Len(cells))
           size  == m.p_size + more
           used  == m.mem_used + Len(cells)
           old   == IF m.p_data = 0 THEN NULL ELSE heap[m.p_data]
           new   == WriteHeader(Write(Resize(old, size), m.mem_used, cells),
                                used, m.el_size + 1)
           entry == [e EXCEPT !.index = m.mem_used + HeaderBytes(e)]
           grown == [m EXCEPT !.p_size = size, !.mem_used = used,
                              !.el_size = @ + 1, !.data = Append(@, entry)]
           InPlace == /\ m.p_data # 0
                      /\ Set(o, grown, [heap EXCEPT ![m.p_data] = new], told)
           Moves(b) == /\ Malloc(b)
                       /\ Set(o, [grown EXCEPT !.p_data = b],
                              [Free(heap, m.p_data) EXCEPT ![b] = new], told)
<1>1. /\ Writable(o)
      /\ InPlace \/ (more > 0 /\ \E b \in Blocks : Moves(b))
  BY Zenon DEF Add
<1>2. size \in Nat /\ used \in Nat /\ more \in Nat /\ new \in Block(size)
  BY AddedCells
<1>3. m \in Members /\ m.alive
  BY <1>1, BlockOfObject DEF Writable
<1>4. entry \in Entry
  <2>1. m.mem_used + HeaderBytes(e) \in Int
    BY <1>3, HeaderBytesNat DEF Members
  <2> QED BY <2>1 DEF Elements, Entry
<1> HIDE DEF more, used, new, entry
<1>5. m.p_data # 0 => size > 0
  <2>1. m.p_size \in Nat /\ (m.p_data # 0 => m.p_size > 0)
    BY <1>3, BlockOfObject DEF Members
  <2> QED BY <1>2, <2>1
<1>6. more > 0 => size > 0
  BY <1>2, <1>3 DEF Members
<1> HIDE DEF size
<1>7. /\ grown \in Members
      /\ grown.alive /\ grown.p_data = m.p_data /\ grown.p_size = size
  <2>1. Append(m.data, entry) \in Seq(Entry) /\ m.el_size + 1 \in Nat
    BY <1>3, <1>4 DEF Members
  <2>2. grown \in Members
    BY <1>2, <1>3, <2>1 DEF Members
  <2>3. grown.alive /\ grown.p_data = m.p_data /\ grown.p_size = size
    BY <1>3 DEF Members
  <2> QED BY <2>2, <2>3
<1>8. CASE InPlace
  <2>1. obj' = [obj EXCEPT ![o] = grown] /\ heap' = [heap EXCEPT ![m.p_data] = new]
    BY <1>8, Zenon DEF Set, Becomes
  <2> HIDE DEF grown
  <2> QED BY <1>2, <1>5, <1>7, <1>8, <2>1, KeptBlock
<1>9. CASE more > 0 /\ \E b \in Blocks : Moves(b)
  <2>1. PICK b \in Blocks : Moves(b)
    BY <1>9
  <2> DEFINE d == [grown EXCEPT !.p_data = b]
  <2>2. d \in Members /\ d.p_data = b /\ d.alive /\ d.p_size = size
    <3> HIDE DEF grown
    <3> QED BY <1>7 DEF Members
  <2>3. Set(o, d, [Free(heap, obj[o].p_data) EXCEPT ![b] = new], told)
    BY <2>1, Zenon
  <2>4. Malloc(b)
    BY <2>1, Zenon
  <2> HIDE DEF d
  <2> QED BY <1>2, <1>6, <1>9, <2>2, <2>3, <2>4, NewBlock
<1> HIDE DEF InPlace, Moves
<1> QED BY <1>1, <1>8, <1>9

LEMMA AddScalarOwner ==
  ASSUME OwnerInv, NEW o \in Objects, NEW name \in ScalarNames,
         NEW value \in Values, AddScalar(o, name, value)
  PROVE  OwnerInv'
<1>1. /\ name \in Nat /\ value \in Seq(Nat)
      /\ Scalar \in KnownTypes /\ SType[Scalar] # 0 /\ Len(value) = SType[Scalar]
  BY ObjectsAssumption
<1>2. DType(Scalar, name) \in Elements /\ DType(Scalar, name).size <= Len(value)
  BY <1>1, ScalarElement
<1> QED BY <1>1, <1>2, AddOwner DEF AddScalar

LEMMA AddBytesOwner ==
  ASSUME OwnerInv, NEW o \in Objects, NEW name \in Nat, NEW type \in KnownTypes,
         NEW bytes \in Seq(Nat), AddBytes(o, name, type, bytes)
  PROVE  OwnerInv'
<1> DEFINE e == [DType(type, name) EXCEPT !.size = Len(bytes)]
<1>1. DType(type, name) \in Elements /\ Len(bytes) \in Nat
  BY DTypeElement, LenProperties
<1>2. e \in Elements /\ e.size <= Len(bytes)
  BY <1>1 DEF Elements
<1>3. Add(o, e, bytes, With(o, name, type, bytes))
  BY DEF AddBytes
<1> HIDE DEF e
<1> QED BY <1>2, <1>3, AddOwner

LEMMA BytesThere ==
  ASSUME OwnerInv, NEW s \in Objects
  PROVE  Bytes(s) \in Seq(Nat)
<1> DEFINE n == obj[s].mem_used
           cells == CellsAt(SourceData(obj[s]), n)
<1>1. obj[s] \in Members
  BY BlockOfObject
<1>2. n \in Nat /\ SourceData(obj[s]).block \in Blocks \cup {0}
  BY <1>1, SourcePointer DEF Members, Pointers
<1>3. cells \in Block(n)
  BY <1>2, CellsThere DEF OwnerInv
<1> HIDE DEF n, cells
<1>4. \A k \in 1 .. n : cells[k - 1] \in Nat
  BY <1>2, <1>3 DEF Block
<1>5. [k \in 1 .. n |-> cells[k - 1]] \in [1 .. n -> Nat]
  BY <1>4
<1>6. [k \in 1 .. n |-> cells[k - 1]] \in Seq(Nat)
  BY <1>2, <1>5, SeqDef
<1> QED BY <1>6 DEF Bytes, n, cells

LEMMA AddMessageOwner ==
  ASSUME OwnerInv, NEW o \in Objects, NEW name \in MessageNames,
         NEW s \in Objects, AddMessage(o, name, s)
  PROVE  OwnerInv'
<1>1. name \in Nat /\ MESSAGE \in KnownTypes
  BY ObjectsAssumption
<1>2. Bytes(s) \in Seq(Nat)
  BY BytesThere
<1> QED BY <1>1, <1>2, AddBytesOwner DEF AddMessage

(* The bytes of an array of one or two items. *)
LEMMA ArrayMade ==
  ASSUME NEW n \in {1, 2}, NEW items \in [1 .. n -> Seq(Nat)]
  PROVE  /\ n = 1 => ArrayBytes(items) = <<1>> \o (<<Len(items[1])>> \o items[1])
         /\ n = 2 => ArrayBytes(items) =
              <<2>> \o ((<<Len(items[1])>> \o items[1]) \o (<<Len(items[2])>> \o items[2]))
<1> DEFINE seqs == [i \in DOMAIN items |-> <<Len(items[i])>> \o items[i]]
           Loop(f) == f = [i \in 1 .. n |->
                             IF i = 1 THEN seqs[i] ELSE f[i - 1] \o seqs[i]]
           flatten == CHOOSE f : Loop(f)
<1>1. DOMAIN items = 1 .. n /\ Len(items) = n /\ items \in Seq(Seq(Nat))
  BY SeqDef, LenProperties
<1>2. \A i \in 1 .. n : seqs[i] = <<Len(items[i])>> \o items[i] /\ seqs[i] \in Seq(Nat)
  BY <1>1, LenProperties
<1>3. DOMAIN seqs = 1 .. n /\ Len(seqs) = n
  BY <1>1, <1>2, SeqDef
<1> HIDE DEF seqs
<1>4. FlattenSeq(seqs) = flatten[n]
  BY <1>3 DEF FlattenSeq
<1>5. \E f : Loop(f)
  <2> DEFINE f == [i \in 1 .. n |-> IF i = 1 THEN seqs[1] ELSE seqs[1] \o seqs[2]]
  <2>1. \A i \in 1 .. n : f[i] = IF i = 1 THEN seqs[i] ELSE f[i - 1] \o seqs[i]
    OBVIOUS
  <2>2. Loop(f)
    BY <2>1, Zenon
  <2> QED BY <2>2
<1>6. Loop(flatten)
  BY <1>5, Zenon
<1> HIDE DEF flatten
<1>7. flatten[1] = seqs[1]
  BY <1>6
<1>8. n = 2 => flatten[2] = seqs[1] \o seqs[2]
  <2> SUFFICES ASSUME n = 2 PROVE flatten[2] = seqs[1] \o seqs[2]
    OBVIOUS
  <2>1. 2 \in 1 .. n /\ 2 # 1 /\ 2 - 1 = 1
    OBVIOUS
  <2>2. flatten[2] = flatten[2 - 1] \o seqs[2]
    BY <1>6, <2>1, Zenon
  <2> QED BY <1>7, <2>1, <2>2
<1>9. ArrayBytes(items) = <<Len(items)>> \o FlattenSeq(seqs)
  BY Zenon DEF ArrayBytes, seqs
<1>10. ASSUME n = 1
       PROVE  ArrayBytes(items) = <<1>> \o (<<Len(items[1])>> \o items[1])
  <2>1. FlattenSeq(seqs) = seqs[1] /\ Len(items) = 1 /\ 1 \in 1 .. n
    BY <1>1, <1>4, <1>7, <1>10
  <2>2. seqs[1] = <<Len(items[1])>> \o items[1]
    BY <1>2, <2>1
  <2> QED BY <1>9, <2>1, <2>2, Zenon
<1>11. ASSUME n = 2
       PROVE  ArrayBytes(items) =
                <<2>> \o ((<<Len(items[1])>> \o items[1]) \o (<<Len(items[2])>> \o items[2]))
  <2>0. Len(items) = 2 /\ 1 \in 1 .. n /\ 2 \in 1 .. n
    BY <1>1, <1>11
  <2>1. FlattenSeq(seqs) = seqs[1] \o seqs[2]
    BY <1>4, <1>8, <1>11, Zenon
  <2>2. seqs[1] = <<Len(items[1])>> \o items[1] /\ seqs[2] = <<Len(items[2])>> \o items[2]
    BY <1>2, <2>0
  <2> QED BY <1>9, <2>0, <2>1, <2>2, Zenon
<1> QED BY <1>10, <1>11

LEMMA ArrayOfNumbers ==
  ASSUME NEW n \in {1, 2}, NEW items \in [1 .. n -> Seq(Nat)]
  PROVE  ArrayBytes(items) \in Seq(Nat)
<1>1. ASSUME NEW i \in 1 .. n
      PROVE  items[i] \in Seq(Nat) /\ <<Len(items[i])>> \o items[i] \in Seq(Nat)
  BY LenProperties
<1>2. CASE n = 1
  <2>1. <<Len(items[1])>> \o items[1] \in Seq(Nat)
    BY <1>1, <1>2
  <2>2. ArrayBytes(items) = <<1>> \o (<<Len(items[1])>> \o items[1])
    BY <1>2, ArrayMade
  <2> QED BY <2>1, <2>2
<1>3. CASE n = 2
  <2>1. /\ <<Len(items[1])>> \o items[1] \in Seq(Nat)
        /\ <<Len(items[2])>> \o items[2] \in Seq(Nat)
    BY <1>1, <1>3
  <2>2. ArrayBytes(items) =
          <<2>> \o ((<<Len(items[1])>> \o items[1]) \o (<<Len(items[2])>> \o items[2]))
    BY <1>3, ArrayMade
  <2> QED BY <2>1, <2>2
<1> QED BY <1>2, <1>3

LEMMA AddMessageArrayOwner ==
  ASSUME OwnerInv, NEW o \in Objects, NEW name \in ArrayNames,
         NEW vector \in Vectors, AddMessageArray(o, name, vector)
  PROVE  OwnerInv'
<1> DEFINE items == [i \in DOMAIN vector |-> Bytes(vector[i])]
<1>1. name \in Nat /\ MESSAGEARRAY \in KnownTypes
  BY ObjectsAssumption
<1>2. /\ DOMAIN vector = 1 .. Len(vector) /\ Len(vector) \in {1, 2}
      /\ \A i \in DOMAIN vector : vector[i] \in Objects
  BY VectorParts, ElementOfSeq, LenProperties
<1>3. items \in [1 .. Len(vector) -> Seq(Nat)]
  BY <1>2, BytesThere
<1> HIDE DEF items
<1>4. ArrayBytes(items) \in Seq(Nat)
  BY <1>2, <1>3, ArrayOfNumbers
<1>5. AddBytes(o, name, MESSAGEARRAY, ArrayBytes(items))
  BY DEF AddMessageArray, items
<1> QED BY <1>1, <1>4, <1>5, AddBytesOwner

-----------------------------------------------------------------------------
(* Update and Delete. *)

(* There is no block 0 to write to. *)
LEMMA NowhereWritten ==
  ASSUME Typed, NEW c
  PROVE  [heap EXCEPT ![0] = c] = heap
BY ObjectsAssumption DEF Typed

LEMMA UpdateOwner ==
  ASSUME OwnerInv, NEW o \in Objects, NEW name, NEW value \in Values,
         Update(o, name, value)
  PROVE  OwnerInv'
<1> DEFINE m == obj[o]
           e == m.data[Find(m, name)]
           cells == Write(heap[m.p_data], e.index, value)
<1>1. /\ m \in Members /\ m.alive /\ Find(m, name) # 0
  BY BlockOfObject DEF Update, Writable
<1>2. e \in Entry /\ value \in Seq(Nat)
  BY <1>1, FoundEntry, ObjectsAssumption
<1>3. obj' = obj /\ heap' = [heap EXCEPT ![m.p_data] = cells]
  BY DEF Update, Becomes
<1>4. obj' = [obj EXCEPT ![o] = m]
  BY <1>3 DEF OwnerInv, Typed
<1> HIDE DEF e
<1>5. CASE m.p_data = 0
  <2>1. heap' = Free(heap, obj[o].p_data)
    BY <1>3, <1>5, NowhereWritten DEF Free, OwnerInv
  <2> QED BY <1>1, <1>4, <1>5, <2>1, NoBlock
<1>6. CASE m.p_data # 0
  <2>1. heap[m.p_data] \in Block(m.p_size) /\ m.p_size > 0 /\ m.p_size \in Nat
    BY <1>1, <1>6, BlockOfObject DEF Members
  <2>2. cells \in Block(m.p_size)
    BY <1>2, <2>1, WriteBlock DEF Entry
  <2> HIDE DEF cells
  <2> QED BY <1>1, <1>3, <1>4, <1>6, <2>1, <2>2, KeptBlock
<1> QED BY <1>5, <1>6

LEMMA ShiftedTable ==
  ASSUME NEW m \in Members, NEW k \in DOMAIN m.data, NEW total \in Nat
  PROVE  Shifted(m, k, total) \in Seq(Entry)
<1> DEFINE n == Len(m.data)
           moved(i) == IF m.data[i].index > m.data[k].index
                       THEN [m.data[i] EXCEPT !.index = @ - total] ELSE m.data[i]
           all == [i \in DOMAIN m.data |-> moved(i)]
<1>1. /\ n \in Nat /\ DOMAIN m.data = 1 .. n /\ k \in 1 .. n
      /\ \A i \in 1 .. n : m.data[i] \in Entry
  BY LenProperties, ElementOfSeq DEF Members
<1>2. \A i \in 1 .. n : moved(i) \in Entry
  <2> TAKE i \in 1 .. n
  <2>1. m.data[i] \in Entry /\ m.data[i].index - total \in Int
    BY <1>1 DEF Entry
  <2>2. [m.data[i] EXCEPT !.index = @ - total] \in Entry
    BY <2>1 DEF Entry
  <2> QED BY <2>1, <2>2
<1>3. all \in [1 .. n -> Entry]
  BY <1>1, <1>2
<1> HIDE DEF all
<1>4. all \in Seq(Entry) /\ Len(all) = n
  BY <1>1, <1>3, SeqDef
<1>5. \A i \in 1 .. n : all[i] \in Entry
  BY <1>3
<1>6. SubSeq(all, 1, k - 1) \in Seq(Entry) /\ SubSeq(all, k + 1, n) \in Seq(Entry)
  BY <1>1, <1>5, SubSeqProperties
<1>7. Shifted(m, k, total) = SubSeq(all, 1, k - 1) \o SubSeq(all, k + 1, n)
  BY <1>4 DEF Shifted, RemoveAt, all
<1> QED BY <1>6, <1>7

LEMMA DeleteOwner ==
  ASSUME OwnerInv, NEW o \in Objects, NEW name, Delete(o, name)
  PROVE  OwnerInv'
<1> DEFINE m     == obj[o]
           k     == Find(m, name)
           e     == m.data[k]
           total == HeaderBytes(e) + e.size
           used  == AsU64(m.mem_used - total)
           rest  == CloseGap(heap[m.p_data], StartOf(e), total, m.mem_used)
           count == AsU64(m.el_size - 1)
           cells == WriteHeader(rest, used, count)
           table == Shifted(m, k, total)
           d     == [m EXCEPT !.mem_used = used, !.el_size = count, !.data = table]
<1>1. m \in Members /\ m.alive /\ k # 0
  BY BlockOfObject DEF Delete, Writable
<1>2. k \in DOMAIN m.data /\ e \in Entry
  BY <1>1, FoundEntry
<1>3. /\ obj' = [obj EXCEPT ![o].mem_used = used, ![o].el_size = count,
                            ![o].data = table]
      /\ heap' = [heap EXCEPT ![m.p_data] = cells]
  BY Zenon DEF Delete, Becomes
<1> HIDE DEF k, e
<1>4. /\ HeaderBytes(e) \in Nat /\ e.size \in Nat /\ e.index \in Int
      /\ m.mem_used \in Nat /\ m.el_size \in Nat /\ m.p_size \in Nat
  <2>1. HeaderBytes(e) \in Nat
    BY HeaderBytesNat
  <2>2. e.size \in Nat /\ e.index \in Int
    BY <1>2 DEF Entry
  <2>3. m.mem_used \in Nat /\ m.el_size \in Nat /\ m.p_size \in Nat
    BY <1>1 DEF Members
  <2> QED BY <2>1, <2>2, <2>3
<1>5. total \in Nat /\ StartOf(e) \in Int
  BY <1>4 DEF StartOf
<1> HIDE DEF total
<1>6. used \in Nat /\ count \in Nat
  BY <1>4, <1>5, AsU64Fits
<1>7. table \in Seq(Entry)
  BY <1>1, <1>2, <1>5, ShiftedTable
<1> HIDE DEF used, count, table
<1>8. d \in Members
  BY <1>1, <1>6, <1>7 DEF Members
<1>9. d.alive /\ d.p_data = m.p_data /\ d.p_size = m.p_size
  BY <1>1 DEF Members
<1>10. obj' = [obj EXCEPT ![o] = d]
  <2>1. DOMAIN obj = Objects
    BY DEF OwnerInv, Typed
  <2> QED BY <1>3, <2>1
<1> HIDE DEF d
<1>11. CASE m.p_data = 0
  <2>1. heap' = Free(heap, obj[o].p_data)
    BY <1>3, <1>11, NowhereWritten DEF Free, OwnerInv
  <2> QED BY <1>8, <1>9, <1>10, <1>11, <2>1, NoBlock
<1>12. CASE m.p_data # 0
  <2>1. heap[m.p_data] \in Block(m.p_size) /\ m.p_size > 0
    BY <1>12, BlockOfObject
  <2>2. rest \in Block(m.p_size)
    BY <1>4, <1>5, <2>1, CloseGapBlock
  <2> HIDE DEF rest
  <2>3. cells \in Block(m.p_size)
    BY <1>4, <1>6, <2>2, HeaderBlock
  <2> HIDE DEF cells
  <2> QED BY <1>3, <1>8, <1>9, <1>10, <1>12, <2>1, <2>3, KeptBlock
<1> QED BY <1>11, <1>12

-----------------------------------------------------------------------------
(* The invariant. *)

LEMMA OwnerInit == Init => OwnerInv
<1> SUFFICES ASSUME Init PROVE OwnerInv
  OBVIOUS
<1>1. NULL \in Memory
  BY NullBlock, MemoryBlock
<1>2. \A o \in Objects : obj[o] = Hollow /\ obj[o].p_data = 0
  BY HollowMember DEF Init
<1>3. Typed
  BY <1>1, HollowMember DEF Init, Typed
<1>4. Idle /\ OneOwner
  BY <1>2 DEF Init, Idle, OneOwner
<1> QED BY <1>3, <1>4 DEF OwnerInv

LEMMA OwnerStep ==
  ASSUME OwnerInv, [Next]_vars
  PROVE  OwnerInv'
<1>1. CASE UNCHANGED vars
  BY <1>1 DEF vars, OwnerInv, Typed, Idle, OneOwner
<1>2. CASE Next
  <2>1. PICK o \in Objects :
          \/ Construct(o) \/ Destroy(o) \/ Clear(o)
          \/ \E name \in ScalarNames, value \in Values :
               AddScalar(o, name, value) \/ Update(o, name, value)
          \/ \E name \in ScalarNames \cup MessageNames \cup ArrayNames : Delete(o, name)
          \/ \E s \in Objects :
               \/ CopyConstruct(o, s) \/ CopyAssign(o, s)
               \/ MoveConstruct(o, s) \/ MoveAssign(o, s)
               \/ Clone(o, s) \/ Wrap(o, s)
               \/ \E name \in MessageNames :
                    AddMessage(o, name, s) \/ GetMessage(o, name, s)
          \/ \E name \in ArrayNames, vector \in Vectors :
               AddMessageArray(o, name, vector) \/ GetMessageArray(o, name, vector)
    BY <1>2, Zenon DEF Next
  <2>2. CASE Construct(o) \/ Destroy(o) \/ Clear(o)
    BY <2>2, ConstructOwner, DestroyOwner, ClearOwner
  <2>3. ASSUME NEW name \in ScalarNames, NEW value \in Values,
               AddScalar(o, name, value) \/ Update(o, name, value)
        PROVE  OwnerInv'
    BY <2>3, AddScalarOwner, UpdateOwner
  <2>4. ASSUME NEW name, Delete(o, name)
        PROVE  OwnerInv'
    BY <2>4, DeleteOwner
  <2>5. ASSUME NEW s \in Objects,
               \/ CopyConstruct(o, s) \/ CopyAssign(o, s)
               \/ MoveConstruct(o, s) \/ MoveAssign(o, s)
               \/ Clone(o, s) \/ Wrap(o, s)
        PROVE  OwnerInv'
    BY <2>5, CopyOwner, MovesOwner, CloneOwner, WrapOwner
  <2>6. ASSUME NEW s \in Objects, NEW name \in MessageNames,
               AddMessage(o, name, s) \/ GetMessage(o, name, s)
        PROVE  OwnerInv'
    BY <2>6, AddMessageOwner, GetMessageOwner
  <2>7. ASSUME NEW name \in ArrayNames, NEW vector \in Vectors,
               AddMessageArray(o, name, vector) \/ GetMessageArray(o, name, vector)
        PROVE  OwnerInv'
    BY <2>7, AddMessageArrayOwner, GetMessageArrayOwner
  <2> QED BY <2>1, <2>2, <2>3, <2>4, <2>5, <2>6, <2>7, Zenon
<1> QED BY <1>1, <1>2

(* Whatever calls are made on however many messages, every block that is   *)
(* allocated has one owner, which knows its size, and no owner is without  *)
(* its block: nothing is freed twice and nothing is leaked.                *)
THEOREM OneOwnerCorrect == Spec => []OneOwner
<1>1. OwnerInv => OneOwner
  BY DEF OwnerInv
<1> QED BY OwnerInit, OwnerStep, <1>1, PTL DEF Spec

-----------------------------------------------------------------------------
(* What a table has to do with the cells it is over: each element is in    *)
(* front of its value under its own type, name and size, and elements do   *)
(* not overlap.  The cells are those behind offset at of block b.          *)

Described(e, b, at) ==
  /\ e.index \in Nat /\ StartOf(e) >= HEADER_ELEMENTS
  /\ e.type \in KnownTypes /\ (e.basic_type <=> SType[e.type] # 0)
  /\ e.basic_type => e.size = SType[e.type]
  /\ Peek(b, at + StartOf(e)) = e.type
  /\ Peek(b, at + (StartOf(e) + 1)) = e.name
  /\ ~e.basic_type => Peek(b, at + (StartOf(e) + 2)) = e.size

Apart(table) ==
  \A i, j \in DOMAIN table : i < j => EndOf(table[i]) <= StartOf(table[j])

Table(table, b, at) ==
  Apart(table) /\ \A i \in DOMAIN table : Described(table[i], b, at)

(* End to end from the header on, and up to n. *)
Joined(table) ==
  /\ table # << >> => StartOf(table[1]) = HEADER_ELEMENTS
  /\ \A i \in 1 .. Len(table) - 1 : StartOf(table[i + 1]) = EndOf(table[i])

Tiled(table, n) ==
  /\ Joined(table)
  /\ IF table = << >> THEN n = HEADER_ELEMENTS ELSE EndOf(table[Len(table)]) = n

(* The entries of the table. *)
EntryIn(e, b, at) ==
  [name |-> e.name, type |-> e.type,
   value |-> [k \in 1 .. e.size |-> Peek(b, at + (e.index + k - 1))]]

EntriesIn(table, b, at) == [i \in DOMAIN table |-> EntryIn(table[i], b, at)]

(* The offsets of an element that has a header and lies behind that of the message. *)
LEMMA EntryEnds ==
  ASSUME NEW e \in Entry, e.index \in Nat, StartOf(e) >= HEADER_ELEMENTS
  PROVE  /\ StartOf(e) \in Nat /\ StartOf(e) >= 3 /\ EndOf(e) \in Nat
         /\ HeaderBytes(e) \in {2, 3} /\ (e.basic_type => HeaderBytes(e) = 2)
         /\ (~e.basic_type => HeaderBytes(e) = 3)
         /\ e.index = StartOf(e) + HeaderBytes(e)
         /\ e.size \in Nat /\ EndOf(e) = e.index + e.size
<1>1. HeaderBytes(e) \in {2, 3} /\ (e.basic_type => HeaderBytes(e) = 2)
        /\ (~e.basic_type => HeaderBytes(e) = 3)
  BY DEF HeaderBytes
<1>2. e.size \in Nat
  BY DEF Entry
<1> QED BY <1>1, <1>2 DEF StartOf, EndOf

LEMMA TableEnds ==
  ASSUME NEW table \in Seq(Entry), NEW b, NEW at, Table(table, b, at),
         NEW i \in DOMAIN table
  PROVE  LET e == table[i]
         IN /\ e \in Entry /\ Described(e, b, at)
            /\ StartOf(e) \in Nat /\ StartOf(e) >= 3 /\ EndOf(e) \in Nat
            /\ HeaderBytes(e) \in {2, 3} /\ (e.basic_type => HeaderBytes(e) = 2)
            /\ (~e.basic_type => HeaderBytes(e) = 3)
            /\ e.index = StartOf(e) + HeaderBytes(e) /\ e.index \in Nat
            /\ e.size \in Nat /\ EndOf(e) = e.index + e.size
<1>1. table[i] \in Entry
  BY ElementOfSeq, LenProperties
<1>2. Described(table[i], b, at)
  BY DEF Table
<1>3. table[i].index \in Nat /\ StartOf(table[i]) >= HEADER_ELEMENTS
  BY <1>2 DEF Described
<1> QED BY <1>1, <1>2, <1>3, EntryEnds

(* The last element of a table ends where the table ends. *)
LEMMA TableLast ==
  ASSUME NEW table \in Seq(Entry), NEW b, NEW at, Table(table, b, at),
         NEW i \in DOMAIN table
  PROVE  /\ Len(table) \in DOMAIN table
         /\ EndOf(table[i]) <= EndOf(table[Len(table)])
<1>1. Len(table) \in Nat /\ DOMAIN table = 1 .. Len(table)
  BY LenProperties
<1>2. Len(table) \in DOMAIN table /\ (i = Len(table) \/ i < Len(table))
  BY <1>1
<1>3. CASE i < Len(table)
  <2>1. EndOf(table[i]) <= StartOf(table[Len(table)])
    BY <1>2, <1>3 DEF Table, Apart
  <2>2. /\ StartOf(table[Len(table)]) <= EndOf(table[Len(table)])
        /\ StartOf(table[Len(table)]) \in Nat /\ EndOf(table[Len(table)]) \in Nat
    <3>1. PICK last \in DOMAIN table : last = Len(table)
      BY <1>2
    <3>2. LET e == table[last]
          IN /\ StartOf(e) \in Nat /\ EndOf(e) \in Nat /\ HeaderBytes(e) \in {2, 3}
             /\ e.index = StartOf(e) + HeaderBytes(e) /\ e.size \in Nat
             /\ EndOf(e) = e.index + e.size
      BY TableEnds
    <3> QED BY <3>1, <3>2
  <2>3. EndOf(table[i]) \in Nat
    BY TableEnds
  <2> QED BY <1>2, <2>1, <2>2, <2>3
<1>4. CASE i = Len(table)
  <2>1. EndOf(table[i]) \in Nat
    BY TableEnds
  <2> QED BY <1>2, <1>4, <2>1
<1> QED BY <1>2, <1>3, <1>4

LEMMA TiledEnds ==
  ASSUME NEW table \in Seq(Entry), NEW b, NEW at, Table(table, b, at),
         NEW n, Tiled(table, n)
  PROVE  /\ n \in Nat /\ n >= HEADER_ELEMENTS
         /\ \A i \in DOMAIN table : EndOf(table[i]) <= n
         /\ table # << >> => n > HEADER_ELEMENTS
<1>1. CASE table = << >>
  BY <1>1 DEF Tiled
<1>2. CASE table # << >>
  <2>1. 1 \in DOMAIN table
    BY <1>2, LenProperties
  <2>2. Len(table) \in DOMAIN table
    BY <2>1, TableLast
  <2>3. EndOf(table[Len(table)]) \in Nat /\ EndOf(table[Len(table)]) > HEADER_ELEMENTS
    BY <2>2, TableEnds
  <2>4. \A i \in DOMAIN table : EndOf(table[i]) <= EndOf(table[Len(table)])
    BY TableLast
  <2> QED BY <1>2, <2>3, <2>4 DEF Tiled
<1> QED BY <1>1, <1>2

(* How far the elements of a table reach. *)
LEMMA ReachOf ==
  ASSUME NEW m, m.data \in Seq(Entry), NEW b, NEW at, Table(m.data, b, at)
  PROVE  /\ Reach(m) \in Nat /\ Reach(m) >= HEADER_ELEMENTS
         /\ \A i \in DOMAIN m.data : EndOf(m.data[i]) <= Reach(m)
         /\ \/ Reach(m) = HEADER_ELEMENTS
            \/ \E i \in DOMAIN m.data : Reach(m) = EndOf(m.data[i])
<1> DEFINE S == {HEADER_ELEMENTS} \cup {EndOf(m.data[i]) : i \in DOMAIN m.data}
<1>1. \A i \in DOMAIN m.data : EndOf(m.data[i]) \in Nat /\ EndOf(m.data[i]) >= HEADER_ELEMENTS
  <2>1. ASSUME NEW i \in DOMAIN m.data
        PROVE  EndOf(m.data[i]) \in Nat /\ EndOf(m.data[i]) >= HEADER_ELEMENTS
    <3> DEFINE table == m.data
    <3> HIDE DEF table
    <3>1. i \in DOMAIN table /\ table \in Seq(Entry) /\ Table(table, b, at)
      BY DEF table
    <3>2. LET e == table[i] IN StartOf(e) \in Nat /\ StartOf(e) >= 3 /\ EndOf(e) \in Nat
             /\ HeaderBytes(e) \in {2, 3} /\ e.index = StartOf(e) + HeaderBytes(e)
             /\ e.size \in Nat /\ EndOf(e) = e.index + e.size
      BY <3>1, TableEnds
    <3>3. EndOf(table[i]) \in Nat /\ EndOf(table[i]) >= HEADER_ELEMENTS
      BY <3>2
    <3> QED BY <3>3 DEF table
  <2> QED BY <2>1
<1>2. \E x \in S : \A y \in S : x >= y
  <2>1. CASE m.data = << >>
    <3>1. DOMAIN m.data = {}
      BY <2>1
    <3> QED BY <3>1
  <2>2. CASE m.data # << >>
    <3>1. 1 \in DOMAIN m.data
      BY <2>2, LenProperties
    <3>2. /\ Len(m.data) \in DOMAIN m.data
          /\ \A i \in DOMAIN m.data : EndOf(m.data[i]) <= EndOf(m.data[Len(m.data)])
      BY <3>1, TableLast
    <3> DEFINE x == EndOf(m.data[Len(m.data)])
    <3>3. x \in S /\ x >= HEADER_ELEMENTS
      BY <1>1, <3>2
    <3>4. \A y \in S : x >= y
      BY <1>1, <3>2, <3>3
    <3> QED BY <3>3, <3>4
  <2> QED BY <2>1, <2>2
<1>3. Reach(m) = Max(S)
  BY DEF Reach
<1>4. Max(S) \in S /\ \A y \in S : Max(S) >= y
  <2> HIDE DEF S
  <2> QED BY <1>2, Zenon DEF Max
<1>5. S \subseteq Nat /\ HEADER_ELEMENTS \in S
      /\ \A i \in DOMAIN m.data : EndOf(m.data[i]) \in S
  BY <1>1
<1>6. \A x \in S : x = HEADER_ELEMENTS \/ \E i \in DOMAIN m.data : x = EndOf(m.data[i])
  OBVIOUS
<1> HIDE DEF S
<1> QED BY <1>3, <1>4, <1>5, <1>6

(* A table over cells that agree is a table of the same entries. *)
Same(table, c, to, b, at) ==
  /\ Table(table, c, to)
  /\ EntriesIn(table, c, to) = EntriesIn(table, b, at)

(* The offsets of an element's header, at x, and of its value, at y. *)
LEMMA RangeOfCells ==
  ASSUME NEW x \in Nat, NEW h \in {2, 3}, NEW n \in Nat,
         NEW y, y = x + h, NEW z, z = y + n
  PROVE  /\ x \in x .. z - 1 /\ x + 1 \in x .. z - 1
         /\ h = 3 => x + 2 \in x .. z - 1
         /\ \A k \in 1 .. n : y + k - 1 \in x .. z - 1
OBVIOUS

LEMMA SameCells ==
  ASSUME NEW table \in Seq(Entry), NEW b, NEW at \in Nat, Table(table, b, at),
         NEW c, NEW to \in Nat,
         \A i \in DOMAIN table : \A k \in StartOf(table[i]) .. EndOf(table[i]) - 1 :
           Peek(c, to + k) = Peek(b, at + k)
  PROVE  Same(table, c, to, b, at)
<1>1. ASSUME NEW i \in DOMAIN table
      PROVE  /\ Described(table[i], c, to)
             /\ [k \in 1 .. table[i].size |-> Peek(c, to + (table[i].index + k - 1))]
                  = [k \in 1 .. table[i].size |-> Peek(b, at + (table[i].index + k - 1))]
  <2> DEFINE e == table[i]
  <2>1. /\ Described(e, b, at) /\ StartOf(e) \in Nat /\ e.index \in Nat
        /\ e.index = StartOf(e) + HeaderBytes(e) /\ EndOf(e) = e.index + e.size
        /\ HeaderBytes(e) \in {2, 3} /\ e.size \in Nat
        /\ (~e.basic_type => HeaderBytes(e) = 3)
    BY TableEnds
  <2>2. \A k \in StartOf(e) .. EndOf(e) - 1 : Peek(c, to + k) = Peek(b, at + k)
    OBVIOUS
  <2> HIDE DEF e
  <2>3. /\ Peek(c, to + StartOf(e)) = Peek(b, at + StartOf(e))
        /\ Peek(c, to + (StartOf(e) + 1)) = Peek(b, at + (StartOf(e) + 1))
        /\ ~e.basic_type => Peek(c, to + (StartOf(e) + 2)) = Peek(b, at + (StartOf(e) + 2))
    <3>1. /\ StartOf(e) \in StartOf(e) .. EndOf(e) - 1
          /\ StartOf(e) + 1 \in StartOf(e) .. EndOf(e) - 1
          /\ HeaderBytes(e) = 3 => StartOf(e) + 2 \in StartOf(e) .. EndOf(e) - 1
      BY <2>1, RangeOfCells
    <3> QED BY <2>1, <2>2, <3>1
  <2>5. Described(e, c, to)
    BY <2>1, <2>3 DEF Described
  <2>6. ASSUME NEW k \in 1 .. e.size
        PROVE  Peek(c, to + (e.index + k - 1)) = Peek(b, at + (e.index + k - 1))
    <3>1. e.index + k - 1 \in StartOf(e) .. EndOf(e) - 1
      BY <2>1, RangeOfCells
    <3> QED BY <2>2, <3>1
  <2>7. [k \in 1 .. e.size |-> Peek(c, to + (e.index + k - 1))]
          = [k \in 1 .. e.size |-> Peek(b, at + (e.index + k - 1))]
    BY <2>6
  <2> QED BY <2>5, <2>7 DEF e
<1>2. Table(table, c, to)
  BY <1>1 DEF Table
<1>3. EntriesIn(table, c, to) = EntriesIn(table, b, at)
  BY <1>1, Zenon DEF EntriesIn, EntryIn
<1> QED BY <1>2, <1>3 DEF Same

(* What a message says, by the cells its elements lie in. *)
LEMMA ContentsRead ==
  ASSUME NEW m, m.data \in Seq(Entry), NEW ptr, SourceData(m) = ptr,
         ptr.block # 0, ptr.at \in Nat, Table(m.data, heap[ptr.block], ptr.at)
  PROVE  Contents(m) = EntriesIn(m.data, heap[ptr.block], ptr.at)
<1> DEFINE n == Reach(m)
           b == heap[ptr.block]
           cells == CellsAt(ptr, n)
<1>1. n \in Nat /\ \A i \in DOMAIN m.data : EndOf(m.data[i]) <= n
  BY ReachOf
<1> HIDE DEF n
<1>2. \A j \in 0 .. n - 1 : Peek(cells, j) = Peek(b, ptr.at + j)
  BY DEF CellsAt, CellAt, Peek
<1>3. ASSUME NEW i \in DOMAIN m.data
      PROVE  ValueOf(cells, m.data[i]) =
               [k \in 1 .. m.data[i].size |-> Peek(b, ptr.at + (m.data[i].index + k - 1))]
  <2> DEFINE e == m.data[i]
  <2>1. e.index \in Nat /\ e.size \in Nat /\ EndOf(e) = e.index + e.size /\ EndOf(e) <= n
    BY <1>1, TableEnds
  <2> HIDE DEF e, cells, b
  <2>2. ASSUME NEW k \in 1 .. e.size
        PROVE  Peek(cells, e.index + k - 1) = Peek(b, ptr.at + (e.index + k - 1))
    <3>1. e.index + k - 1 \in 0 .. n - 1
      BY <1>1, <2>1
    <3> QED BY <1>2, <3>1
  <2>3. ValueOf(cells, e) = [k \in 1 .. e.size |-> Peek(b, ptr.at + (e.index + k - 1))]
    BY <2>2, Zenon DEF ValueOf
  <2> QED BY <2>3 DEF e
<1>4. Contents(m) = Entries(m.data, cells)
  BY DEF Contents, n
<1> HIDE DEF cells
<1> QED BY <1>3, <1>4, Zenon DEF Entries, EntriesIn, EntryIn

-----------------------------------------------------------------------------
(* What ParseData makes of a buffer is a table of that buffer. *)

(* End to end from offset at on. *)
Chained(table, at) ==
  /\ table # << >> => StartOf(table[1]) = at
  /\ \A i \in 1 .. Len(table) - 1 : StartOf(table[i + 1]) = EndOf(table[i])

(* One turn of the parser finds an element that the buffer describes. *)
LEMMA ElementDescribed ==
  ASSUME NEW N \in Nat, NEW block \in Block(N), NEW at \in Nat, at >= HEADER_ELEMENTS,
         Readable(block, at)
  PROVE  LET e == ElementAt(block, at)
         IN /\ e \in Entry /\ EndOf(e) \in at + 1 .. N
            /\ StartOf(e) = at /\ Described(e, block, 0)
<1> DEFINE d == DType(Peek(block, at), Peek(block, at + 1))
           size == IF d.basic_type THEN d.size
                   ELSE Peek(block, at + 1 + DTYPE_SIZE_NAME)
           e == ElementAt(block, at)
<1>1. e \in Entry /\ EndOf(e) \in at + 1 .. N
  BY ElementEntry
<1>2. e = [d EXCEPT !.size = size, !.index = at + HeaderBytes(d)]
  BY DEF ElementAt
<1>3. Peek(block, at) \in KnownTypes
  BY DEF Readable
<1>4. /\ d = [type |-> Peek(block, at), basic_type |-> SType[Peek(block, at)] # 0,
              size |-> SType[Peek(block, at)], name |-> Peek(block, at + 1), index |-> 0]
  BY DEF DType
<1>5. /\ e.type = Peek(block, at) /\ e.name = Peek(block, at + 1)
      /\ e.basic_type = (SType[Peek(block, at)] # 0)
      /\ e.size = IF SType[Peek(block, at)] # 0 THEN SType[Peek(block, at)]
                  ELSE Peek(block, at + 1 + DTYPE_SIZE_NAME)
      /\ e.index = at + HeaderBytes(d)
  <2>1. size = IF SType[Peek(block, at)] # 0 THEN SType[Peek(block, at)]
               ELSE Peek(block, at + 1 + DTYPE_SIZE_NAME)
    <3>1. (d.basic_type <=> SType[Peek(block, at)] # 0) /\ d.size = SType[Peek(block, at)]
      <4>1. Peek(block, at + 1) \in Nat
        BY CellsOfBlock, PeekCell
      <4>2. d.size = SType[Peek(block, at)]
        BY <1>4
      <4> QED BY <1>3, <4>1, <4>2, DTypeElement
    <3> HIDE DEF d
    <3> QED BY <3>1
  <2> HIDE DEF e, d, size
  <2>2. /\ e.type = d.type /\ e.name = d.name /\ e.basic_type = d.basic_type
        /\ e.size = size /\ e.index = at + HeaderBytes(d)
    BY <1>2, <1>4
  <2> QED BY <1>4, <2>1, <2>2
<1>6. HeaderBytes(d) = HeaderBytes(e) /\ HeaderBytes(e) \in {2, 3}
  <2> HIDE DEF e
  <2>1. d.basic_type = e.basic_type
    BY <1>4, <1>5
  <2> HIDE DEF d
  <2> QED BY <2>1 DEF HeaderBytes
<1> HIDE DEF d, e, size
<1>7. StartOf(e) = at /\ e.index \in Nat
  BY <1>5, <1>6 DEF StartOf
<1>8. 0 + at = at /\ 0 + (at + 1) = at + 1 /\ 0 + (at + 2) = at + 1 + 1
  OBVIOUS
<1>9. Described(e, block, 0)
  BY <1>3, <1>5, <1>7, <1>8 DEF Described
<1> QED BY <1>1, <1>7, <1>9 DEF e

(* table is the element e in front of rest. *)
InFront(table, e, rest) ==
  /\ table \in Seq(Entry) /\ Len(table) = Len(rest) + 1
  /\ DOMAIN table = 1 .. Len(rest) + 1
  /\ table[1] = e /\ table # << >>
  /\ \A i \in DOMAIN rest : table[i + 1] = rest[i]
  /\ \A i \in DOMAIN table : i # 1 => i - 1 \in DOMAIN rest /\ table[i] = rest[i - 1]

LEMMA PutInFront ==
  ASSUME NEW e \in Entry, NEW rest \in Seq(Entry)
  PROVE  InFront(<<e>> \o rest, e, rest)
<1>1. Len(rest) \in Nat /\ DOMAIN rest = 1 .. Len(rest)
  BY LenProperties
<1> QED BY <1>1 DEF InFront

(* All that the parser finds is described by the buffer, and follows one another. *)
LEMMA ParsedWell ==
  ASSUME NEW N \in Nat, N >= HEADER_ELEMENTS, NEW block \in Block(N)
  PROVE  LET r == ParseData(block)
         IN /\ r \in Parsed
            /\ Chained(r.data, HEADER_ELEMENTS)
            /\ \A i \in DOMAIN r.data : Described(r.data[i], block, 0) /\ EndOf(r.data[i]) <= N
            /\ r.ok => IF r.data = << >> THEN N = HEADER_ELEMENTS
                       ELSE EndOf(r.data[Len(r.data)]) = N
<1>1. Cells(block) = N
  BY CellsOfBlock
<1> DEFINE Loop(from) == from = [at \in HEADER_ELEMENTS .. N |-> ParseStep(block, from, at)]
           from == CHOOSE f : Loop(f)
           Good(r, at) ==
             /\ r \in Parsed
             /\ Chained(r.data, at)
             /\ \A i \in DOMAIN r.data : Described(r.data[i], block, 0) /\ EndOf(r.data[i]) <= N
             /\ r.ok => IF r.data = << >> THEN N = at
                        ELSE EndOf(r.data[Len(r.data)]) = N
<1>2. ParseData(block) = from[HEADER_ELEMENTS]
  BY <1>1, ParseDataLoop, Zenon
<1>3. Loop(from)
  BY ParseDataExists, Zenon
<1> HIDE DEF from
<1> DEFINE bad == {n \in 0 .. N - HEADER_ELEMENTS : ~Good(from[N - n], N - n)}
<1>4. ASSUME bad # {}
      PROVE  FALSE
  <2>1. bad \in SUBSET Nat
    <3> HIDE DEF Good
    <3> QED OBVIOUS
  <2> DEFINE n == Min(bad)
             at == N - n
  <2>2. n \in bad /\ \A y \in bad : n =< y
    <3> HIDE DEF bad
    <3> QED BY <1>4, <2>1, SmallestMember
  <2> HIDE DEF n
  <2>3. n \in 0 .. N - HEADER_ELEMENTS /\ ~Good(from[at], at)
    BY <2>2
  <2>4. at \in HEADER_ELEMENTS .. N /\ at \in Nat /\ from[at] = ParseStep(block, from, at)
    BY <1>3, <2>3
  <2>5. << >> \in Seq(Entry)
    OBVIOUS
  <2>6. CASE at = N \/ ~Readable(block, at)
    <3>1. /\ from[at].data = << >> /\ (from[at].ok => at = N)
          /\ from[at] \in Parsed
      <4>1. \/ from[at] = [ok |-> TRUE, data |-> << >>] /\ at = N
            \/ from[at] = [ok |-> FALSE, data |-> << >>]
        BY <1>1, <2>4, <2>6 DEF ParseStep
      <4> DEFINE r == from[at]
      <4> HIDE DEF r
      <4>2. \/ r = [ok |-> TRUE, data |-> << >>] /\ at = N
            \/ r = [ok |-> FALSE, data |-> << >>]
        BY <4>1 DEF r
      <4>3. r \in Parsed /\ r.data = << >>
        <5>1. \A x \in Seq(Entry) :
                [ok |-> TRUE, data |-> x] \in Parsed /\ [ok |-> FALSE, data |-> x] \in Parsed
          BY DEF Parsed
        <5>2. r \in Parsed
          BY <2>5, <4>2, <5>1
        <5>3. r.data = << >>
          BY <4>2
        <5> QED BY <5>2, <5>3
      <4>4. r.ok => at = N
        BY <4>2
      <4> QED BY <4>3, <4>4 DEF r
    <3>2. DOMAIN from[at].data = {} /\ Len(from[at].data) = 0
      BY <3>1
    <3>3. Chained(from[at].data, at)
      BY <3>1, <3>2 DEF Chained
    <3>4. Good(from[at], at)
      BY <3>1, <3>2, <3>3
    <3> QED BY <2>3, <3>4
  <2>7. CASE at # N /\ Readable(block, at)
    <3> DEFINE e == ElementAt(block, at)
               rest == from[EndOf(e)]
               table == <<e>> \o rest.data
    <3>1. /\ e \in Entry /\ EndOf(e) \in at + 1 .. N
          /\ StartOf(e) = at /\ Described(e, block, 0)
      BY <2>4, <2>7, ElementDescribed
    <3>2. from[at] = [rest EXCEPT !.data = <<e>> \o @]
      BY <1>1, <2>4, <2>7 DEF ParseStep
    <3> HIDE DEF e
    <3>3. N - EndOf(e) \in 0 .. N - HEADER_ELEMENTS /\ N - EndOf(e) < n
          /\ N - (N - EndOf(e)) = EndOf(e)
      BY <2>3, <2>4, <3>1
    <3>4. Good(rest, EndOf(e))
      <4> HIDE DEF Good
      <4>1. N - EndOf(e) \notin bad
        <5> HIDE DEF bad
        <5> QED BY <2>1, <2>2, <2>3, <3>3
      <4> QED BY <3>3, <4>1
    <3>5. rest \in Parsed /\ rest.data \in Seq(Entry) /\ rest.ok \in BOOLEAN
      BY <3>4 DEF Parsed
    <3>6. /\ from[at].data = table /\ from[at].ok = rest.ok
          /\ from[at] = [ok |-> rest.ok, data |-> table]
      <4> HIDE DEF rest
      <4> QED BY <3>2, <3>5 DEF Parsed
    <3>7. /\ table \in Seq(Entry) /\ Len(table) = Len(rest.data) + 1
          /\ DOMAIN table = 1 .. Len(rest.data) + 1
          /\ table[1] = e /\ table # << >>
          /\ \A i \in DOMAIN rest.data : table[i + 1] = rest.data[i]
          /\ \A i \in DOMAIN table : i # 1 =>
               i - 1 \in DOMAIN rest.data /\ table[i] = rest.data[i - 1]
      <4> HIDE DEF rest
      <4>1. InFront(table, e, rest.data)
        BY <3>1, <3>5, PutInFront
      <4> HIDE DEF table
      <4> QED BY <4>1 DEF InFront
    <3>8. /\ rest.data # << >> => StartOf(rest.data[1]) = EndOf(e)
          /\ \A i \in 1 .. Len(rest.data) - 1 : StartOf(rest.data[i + 1]) = EndOf(rest.data[i])
          /\ \A i \in DOMAIN rest.data :
               Described(rest.data[i], block, 0) /\ EndOf(rest.data[i]) <= N
          /\ rest.ok => IF rest.data = << >> THEN N = EndOf(e)
                        ELSE EndOf(rest.data[Len(rest.data)]) = N
      BY <3>4 DEF Chained
    <3>9. Len(rest.data) \in Nat /\ DOMAIN rest.data = 1 .. Len(rest.data)
          /\ (rest.data # << >> <=> Len(rest.data) # 0)
      BY <3>5, LenProperties
    <3> HIDE DEF rest, table
    <3>10. Chained(table, at)
      <4>1. ASSUME NEW i \in 1 .. Len(table) - 1
            PROVE  StartOf(table[i + 1]) = EndOf(table[i])
        <5>1. i \in DOMAIN rest.data /\ table[i + 1] = rest.data[i]
          BY <3>7, <3>9
        <5>2. CASE i = 1
          BY <3>7, <3>8, <3>9, <5>1, <5>2
        <5>3. CASE i # 1
          <6>1. i - 1 \in 1 .. Len(rest.data) - 1 /\ table[i] = rest.data[i - 1]
                /\ (i - 1) + 1 = i
            BY <3>7, <3>9, <5>1, <5>3
          <6> QED BY <3>8, <5>1, <6>1
        <5> QED BY <5>2, <5>3
      <4> QED BY <3>1, <3>7, <4>1 DEF Chained
    <3>11. \A i \in DOMAIN table : Described(table[i], block, 0) /\ EndOf(table[i]) <= N
      BY <3>1, <3>7, <3>8
    <3>12. rest.ok => EndOf(table[Len(table)]) = N
      <4>1. CASE rest.data = << >>
        BY <3>7, <3>8, <3>9, <4>1
      <4>2. CASE rest.data # << >>
        <5>1. Len(rest.data) \in DOMAIN rest.data
          BY <3>9, <4>2
        <5>2. table[Len(table)] = rest.data[Len(rest.data)]
          BY <3>7, <5>1
        <5> QED BY <3>8, <4>2, <5>2
      <4> QED BY <4>1, <4>2
    <3>13. from[at] \in Parsed
      BY <3>5, <3>6, <3>7 DEF Parsed
    <3>14. Good(from[at], at)
      BY <3>6, <3>7, <3>10, <3>11, <3>12, <3>13
    <3> QED BY <2>3, <3>14
  <2> QED BY <2>6, <2>7
<1>5. N - HEADER_ELEMENTS \in 0 .. N - HEADER_ELEMENTS
      /\ N - (N - HEADER_ELEMENTS) = HEADER_ELEMENTS
  OBVIOUS
<1>6. Good(from[HEADER_ELEMENTS], HEADER_ELEMENTS)
  <2> HIDE DEF Good
  <2> QED BY <1>4, <1>5
<1> QED BY <1>2, <1>6

(* Elements end to end do not overlap. *)
LEMMA ChainedApart ==
  ASSUME NEW table \in Seq(Entry), NEW b, NEW at, NEW n, Chained(table, n),
         \A i \in DOMAIN table : Described(table[i], b, at)
  PROVE  Table(table, b, at)
<1>1. \A i \in DOMAIN table :
        /\ StartOf(table[i]) \in Nat /\ EndOf(table[i]) \in Nat
        /\ StartOf(table[i]) <= EndOf(table[i])
  <2> TAKE i \in DOMAIN table
  <2>1. table[i] \in Entry
    BY ElementOfSeq, LenProperties
  <2>2. table[i].index \in Nat /\ StartOf(table[i]) >= HEADER_ELEMENTS
    BY DEF Described
  <2> DEFINE e == table[i]
  <2>3. e \in Entry /\ e.index \in Nat /\ StartOf(e) >= HEADER_ELEMENTS
    BY <2>1, <2>2
  <2> HIDE DEF e
  <2>4. StartOf(e) \in Nat /\ EndOf(e) \in Nat /\ StartOf(e) <= EndOf(e)
    BY <2>3, EntryEnds
  <2> QED BY <2>4 DEF e
<1>2. Len(table) \in Nat /\ DOMAIN table = 1 .. Len(table)
  BY LenProperties
<1>3. ASSUME NEW i \in DOMAIN table,
             {j \in DOMAIN table : i < j /\ ~(EndOf(table[i]) <= StartOf(table[j]))} # {}
      PROVE  FALSE
  <2> DEFINE bad == {j \in DOMAIN table : i < j /\ ~(EndOf(table[i]) <= StartOf(table[j]))}
             j == Min(bad)
  <2>1. bad \in SUBSET Nat
    BY <1>2
  <2>2. j \in bad /\ \A y \in bad : j =< y
    <3> HIDE DEF bad
    <3> QED BY <1>3, <2>1, SmallestMember DEF bad
  <2> HIDE DEF j
  <2>3. j \in DOMAIN table /\ i < j /\ ~(EndOf(table[i]) <= StartOf(table[j]))
    BY <2>2
  <2>4. j - 1 \in 1 .. Len(table) - 1 /\ (j - 1) + 1 = j /\ j - 1 \in DOMAIN table
        /\ j \in Nat /\ i \in Nat
    BY <1>2, <2>3
  <2>5. StartOf(table[j]) = EndOf(table[j - 1])
    BY <2>4 DEF Chained
  <2>6. CASE i = j - 1
    BY <1>1, <2>3, <2>5, <2>6
  <2>7. CASE i # j - 1
    <3>1. i < j - 1 /\ j - 1 < j
      BY <2>3, <2>4, <2>7
    <3>2. j - 1 \notin bad
      <4> HIDE DEF bad
      <4> QED BY <2>1, <2>2, <2>4
    <3>3. EndOf(table[i]) <= StartOf(table[j - 1])
      BY <2>4, <3>1, <3>2
    <3> QED BY <1>1, <2>3, <2>4, <2>5, <3>3
  <2> QED BY <2>6, <2>7
<1>4. Apart(table)
  BY <1>3 DEF Apart
<1> QED BY <1>4 DEF Table

(* So it is a table of the buffer, which it fills if the parser came to the end. *)
LEMMA ParsedFine ==
  ASSUME NEW N \in Nat, N >= HEADER_ELEMENTS, NEW block \in Block(N)
  PROVE  LET r == ParseData(block)
         IN /\ r.data \in Seq(Entry)
            /\ Table(r.data, block, 0)
            /\ Joined(r.data)
            /\ \A i \in DOMAIN r.data : EndOf(r.data[i]) <= N
            /\ r.ok => Tiled(r.data, N)
<1> DEFINE r == ParseData(block)
<1>1. /\ r \in Parsed
      /\ Chained(r.data, HEADER_ELEMENTS)
      /\ \A i \in DOMAIN r.data : Described(r.data[i], block, 0) /\ EndOf(r.data[i]) <= N
      /\ r.ok => IF r.data = << >> THEN N = HEADER_ELEMENTS
                 ELSE EndOf(r.data[Len(r.data)]) = N
  BY ParsedWell
<1> HIDE DEF r
<1>2. r.data \in Seq(Entry)
  BY <1>1 DEF Parsed
<1>3. Table(r.data, block, 0)
  BY <1>1, <1>2, ChainedApart
<1>4. Joined(r.data)
  BY <1>1 DEF Chained, Joined
<1>5. r.ok => Tiled(r.data, N)
  BY <1>1, <1>4 DEF Tiled
<1> QED BY <1>1, <1>2, <1>3, <1>4, <1>5 DEF r

(* The cells say what an element is that starts there. *)
LEMMA SameDescribed ==
  ASSUME NEW d \in Entry, NEW e \in Entry, NEW b, NEW at, NEW c, NEW to,
         Described(d, b, at), Described(e, c, to), StartOf(d) = StartOf(e),
         \A k \in StartOf(e) .. EndOf(e) - 1 : Peek(c, to + k) = Peek(b, at + k)
  PROVE  d = e
<1>1. /\ StartOf(e) \in Nat /\ EndOf(e) = e.index + e.size
      /\ e.index = StartOf(e) + HeaderBytes(e) /\ HeaderBytes(e) \in {2, 3}
      /\ (~e.basic_type => HeaderBytes(e) = 3) /\ e.size \in Nat
  BY EntryEnds DEF Described
<1>2. d.index = StartOf(d) + HeaderBytes(d)
  BY EntryEnds DEF Described
<1>3. /\ StartOf(e) \in StartOf(e) .. EndOf(e) - 1
      /\ StartOf(e) + 1 \in StartOf(e) .. EndOf(e) - 1
      /\ ~e.basic_type => StartOf(e) + 2 \in StartOf(e) .. EndOf(e) - 1
  BY <1>1
<1>4. /\ Peek(c, to + StartOf(e)) = Peek(b, at + StartOf(e))
      /\ Peek(c, to + (StartOf(e) + 1)) = Peek(b, at + (StartOf(e) + 1))
      /\ ~e.basic_type => Peek(c, to + (StartOf(e) + 2)) = Peek(b, at + (StartOf(e) + 2))
  BY <1>3
<1>5. d.type = e.type /\ d.name = e.name
  BY <1>4 DEF Described
<1>6. d.basic_type <=> e.basic_type
  BY <1>5 DEF Described
<1>7. d.size = e.size
  BY <1>4, <1>5, <1>6 DEF Described
<1>8. d.index = e.index
  BY <1>1, <1>2, <1>6 DEF HeaderBytes
<1>9. d.basic_type = e.basic_type
  BY <1>6 DEF Entry
<1> QED BY <1>5, <1>7, <1>8, <1>9 DEF Entry

(* What is parsed of the front part of an owner's message are elements of  *)
(* its table.                                                              *)
LEMMA ParsedFront ==
  ASSUME NEW D \in Seq(Entry), NEW b, NEW at, Table(D, b, at),
         NEW M, Tiled(D, M),
         NEW T \in Seq(Entry), NEW c, NEW to, Table(T, c, to), Joined(T),
         NEW N \in Nat, N <= M, \A i \in DOMAIN T : EndOf(T[i]) <= N,
         \A k \in 0 .. N - 1 : Peek(c, to + k) = Peek(b, at + k)
  PROVE  \A i \in DOMAIN T : i \in DOMAIN D /\ T[i] = D[i]
<1> DEFINE bad == {i \in DOMAIN T : ~(i \in DOMAIN D /\ T[i] = D[i])}
<1>1. /\ Len(T) \in Nat /\ DOMAIN T = 1 .. Len(T)
      /\ Len(D) \in Nat /\ DOMAIN D = 1 .. Len(D)
  BY LenProperties
<1>2. M \in Nat
  BY TiledEnds
<1>3. ASSUME bad # {}
      PROVE  FALSE
  <2>1. bad \in SUBSET Nat
    BY <1>1
  <2> DEFINE i == Min(bad)
  <2>2. i \in bad /\ \A y \in bad : i =< y
    <3> HIDE DEF bad
    <3> QED BY <1>3, <2>1, SmallestMember
  <2> HIDE DEF i
  <2>3. i \in DOMAIN T /\ i \in Nat /\ ~(i \in DOMAIN D /\ T[i] = D[i])
    BY <1>1, <2>2
  <2>4. /\ T[i] \in Entry /\ Described(T[i], c, to)
        /\ StartOf(T[i]) \in Nat /\ StartOf(T[i]) < EndOf(T[i]) /\ EndOf(T[i]) \in Nat
        /\ EndOf(T[i]) <= N
    <3>1. LET e == T[i]
          IN /\ e \in Entry /\ Described(e, c, to)
             /\ StartOf(e) \in Nat /\ EndOf(e) \in Nat
             /\ HeaderBytes(e) \in {2, 3} /\ e.index = StartOf(e) + HeaderBytes(e)
             /\ e.size \in Nat /\ EndOf(e) = e.index + e.size
      BY <2>3, TableEnds
    <3> QED BY <2>3, <3>1
  <2>5. CASE i = 1
    <3>1. T # << >> /\ StartOf(T[i]) = HEADER_ELEMENTS
      BY <1>1, <2>3, <2>5 DEF Joined
    <3>2. D # << >>
      BY <1>2, <2>4, <3>1 DEF Tiled
    <3>3. i \in DOMAIN D
      BY <1>1, <2>5, <3>2
    <3>4. StartOf(D[i]) = HEADER_ELEMENTS
      BY <2>5, <3>2 DEF Tiled, Joined
    <3>5. D[i] \in Entry /\ Described(D[i], b, at)
      BY <3>3, TableEnds
    <3>6. \A k \in StartOf(T[i]) .. EndOf(T[i]) - 1 : Peek(c, to + k) = Peek(b, at + k)
      BY <2>4
    <3> QED BY <2>3, <2>4, <3>1, <3>3, <3>4, <3>5, <3>6, SameDescribed
  <2>6. CASE i # 1
    <3> DEFINE j == i - 1
    <3>1. j \in 1 .. Len(T) - 1 /\ j + 1 = i /\ j \in DOMAIN T
      BY <1>1, <2>3, <2>6
    <3>2. j \in DOMAIN D /\ T[j] = D[j]
      <4>1. j \notin bad
        <5> HIDE DEF bad
        <5> QED BY <2>1, <2>2, <2>3
      <4> QED BY <3>1, <4>1
    <3> HIDE DEF j
    <3>3. StartOf(T[i]) = EndOf(D[j])
      BY <3>1, <3>2 DEF Joined
    <3>4. i \in DOMAIN D
      <4>1. j # Len(D)
        <5>1. D # << >>
          BY <1>1, <3>2
        <5>2. EndOf(D[Len(D)]) = M
          BY <5>1 DEF Tiled
        <5> QED BY <1>2, <2>4, <3>3, <5>2
      <4> QED BY <1>1, <3>1, <3>2, <4>1
    <3>5. StartOf(D[i]) = EndOf(D[j])
      <4>1. j \in 1 .. Len(D) - 1
        BY <1>1, <3>1, <3>2, <3>4
      <4> QED BY <3>1, <4>1 DEF Tiled, Joined
    <3>6. D[i] \in Entry /\ Described(D[i], b, at)
      BY <3>4, TableEnds
    <3>7. \A k \in StartOf(T[i]) .. EndOf(T[i]) - 1 : Peek(c, to + k) = Peek(b, at + k)
      BY <2>4
    <3> QED BY <2>3, <2>4, <3>3, <3>4, <3>5, <3>6, <3>7, SameDescribed
  <2> QED BY <2>5, <2>6
<1> QED BY <1>3

-----------------------------------------------------------------------------
(* What the calls that write do to a table. *)

(* The table T with the element e behind it. *)
Longer(T, e, b, at) ==
  LET S == Append(T, e)
  IN /\ S \in Seq(Entry) /\ Table(S, b, at) /\ Tiled(S, EndOf(e))
     /\ EntriesIn(S, b, at) = Append(EntriesIn(T, b, at), EntryIn(e, b, at))
     /\ \A i \in DOMAIN T : i \in DOMAIN S /\ S[i] = T[i]

(* One element more behind the last. *)
LEMMA AppendedTable ==
  ASSUME NEW T \in Seq(Entry), NEW b, NEW at, Table(T, b, at), NEW n, Tiled(T, n),
         NEW e \in Entry, Described(e, b, at), StartOf(e) = n
  PROVE  Longer(T, e, b, at)
<1> DEFINE S == Append(T, e)
<1>1. Len(T) \in Nat /\ DOMAIN T = 1 .. Len(T) /\ (T = << >> <=> Len(T) = 0)
  BY LenProperties
<1>2. /\ S \in Seq(Entry) /\ Len(S) = Len(T) + 1 /\ DOMAIN S = 1 .. Len(T) + 1
      /\ S # << >> /\ S[Len(S)] = e
      /\ \A i \in 1 .. Len(T) : S[i] = T[i]
  BY AppendProperties, LenProperties
<1>3. n \in Nat /\ (\A i \in DOMAIN T : EndOf(T[i]) <= n) /\ n >= HEADER_ELEMENTS
  BY TiledEnds
<1>4. \A i \in DOMAIN T : Described(T[i], b, at)
  BY DEF Table
<1> HIDE DEF S
<1>5. \A i \in DOMAIN S : Described(S[i], b, at)
  BY <1>1, <1>2, <1>4
<1>6. Apart(S)
  <2>1. ASSUME NEW i \in DOMAIN S, NEW j \in DOMAIN S, i < j
        PROVE  EndOf(S[i]) <= StartOf(S[j])
    <3>1. i \in DOMAIN T /\ S[i] = T[i]
      BY <1>1, <1>2, <2>1
    <3>2. CASE j = Len(S)
      BY <1>2, <1>3, <3>1, <3>2
    <3>3. CASE j # Len(S)
      <4>1. j \in DOMAIN T /\ S[j] = T[j]
        BY <1>1, <1>2, <2>1, <3>3
      <4> QED BY <2>1, <3>1, <4>1 DEF Table, Apart
    <3> QED BY <3>2, <3>3
  <2> QED BY <2>1 DEF Apart
<1>7. Joined(S)
  <2>1. StartOf(S[1]) = HEADER_ELEMENTS
    <3>1. CASE T = << >>
      BY <1>1, <1>2, <3>1 DEF Tiled
    <3>2. CASE T # << >>
      <4>1. S[1] = T[1]
        BY <1>1, <1>2, <3>2
      <4> QED BY <3>2, <4>1 DEF Tiled, Joined
    <3> QED BY <3>1, <3>2
  <2>2. ASSUME NEW i \in 1 .. Len(S) - 1
        PROVE  StartOf(S[i + 1]) = EndOf(S[i])
    <3>1. S[i] = T[i] /\ i \in 1 .. Len(T)
      BY <1>1, <1>2
    <3>2. CASE i = Len(T)
      <4>1. T # << >> /\ S[i + 1] = e
        BY <1>1, <1>2, <3>1, <3>2
      <4> QED BY <3>1, <3>2, <4>1 DEF Tiled
    <3>3. CASE i # Len(T)
      <4>1. i \in 1 .. Len(T) - 1 /\ i + 1 \in 1 .. Len(T)
        <5>1. Len(T) \in Nat /\ i \in 1 .. Len(T) /\ i # Len(T)
          BY <1>1, <3>1, <3>3
        <5> DEFINE len == Len(T)
        <5> HIDE DEF len
        <5>2. i \in 1 .. len - 1 /\ i + 1 \in 1 .. len
          BY <5>1 DEF len
        <5> QED BY <5>2 DEF len
      <4>2. S[i + 1] = T[i + 1]
        BY <1>2, <4>1
      <4> QED BY <3>1, <4>1, <4>2 DEF Tiled, Joined
    <3> QED BY <3>2, <3>3
  <2> QED BY <2>1, <2>2 DEF Joined
<1>8. Tiled(S, EndOf(e))
  BY <1>2, <1>7 DEF Tiled
<1>9. EntriesIn(S, b, at) = Append(EntriesIn(T, b, at), EntryIn(e, b, at))
  <2> DEFINE F(x) == EntryIn(x, b, at)
             old == [i \in DOMAIN T |-> F(T[i])]
  <2> HIDE DEF F
  <2>1. old \in Seq({F(T[i]) : i \in 1 .. Len(T)}) /\ Len(old) = Len(T)
    BY <1>1
  <2>2. [i \in DOMAIN S |-> F(S[i])] = Append(old, F(e))
    BY <1>1, <1>2, <2>1
  <2> QED BY <2>2 DEF EntriesIn, F
<1> QED BY <1>1, <1>2, <1>5, <1>6, <1>8, <1>9 DEF Table, S, Longer

(* Other cells in the value of one element. *)
LEMMA UpdatedTable ==
  ASSUME NEW T \in Seq(Entry), NEW b, NEW at \in Nat, Table(T, b, at),
         NEW k \in DOMAIN T, NEW c,
         \A j \in Nat : j \notin T[k].index .. EndOf(T[k]) - 1 =>
                          Peek(c, at + j) = Peek(b, at + j)
  PROVE  /\ Table(T, c, at)
         /\ EntriesIn(T, c, at) = [EntriesIn(T, b, at) EXCEPT ![k] = EntryIn(T[k], c, at)]
<1>1. ASSUME NEW i \in DOMAIN T
      PROVE  Described(T[i], c, at) /\ (i # k => EntryIn(T[i], c, at) = EntryIn(T[i], b, at))
  <2>1. LET e == T[i]
         IN /\ e \in Entry /\ Described(e, b, at)
            /\ StartOf(e) \in Nat /\ StartOf(e) >= 3 /\ EndOf(e) \in Nat
            /\ HeaderBytes(e) \in {2, 3}
            /\ (~e.basic_type => HeaderBytes(e) = 3)
            /\ e.index = StartOf(e) + HeaderBytes(e) /\ e.index \in Nat
            /\ e.size \in Nat /\ EndOf(e) = e.index + e.size
    BY TableEnds
  <2>2. LET e == T[k]
         IN /\ StartOf(e) \in Nat /\ EndOf(e) \in Nat
            /\ HeaderBytes(e) \in {2, 3}
            /\ e.index = StartOf(e) + HeaderBytes(e) /\ e.index \in Nat
            /\ e.size \in Nat /\ EndOf(e) = e.index + e.size
    BY TableEnds
  <2>3. i \in Nat /\ k \in Nat
    BY LenProperties
  <2>4. i # k => EndOf(T[i]) <= StartOf(T[k]) \/ EndOf(T[k]) <= StartOf(T[i])
    BY <2>3 DEF Table, Apart
  <2> DEFINE e == T[i]
             d == T[k]
             lo == d.index
             hi == EndOf(d)
  <2>5. /\ e \in Entry /\ Described(e, b, at)
        /\ StartOf(e) \in Nat /\ StartOf(e) >= 3 /\ EndOf(e) \in Nat
        /\ HeaderBytes(e) \in {2, 3}
        /\ (~e.basic_type => HeaderBytes(e) = 3)
        /\ e.index = StartOf(e) + HeaderBytes(e) /\ e.index \in Nat
        /\ e.size \in Nat /\ EndOf(e) = e.index + e.size
    BY <2>1
  <2>6. /\ lo \in Nat /\ hi \in Nat
        /\ i # k => EndOf(e) <= lo \/ hi <= StartOf(e)
        /\ i = k => e.index = lo
    <3>1. /\ StartOf(d) \in Nat /\ EndOf(d) \in Nat
          /\ HeaderBytes(d) \in {2, 3}
          /\ d.index = StartOf(d) + HeaderBytes(d) /\ d.index \in Nat
      BY <2>2
    <3>2. i # k => EndOf(e) <= StartOf(d) \/ EndOf(d) <= StartOf(e)
      BY <2>4
    <3>3. i = k => e = d
      OBVIOUS
    <3> HIDE DEF e, d
    <3> QED BY <2>5, <3>1, <3>2, <3>3
  <2>7. \A j \in Nat : j \notin lo .. hi - 1 => Peek(c, at + j) = Peek(b, at + j)
    OBVIOUS
  <2> HIDE DEF e, d, lo, hi
  <2>8. /\ StartOf(e) \notin lo .. hi - 1 /\ StartOf(e) + 1 \notin lo .. hi - 1
        /\ ~e.basic_type => StartOf(e) + 2 \notin lo .. hi - 1
    <3> DEFINE s == StartOf(e)
               h == HeaderBytes(e)
               n == e.size
    <3>1. /\ s \in Nat /\ h \in {2, 3} /\ n \in Nat /\ lo \in Nat /\ hi \in Nat
          /\ i = k => s + h = lo
          /\ i # k => s + h + n <= lo \/ hi <= s
          /\ ~e.basic_type => h = 3
      BY <2>5, <2>6
    <3> HIDE DEF s, h, n
    <3>2. s \notin lo .. hi - 1 /\ s + 1 \notin lo .. hi - 1
      BY <3>1
    <3>3. ~e.basic_type => s + 2 \notin lo .. hi - 1
      BY <3>1
    <3> QED BY <3>2, <3>3 DEF s
  <2>9. /\ Peek(c, at + StartOf(e)) = Peek(b, at + StartOf(e))
        /\ Peek(c, at + (StartOf(e) + 1)) = Peek(b, at + (StartOf(e) + 1))
        /\ ~e.basic_type => Peek(c, at + (StartOf(e) + 2)) = Peek(b, at + (StartOf(e) + 2))
    <3>1. StartOf(e) \in Nat /\ StartOf(e) + 1 \in Nat /\ StartOf(e) + 2 \in Nat
      BY <2>5
    <3> HIDE DEF Peek
    <3> QED BY <2>7, <2>8, <3>1
  <2>10. Described(e, c, at)
    BY <2>5, <2>9 DEF Described
  <2>11. ASSUME i # k
         PROVE  EntryIn(e, c, at) = EntryIn(e, b, at)
    <3>1. ASSUME NEW j \in 1 .. e.size
          PROVE  Peek(c, at + (e.index + j - 1)) = Peek(b, at + (e.index + j - 1))
      <4>1. e.index + j - 1 \in Nat /\ e.index + j - 1 \notin lo .. hi - 1
        <5> DEFINE s == StartOf(e)
                   x == e.index
                   n == e.size
        <5>1. /\ s \in Nat /\ x \in Nat /\ n \in Nat /\ lo \in Nat /\ hi \in Nat /\ s < x
              /\ x + n <= lo \/ hi <= s
          BY <2>5, <2>6, <2>11
        <5>2. j \in 1 .. n
          OBVIOUS
        <5> HIDE DEF s, x, n
        <5>3. x + j - 1 \in Nat /\ x + j - 1 \notin lo .. hi - 1
          BY <5>1, <5>2
        <5> QED BY <5>3 DEF x
      <4> QED BY <2>7, <4>1
    <3>2. [j \in 1 .. e.size |-> Peek(c, at + (e.index + j - 1))]
            = [j \in 1 .. e.size |-> Peek(b, at + (e.index + j - 1))]
      BY <3>1
    <3> QED BY <3>2, Zenon DEF EntryIn
  <2> QED BY <2>10, <2>11 DEF e
<1>2. Table(T, c, at)
  BY <1>1 DEF Table
<1>3. EntriesIn(T, c, at) = [EntriesIn(T, b, at) EXCEPT ![k] = EntryIn(T[k], c, at)]
  <2> DEFINE F(x) == EntryIn(x, b, at)
             G(x) == EntryIn(x, c, at)
  <2>1. \A i \in DOMAIN T : i # k => G(T[i]) = F(T[i])
    BY <1>1
  <2> HIDE DEF F, G
  <2>2. [i \in DOMAIN T |-> G(T[i])] = [[i \in DOMAIN T |-> F(T[i])] EXCEPT ![k] = G(T[k])]
    BY <2>1
  <2> QED BY <2>2 DEF EntriesIn, F, G
<1> QED BY <1>2, <1>3

(* r is the sequence s of members of S without its k-th. *)
Removed(r, S, s, k) ==
  /\ r \in Seq(S)
  /\ Len(r) = Len(s) - 1
  /\ DOMAIN r = 1 .. Len(s) - 1
  /\ \A i \in 1 .. Len(s) - 1 : r[i] = IF i < k THEN s[i] ELSE s[i + 1]

LEMMA RemovedAt ==
  ASSUME NEW S, NEW s \in Seq(S), NEW k \in DOMAIN s
  PROVE  Removed(RemoveAt(s, k), S, s, k)
<1>1. Len(s) \in Nat /\ k \in 1 .. Len(s)
  BY LenProperties
<1> DEFINE n == Len(s)
           front == SubSeq(s, 1, k - 1)
           back == SubSeq(s, k + 1, n)
<1>2. \A i \in 1 .. n : s[i] \in S
  BY ElementOfSeq
<1>3. /\ front \in Seq(S) /\ Len(front) = k - 1
      /\ \A i \in 1 .. k - 1 : front[i] = s[i]
  BY <1>1, <1>2, SubSeqProperties
<1>4. /\ back \in Seq(S) /\ Len(back) = n - k
      /\ \A i \in 1 .. n - k : back[i] = s[k + i]
  <2>1. \A i \in k + 1 .. n : s[i] \in S
    BY <1>1, <1>2
  <2>2. back \in Seq(S)
    BY <1>1, <2>1, SubSeqProperties
  <2>3. Len(back) = n - k
    BY <1>1, <2>1, SubSeqProperties
  <2>4. \A i \in 1 .. n - k : back[i] = s[k + i]
    BY <1>1
  <2> QED BY <2>2, <2>3, <2>4
<1> HIDE DEF front, back
<1>5. RemoveAt(s, k) = front \o back
  BY DEF RemoveAt, front, back
<1>6. front \o back \in Seq(S) /\ Len(front \o back) = n - 1
  BY <1>1, <1>3, <1>4
<1>7. ASSUME NEW i \in 1 .. n - 1
      PROVE  (front \o back)[i] = IF i < k THEN s[i] ELSE s[i + 1]
  <2>1. CASE i < k
    BY <1>1, <1>3, <1>4, <2>1
  <2>2. CASE ~(i < k)
    <3>1. i - (k - 1) \in 1 .. n - k /\ k + (i - (k - 1)) = i + 1
      BY <1>1, <2>2
    <3>2. (front \o back)[i] = back[i - (k - 1)]
      <4> DEFINE p == Len(front)
                 q == Len(back)
      <4>1. p = k - 1 /\ q = n - k /\ p \in Nat /\ q \in Nat
        BY <1>1, <1>3, <1>4
      <4>2. i \in 1 .. p + q /\ ~(i <= p)
        BY <1>1, <2>2, <4>1
      <4>3. (front \o back)[i] = IF i <= p THEN front[i] ELSE back[i - p]
        <5>1. i \in 1 .. Len(front) + Len(back)
          BY <4>2
        <5> QED BY <1>3, <1>4, <5>1, ConcatProperties, Zenon
      <4> QED BY <4>1, <4>2, <4>3
    <3> QED BY <1>4, <2>2, <3>1, <3>2
  <2> QED BY <2>1, <2>2
<1>8. DOMAIN (front \o back) = 1 .. n - 1
  BY <1>6, LenProperties
<1> QED BY <1>5, <1>6, <1>7, <1>8 DEF Removed

(* An element that has been moved to the front by some cells, with its     *)
(* cells.                                                                  *)
MovedTo(d, c, e, b, at, total) ==
  /\ d \in Entry /\ Described(d, c, at)
  /\ StartOf(d) = StartOf(e) - total /\ EndOf(d) = EndOf(e) - total
  /\ EntryIn(d, c, at) = EntryIn(e, b, at)

LEMMA MovedEntry ==
  ASSUME NEW e \in Entry, NEW b, NEW at \in Nat, Described(e, b, at),
         NEW total \in Nat, StartOf(e) - total >= HEADER_ELEMENTS, NEW c,
         \A j \in StartOf(e) .. EndOf(e) - 1 :
           Peek(c, at + (j - total)) = Peek(b, at + j),
         NEW d, d = [e EXCEPT !.index = @ - total]
  PROVE  MovedTo(d, c, e, b, at, total)
<1>1. /\ StartOf(e) \in Nat /\ EndOf(e) = e.index + e.size
      /\ e.index = StartOf(e) + HeaderBytes(e) /\ HeaderBytes(e) \in {2, 3}
      /\ (~e.basic_type => HeaderBytes(e) = 3) /\ e.size \in Nat /\ e.index \in Nat
  BY EntryEnds DEF Described
<1>2. e.index - total \in Int
  BY <1>1
<1>3. /\ d \in Entry /\ d.index = e.index - total
      /\ d.type = e.type /\ d.name = e.name /\ d.size = e.size
      /\ d.basic_type = e.basic_type
  BY <1>2 DEF Entry
<1>4. HeaderBytes(d) = HeaderBytes(e)
  BY <1>3 DEF HeaderBytes
<1>5. StartOf(d) = StartOf(e) - total /\ EndOf(d) = EndOf(e) - total /\ d.index \in Nat
      /\ StartOf(d) >= HEADER_ELEMENTS
  BY <1>1, <1>3, <1>4 DEF StartOf, EndOf
<1>6. /\ StartOf(e) \in StartOf(e) .. EndOf(e) - 1
      /\ StartOf(e) + 1 \in StartOf(e) .. EndOf(e) - 1
      /\ ~e.basic_type => StartOf(e) + 2 \in StartOf(e) .. EndOf(e) - 1
  BY <1>1
<1>7. /\ StartOf(e) + 1 - total = StartOf(d) + 1
      /\ StartOf(e) + 2 - total = StartOf(d) + 2
  BY <1>1, <1>5
<1>8. /\ Peek(c, at + StartOf(d)) = Peek(b, at + StartOf(e))
      /\ Peek(c, at + (StartOf(d) + 1)) = Peek(b, at + (StartOf(e) + 1))
      /\ ~e.basic_type => Peek(c, at + (StartOf(d) + 2)) = Peek(b, at + (StartOf(e) + 2))
  BY <1>5, <1>6, <1>7
<1>9. Described(d, c, at)
  BY <1>3, <1>5, <1>8 DEF Described
<1>10. ASSUME NEW i \in 1 .. e.size
       PROVE  Peek(c, at + (d.index + i - 1)) = Peek(b, at + (e.index + i - 1))
  <2>1. e.index + i - 1 \in StartOf(e) .. EndOf(e) - 1
    BY <1>1
  <2>2. (e.index + i - 1) - total = d.index + i - 1
    BY <1>1, <1>3
  <2> QED BY <2>1, <2>2
<1>11. [i \in 1 .. d.size |-> Peek(c, at + (d.index + i - 1))]
         = [i \in 1 .. e.size |-> Peek(b, at + (e.index + i - 1))]
  BY <1>3, <1>10
<1>12. EntryIn(d, c, at) = EntryIn(e, b, at)
  BY <1>3, <1>11, Zenon DEF EntryIn
<1> QED BY <1>3, <1>5, <1>9, <1>12 DEF MovedTo

(* The table S over the cells c has the entries that T has over b, but k. *)
Deleted(S, c, T, b, k, used, at) ==
  /\ Table(S, c, at) /\ Tiled(S, used)
  /\ EntriesIn(S, c, at) = RemoveAt(EntriesIn(T, b, at), k)

(* One element less, those behind it moved to the front with their cells. *)
LEMMA DeletedTable ==
  ASSUME NEW T \in Seq(Entry), NEW b, NEW at \in Nat, Table(T, b, at),
         NEW n, Tiled(T, n), NEW k \in DOMAIN T,
         NEW total, total = EndOf(T[k]) - StartOf(T[k]),
         NEW S \in Seq(Entry), Len(S) = Len(T) - 1,
         \A i \in 1 .. Len(T) - 1 :
           S[i] = IF i < k THEN T[i] ELSE [T[i + 1] EXCEPT !.index = @ - total],
         NEW c,
         \A j \in Nat : j >= HEADER_ELEMENTS /\ j < StartOf(T[k]) =>
                          Peek(c, at + j) = Peek(b, at + j),
         \A j \in Nat : j >= EndOf(T[k]) /\ j < n =>
                          Peek(c, at + (j - total)) = Peek(b, at + j)
  PROVE  Deleted(S, c, T, b, k, n - total, at)
<1>1. /\ Len(T) \in Nat /\ DOMAIN T = 1 .. Len(T) /\ k \in 1 .. Len(T) /\ k \in Nat
      /\ DOMAIN S = 1 .. Len(T) - 1 /\ (T = << >> <=> Len(T) = 0)
      /\ (S = << >> <=> Len(T) = 1)
  BY LenProperties
<1>2. n \in Nat /\ (\A i \in DOMAIN T : EndOf(T[i]) <= n)
  BY TiledEnds
<1>3. \A i \in DOMAIN T :
        /\ T[i] \in Entry /\ Described(T[i], b, at)
        /\ StartOf(T[i]) \in Nat /\ StartOf(T[i]) >= 3 /\ EndOf(T[i]) \in Nat
        /\ StartOf(T[i]) + 2 <= EndOf(T[i])
  <2> TAKE i \in DOMAIN T
  <2>1. LET e == T[i]
        IN /\ e \in Entry /\ Described(e, b, at)
           /\ StartOf(e) \in Nat /\ StartOf(e) >= 3 /\ EndOf(e) \in Nat
           /\ HeaderBytes(e) \in {2, 3} /\ e.index = StartOf(e) + HeaderBytes(e)
           /\ e.size \in Nat /\ EndOf(e) = e.index + e.size
    BY TableEnds
  <2> QED BY <2>1
<1>4. \A i, j \in DOMAIN T : i < j => EndOf(T[i]) <= StartOf(T[j])
  BY DEF Table, Apart
<1>5. total \in Nat /\ StartOf(T[k]) + total = EndOf(T[k]) /\ total >= 2
  BY <1>3
<1>6. ASSUME NEW i \in DOMAIN S, i < k
      PROVE  /\ S[i] = T[i] /\ i \in DOMAIN T /\ Described(S[i], c, at)
             /\ EntryIn(S[i], c, at) = EntryIn(T[i], b, at)
             /\ StartOf(S[i]) = StartOf(T[i]) /\ EndOf(S[i]) = EndOf(T[i])
  <2>1. S[i] = T[i] /\ i \in DOMAIN T
    BY <1>1, <1>6
  <2> DEFINE e == T[i]
             zero == 0
  <2>2. e \in Entry /\ Described(e, b, at) /\ StartOf(e) \in Nat /\ StartOf(e) >= 3
        /\ EndOf(e) \in Nat /\ EndOf(e) <= StartOf(T[k])
    BY <1>1, <1>3, <1>4, <1>6, <2>1
  <2>3. \A j \in StartOf(e) .. EndOf(e) - 1 : Peek(c, at + (j - 0)) = Peek(b, at + j)
    <3> TAKE j \in StartOf(e) .. EndOf(e) - 1
    <3> HIDE DEF e
    <3>1. j \in Nat /\ j >= HEADER_ELEMENTS /\ j < StartOf(T[k]) /\ j - 0 = j
      BY <1>3, <2>2
    <3> QED BY <3>1
  <2>4. [e EXCEPT !.index = @ - 0] = e
    <3> HIDE DEF e
    <3>1. e.index - 0 = e.index
      BY <2>2 DEF Entry
    <3> QED BY <2>2, <3>1 DEF Entry
  <2> HIDE DEF e
  <2>5. 0 \in Nat /\ StartOf(e) - 0 >= HEADER_ELEMENTS
    <3> DEFINE x == StartOf(e)
    <3>1. x \in Nat /\ x >= 3
      BY <2>2
    <3> HIDE DEF x
    <3>2. x - 0 >= 3
      BY <3>1
    <3> QED BY <3>2 DEF x
  <2>7. MovedTo(e, c, e, b, at, 0)
    BY <2>2, <2>3, <2>4, <2>5, MovedEntry
  <2> QED BY <2>1, <2>7 DEF e, MovedTo
<1>7. ASSUME NEW i \in DOMAIN S, ~(i < k)
      PROVE  /\ i + 1 \in DOMAIN T /\ S[i] = [T[i + 1] EXCEPT !.index = @ - total]
             /\ Described(S[i], c, at)
             /\ EntryIn(S[i], c, at) = EntryIn(T[i + 1], b, at)
             /\ StartOf(S[i]) = StartOf(T[i + 1]) - total
             /\ EndOf(S[i]) = EndOf(T[i + 1]) - total
  <2>1. S[i] = [T[i + 1] EXCEPT !.index = @ - total] /\ i + 1 \in DOMAIN T
    BY <1>1, <1>7
  <2> DEFINE e == T[i + 1]
  <2>2. e \in Entry /\ Described(e, b, at) /\ StartOf(e) \in Nat /\ EndOf(e) \in Nat
        /\ EndOf(T[k]) <= StartOf(e) /\ EndOf(e) <= n
    <3>1. k \in Nat /\ i \in Nat
      BY <1>1
    <3>2. k < i + 1
      BY <1>7, <3>1
    <3>3. e \in Entry /\ Described(e, b, at) /\ StartOf(e) \in Nat /\ EndOf(e) \in Nat
      BY <1>3, <2>1
    <3>4. EndOf(T[k]) <= StartOf(e)
      BY <1>4, <2>1, <3>2
    <3>5. EndOf(e) <= n
      BY <1>2, <2>1
    <3> QED BY <3>3, <3>4, <3>5
  <2> HIDE DEF e
  <2>3. StartOf(e) - total >= HEADER_ELEMENTS
    <3>1. /\ StartOf(T[k]) \in Nat /\ StartOf(T[k]) >= 3
          /\ StartOf(T[k]) + total = EndOf(T[k]) /\ total \in Nat
      BY <1>3, <1>5
    <3>2. StartOf(e) \in Nat /\ EndOf(T[k]) <= StartOf(e)
      BY <2>2
    <3> QED BY <3>1, <3>2
  <2>4. \A j \in StartOf(e) .. EndOf(e) - 1 : Peek(c, at + (j - total)) = Peek(b, at + j)
    <3> TAKE j \in StartOf(e) .. EndOf(e) - 1
    <3> DEFINE x == StartOf(e)
               y == EndOf(e)
               z == EndOf(T[k])
    <3>1. x \in Nat /\ y \in Nat /\ z \in Nat /\ z <= x /\ y <= n /\ n \in Nat
      BY <1>2, <1>3, <2>2
    <3>2. j \in x .. y - 1
      OBVIOUS
    <3> HIDE DEF x, y, z
    <3>3. j \in Nat /\ j >= z /\ j < n
      BY <3>1, <3>2
    <3> QED BY <3>3 DEF z
  <2> DEFINE d == S[i]
  <2>5. d = [e EXCEPT !.index = @ - total]
    BY <2>1 DEF e
  <2> HIDE DEF d
  <2>6. MovedTo(d, c, e, b, at, total)
    BY <1>5, <2>2, <2>3, <2>4, <2>5, MovedEntry
  <2> QED BY <2>1, <2>6 DEF e, d, MovedTo
<1>8. Apart(S)
  <2>1. ASSUME NEW i \in DOMAIN S, NEW j \in DOMAIN S, i < j
        PROVE  EndOf(S[i]) <= StartOf(S[j])
    <3>1. i \in Nat /\ j \in Nat
      BY <1>1
    <3>2. CASE j < k
      <4>1. i < k
        BY <1>1, <2>1, <3>1, <3>2
      <4> QED BY <1>4, <1>6, <2>1, <3>2, <4>1
    <3>3. CASE i < k /\ ~(j < k)
      <4>1. k < j + 1 /\ j + 1 \in DOMAIN T
        BY <1>1, <1>7, <3>1, <3>3
      <4>2. EndOf(T[k]) <= StartOf(T[j + 1]) /\ EndOf(T[i]) <= StartOf(T[k])
        BY <1>4, <1>6, <3>3, <4>1
      <4>3. EndOf(S[i]) = EndOf(T[i]) /\ StartOf(S[j]) = StartOf(T[j + 1]) - total
        BY <1>6, <1>7, <3>3
      <4>4. EndOf(T[i]) \in Nat /\ StartOf(T[k]) \in Nat /\ StartOf(T[j + 1]) \in Nat
        BY <1>1, <1>3, <1>6, <3>3, <4>1
      <4> QED BY <1>5, <4>2, <4>3, <4>4
    <3>4. CASE ~(i < k)
      <4>1. ~(j < k)
        BY <1>1, <2>1, <3>1, <3>4
      <4>2. i + 1 \in DOMAIN T /\ j + 1 \in DOMAIN T /\ i + 1 < j + 1
        BY <1>7, <2>1, <3>1, <3>4, <4>1
      <4>3. EndOf(T[i + 1]) <= StartOf(T[j + 1])
        BY <1>4, <4>2
      <4>4. EndOf(S[i]) = EndOf(T[i + 1]) - total /\ StartOf(S[j]) = StartOf(T[j + 1]) - total
        BY <1>7, <3>4, <4>1
      <4>5. EndOf(T[i + 1]) \in Nat /\ StartOf(T[j + 1]) \in Nat
        BY <1>3, <4>2
      <4> QED BY <1>5, <4>3, <4>4, <4>5
    <3> QED BY <3>2, <3>3, <3>4
  <2> QED BY <2>1 DEF Apart
<1>9. Table(S, c, at)
  BY <1>6, <1>7, <1>8 DEF Table
<1>10. /\ T # << >> /\ StartOf(T[1]) = HEADER_ELEMENTS /\ EndOf(T[Len(T)]) = n
       /\ \A i \in 1 .. Len(T) - 1 : StartOf(T[i + 1]) = EndOf(T[i])
  <2>1. T # << >>
    BY <1>1
  <2> QED BY <2>1 DEF Tiled, Joined
<1>11. ASSUME S # << >>
       PROVE  StartOf(S[1]) = HEADER_ELEMENTS
  <2>1. 1 \in DOMAIN S /\ 1 \in 1 .. Len(T) - 1
    BY <1>1, <1>11
  <2>2. CASE 1 < k
    BY <1>6, <1>10, <2>1, <2>2
  <2>3. CASE ~(1 < k)
    <3>1. k = 1
      BY <1>1, <2>3
    <3>2. StartOf(S[1]) = StartOf(T[1 + 1]) - total /\ StartOf(T[1 + 1]) = EndOf(T[1])
      BY <1>7, <1>10, <2>1, <2>3
    <3> QED BY <1>1, <1>3, <1>5, <1>10, <3>1, <3>2
  <2> QED BY <2>2, <2>3
<1>12. ASSUME NEW i \in 1 .. Len(S) - 1
       PROVE  StartOf(S[i + 1]) = EndOf(S[i])
  <2>1. i \in DOMAIN S /\ i + 1 \in DOMAIN S /\ i \in Nat
        /\ i \in 1 .. Len(T) - 1 /\ i + 1 \in 1 .. Len(T) - 1
    BY <1>1
  <2>2. CASE i + 1 < k
    <3>1. i < k
      BY <1>1, <2>1, <2>2
    <3> QED BY <1>6, <1>10, <2>1, <2>2, <3>1
  <2>3. CASE i < k /\ ~(i + 1 < k)
    <3>1. k = i + 1
      BY <1>1, <2>1, <2>3
    <3>2. StartOf(S[i + 1]) = StartOf(T[(i + 1) + 1]) - total
          /\ StartOf(T[(i + 1) + 1]) = EndOf(T[i + 1]) /\ StartOf(T[i + 1]) = EndOf(T[i])
      BY <1>7, <1>10, <2>1, <2>3
    <3> QED BY <1>1, <1>3, <1>5, <1>6, <2>1, <2>3, <3>1, <3>2
  <2>4. CASE ~(i < k)
    <3>1. ~(i + 1 < k)
      BY <1>1, <2>1, <2>4
    <3>2. StartOf(S[i + 1]) = StartOf(T[(i + 1) + 1]) - total
          /\ EndOf(S[i]) = EndOf(T[i + 1]) - total
          /\ StartOf(T[(i + 1) + 1]) = EndOf(T[i + 1])
      BY <1>7, <1>10, <2>1, <2>4, <3>1
    <3> QED BY <3>2
  <2> QED BY <2>2, <2>3, <2>4
<1>13. Tiled(S, n - total)
  <2>1. Joined(S)
    BY <1>11, <1>12 DEF Joined
  <2>2. CASE S = << >>
    <3>1. k = 1 /\ Len(T) = 1
      BY <1>1, <2>2
    <3>2. n - total = HEADER_ELEMENTS
      BY <1>1, <1>3, <1>5, <1>10, <3>1
    <3> QED BY <2>1, <2>2, <3>2 DEF Tiled
  <2>3. CASE S # << >>
    <3> DEFINE last == Len(T) - 1
    <3>1. last \in DOMAIN S /\ Len(S) = last /\ last + 1 = Len(T) /\ last \in Nat
      BY <1>1, <2>3
    <3> HIDE DEF last
    <3>2. CASE last < k
      <4>1. k = Len(T)
        BY <1>1, <3>1, <3>2
      <4>2. EndOf(S[last]) = EndOf(T[last]) /\ StartOf(T[last + 1]) = EndOf(T[last])
        <5>1. last \in 1 .. Len(T) - 1
          BY <1>1, <3>1
        <5> QED BY <1>6, <1>10, <3>1, <3>2, <5>1
      <4>3. EndOf(S[last]) = n - total
        BY <1>1, <1>3, <1>5, <1>10, <3>1, <4>1, <4>2
      <4> QED BY <2>1, <2>3, <3>1, <4>3 DEF Tiled
    <3>3. CASE ~(last < k)
      <4>1. EndOf(S[last]) = n - total
        BY <1>7, <1>10, <3>1, <3>3
      <4> QED BY <2>1, <2>3, <3>1, <4>1 DEF Tiled
    <3> QED BY <3>2, <3>3
  <2> QED BY <2>2, <2>3
<1>14. EntriesIn(S, c, at) = RemoveAt(EntriesIn(T, b, at), k)
  <2> DEFINE F(x) == EntryIn(x, b, at)
             G(x) == EntryIn(x, c, at)
             old == [i \in DOMAIN T |-> F(T[i])]
             R == RemoveAt(old, k)
  <2>1. /\ \A i \in DOMAIN S : i < k => G(S[i]) = F(T[i])
        /\ \A i \in DOMAIN S : ~(i < k) => G(S[i]) = F(T[i + 1])
    BY <1>6, <1>7
  <2> HIDE DEF F, G
  <2>2. old \in Seq({F(T[i]) : i \in 1 .. Len(T)}) /\ Len(old) = Len(T) /\ k \in DOMAIN old
    BY <1>1
  <2>3. \A i \in DOMAIN T : old[i] = F(T[i])
    OBVIOUS
  <2> HIDE DEF old
  <2>4. /\ R \in Seq({F(T[i]) : i \in 1 .. Len(T)})
        /\ DOMAIN R = 1 .. Len(T) - 1
        /\ \A i \in 1 .. Len(T) - 1 : R[i] = IF i < k THEN old[i] ELSE old[i + 1]
    <3> DEFINE V == {F(T[i]) : i \in 1 .. Len(T)}
               x == Len(T) - 1
    <3>1. old \in Seq(V) /\ k \in DOMAIN old /\ Len(old) - 1 = x
      BY <2>2
    <3> HIDE DEF V, x
    <3>2. Removed(R, V, old, k)
      BY <3>1, RemovedAt
    <3> HIDE DEF R
    <3> QED BY <3>1, <3>2 DEF V, x, Removed
  <2> HIDE DEF R
  <2>5. R = [i \in 1 .. Len(T) - 1 |-> R[i]]
    BY <2>4
  <2>6. \A i \in 1 .. Len(T) - 1 : R[i] = G(S[i])
    <3> TAKE i \in 1 .. Len(T) - 1
    <3>1. i \in DOMAIN T /\ i + 1 \in DOMAIN T /\ i \in DOMAIN S
      BY <1>1
    <3> QED BY <2>1, <2>3, <2>4, <3>1
  <2>7. [i \in DOMAIN S |-> G(S[i])] = R
    BY <1>1, <2>5, <2>6
  <2> QED BY <2>7 DEF EntriesIn, F, G, R, old
<1> QED BY <1>9, <1>13, <1>14 DEF Deleted

-----------------------------------------------------------------------------
(* The inductive invariant for Faithful. *)

(* Of an owner: its table fills the message, which is no longer than the   *)
(* block; what the header says does not lead beyond the message, or the    *)
(* message fills the block.                                                *)
OwnerFine(m, b) ==
  /\ Tiled(m.data, m.mem_used)
  /\ m.mem_used <= m.p_size
  /\ m.mem_used = HEADER_ELEMENTS \/ m.mem_used <= MaxCells
  /\ m.mem_used = m.p_size \/ Peek(b, SIZE) <= m.mem_used

Fine(m, b, at) ==
  /\ at \in Nat
  /\ Table(m.data, b, at)
  /\ ~m.readOnly => OwnerFine(m, b)
  /\ m.readOnly /\ m.validData /\ m.p_data = 0 => Tiled(m.data, m.mem_used)

(* A message that reads the block of an owner with table D is over the     *)
(* front part of the owner's message, or within an element of it.          *)
Within(table, at, b, D) ==
  \/ at = 0 /\ \A i \in DOMAIN table : \E j \in DOMAIN D : table[i] = D[j]
  \/ \E j \in DOMAIN D :
       /\ D[j].index <= at
       /\ Peek(b, at + SIZE) >= HEADER_ELEMENTS
       /\ at + Peek(b, at + SIZE) <= EndOf(D[j])
       /\ \A i \in DOMAIN table : EndOf(table[i]) <= Peek(b, at + SIZE)

Keeps(o) ==
  said[o].ok =>
    LET ptr == SourceData(obj[o])
    IN /\ ptr.block # 0
       /\ Fine(obj[o], heap[ptr.block], ptr.at)
       /\ said[o].entries = EntriesIn(obj[o].data, heap[ptr.block], ptr.at)

View(v, w) ==
  said[v].ok /\ obj[v].readOnly /\ said[w].ok /\ ~obj[w].readOnly
    /\ obj[v].p_ex_data.block = obj[w].p_data =>
       Within(obj[v].data, obj[v].p_ex_data.at, heap[obj[w].p_data], obj[w].data)

Promise(p) == p = [ok |-> p.ok, entries |-> p.entries]

Recorded == DOMAIN said = Objects /\ \A o \in Objects : Promise(said[o])

FaithInv ==
  /\ Recorded
  /\ \A o \in Objects : Keeps(o)
  /\ \A v, w \in Objects : View(v, w)

(* v is after a step what u was before it, or the copy of the received     *)
(* message u, and reads the same cells.                                    *)
Came(v, u) ==
  /\ said[u].ok /\ said'[v] = said[u]
  /\ obj'[v].readOnly = obj[u].readOnly
  /\ \/ obj'[v] = obj[u]
     \/ /\ obj[u].readOnly /\ obj'[v].p_data # 0
        /\ obj'[v].data = obj[u].data /\ obj'[v].p_ex_data = obj[u].p_ex_data
  /\ LET b == SourceData(obj[u]).block IN heap'[b] = heap[b]

(* What is said of an object is kept by one that comes of it. *)
LEMMA CameKeeps ==
  ASSUME NEW v \in Objects, NEW u \in Objects, Came(v, u), Keeps(u)
  PROVE  Keeps(v)'
<1>1. SourceData(obj'[v]) = SourceData(obj[u])
  BY DEF Came, SourceData
<1> DEFINE ptr == SourceData(obj[u])
<1>2. /\ ptr.block # 0
      /\ Fine(obj[u], heap[ptr.block], ptr.at)
      /\ said[u].entries = EntriesIn(obj[u].data, heap[ptr.block], ptr.at)
  BY DEF Came, Keeps
<1>3. heap'[ptr.block] = heap[ptr.block] /\ said'[v] = said[u] /\ obj'[v].data = obj[u].data
  BY DEF Came
<1> HIDE DEF ptr
<1>4. Fine(obj'[v], heap'[ptr.block], ptr.at)
  <2>1. CASE obj'[v] = obj[u]
    BY <1>2, <1>3, <2>1
  <2>2. CASE obj'[v].readOnly /\ obj'[v].p_data # 0
    BY <1>2, <1>3, <2>2 DEF Fine
  <2> QED BY <2>1, <2>2 DEF Came
<1> QED BY <1>1, <1>2, <1>3, <1>4 DEF Keeps, ptr

(* What two objects are to one another is kept by those that come of them. *)
LEMMA CameView ==
  ASSUME NEW v \in Objects, NEW u \in Objects, Came(v, u),
         NEW w \in Objects, NEW x \in Objects, Came(w, x), View(u, x)
  PROVE  View(v, w)'
<1> SUFFICES ASSUME obj'[v].readOnly, ~obj'[w].readOnly,
                    obj'[v].p_ex_data.block = obj'[w].p_data
             PROVE  Within(obj'[v].data, obj'[v].p_ex_data.at,
                           heap'[obj'[w].p_data], obj'[w].data)
  BY DEF View
<1>1. obj[u].readOnly /\ ~obj[x].readOnly /\ obj'[w] = obj[x]
  BY DEF Came
<1>2. obj'[v].data = obj[u].data /\ obj'[v].p_ex_data = obj[u].p_ex_data
  BY DEF Came
<1>3. heap'[obj[x].p_data] = heap[obj[x].p_data]
  BY <1>1 DEF Came, SourceData
<1>4. said[u].ok /\ said[x].ok
  BY DEF Came
<1> QED BY <1>1, <1>2, <1>3, <1>4 DEF View

(* Those of X are looked at, the others came from somewhere. *)
LEMMA Settle ==
  ASSUME FaithInv, NEW X, Recorded',
         \A v \in Objects \ X : said'[v].ok => \E u \in Objects : Came(v, u),
         \A x \in Objects \cap X : Keeps(x)',
         \A x \in Objects \cap X, w \in Objects : View(x, w)' /\ View(w, x)'
  PROVE  FaithInv'
<1>1. ASSUME NEW v \in Objects
      PROVE  Keeps(v)'
  <2>1. CASE v \in X
    BY <2>1
  <2>2. CASE v \notin X /\ said'[v].ok
    <3>1. PICK u \in Objects : Came(v, u)
      BY <2>2
    <3>2. Keeps(u)
      BY DEF FaithInv
    <3> QED BY <3>1, <3>2, CameKeeps
  <2>3. CASE ~said'[v].ok
    BY <2>3 DEF Keeps
  <2> QED BY <2>1, <2>2, <2>3
<1>2. ASSUME NEW v \in Objects, NEW w \in Objects
      PROVE  View(v, w)'
  <2>1. CASE v \in X \/ w \in X
    BY <2>1
  <2>2. CASE v \notin X /\ w \notin X /\ said'[v].ok /\ said'[w].ok
    <3>1. PICK u \in Objects : Came(v, u)
      BY <2>2
    <3>2. PICK x \in Objects : Came(w, x)
      BY <2>2
    <3>3. View(u, x)
      BY DEF FaithInv
    <3> QED BY <3>1, <3>2, <3>3, CameView
  <2>3. CASE ~said'[v].ok \/ ~said'[w].ok
    BY <2>3 DEF View
  <2> QED BY <2>1, <2>2, <2>3
<1> QED BY <1>1, <1>2 DEF FaithInv

(* What Becomes says of the promises. *)
LEMMA BecomesSaid ==
  ASSUME NEW objects, NEW h, NEW promised, NEW disturbed,
         Becomes(objects, h, promised, disturbed),
         \A o \in Objects : Promise(promised[o])
  PROVE  /\ Recorded'
         /\ \A o \in Objects : said'[o].ok =>
              /\ said'[o] = promised[o] /\ o \notin disturbed
              /\ objects[o].readOnly =>
                   \/ objects[o].p_ex_data = Nowhere
                   \/ h[objects[o].p_ex_data.block] # NULL
<1> DEFINE T(o) == o \in disturbed
                   \/ (objects[o].readOnly /\ objects[o].p_ex_data # Nowhere
                         /\ h[objects[o].p_ex_data.block] = NULL)
<1>1. said' = [o \in Objects |-> IF T(o) THEN Nothing ELSE promised[o]]
  BY Zenon DEF Becomes
<1>2. Promise(Nothing) /\ ~Nothing.ok
  BY DEF Promise, Nothing
<1>3. \A o \in Objects : said'[o] = IF T(o) THEN Nothing ELSE promised[o]
  BY <1>1, Zenon
<1>4. DOMAIN said' = Objects
  BY <1>1
<1>5. Recorded'
  BY <1>2, <1>3, <1>4 DEF Recorded, Promise
<1>6. ASSUME NEW o \in Objects, said'[o].ok
      PROVE  ~T(o) /\ said'[o] = promised[o]
  <2> HIDE DEF T
  <2> QED BY <1>2, <1>3, <1>6
<1> QED BY <1>5, <1>6

(* A pointer to nothing has no block. *)
LEMMA SomeBlock ==
  ASSUME OwnerInv, NEW v \in Objects
  PROVE  /\ SourceData(obj[v]).block \in Blocks \cup {0}
         /\ obj[v].readOnly => SourceData(obj[v]) = obj[v].p_ex_data
         /\ ~obj[v].readOnly => SourceData(obj[v]).block = obj[v].p_data
                                /\ SourceData(obj[v]).at = 0
         /\ obj[v].p_ex_data.block # 0 => obj[v].p_ex_data # Nowhere
<1>1. obj[v] \in Members
  BY BlockOfObject
<1>2. SourceData(obj[v]) \in Pointers
  BY <1>1, SourcePointer
<1> QED BY <1>2 DEF Pointers, SourceData, Nowhere

(* What is the same after a call that gives o a new block, c, and frees    *)
(* its old one.                                                            *)
Replaced(o, b, c) ==
  /\ b \in Blocks /\ b # 0 /\ heap'[b] = c
  /\ \A v \in Objects : obj[v].p_data # b /\ obj[v].p_ex_data.block # b
  /\ obj[o].p_data # 0 => heap'[obj[o].p_data] = NULL
  /\ \A d \in Blocks : d # b /\ d # obj[o].p_data => heap'[d] = heap[d]

(* A new block, and the old one freed. *)
LEMMA FreshHeap ==
  ASSUME OwnerInv, NEW o \in Objects, NEW b, Malloc(b), NEW c,
         heap' = [Free(heap, obj[o].p_data) EXCEPT ![b] = c]
  PROVE  Replaced(o, b, c)
<1> DEFINE old == obj[o].p_data
<1>1. b \in Blocks /\ b # 0
  BY MallocUnused
<1>2. \A v \in Objects : obj[v].p_data # b /\ obj[v].p_ex_data.block # b
  <2>1. Unused \in SUBSET Nat
    BY ObjectsAssumption DEF Unused
  <2>2. b \in Unused
    BY <2>1, SmallestMember DEF Malloc
  <2> QED BY <2>2 DEF Unused
<1>3. old \in Blocks \cup {0} /\ old # b
  BY <1>2, BlockOfObject
<1>4. /\ Free(heap, old) \in [Blocks -> Memory]
      /\ \A d \in Blocks \ {old} : Free(heap, old)[d] = heap[d]
      /\ old # 0 => Free(heap, old)[old] = NULL
  BY <1>3, FreeBlock DEF OwnerInv
<1> HIDE DEF old
<1>5. /\ heap'[b] = c
      /\ \A d \in Blocks \ {b} : heap'[d] = Free(heap, old)[d]
  BY <1>1, <1>4 DEF old
<1> QED BY <1>1, <1>2, <1>3, <1>4, <1>5 DEF old, Replaced

(* The others keep what they read, when o gets a new block. *)
Beside(o, b, c, m, told) ==
  /\ Recorded'
  /\ heap'[b] = c /\ b # 0 /\ b \in Blocks
  /\ obj'[o] = m /\ \A v \in Objects \ {o} : obj'[v] = obj[v]
  /\ said'[o].ok => said'[o] = told
  /\ \A v \in Objects \ {o} : said'[v].ok => Came(v, v)
  /\ Replaced(o, b, c)
  /\ said'[o].ok /\ m.readOnly =>
       m.p_ex_data = Nowhere \/ heap'[m.p_ex_data.block] # NULL

(* The others, when an object gets a new block. *)
LEMMA FreshOthers ==
  ASSUME OwnerInv, FaithInv, NEW o \in Objects, NEW b, Malloc(b), NEW c, NEW m, NEW told,
         Set(o, m, [Free(heap, obj[o].p_data) EXCEPT ![b] = c], told), Promise(told)
  PROVE  Beside(o, b, c, m, told)
<1> DEFINE h == [Free(heap, obj[o].p_data) EXCEPT ![b] = c]
           objects == [obj EXCEPT ![o] = m]
           promised == [said EXCEPT ![o] = told]
<1>1. Becomes(objects, h, promised, {})
  BY DEF Set
<1>2. obj' = objects /\ heap' = h
  BY <1>1 DEF Becomes
<1>3. DOMAIN obj = Objects /\ DOMAIN said = Objects
  BY DEF OwnerInv, Typed, FaithInv, Recorded
<1>4. /\ promised[o] = told
      /\ \A v \in Objects \ {o} : promised[v] = said[v]
  BY <1>3
<1>5. \A v \in Objects : Promise(promised[v])
  BY <1>4 DEF FaithInv, Recorded
<1>6. /\ obj'[o] = m /\ \A v \in Objects \ {o} : obj'[v] = obj[v]
  BY <1>2, <1>3
<1>11. Replaced(o, b, c)
  <2>1. heap' = [Free(heap, obj[o].p_data) EXCEPT ![b] = c]
    BY <1>2
  <2> QED BY <2>1, FreshHeap
<1>7. /\ b \in Blocks /\ b # 0 /\ heap'[b] = c
      /\ \A v \in Objects : obj[v].p_data # b /\ obj[v].p_ex_data.block # b
      /\ obj[o].p_data # 0 => heap'[obj[o].p_data] = NULL
      /\ \A d \in Blocks : d # b /\ d # obj[o].p_data => heap'[d] = heap[d]
  BY <1>11 DEF Replaced
<1> HIDE DEF h, objects, promised
<1>8. /\ Recorded'
      /\ \A v \in Objects : said'[v].ok =>
           /\ said'[v] = promised[v]
           /\ objects[v].readOnly =>
                objects[v].p_ex_data = Nowhere \/ h[objects[v].p_ex_data.block] # NULL
  BY <1>1, <1>5, BecomesSaid
<1>9. ASSUME NEW v \in Objects \ {o}, said'[v].ok
      PROVE  Came(v, v)
  <2> DEFINE d == SourceData(obj[v]).block
  <2>1. /\ said'[v] = said[v] /\ said[v].ok /\ obj'[v] = obj[v]
        /\ obj[v].readOnly => obj[v].p_ex_data = Nowhere
                              \/ heap'[obj[v].p_ex_data.block] # NULL
    BY <1>2, <1>4, <1>6, <1>8, <1>9
  <2>2. d # 0 /\ d \in Blocks
    <3>1. Keeps(v)
      BY DEF FaithInv
    <3> QED BY <2>1, <3>1, SomeBlock DEF Keeps
  <2>3. d # b
    BY <1>7, SomeBlock
  <2>4. d # obj[o].p_data
    <3>1. CASE obj[v].readOnly
      <4>1. d = obj[v].p_ex_data.block /\ obj[v].p_ex_data # Nowhere
        BY <2>2, <3>1, SomeBlock
      <4> QED BY <1>7, <2>1, <2>2, <3>1, <4>1
    <3>2. CASE ~obj[v].readOnly
      <4>1. d = obj[v].p_data
        BY <3>2, SomeBlock
      <4> QED BY <2>2, <4>1 DEF OwnerInv, OneOwner
    <3> QED BY <3>1, <3>2
  <2>5. heap'[d] = heap[d]
    BY <1>7, <2>2, <2>3, <2>4
  <2> QED BY <2>1, <2>5 DEF Came
<1>10. said'[o].ok => said'[o] = told
  BY <1>4, <1>8
<1>12. said'[o].ok /\ m.readOnly =>
         m.p_ex_data = Nowhere \/ heap'[m.p_ex_data.block] # NULL
  BY <1>2, <1>6, <1>8
<1> QED BY <1>6, <1>7, <1>8, <1>9, <1>10, <1>11, <1>12 DEF Beside

(* o becomes the owner of a new block, about which it is right. *)
LEMMA FreshOwner ==
  ASSUME OwnerInv, FaithInv, NEW o \in Objects, NEW b, Malloc(b), NEW c, NEW m, NEW told,
         Set(o, m, [Free(heap, obj[o].p_data) EXCEPT ![b] = c], told), Promise(told),
         ~m.readOnly, m.p_data = b,
         told.ok => Fine(m, c, 0) /\ told.entries = EntriesIn(m.data, c, 0)
  PROVE  FaithInv'
<1>1. /\ Recorded'
      /\ heap'[b] = c /\ b # 0 /\ b \in Blocks
      /\ obj'[o] = m /\ \A v \in Objects \ {o} : obj'[v] = obj[v]
      /\ said'[o].ok => said'[o] = told
      /\ \A v \in Objects \ {o} : said'[v].ok => Came(v, v)
      /\ \A v \in Objects : obj[v].p_data # b /\ obj[v].p_ex_data.block # b
  <2>1. Beside(o, b, c, m, told)
    BY FreshOthers
  <2> QED BY <2>1 DEF Beside, Replaced
<1>2. SourceData(obj'[o]).block = b /\ SourceData(obj'[o]).at = 0
  BY <1>1 DEF SourceData
<1>3. Keeps(o)'
  BY <1>1, <1>2 DEF Keeps
<1>4. ASSUME NEW w \in Objects
      PROVE  View(o, w)' /\ View(w, o)'
  <2>1. View(o, w)'
    BY <1>1 DEF View
  <2>2. View(w, o)'
    <3>1. CASE w = o
      BY <2>1, <3>1
    <3>2. CASE w # o
      <4>1. obj'[w].p_ex_data.block # obj'[o].p_data
        BY <1>1, <3>2
      <4> QED BY <4>1 DEF View
    <3> QED BY <3>1, <3>2
  <2> QED BY <2>1, <2>2
<1> DEFINE X == {o}
<1>5. \A v \in Objects \ X : said'[v].ok => \E u \in Objects : Came(v, u)
  BY <1>1
<1>6. \A x \in Objects \cap X : x = o
  OBVIOUS
<1> HIDE DEF X
<1>7. \A x \in Objects \cap X : Keeps(x)'
  BY <1>3, <1>6
<1>8. \A x \in Objects \cap X, w \in Objects : View(x, w)' /\ View(w, x)'
  BY <1>4, <1>6
<1> QED BY <1>1, <1>5, <1>7, <1>8, Settle

(* A copy of a received message reads what that one reads. *)
LEMMA FreshReader ==
  ASSUME OwnerInv, FaithInv, NEW o \in Objects, NEW b, Malloc(b), NEW c, NEW m, NEW told,
         Set(o, m, [Free(heap, obj[o].p_data) EXCEPT ![b] = c], told), Promise(told),
         m.readOnly, m.p_data = b,
         NEW s \in Objects, told.ok => told = said[s],
         obj[s].readOnly, m.data = obj[s].data, m.p_ex_data = obj[s].p_ex_data
  PROVE  FaithInv'
<1>1. Beside(o, b, c, m, told)
  BY FreshOthers
<1>2. Recorded' /\ obj'[o] = m
  BY <1>1 DEF Beside
<1>3. ASSUME said'[o].ok
      PROVE  Came(o, s)
  <2>1. said'[o] = told /\ told = said[s] /\ said[s].ok
    BY <1>1, <1>3 DEF Beside
  <2> DEFINE d == obj[s].p_ex_data.block
  <2>2. SourceData(obj[s]).block = d /\ d # 0 /\ d \in Blocks
    <3>1. Keeps(s)
      BY DEF FaithInv
    <3> QED BY <2>1, <3>1, SomeBlock DEF Keeps
  <2>3. heap'[d] # NULL
    <3>1. m.p_ex_data # Nowhere
      BY <2>2, SomeBlock
    <3> QED BY <1>1, <1>3, <3>1 DEF Beside
  <2>4. heap'[d] = heap[d]
    <3>1. d # b /\ d # obj[o].p_data
      BY <1>1, <2>2, <2>3 DEF Beside, Replaced
    <3> QED BY <1>1, <2>2, <3>1 DEF Beside, Replaced
  <2>5. b # 0
    BY <1>1 DEF Beside
  <2> QED BY <1>2, <2>1, <2>2, <2>4, <2>5 DEF Came
<1> DEFINE X == {}
<1>4. \A v \in Objects \ X : said'[v].ok => \E u \in Objects : Came(v, u)
  <2> SUFFICES ASSUME NEW v \in Objects, said'[v].ok
               PROVE  \E u \in Objects : Came(v, u)
    OBVIOUS
  <2>1. CASE v = o
    BY <1>3, <2>1
  <2>2. CASE v # o
    BY <1>1, <2>2 DEF Beside
  <2> QED BY <2>1, <2>2
<1>5. \A x \in Objects \cap X : FALSE
  OBVIOUS
<1> HIDE DEF X
<1>6. \A x \in Objects \cap X : Keeps(x)'
  BY <1>5
<1>7. \A x \in Objects \cap X, w \in Objects : View(x, w)' /\ View(w, x)'
  BY <1>5
<1> QED BY <1>2, <1>4, <1>6, <1>7, Settle

(* A call that frees at most the block of o, after which each object is    *)
(* what some other than o was.                                             *)
LEMMA FreedOnly ==
  ASSUME OwnerInv, FaithInv, NEW o \in Objects, NEW objects, NEW promised,
         Becomes(objects, Free(heap, obj[o].p_data), promised, {}),
         \A v \in Objects : Promise(promised[v]),
         \A v \in Objects : promised[v].ok =>
           \E u \in Objects \ {o} : promised[v] = said[u] /\ objects[v] = obj[u]
  PROVE  FaithInv'
<1> DEFINE old == obj[o].p_data
           h == Free(heap, old)
<1>1. obj' = objects /\ heap' = h
  BY DEF Becomes
<1>2. /\ Recorded'
      /\ \A v \in Objects : said'[v].ok =>
           /\ said'[v] = promised[v]
           /\ objects[v].readOnly =>
                objects[v].p_ex_data = Nowhere \/ h[objects[v].p_ex_data.block] # NULL
  <2> HIDE DEF h
  <2>1. Becomes(objects, h, promised, {})
    BY DEF h
  <2> QED BY <2>1, BecomesSaid
<1>3. /\ \A d \in Blocks \ {old} : h[d] = heap[d]
      /\ old # 0 => h[old] = NULL
  BY BlockOfObject, FreeBlock DEF OwnerInv
<1> HIDE DEF h
<1>4. ASSUME NEW v \in Objects, said'[v].ok
      PROVE  \E u \in Objects : Came(v, u)
  <2>1. said'[v] = promised[v]
    BY <1>2, <1>4
  <2>2. PICK u \in Objects \ {o} : promised[v] = said[u] /\ objects[v] = obj[u]
    BY <1>4, <2>1
  <2>3. said'[v] = said[u] /\ said[u].ok /\ obj'[v] = obj[u]
    BY <1>1, <1>4, <2>1, <2>2
  <2> DEFINE d == SourceData(obj[u]).block
  <2>4. d # 0 /\ d \in Blocks
    <3>1. Keeps(u)
      BY DEF FaithInv
    <3> QED BY <2>3, <3>1, SomeBlock DEF Keeps
  <2>5. d # old
    <3>1. CASE obj[u].readOnly
      <4>1. d = obj[u].p_ex_data.block /\ obj[u].p_ex_data # Nowhere
        BY <2>4, <3>1, SomeBlock
      <4> QED BY <1>2, <1>3, <1>4, <2>2, <2>4, <3>1, <4>1
    <3>2. CASE ~obj[u].readOnly
      <4>1. d = obj[u].p_data
        BY <3>2, SomeBlock
      <4> QED BY <2>4, <4>1 DEF OwnerInv, OneOwner
    <3> QED BY <3>1, <3>2
  <2>6. heap'[d] = heap[d]
    BY <1>1, <1>3, <2>4, <2>5
  <2>7. Came(v, u)
    BY <2>3, <2>6 DEF Came
  <2> QED BY <2>7
<1> DEFINE X == {}
<1>5. \A v \in Objects \ X : said'[v].ok => \E u \in Objects : Came(v, u)
  BY <1>4
<1>6. \A x \in Objects \cap X : FALSE
  OBVIOUS
<1> HIDE DEF X
<1>7. \A x \in Objects \cap X : Keeps(x)'
  BY <1>6
<1>8. \A x \in Objects \cap X, w \in Objects : View(x, w)' /\ View(w, x)'
  BY <1>6
<1> QED BY <1>2, <1>5, <1>7, <1>8, Settle

LEMMA DestroyFaith ==
  ASSUME OwnerInv, FaithInv, NEW o \in Objects, Destroy(o)
  PROVE  FaithInv'
<1> DEFINE objects == [obj EXCEPT ![o] = Hollow]
           promised == [said EXCEPT ![o] = Nothing]
<1>1. Becomes(objects, Free(heap, obj[o].p_data), promised, {})
  BY DEF Destroy, Set
<1>2. DOMAIN obj = Objects /\ DOMAIN said = Objects
  BY DEF OwnerInv, Typed, FaithInv, Recorded
<1>3. /\ promised[o] = Nothing /\ ~Nothing.ok /\ Promise(Nothing)
      /\ \A v \in Objects \ {o} : promised[v] = said[v] /\ objects[v] = obj[v]
  BY <1>2 DEF Nothing, Promise
<1> HIDE DEF objects, promised
<1>4. \A v \in Objects : Promise(promised[v])
  BY <1>3 DEF FaithInv, Recorded
<1>5. \A v \in Objects : promised[v].ok =>
        \E u \in Objects \ {o} : promised[v] = said[u] /\ objects[v] = obj[u]
  BY <1>3
<1> QED BY <1>1, <1>4, <1>5, FreedOnly

LEMMA NoBlockFreed ==
  ASSUME OwnerInv, NEW o \in Objects, ~obj[o].alive
  PROVE  Free(heap, obj[o].p_data) = heap
BY DEF OwnerInv, Idle, Free

LEMMA MovesFaith ==
  ASSUME OwnerInv, FaithInv, NEW o \in Objects, NEW s \in Objects,
         MoveConstruct(o, s) \/ MoveAssign(o, s)
  PROVE  FaithInv'
<1>1. o # s /\ Move(o, s, Free(heap, obj[o].p_data))
  BY NoBlockFreed DEF MoveConstruct, MoveAssign
<1> DEFINE objects == Moved(o, s)
           promised == [said EXCEPT ![o] = said[s], ![s] = Nothing]
<1>2. Becomes(objects, Free(heap, obj[o].p_data), promised, {})
  BY <1>1 DEF Move
<1>3. DOMAIN obj = Objects /\ DOMAIN said = Objects
  BY DEF OwnerInv, Typed, FaithInv, Recorded
<1>4. /\ promised[s] = Nothing /\ ~Nothing.ok /\ Promise(Nothing)
      /\ promised[o] = said[s] /\ objects[o] = obj[s]
      /\ \A v \in Objects \ {o, s} : promised[v] = said[v] /\ objects[v] = obj[v]
  BY <1>1, <1>3 DEF Nothing, Promise, Moved
<1> HIDE DEF objects, promised
<1>5. \A v \in Objects : Promise(promised[v])
  BY <1>4 DEF FaithInv, Recorded
<1>6. \A v \in Objects : promised[v].ok =>
        \E u \in Objects \ {o} : promised[v] = said[u] /\ objects[v] = obj[u]
  BY <1>1, <1>4
<1> QED BY <1>2, <1>5, <1>6, FreedOnly

(* A message without elements. *)
LEMMA EmptyFine ==
  ASSUME NEW m, m.data = << >>, m.mem_used = HEADER_ELEMENTS,
         m.p_size = Cells(EmptyBlock)
  PROVE  Fine(m, EmptyBlock, 0) /\ << >> = EntriesIn(m.data, EmptyBlock, 0)
<1> DEFINE n == Reserve(0, 0, HEADER_ELEMENTS)
<1>1. n \in Nat /\ n >= HEADER_ELEMENTS /\ EmptyBlock \in Block(n) /\ Cells(EmptyBlock) = n
  BY EmptyBlockType, CellsOfBlock
<1>2. EmptyBlock[SIZE] = 0
  <2>1. n \in Nat /\ n >= 3
    BY <1>1
  <2>2. Resize(NULL, n) \in Block(n)
    BY <2>1, NullBlock, ResizeBlock
  <2>3. <<MESS_VERSION, 0, 0>> \in Seq(Nat) /\ Len(<<MESS_VERSION, 0, 0>>) = 3
        /\ <<MESS_VERSION, 0, 0>>[2] = 0
    BY DEF MESS_VERSION
  <2>4. EmptyBlock = Write(Resize(NULL, n), 0, <<MESS_VERSION, 0, 0>>)
    BY DEF EmptyBlock
  <2> DEFINE cells == <<MESS_VERSION, 0, 0>>
             r == Resize(NULL, n)
  <2>7. r \in Block(n) /\ cells \in Seq(Nat) /\ 0 \in Int /\ Len(cells) = 3
    BY <2>2, <2>3
  <2> HIDE DEF cells, r, n
  <2>5. \A k \in 0 .. n - 1 :
          Write(r, 0, cells)[k] =
            IF 0 <= k /\ k < 0 + Len(cells) THEN cells[k - 0 + 1] ELSE r[k]
    BY <2>1, <2>7, WriteBlock
  <2>6. Write(r, 0, cells)[1] = cells[2]
    <3>1. 1 \in 0 .. n - 1 /\ 1 < 0 + Len(cells) /\ 1 - 0 + 1 = 2
      BY <2>1, <2>7
    <3> QED BY <2>5, <3>1
  <2> QED BY <2>3, <2>4, <2>6 DEF cells, r
<1>3. Peek(EmptyBlock, SIZE) = 0
  BY <1>1, <1>2 DEF Block, Peek
<1> HIDE DEF n
<1>4. DOMAIN m.data = {} /\ Len(m.data) = 0
  OBVIOUS
<1>5. Table(m.data, EmptyBlock, 0) /\ Tiled(m.data, m.mem_used)
  BY <1>4 DEF Table, Apart, Tiled, Joined
<1>6. Fine(m, EmptyBlock, 0)
  BY <1>1, <1>3, <1>5 DEF Fine, OwnerFine
<1>7. EntriesIn(m.data, EmptyBlock, 0) = << >>
  BY DEF EntriesIn
<1> QED BY <1>6, <1>7

LEMMA InitHeaderFields ==
  ASSUME NEW m \in Members, NEW b \in Blocks
  PROVE  LET r == InitHeader(m, b)
         IN /\ r.readOnly = m.readOnly /\ r.data = m.data /\ r.p_ex_data = m.p_ex_data
            /\ r.p_data = b /\ r.mem_used = HEADER_ELEMENTS
            /\ r.p_size = Cells(EmptyBlock)
BY DEF InitHeader, Members

(* Two objects that differ in nothing Fine looks at. *)
LEMMA SaysPromise ==
  ASSUME NEW entries
  PROVE  /\ Promise(Says(entries)) /\ Says(entries).ok /\ Says(entries).entries = entries
         /\ Promise(Nothing) /\ ~Nothing.ok
BY DEF Promise, Says, Nothing

LEMMA ConstructFaith ==
  ASSUME OwnerInv, FaithInv, NEW o \in Objects, Construct(o)
  PROVE  FaithInv'
<1> DEFINE fresh == [Hollow EXCEPT !.alive = TRUE, !.readOnly = FALSE]
<1>1. PICK b \in Blocks :
        /\ Malloc(b)
        /\ Set(o, InitHeader(fresh, b), [heap EXCEPT ![b] = EmptyBlock], Says(<< >>))
  BY DEF Construct
<1>2. Free(heap, obj[o].p_data) = heap
  BY NoBlockFreed DEF Construct
<1>3. fresh \in Members /\ ~fresh.readOnly /\ fresh.data = << >>
  <2>1. Hollow \in Members
    BY HollowMember
  <2>2. Hollow.data = << >>
    BY DEF Hollow
  <2> QED BY <2>1, <2>2 DEF Members
<1> DEFINE m == InitHeader(fresh, b)
<1> HIDE DEF fresh
<1>4. /\ ~m.readOnly /\ m.data = << >> /\ m.p_data = b
      /\ m.mem_used = HEADER_ELEMENTS /\ m.p_size = Cells(EmptyBlock)
  BY <1>3, InitHeaderFields
<1> HIDE DEF m
<1>5. Set(o, m, [Free(heap, obj[o].p_data) EXCEPT ![b] = EmptyBlock], Says(<< >>))
  BY <1>1, <1>2 DEF m
<1>6. Fine(m, EmptyBlock, 0) /\ Says(<< >>).entries = EntriesIn(m.data, EmptyBlock, 0)
  BY <1>4, EmptyFine, SaysPromise
<1> QED BY <1>1, <1>4, <1>5, <1>6, SaysPromise, FreshOwner

LEMMA ClearFaith ==
  ASSUME OwnerInv, FaithInv, NEW o \in Objects, Clear(o)
  PROVE  FaithInv'
<1> DEFINE bare == [obj[o] EXCEPT !.data = << >>, !.el_size = 0]
<1>1. PICK b \in Blocks :
        /\ Malloc(b)
        /\ Set(o, InitHeader(bare, b),
               [Free(heap, obj[o].p_data) EXCEPT ![b] = EmptyBlock], Says(<< >>))
  BY DEF Clear
<1>2. bare \in Members /\ ~bare.readOnly /\ bare.data = << >>
  <2>1. obj[o] \in Members /\ << >> \in Seq(Entry)
    BY BlockOfObject
  <2>2. ~obj[o].readOnly
    BY DEF Clear
  <2> QED BY <2>1, <2>2 DEF Members
<1> DEFINE m == InitHeader(bare, b)
<1> HIDE DEF bare
<1>3. /\ ~m.readOnly /\ m.data = << >> /\ m.p_data = b
      /\ m.mem_used = HEADER_ELEMENTS /\ m.p_size = Cells(EmptyBlock)
  BY <1>2, InitHeaderFields
<1> HIDE DEF m
<1>4. Set(o, m, [Free(heap, obj[o].p_data) EXCEPT ![b] = EmptyBlock], Says(<< >>))
  BY <1>1 DEF m
<1>5. Fine(m, EmptyBlock, 0) /\ Says(<< >>).entries = EntriesIn(m.data, EmptyBlock, 0)
  BY <1>3, EmptyFine, SaysPromise
<1> QED BY <1>1, <1>3, <1>4, <1>5, SaysPromise, FreshOwner

LEMMA ToldPromise ==
  ASSUME FaithInv, NEW s \in Objects
  PROVE  Promise(ToldOf(s)) /\ (ToldOf(s).ok => ToldOf(s) = said[s])
BY SaysPromise DEF FaithInv, Recorded, ToldOf

LEMMA CopyFaith ==
  ASSUME OwnerInv, FaithInv, NEW o \in Objects, NEW s \in Objects,
         CopyConstruct(o, s) \/ CopyAssign(o, s)
  PROVE  FaithInv'
<1>1. PICK b \in Blocks :
        /\ Malloc(b)
        /\ Set(o, CopyOf(obj[s], b),
               [Free(heap, obj[o].p_data) EXCEPT ![b] = CopiedCells(obj[s])], ToldOf(s))
  <2>1. CASE CopyConstruct(o, s)
    <3>1. Free(heap, obj[o].p_data) = heap
      BY <2>1, NoBlockFreed DEF CopyConstruct
    <3> QED BY <2>1, <3>1 DEF CopyConstruct
  <2>2. CASE CopyAssign(o, s)
    BY <2>2 DEF CopyAssign
  <2> QED BY <2>1, <2>2
<1>2. obj[s] \in Members
  BY BlockOfObject
<1>3. Promise(ToldOf(s)) /\ (ToldOf(s).ok => ToldOf(s) = said[s])
  BY ToldPromise
<1>4. CASE ~obj[s].readOnly
  <2> DEFINE m == [obj[s] EXCEPT !.p_data = b]
             c == heap[obj[s].p_data]
  <2>1. SourceData(obj[s]).block = obj[s].p_data /\ SourceData(obj[s]).at = 0
    BY <1>4, SomeBlock
  <2>2. CASE obj[s].p_data # 0
    <3>1. Set(o, m, [Free(heap, obj[o].p_data) EXCEPT ![b] = c], ToldOf(s))
      BY <1>1, <1>4, <2>2 DEF CopyOf, CopiedCells
    <3>2. /\ m.readOnly = obj[s].readOnly /\ m.data = obj[s].data /\ m.p_data = b
          /\ m.mem_used = obj[s].mem_used /\ m.p_size = obj[s].p_size
      BY <1>2 DEF Members
    <3> HIDE DEF m
    <3>3. ASSUME ToldOf(s).ok
          PROVE  Fine(m, c, 0) /\ ToldOf(s).entries = EntriesIn(m.data, c, 0)
      <4>1. Keeps(s) /\ said[s].ok
        BY <1>3, <3>3 DEF FaithInv
      <4>2. Fine(obj[s], c, 0) /\ said[s].entries = EntriesIn(obj[s].data, c, 0)
        BY <2>1, <4>1 DEF Keeps
      <4>3. Fine(m, c, 0)
        BY <1>4, <3>2, <4>2 DEF Fine, OwnerFine
      <4> QED BY <1>3, <3>2, <3>3, <4>2, <4>3
    <3>4. ~m.readOnly
      BY <1>4, <3>2
    <3> HIDE DEF c
    <3> QED BY <1>1, <1>3, <3>1, <3>2, <3>3, <3>4, FreshOwner
  <2>3. CASE obj[s].p_data = 0
    <3> DEFINE n == InitHeader(obj[s], b)
               told == ToldOf(s)
    <3>1. ~told.ok
      <4>1. Keeps(s)
        BY DEF FaithInv
      <4>2. ~said[s].ok
        BY <2>1, <2>3, <4>1 DEF Keeps
      <4> QED BY <1>3, <4>2
    <3>2. Set(o, n, [Free(heap, obj[o].p_data) EXCEPT ![b] = EmptyBlock], told)
      BY <1>1, <2>3 DEF CopyOf, CopiedCells
    <3>3. n.readOnly = obj[s].readOnly /\ n.p_data = b
      BY <1>2, InitHeaderFields
    <3>4. ~n.readOnly /\ Promise(told)
      BY <1>3, <1>4, <3>3
    <3> HIDE DEF n, told
    <3> QED BY <1>1, <3>1, <3>2, <3>3, <3>4, FreshOwner
  <2> QED BY <2>2, <2>3
<1>5. CASE obj[s].readOnly
  <2> DEFINE n == InitHeader(obj[s], b)
             told == ToldOf(s)
  <2>1. Set(o, n, [Free(heap, obj[o].p_data) EXCEPT ![b] = EmptyBlock], told)
    BY <1>1, <1>5 DEF CopyOf, CopiedCells
  <2>2. /\ n.readOnly = obj[s].readOnly /\ n.data = obj[s].data
        /\ n.p_ex_data = obj[s].p_ex_data /\ n.p_data = b
    BY <1>2, InitHeaderFields
  <2>3. n.readOnly /\ Promise(told) /\ (told.ok => told = said[s])
    BY <1>3, <1>5, <2>2
  <2> HIDE DEF n, told
  <2> QED BY <1>1, <1>5, <2>1, <2>2, <2>3, FreshReader
<1> QED BY <1>4, <1>5

(* Cells behind a pointer, read from there or through the pointer. *)
LEMMA CellsBehind ==
  ASSUME NEW ptr, ptr.block # 0, NEW n \in Nat
  PROVE  /\ \A k \in 0 .. n - 1 :
              Peek(CellsAt(ptr, n), k) = Peek(heap[ptr.block], ptr.at + k)
         /\ \A k \in 0 .. n - 1 :
              Peek(CellsAt(ptr, n), 0 + k) = Peek(heap[ptr.block], ptr.at + k)
<1>1. \A k \in 0 .. n - 1 : Peek(CellsAt(ptr, n), k) = Peek(heap[ptr.block], ptr.at + k)
  BY DEF CellsAt, CellAt, Peek
<1>2. \A k \in 0 .. n - 1 : 0 + k = k
  OBVIOUS
<1> QED BY <1>1, <1>2

LEMMA CloneFaith ==
  ASSUME OwnerInv, FaithInv, NEW o \in Objects, NEW s \in Objects, Clone(o, s)
  PROVE  FaithInv'
<1> DEFINE m     == obj[s]
           ptr   == SourceData(m)
           cells == CellsAt(ptr, m.mem_used)
           told  == IF m.validData /\ ~Short(m) THEN said[s] ELSE Nothing
           copy  == [m EXCEPT !.readOnly = FALSE, !.p_ex_data = Nowhere,
                              !.p_size = m.mem_used]
<1>1. m \in Members /\ m.mem_used \in Nat
  BY BlockOfObject DEF Members
<1>2. Free(heap, obj[o].p_data) = heap
  BY NoBlockFreed DEF Clone
<1>3. /\ m.mem_used > 0 => Live(s) /\ m.mem_used <= MaxCells
      /\ \/ /\ m.mem_used > 0
            /\ \E b \in Blocks :
                 /\ Malloc(b)
                 /\ Set(o, [copy EXCEPT !.p_data = b], [heap EXCEPT ![b] = cells], told)
         \/ /\ m.mem_used = 0
            /\ Set(o, [copy EXCEPT !.p_data = 0], heap, Nothing)
  BY Zenon DEF Clone
<1>4. CASE m.mem_used = 0
  <2> DEFINE objects == [obj EXCEPT ![o] = [copy EXCEPT !.p_data = 0]]
             promised == [said EXCEPT ![o] = Nothing]
  <2>1. Becomes(objects, Free(heap, obj[o].p_data), promised, {})
    BY <1>1, <1>2, <1>3, <1>4 DEF Set
  <2>2. DOMAIN obj = Objects /\ DOMAIN said = Objects
    BY DEF OwnerInv, Typed, FaithInv, Recorded
  <2>3. /\ promised[o] = Nothing /\ ~Nothing.ok /\ Promise(Nothing)
        /\ \A v \in Objects \ {o} : promised[v] = said[v] /\ objects[v] = obj[v]
    BY <2>2, SaysPromise
  <2> HIDE DEF objects, promised
  <2>4. \A v \in Objects : Promise(promised[v])
    BY <2>3 DEF FaithInv, Recorded
  <2>5. \A v \in Objects : promised[v].ok =>
          \E u \in Objects \ {o} : promised[v] = said[u] /\ objects[v] = obj[u]
    BY <2>3
  <2> QED BY <2>1, <2>4, <2>5, FreedOnly
<1>5. CASE m.mem_used > 0
  <2>1. PICK b \in Blocks :
          /\ Malloc(b)
          /\ Set(o, [copy EXCEPT !.p_data = b], [heap EXCEPT ![b] = cells], told)
    <3>1. m.mem_used # 0
      BY <1>1, <1>5
    <3> QED BY <1>3, <3>1, Zenon
  <2>2. ptr.block # 0 /\ m.mem_used <= MaxCells
    BY <1>3, <1>5 DEF Live
  <2> DEFINE new == [copy EXCEPT !.p_data = b]
  <2>3. /\ ~new.readOnly /\ new.p_data = b /\ new.data = m.data
        /\ new.mem_used = m.mem_used /\ new.p_size = m.mem_used
    BY <1>1 DEF Members
  <2> HIDE DEF new
  <2>4. ASSUME told.ok
        PROVE  Fine(new, cells, 0) /\ told.entries = EntriesIn(new.data, cells, 0)
    <3>1. m.validData /\ ~Short(m) /\ told = said[s]
      BY <2>4 DEF Nothing
    <3>2. Keeps(s) /\ said[s].ok
      BY <2>4, <3>1 DEF FaithInv
    <3>3. /\ Fine(m, heap[ptr.block], ptr.at)
          /\ told.entries = EntriesIn(m.data, heap[ptr.block], ptr.at)
      BY <3>1, <3>2 DEF Keeps
    <3>4. Tiled(m.data, m.mem_used) /\ Table(m.data, heap[ptr.block], ptr.at) /\ ptr.at \in Nat
      BY <3>1, <3>3 DEF Fine, OwnerFine, Short
    <3>5. m.data \in Seq(Entry)
      BY <1>1 DEF Members
    <3> HIDE DEF ptr, cells, told
    <3>6. \A i \in DOMAIN m.data : \A k \in StartOf(m.data[i]) .. EndOf(m.data[i]) - 1 :
            Peek(cells, 0 + k) = Peek(heap[ptr.block], ptr.at + k)
      <4> TAKE i \in DOMAIN m.data
      <4>1. EndOf(m.data[i]) <= m.mem_used
        BY <3>4, <3>5, TiledEnds
      <4>2. StartOf(m.data[i]) \in Nat /\ EndOf(m.data[i]) \in Nat
        BY <3>4, <3>5, TableEnds
      <4>3. \A k \in StartOf(m.data[i]) .. EndOf(m.data[i]) - 1 : k \in 0 .. m.mem_used - 1
        BY <1>1, <4>1, <4>2
      <4> QED BY <1>1, <2>2, <4>3, CellsBehind DEF cells
    <3>7. /\ Table(m.data, cells, 0)
          /\ EntriesIn(m.data, cells, 0) = EntriesIn(m.data, heap[ptr.block], ptr.at)
      BY <3>4, <3>5, <3>6, SameCells DEF Same
    <3>8. Fine(new, cells, 0)
      BY <1>1, <2>2, <2>3, <3>4, <3>7 DEF Fine, OwnerFine
    <3> QED BY <2>3, <3>3, <3>7, <3>8
  <2>5. Promise(told)
    BY SaysPromise DEF FaithInv, Recorded
  <2>6. Set(o, new, [Free(heap, obj[o].p_data) EXCEPT ![b] = cells], told)
    BY <1>2, <2>1 DEF new
  <2> HIDE DEF told, cells
  <2> QED BY <2>1, <2>3, <2>4, <2>5, <2>6, FreshOwner
<1> QED BY <1>1, <1>4, <1>5

-----------------------------------------------------------------------------
(* Messages over the bytes of others. *)

(* What m, the message over size cells at ptr, is: either nothing was read *)
(* of it, or its table is that of those cells, whose header has the size.  *)
Received(m, ptr, size) ==
  /\ m.readOnly /\ m.p_ex_data = ptr /\ m.p_data = 0 /\ m.data \in Seq(Entry)
  /\ Fine(m, heap[ptr.block], ptr.at)
  /\ Entries(m.data, CellsAt(ptr, size)) = EntriesIn(m.data, heap[ptr.block], ptr.at)
  /\ \/ m.data = << >> /\ ~m.validData
     \/ /\ size >= HEADER_ELEMENTS /\ Peek(heap[ptr.block], ptr.at + SIZE) = size
        /\ m.mem_used = size
        /\ m.data = ParseData(CellsAt(ptr, size)).data
        /\ Table(m.data, CellsAt(ptr, size), 0) /\ Joined(m.data)
        /\ \A i \in DOMAIN m.data : EndOf(m.data[i]) <= size

(* A table of the first cells behind a pointer is one of the block itself. *)
LEMMA CellsEntries ==
  ASSUME NEW ptr, ptr.block # 0, ptr.at \in Nat, NEW n \in Nat,
         NEW table \in Seq(Entry), Table(table, CellsAt(ptr, n), 0),
         \A i \in DOMAIN table : EndOf(table[i]) <= n
  PROVE  /\ Table(table, heap[ptr.block], ptr.at)
         /\ Entries(table, CellsAt(ptr, n)) = EntriesIn(table, heap[ptr.block], ptr.at)
<1> DEFINE cells == CellsAt(ptr, n)
           b == heap[ptr.block]
<1>1. \A k \in 0 .. n - 1 : Peek(cells, 0 + k) = Peek(b, ptr.at + k)
  BY CellsBehind
<1> HIDE DEF cells, b
<1>2. ASSUME NEW i \in DOMAIN table
      PROVE  /\ \A k \in StartOf(table[i]) .. EndOf(table[i]) - 1 :
                  Peek(b, ptr.at + k) = Peek(cells, 0 + k)
             /\ ValueOf(cells, table[i]) =
                  [k \in 1 .. table[i].size |-> Peek(b, ptr.at + (table[i].index + k - 1))]
  <2> DEFINE e == table[i]
  <2>1. /\ e.index \in Nat /\ e.size \in Nat /\ EndOf(e) = e.index + e.size /\ EndOf(e) <= n
        /\ StartOf(e) \in Nat
    BY TableEnds DEF cells
  <2> HIDE DEF e
  <2>2. \A k \in StartOf(e) .. EndOf(e) - 1 : k \in 0 .. n - 1
    BY <2>1
  <2>3. ASSUME NEW k \in 1 .. e.size
        PROVE  Peek(cells, e.index + k - 1) = Peek(b, ptr.at + (e.index + k - 1))
    <3>1. e.index + k - 1 \in 0 .. n - 1 /\ 0 + (e.index + k - 1) = e.index + k - 1
      BY <2>1
    <3> QED BY <1>1, <3>1
  <2>4. ValueOf(cells, e) = [k \in 1 .. e.size |-> Peek(b, ptr.at + (e.index + k - 1))]
    BY <2>3, Zenon DEF ValueOf
  <2> QED BY <1>1, <2>2, <2>4 DEF e
<1>3. \A i \in DOMAIN table : \A k \in StartOf(table[i]) .. EndOf(table[i]) - 1 :
        Peek(b, ptr.at + k) = Peek(cells, 0 + k)
  BY <1>2
<1>4. Table(table, cells, 0) /\ 0 \in Nat
  BY DEF cells
<1>5. Table(table, b, ptr.at)
  BY <1>3, <1>4, SameCells DEF Same
<1>6. Entries(table, cells) = EntriesIn(table, b, ptr.at)
  BY <1>2, Zenon DEF Entries, EntriesIn, EntryIn
<1> QED BY <1>5, <1>6 DEF cells, b

(* The constructor makes such a message of any cells. *)
LEMMA OverReceived ==
  ASSUME OwnerInv, NEW ptr \in Pointers, ptr.block # 0, ptr.at \in Nat, NEW size \in Nat,
         NEW m, m = Over(ptr, size)
  PROVE  Received(m, ptr, size)
<1> DEFINE block  == CellsAt(ptr, size)
           header == /\ size >= HEADER_ELEMENTS
                     /\ block[VERSION] \in MIN_MESS_VERSION .. MESS_VERSION
           none   == [ok |-> FALSE, data |-> << >>]
           parsed == IF header /\ block[SIZE] = size THEN ParseData(block) ELSE none
           used   == IF header THEN block[SIZE] ELSE 0
           count  == IF header THEN block[ELEMENTS] ELSE 0
<1>1. block \in Block(size)
  BY CellsThere DEF Pointers, OwnerInv
<1>2. m = [alive |-> TRUE, readOnly |-> TRUE, validData |-> parsed.ok,
           data |-> parsed.data, p_data |-> 0, p_ex_data |-> ptr, p_size |-> 0,
           mem_used |-> used, el_size |-> count]
  BY DEF Over, Hollow
<1>3. /\ m.readOnly /\ m.p_ex_data = ptr /\ m.p_data = 0 /\ m.data = parsed.data
      /\ m.mem_used = used /\ m.validData = parsed.ok
  <2> HIDE DEF parsed, used, count
  <2> QED BY <1>2
<1>4. \A k \in 0 .. size - 1 : Peek(block, k) = Peek(heap[ptr.block], ptr.at + k)
  BY CellsBehind
<1> HIDE DEF block
<1>5. CASE header /\ block[SIZE] = size
  <2>1. size >= HEADER_ELEMENTS /\ parsed = ParseData(block) /\ used = size
    BY <1>5
  <2> HIDE DEF parsed
  <2>2. /\ parsed.data \in Seq(Entry)
        /\ Table(parsed.data, block, 0)
        /\ Joined(parsed.data)
        /\ \A i \in DOMAIN parsed.data : EndOf(parsed.data[i]) <= size
        /\ parsed.ok => Tiled(parsed.data, size)
    BY <1>1, <2>1, ParsedFine
  <2>3. Peek(heap[ptr.block], ptr.at + SIZE) = size
    <3>1. 1 \in 0 .. size - 1 /\ block[1] = size
      BY <1>5, <2>1
    <3>2. Peek(block, 1) = block[1]
      BY <1>1, <3>1 DEF Block, Peek
    <3> QED BY <1>4, <3>1, <3>2
  <2>4. /\ Table(parsed.data, heap[ptr.block], ptr.at)
        /\ Entries(parsed.data, block) = EntriesIn(parsed.data, heap[ptr.block], ptr.at)
    BY <2>2, CellsEntries DEF block
  <2>5. Fine(m, heap[ptr.block], ptr.at)
    BY <1>3, <2>1, <2>2, <2>4 DEF Fine
  <2> QED BY <1>3, <2>1, <2>2, <2>3, <2>4, <2>5 DEF Received, block
<1>6. CASE ~(header /\ block[SIZE] = size)
  <2>1. parsed = none
    BY <1>6
  <2>2. m.data = << >> /\ m.validData = FALSE /\ << >> \in Seq(Entry)
    <3> HIDE DEF parsed
    <3> QED BY <1>3, <2>1
  <2>3. Fine(m, heap[ptr.block], ptr.at)
    <3>1. DOMAIN m.data = {}
      BY <2>2
    <3> QED BY <1>3, <2>2, <3>1 DEF Fine, Table, Apart
  <2>4. Entries(m.data, CellsAt(ptr, size)) = EntriesIn(m.data, heap[ptr.block], ptr.at)
    <3>1. DOMAIN m.data = {}
      BY <2>2
    <3> QED BY <3>1, Zenon DEF Entries, EntriesIn
  <2> QED BY <1>3, <2>2, <2>3, <2>4 DEF Received
<1> QED BY <1>5, <1>6

(* What an owner of whom something is promised is. *)
LEMMA OwnerKept ==
  ASSUME OwnerInv, FaithInv, NEW w \in Objects, said[w].ok, ~obj[w].readOnly
  PROVE  /\ obj[w].p_data # 0 /\ obj[w].p_data \in Blocks /\ obj[w].data \in Seq(Entry)
         /\ heap[obj[w].p_data] \in Block(obj[w].p_size)
         /\ obj[w].p_size \in Nat /\ obj[w].mem_used \in Nat
         /\ Table(obj[w].data, heap[obj[w].p_data], 0)
         /\ OwnerFine(obj[w], heap[obj[w].p_data])
         /\ said[w].entries = EntriesIn(obj[w].data, heap[obj[w].p_data], 0)
<1>1. SourceData(obj[w]).block = obj[w].p_data /\ SourceData(obj[w]).at = 0
  BY SomeBlock
<1>2. Keeps(w)
  BY DEF FaithInv
<1>3. /\ obj[w] \in Members /\ obj[w].p_data \in Blocks \cup {0}
      /\ obj[w].p_data # 0 => heap[obj[w].p_data] \in Block(obj[w].p_size)
  BY BlockOfObject
<1> QED BY <1>1, <1>2, <1>3 DEF Keeps, Fine, Members

(* A message over what GetData of another gives, in the message of an      *)
(* owner.                                                                  *)
LEMMA WrapWithin ==
  ASSUME OwnerInv, FaithInv, NEW w \in Objects, said[w].ok, ~obj[w].readOnly,
         NEW ptr, ptr.block = obj[w].p_data, ptr.at \in Nat, NEW size \in Nat,
         ptr.at + size <= obj[w].p_size,
         NEW m, Received(m, ptr, size),
         \/ ptr.at = 0
         \/ \E j \in DOMAIN obj[w].data :
              /\ obj[w].data[j].index <= ptr.at
              /\ Peek(heap[ptr.block], ptr.at + SIZE) >= HEADER_ELEMENTS
              /\ ptr.at + Peek(heap[ptr.block], ptr.at + SIZE) <= EndOf(obj[w].data[j])
  PROVE  Within(m.data, ptr.at, heap[ptr.block], obj[w].data)
<1> DEFINE D == obj[w].data
           b == heap[ptr.block]
           T == m.data
<1>1. /\ ptr.block # 0 /\ D \in Seq(Entry) /\ b \in Block(obj[w].p_size)
      /\ obj[w].p_size \in Nat /\ obj[w].mem_used \in Nat
      /\ Table(D, b, 0) /\ OwnerFine(obj[w], b)
  BY OwnerKept
<1>2. CASE T = << >>
  <2>1. DOMAIN T = {}
    BY <1>2
  <2> QED BY <2>1 DEF Within
<1>3. CASE T # << >>
  <2>1. /\ size >= HEADER_ELEMENTS /\ Peek(b, ptr.at + SIZE) = size
        /\ T \in Seq(Entry)
        /\ Table(T, CellsAt(ptr, size), 0) /\ Joined(T)
        /\ \A i \in DOMAIN T : EndOf(T[i]) <= size
    BY <1>3 DEF Received
  <2>2. CASE ptr.at = 0
    <3>1. Peek(b, SIZE) = size
      <4>1. ptr.at + SIZE = SIZE
        BY <2>2
      <4> QED BY <2>1, <4>1
    <3>2. size <= obj[w].mem_used
      BY <1>1, <2>2, <3>1 DEF OwnerFine
    <3>3. Tiled(D, obj[w].mem_used)
      BY <1>1 DEF OwnerFine
    <3>4. \A k \in 0 .. size - 1 : Peek(CellsAt(ptr, size), 0 + k) = Peek(b, 0 + k)
      BY <1>1, <2>2, CellsBehind
    <3> HIDE DEF D, b, T
    <3>5. \A i \in DOMAIN T : i \in DOMAIN D /\ T[i] = D[i]
      BY <1>1, <2>1, <3>2, <3>3, <3>4, ParsedFront
    <3> QED BY <2>2, <3>5 DEF Within, D, b, T
  <2>3. CASE ptr.at # 0
    BY <2>1, <2>3 DEF Within
  <2> QED BY <2>2, <2>3
<1> QED BY <1>2, <1>3

(* Two tables that fill the same cells are the same. *)
LEMMA OneTable ==
  ASSUME NEW S \in Seq(Entry), NEW T \in Seq(Entry), NEW b, NEW at, NEW n,
         Table(S, b, at), Tiled(S, n), Table(T, b, at), Tiled(T, n)
  PROVE  S = T
<1>1. n \in Nat /\ n <= n /\ (\A i \in DOMAIN S : EndOf(S[i]) <= n)
      /\ \A i \in DOMAIN T : EndOf(T[i]) <= n
  BY TiledEnds
<1>2. Joined(S) /\ Joined(T)
  BY DEF Tiled
<1>3. \A i \in DOMAIN S : i \in DOMAIN T /\ S[i] = T[i]
  BY <1>1, <1>2, ParsedFront
<1>4. \A i \in DOMAIN T : i \in DOMAIN S /\ T[i] = S[i]
  BY <1>1, <1>2, ParsedFront
<1>5. DOMAIN S = DOMAIN T
  BY <1>3, <1>4
<1>6. /\ Len(S) \in Nat /\ DOMAIN S = 1 .. Len(S)
      /\ Len(T) \in Nat /\ DOMAIN T = 1 .. Len(T)
  BY LenProperties
<1>7. Len(S) = Len(T)
  <2>1. \A i \in 1 .. Len(S) : i \in 1 .. Len(T)
    BY <1>5, <1>6
  <2>2. \A i \in 1 .. Len(T) : i \in 1 .. Len(S)
    BY <1>5, <1>6
  <2> DEFINE k == Len(S)
             l == Len(T)
  <2>3. /\ k \in Nat /\ l \in Nat
        /\ \A i \in 1 .. k : i \in 1 .. l
        /\ \A i \in 1 .. l : i \in 1 .. k
    BY <1>6, <2>1, <2>2
  <2> HIDE DEF k, l
  <2>4. k <= l
    BY <2>3
  <2>5. l <= k
    BY <2>3
  <2> QED BY <2>3, <2>4, <2>5 DEF k, l
<1>8. \A i \in 1 .. Len(S) : S[i] = T[i]
  BY <1>3, <1>6
<1> QED BY <1>7, <1>8, SeqEqual

(* What is received of a valid message is the table of its sender.         *)
LEMMA WrapSame ==
  ASSUME OwnerInv, FaithInv, NEW s \in Objects, said[s].ok,
         obj[s].validData, ~Short(obj[s]),
         NEW m, Received(m, SourceData(obj[s]), obj[s].mem_used), m.validData
  PROVE  m.data = obj[s].data
<1> DEFINE ptr == SourceData(obj[s])
           size == obj[s].mem_used
           b == heap[ptr.block]
<1>1. obj[s].data \in Seq(Entry)
  BY BlockOfObject DEF Members
<1>2. Fine(obj[s], b, ptr.at)
  BY DEF FaithInv, Keeps
<1>3. Table(obj[s].data, b, ptr.at) /\ Tiled(obj[s].data, size)
  BY <1>2 DEF Fine, OwnerFine, Short
<1>4. /\ m.data \in Seq(Entry) /\ m.readOnly /\ m.p_data = 0 /\ m.mem_used = size
      /\ Fine(m, b, ptr.at)
  BY DEF Received
<1>5. Table(m.data, b, ptr.at) /\ Tiled(m.data, size)
  BY <1>4 DEF Fine
<1> HIDE DEF size, b, ptr
<1> QED BY <1>1, <1>3, <1>4, <1>5, OneTable

LEMMA WrapFaith ==
  ASSUME OwnerInv, FaithInv, NEW o \in Objects, NEW s \in Objects, Wrap(o, s)
  PROVE  FaithInv'
<1> DEFINE ptr  == SourceData(obj[s])
           size == obj[s].mem_used
           m    == Over(ptr, size)
           sound == obj[s].validData /\ ~Short(obj[s]) /\ said[s].ok
           told == IF sound /\ m.validData THEN said[s]
                   ELSE Says(Entries(m.data, CellsAt(ptr, size)))
<1>1. /\ ~obj[o].alive /\ Live(s) /\ size > 0
      /\ ptr.at + size <= Cells(heap[ptr.block])
      /\ Set(o, m, heap, told)
  BY Zenon DEF Wrap
<1>2. obj[s] \in Members /\ size \in Nat /\ ptr \in Pointers /\ ptr.block # 0
  BY <1>1, BlockOfObject, SourcePointer DEF Members, Live
<1>3. ptr.at \in Nat
  <2>1. CASE obj[s].readOnly
    <3>1. said[s].ok /\ Keeps(s)
      BY <1>1, <2>1 DEF Live, FaithInv
    <3> QED BY <3>1 DEF Keeps, Fine
  <2>2. CASE ~obj[s].readOnly
    BY <2>2, SomeBlock
  <2> QED BY <2>1, <2>2
<1> HIDE DEF ptr, size
<1>4. Received(m, ptr, size)
  BY <1>2, <1>3, OverReceived
<1> HIDE DEF m
<1>5. /\ m.readOnly /\ m.p_ex_data = ptr /\ SourceData(m) = ptr
      /\ Fine(m, heap[ptr.block], ptr.at)
      /\ told.entries = EntriesIn(m.data, heap[ptr.block], ptr.at)
      /\ Promise(told)
  <2>1. /\ m.readOnly /\ m.p_ex_data = ptr /\ SourceData(m) = ptr
        /\ Fine(m, heap[ptr.block], ptr.at)
    BY <1>4 DEF Received, SourceData
  <2>2. CASE sound /\ m.validData
    <3>1. m.data = obj[s].data
      BY <1>4, <2>2, WrapSame DEF ptr, size
    <3>2. said[s].entries = EntriesIn(obj[s].data, heap[ptr.block], ptr.at)
      BY <2>2 DEF FaithInv, Keeps, ptr
    <3>3. Promise(said[s])
      BY DEF FaithInv, Recorded
    <3> QED BY <2>1, <2>2, <3>1, <3>2, <3>3
  <2>3. CASE ~(sound /\ m.validData)
    <3>1. told = Says(Entries(m.data, CellsAt(ptr, size)))
      BY <2>3
    <3>2. Entries(m.data, CellsAt(ptr, size)) = EntriesIn(m.data, heap[ptr.block], ptr.at)
      BY <1>4 DEF Received
    <3> HIDE DEF told
    <3> QED BY <2>1, <3>1, <3>2, SaysPromise
  <2> QED BY <2>2, <2>3
<1> HIDE DEF told
<1> DEFINE objects == [obj EXCEPT ![o] = m]
           promised == [said EXCEPT ![o] = told]
<1>6. Becomes(objects, heap, promised, {})
  BY <1>1 DEF Set
<1>7. obj' = objects /\ heap' = heap
  BY <1>6 DEF Becomes
<1>8. DOMAIN obj = Objects /\ DOMAIN said = Objects
  BY DEF OwnerInv, Typed, FaithInv, Recorded
<1>9. /\ promised[o] = told /\ obj'[o] = m
      /\ \A v \in Objects \ {o} : promised[v] = said[v] /\ obj'[v] = obj[v]
  BY <1>7, <1>8
<1> HIDE DEF objects, promised
<1>10. \A v \in Objects : Promise(promised[v])
  BY <1>5, <1>9 DEF FaithInv, Recorded
<1>11. Recorded' /\ \A v \in Objects : said'[v].ok => said'[v] = promised[v]
  BY <1>6, <1>10, BecomesSaid
<1>12. ASSUME NEW v \in Objects \ {o}, said'[v].ok
       PROVE  said'[v] = said[v] /\ said[v].ok /\ obj'[v] = obj[v] /\ Came(v, v)
  <2>1. said'[v] = said[v] /\ said[v].ok /\ obj'[v] = obj[v]
    BY <1>9, <1>11, <1>12
  <2> QED BY <1>7, <2>1 DEF Came
<1>13. Keeps(o)'
  BY <1>2, <1>5, <1>7, <1>9, <1>11 DEF Keeps
<1>14. ASSUME NEW w \in Objects
       PROVE  View(o, w)' /\ View(w, o)'
  <2>1. View(w, o)'
    BY <1>5, <1>9 DEF View
  <2>2. View(o, w)'
    <3> SUFFICES ASSUME said'[w].ok, ~obj'[w].readOnly, ptr.block = obj'[w].p_data
                 PROVE  Within(m.data, ptr.at, heap[ptr.block], obj'[w].data)
      BY <1>5, <1>7, <1>9 DEF View
    <3>1. w # o
      BY <1>5, <1>9
    <3>2. said[w].ok /\ obj'[w] = obj[w]
      BY <1>12, <3>1
    <3>3. ~obj[w].readOnly /\ ptr.block = obj[w].p_data
      BY <3>2
    <3>4. ptr.at + size <= obj[w].p_size
      <4>1. heap[obj[w].p_data] \in Block(obj[w].p_size) /\ obj[w].p_size \in Nat
        BY <3>2, <3>3, OwnerKept
      <4> QED BY <1>1, <3>3, <4>1, CellsOfBlock
    <3>5. \/ ptr.at = 0
          \/ \E j \in DOMAIN obj[w].data :
               /\ obj[w].data[j].index <= ptr.at
               /\ Peek(heap[ptr.block], ptr.at + SIZE) >= HEADER_ELEMENTS
               /\ ptr.at + Peek(heap[ptr.block], ptr.at + SIZE) <= EndOf(obj[w].data[j])
      <4>1. CASE ~obj[s].readOnly
        BY <4>1, SomeBlock DEF ptr
      <4>2. CASE obj[s].readOnly
        <5>1. said[s].ok /\ View(s, w) /\ ptr = obj[s].p_ex_data
          BY <1>1, <4>2 DEF Live, FaithInv, ptr, SourceData
        <5>2. Within(obj[s].data, ptr.at, heap[ptr.block], obj[w].data)
          BY <3>2, <3>3, <4>2, <5>1 DEF View
        <5> QED BY <5>2 DEF Within
      <4> QED BY <4>1, <4>2
    <3>6. Within(m.data, ptr.at, heap[ptr.block], obj[w].data)
      BY <1>2, <1>3, <1>4, <3>2, <3>3, <3>4, <3>5, WrapWithin
    <3> QED BY <3>2, <3>6
  <2> QED BY <2>1, <2>2
<1> DEFINE X == {o}
<1>15. \A v \in Objects \ X : said'[v].ok => \E u \in Objects : Came(v, u)
  BY <1>12
<1>16. \A x \in Objects \cap X : x = o
  OBVIOUS
<1> HIDE DEF X
<1>17. \A x \in Objects \cap X : Keeps(x)'
  BY <1>13, <1>16
<1>18. \A x \in Objects \cap X, w \in Objects : View(x, w)' /\ View(w, x)'
  BY <1>14, <1>16
<1> QED BY <1>11, <1>15, <1>17, <1>18, Settle

(* item is what size cells at offset at behind ptr say. *)
Behind(item, ptr, at, size) ==
  /\ Len(item) = size
  /\ \A c \in 0 .. size - 1 : item[c + 1] = Peek(heap[ptr.block], ptr.at + (at + c))

(* The parts of a value, as they lie in the block. *)
PartIn(o, part, item) ==
  \E k \in DOMAIN obj[o].data :
    LET e == obj[o].data[k]
    IN /\ part.at \in Nat /\ part.size \in Nat
       /\ e.index <= part.at /\ part.at + part.size <= EndOf(e)
       /\ Behind(item, SourceData(obj[o]), part.at, part.size)

(* The message over a part of o, in the message of the owner. *)
LEMMA PartWithin ==
  ASSUME OwnerInv, FaithInv, NEW o \in Objects, said[o].ok,
         NEW k \in DOMAIN obj[o].data,
         NEW ptr, ptr = SourceData(obj[o]),
         NEW at \in Nat, NEW size \in Nat,
         obj[o].data[k].index <= at, at + size <= EndOf(obj[o].data[k]),
         NEW to, to.block = ptr.block, to.at = ptr.at + at,
         NEW m, Received(m, to, size), m.validData,
         NEW w \in Objects, said[w].ok, ~obj[w].readOnly, obj[w].p_data = ptr.block
  PROVE  Within(m.data, to.at, heap[to.block], obj[w].data)
<1> DEFINE D == obj[w].data
           b == heap[ptr.block]
           T == obj[o].data
<1>1. /\ ptr.block # 0 /\ D \in Seq(Entry)
      /\ Table(D, b, 0)
  BY OwnerKept
<1>2. /\ size >= HEADER_ELEMENTS /\ Peek(b, to.at + SIZE) = size
      /\ \A i \in DOMAIN m.data : EndOf(m.data[i]) <= size
  BY DEF Received
<1>3. SUFFICES \E j \in DOMAIN D : D[j].index <= to.at /\ to.at + size <= EndOf(D[j])
  BY <1>2 DEF Within
<1>4. T \in Seq(Entry) /\ Table(T, b, ptr.at) /\ ptr.at \in Nat
  <2>1. obj[o] \in Members /\ Keeps(o)
    BY BlockOfObject DEF FaithInv
  <2> QED BY <2>1 DEF Keeps, Fine, Members
<1>5. T[k].index \in Nat /\ EndOf(T[k]) \in Nat
  BY <1>4, TableEnds
<1>6. CASE ~obj[o].readOnly
  <2>1. ptr.at = 0 /\ obj[o].p_data = ptr.block
    BY <1>6, SomeBlock
  <2>2. o = w
    BY <1>1, <2>1 DEF OwnerInv, OneOwner
  <2>3. to.at = at
    BY <2>1
  <2> QED BY <2>2, <2>3
<1>7. CASE obj[o].readOnly
  <2>1. ptr = obj[o].p_ex_data /\ View(o, w)
    BY <1>7 DEF SourceData, FaithInv
  <2>2. Within(T, ptr.at, b, D)
    BY <1>7, <2>1 DEF View
  <2>3. CASE ptr.at = 0 /\ \A i \in DOMAIN T : \E j \in DOMAIN D : T[i] = D[j]
    <3>1. PICK j \in DOMAIN D : T[k] = D[j]
      BY <2>3
    <3>2. to.at = at
      BY <2>3
    <3> QED BY <3>1, <3>2
  <2>4. ASSUME NEW j \in DOMAIN D,
               /\ D[j].index <= ptr.at
               /\ Peek(b, ptr.at + SIZE) >= HEADER_ELEMENTS
               /\ ptr.at + Peek(b, ptr.at + SIZE) <= EndOf(D[j])
               /\ \A i \in DOMAIN T : EndOf(T[i]) <= Peek(b, ptr.at + SIZE)
        PROVE  D[j].index <= to.at /\ to.at + size <= EndOf(D[j])
    <3>1. D[j].index \in Nat /\ EndOf(D[j]) \in Nat
      BY <1>1, TableEnds
    <3>2. Peek(b, ptr.at + SIZE) \in Nat
      <4>1. obj[w].p_data \in Blocks /\ IsBlock(b)
        BY OwnerKept, CellsOfBlock
      <4> QED BY <4>1, PeekCell
    <3>3. EndOf(T[k]) <= Peek(b, ptr.at + SIZE)
      BY <2>4
    <3> DEFINE p == Peek(b, ptr.at + SIZE)
               x == EndOf(T[k])
               lo == D[j].index
               hi == EndOf(D[j])
    <3>4. /\ lo \in Nat /\ hi \in Nat /\ p \in Nat /\ x \in Nat /\ x <= p
          /\ lo <= ptr.at /\ ptr.at + p <= hi /\ at + size <= x
      BY <1>5, <2>4, <3>1, <3>2, <3>3
    <3> HIDE DEF p, x, lo, hi
    <3>5. lo <= to.at /\ to.at + size <= hi
      BY <1>4, <3>4
    <3> QED BY <3>5 DEF lo, hi
  <2> QED BY <2>2, <2>3, <2>4 DEF Within
<1> QED BY <1>6, <1>7

(* What a received message says is what the bytes that were put there say. *)
LEMMA PartSays ==
  ASSUME NEW ptr, ptr.block # 0, NEW at \in Nat, NEW size \in Nat, ptr.at \in Nat,
         NEW to, to.block = ptr.block, to.at = ptr.at + at,
         NEW item, Behind(item, ptr, at, size),
         NEW m, Received(m, to, size), m.validData
  PROVE  SaysOf(item) = Says(EntriesIn(m.data, heap[to.block], to.at))
<1>0. /\ Len(item) = size
      /\ \A c \in 0 .. size - 1 : item[c + 1] = Peek(heap[ptr.block], ptr.at + (at + c))
  BY DEF Behind
<1> DEFINE block == [c \in 0 .. Len(item) - 1 |-> item[c + 1]]
<1>1. block = CellsAt(to, size)
  <2>1. ASSUME NEW c \in 0 .. size - 1
        PROVE  item[c + 1] = CellAt(to, c)
    <3>1. ptr.at + (at + c) = (ptr.at + at) + c
      OBVIOUS
    <3>2. item[c + 1] = Peek(heap[ptr.block], ptr.at + (at + c))
      BY <1>0
    <3> QED BY <3>1, <3>2 DEF CellAt
  <2>2. [c \in 0 .. size - 1 |-> item[c + 1]] = [c \in 0 .. size - 1 |-> CellAt(to, c)]
    BY <2>1
  <2> QED BY <1>0, <2>2, Zenon DEF CellsAt
<1>2. SaysOf(item) = Says(Entries(ParseData(block).data, block))
  BY DEF SaysOf
<1> HIDE DEF block
<1>3. m.data = ParseData(CellsAt(to, size)).data
      /\ Entries(m.data, CellsAt(to, size)) = EntriesIn(m.data, heap[to.block], to.at)
  BY DEF Received
<1> QED BY <1>1, <1>2, <1>3

LEMMA TakeOutFaith ==
  ASSUME OwnerInv, FaithInv, NEW o \in Objects, NEW dest \in Seq(Objects),
         NEW parts, NEW items,
         \A i \in DOMAIN dest : said[o].ok /\ i \in DOMAIN items => PartIn(o, parts[i], items[i]),
         TakeOut(o, parts, items, dest)
  PROVE  FaithInv'
<1> DEFINE ptr == SourceData(obj[o])
           To(i) == [ptr EXCEPT !.at = @ + parts[i].at]
           Item(i) == Over(To(i), parts[i].size)
           Told(i) == IF said[o].ok /\ Item(i).validData /\ i \in DOMAIN items
                      THEN SaysOf(items[i]) ELSE Nothing
           Position(d) == CHOOSE i \in DOMAIN dest : dest[i] = d
           X == Range(dest)
           objects == [d \in Objects |-> IF d \in X THEN Item(Position(d)) ELSE obj[d]]
           h == [b \in Blocks |-> IF \E d \in X : obj[d].p_data = b THEN NULL ELSE heap[b]]
           promised == [d \in Objects |-> IF d \in X THEN Told(Position(d)) ELSE said[d]]
<1>1. Becomes(objects, h, promised, {})
  BY Zenon DEF TakeOut
<1>2. obj' = objects /\ heap' = h
  BY <1>1, Zenon DEF Becomes
<1>3. X \subseteq Objects /\ \A d \in X : Position(d) \in DOMAIN dest
  BY RangeOfVector, Zenon
<1>4. \A d \in Objects :
        /\ d \in X => obj'[d] = Item(Position(d)) /\ promised[d] = Told(Position(d))
        /\ d \notin X => obj'[d] = obj[d] /\ promised[d] = said[d]
  BY <1>2, Zenon
<1>5. \A b \in Blocks : heap'[b] = NULL \/ heap'[b] = heap[b]
  BY <1>2
<1>6. \A v \in Objects \ X : obj[v].p_data # 0 => heap'[obj[v].p_data] = heap[obj[v].p_data]
  <2> TAKE v \in Objects \ X
  <2> HAVE obj[v].p_data # 0
  <2>1. obj[v].p_data \in Blocks
    BY BlockOfObject
  <2>2. \A d \in Objects : obj[d].p_data = obj[v].p_data => d = v
    BY DEF OwnerInv, OneOwner
  <2>3. ~ \E d \in X : obj[d].p_data = obj[v].p_data
    BY <1>3, <2>2
  <2> QED BY <1>2, <2>1, <2>3
<1>7. \A i :
        /\ Promise(Told(i))
        /\ Told(i).ok => /\ said[o].ok /\ Item(i).validData /\ i \in DOMAIN items
                         /\ Told(i) = SaysOf(items[i])
  <2> TAKE i
  <2>1. Promise(SaysOf(items[i]))
    BY SaysPromise DEF SaysOf
  <2> QED BY <2>1, SaysPromise
<1> HIDE DEF objects, h, promised, Item, Told, Position, X
<1>8. \A v \in Objects : Promise(promised[v])
  BY <1>4, <1>7 DEF FaithInv, Recorded
<1>9. /\ Recorded'
      /\ \A v \in Objects : said'[v].ok =>
           /\ said'[v] = promised[v]
           /\ obj'[v].readOnly =>
                obj'[v].p_ex_data = Nowhere \/ heap'[obj'[v].p_ex_data.block] # NULL
  BY <1>1, <1>2, <1>8, BecomesSaid
<1>10. ASSUME NEW v \in Objects \ X, said'[v].ok
       PROVE  Came(v, v) /\ said[v].ok /\ obj'[v] = obj[v]
  <2> DEFINE d == SourceData(obj[v]).block
  <2>1. said'[v] = said[v] /\ said[v].ok /\ obj'[v] = obj[v]
    BY <1>4, <1>9, <1>10
  <2>2. d # 0 /\ d \in Blocks
    <3>1. Keeps(v)
      BY DEF FaithInv
    <3> QED BY <2>1, <3>1, SomeBlock DEF Keeps
  <2>3. heap'[d] = heap[d]
    <3>1. CASE obj[v].readOnly
      <4>1. d = obj[v].p_ex_data.block /\ obj[v].p_ex_data # Nowhere
        BY <2>2, <3>1, SomeBlock
      <4> QED BY <1>5, <1>9, <1>10, <2>1, <2>2, <3>1, <4>1
    <3>2. CASE ~obj[v].readOnly
      <4>1. d = obj[v].p_data
        BY <3>2, SomeBlock
      <4> QED BY <1>6, <2>2, <4>1
    <3> QED BY <3>1, <3>2
  <2> QED BY <2>1, <2>3 DEF Came
(* The messages that are put into dest. *)
<1>11. ASSUME NEW x \in Objects \cap X, said'[x].ok
       PROVE  /\ Keeps(x)' /\ obj'[x].readOnly
              /\ \A w \in Objects : said[w].ok /\ ~obj[w].readOnly
                   /\ obj[w].p_data = obj'[x].p_ex_data.block =>
                   Within(obj'[x].data, obj'[x].p_ex_data.at,
                          heap[obj[w].p_data], obj[w].data)
              /\ obj'[x].p_ex_data.block # 0 /\ obj'[x].p_ex_data.block \in Blocks
              /\ heap'[obj'[x].p_ex_data.block] = heap[obj'[x].p_ex_data.block]
  <2> DEFINE i == Position(x)
             m == Item(i)
             to == To(i)
  <2>1. i \in DOMAIN dest
    BY <1>3
  <2> HIDE DEF i
  <2>2. obj'[x] = m /\ said'[x] = Told(i)
    BY <1>4, <1>9, <1>11 DEF i
  <2>3. said[o].ok /\ m.validData /\ i \in DOMAIN items /\ said'[x] = SaysOf(items[i])
    BY <1>7, <1>11, <2>2
  <2>4. PartIn(o, parts[i], items[i])
    BY <2>1, <2>3
  <2> DEFINE at == parts[i].at
             size == parts[i].size
  <2>5. PICK k \in DOMAIN obj[o].data :
          /\ at \in Nat /\ size \in Nat
          /\ obj[o].data[k].index <= at /\ at + size <= EndOf(obj[o].data[k])
          /\ Behind(items[i], ptr, at, size)
    BY <2>4 DEF PartIn
  <2>6. ptr \in Pointers /\ ptr.block # 0 /\ ptr.at \in Nat /\ ptr.block \in Blocks
    <3>1. Keeps(o)
      BY DEF FaithInv
    <3>2. ptr \in Pointers
      BY BlockOfObject, SourcePointer
    <3>3. ptr.block # 0 /\ ptr.at \in Nat
      BY <2>3, <3>1 DEF Keeps, Fine
    <3> QED BY <3>2, <3>3 DEF Pointers
  <2> HIDE DEF ptr
  <2>7. to \in Pointers /\ to.block = ptr.block /\ to.at = ptr.at + at /\ to.at \in Nat
    <3>1. to = [ptr EXCEPT !.at = @ + at]
      OBVIOUS
    <3> HIDE DEF to, at
    <3> QED BY <2>5, <2>6, <3>1 DEF Pointers
  <2>8. m = Over(to, size)
    BY DEF Item
  <2> HIDE DEF m, to, at, size
  <2>9. Received(m, to, size)
    BY <2>5, <2>6, <2>7, <2>8, OverReceived
  <2>10. m.readOnly /\ m.p_ex_data = to /\ Fine(m, heap[to.block], to.at)
    BY <2>9 DEF Received
  <2>11. heap'[to.block] = heap[to.block]
    <3>1. to # Nowhere
      BY <2>6, <2>7 DEF Nowhere
    <3> QED BY <1>5, <1>9, <1>11, <2>2, <2>6, <2>7, <2>10, <3>1
  <2>12. said'[x].entries = EntriesIn(m.data, heap[to.block], to.at)
    <3> DEFINE item == items[i]
    <3>1. Behind(item, ptr, at, size) /\ said'[x] = SaysOf(item)
      BY <2>3, <2>5
    <3> HIDE DEF item
    <3>2. SaysOf(item) = Says(EntriesIn(m.data, heap[to.block], to.at))
      BY <2>3, <2>5, <2>6, <2>7, <2>9, <3>1, PartSays
    <3> QED BY <3>1, <3>2, SaysPromise
  <2>13. Keeps(x)'
    <3>1. SourceData(m) = to
      BY <2>10 DEF SourceData
    <3> QED BY <2>2, <2>6, <2>7, <2>10, <2>11, <2>12, <3>1 DEF Keeps
  <2>14. ASSUME NEW w \in Objects, said[w].ok, ~obj[w].readOnly, obj[w].p_data = to.block
         PROVE  Within(m.data, to.at, heap[to.block], obj[w].data)
    <3>1. ptr = SourceData(obj[o])
      BY DEF ptr
    <3> QED BY <2>3, <2>5, <2>7, <2>9, <2>14, <3>1, PartWithin
  <2> QED BY <2>2, <2>6, <2>7, <2>10, <2>11, <2>13, <2>14
<1>12. ASSUME NEW x \in Objects \cap X
       PROVE  Keeps(x)'
  <2>1. CASE said'[x].ok
    BY <1>11, <2>1
  <2>2. CASE ~said'[x].ok
    BY <2>2 DEF Keeps
  <2> QED BY <2>1, <2>2
<1>13. ASSUME NEW x \in Objects \cap X, NEW w \in Objects
       PROVE  View(x, w)' /\ View(w, x)'
  <2>1. View(w, x)'
    BY <1>11 DEF View
  <2>2. View(x, w)'
    <3> SUFFICES ASSUME said'[x].ok, said'[w].ok, ~obj'[w].readOnly,
                        obj'[x].p_ex_data.block = obj'[w].p_data
                 PROVE  Within(obj'[x].data, obj'[x].p_ex_data.at,
                               heap'[obj'[w].p_data], obj'[w].data)
      BY DEF View
    <3>1. w \notin X
      BY <1>11
    <3>2. said[w].ok /\ obj'[w] = obj[w]
      BY <1>10, <3>1
    <3>3. heap'[obj[w].p_data] = heap[obj[w].p_data]
      BY <1>11, <3>2
    <3> QED BY <1>11, <3>2, <3>3
  <2> QED BY <2>1, <2>2
<1>14. \A v \in Objects \ X : said'[v].ok => \E u \in Objects : Came(v, u)
  BY <1>10
<1> QED BY <1>9, <1>12, <1>13, <1>14, Settle

-----------------------------------------------------------------------------
(* GetMessage and GetMessageArray. *)

(* What was put into o under a name lies where its element is. *)
LEMMA PutBehind ==
  ASSUME OwnerInv, FaithInv, NEW o \in Objects, said[o].ok,
         NEW name, Find(obj[o], name) # 0,
         NEW e, e = obj[o].data[Find(obj[o], name)]
  PROVE  /\ Find(obj[o], name) \in DOMAIN obj[o].data
         /\ e.index \in Nat /\ e.size \in Nat /\ EndOf(e) = e.index + e.size
         /\ PutInto(o, name) \in Seq(Nat)
         /\ Behind(PutInto(o, name), SourceData(obj[o]), e.index, e.size)
<1> DEFINE k == Find(obj[o], name)
           ptr == SourceData(obj[o])
           T == obj[o].data
           b == heap[ptr.block]
           value == [i \in 1 .. e.size |-> Peek(b, ptr.at + (e.index + i - 1))]
<1>1. obj[o] \in Members /\ T \in Seq(Entry)
  BY BlockOfObject DEF Members
<1>2. k \in DOMAIN T
  BY <1>1, FoundEntry
<1>3. /\ ptr.block # 0 /\ ptr.at \in Nat /\ Table(T, b, ptr.at)
      /\ said[o].entries = EntriesIn(T, b, ptr.at)
  BY DEF FaithInv, Keeps, Fine
<1> HIDE DEF k, ptr
<1>4. /\ e.index \in Nat /\ e.size \in Nat /\ EndOf(e) = e.index + e.size
  BY <1>1, <1>2, <1>3, TableEnds DEF k
<1>5. PutInto(o, name) = value
  <2>1. said[o].entries[k] = EntryIn(e, b, ptr.at)
    <3> HIDE DEF b
    <3> QED BY <1>2, <1>3 DEF EntriesIn, k
  <2>2. PutInto(o, name) = said[o].entries[k].value
    BY Zenon DEF PutInto, k
  <2> QED BY <2>1, <2>2 DEF EntryIn
<1>6. IsBlock(b)
  <2>1. ptr.block \in Blocks
    BY <1>1, <1>3, SourcePointer DEF Pointers, ptr
  <2> QED BY <2>1, MemoryBlock DEF OwnerInv, Typed
<1>7. \A j : Peek(b, j) \in Nat
  BY <1>6, PeekCell
<1> HIDE DEF b
<1>8. value \in [1 .. e.size -> Nat]
  BY <1>7
<1>9. value \in Seq(Nat) /\ Len(value) = e.size
  <2> DEFINE n == e.size
  <2>1. n \in Nat /\ value \in [1 .. n -> Nat]
    BY <1>4, <1>8
  <2> HIDE DEF value, n
  <2>2. value \in Seq(Nat)
    BY <2>1, SeqDef
  <2>3. Len(value) = n
    BY <2>1, <2>2, LenProperties
  <2> QED BY <2>2, <2>3 DEF n
<1>10. ASSUME NEW c \in 0 .. e.size - 1
       PROVE  value[c + 1] = Peek(b, ptr.at + (e.index + c))
  <2>1. c + 1 \in 1 .. e.size /\ e.index + (c + 1) - 1 = e.index + c
    BY <1>4
  <2> QED BY <2>1
<1> HIDE DEF value
<1>11. Behind(value, ptr, e.index, e.size)
  BY <1>9, <1>10 DEF Behind, b
<1> QED BY <1>2, <1>4, <1>5, <1>9, <1>11 DEF k, ptr

LEMMA GetMessageFaith ==
  ASSUME OwnerInv, FaithInv, NEW o \in Objects, NEW name, NEW dest \in Objects,
         GetMessage(o, name, dest)
  PROVE  FaithInv'
<1> DEFINE e == obj[o].data[Find(obj[o], name)]
           parts == <<[at |-> e.index, size |-> e.size]>>
           items == <<PutInto(o, name)>>
           vector == <<dest>>
<1>1. TakeOut(o, parts, items, vector) /\ Find(obj[o], name) # 0
  BY Zenon DEF GetMessage, Retrieves
<1>2. vector \in Seq(Objects) /\ \A i \in DOMAIN vector : i = 1
  OBVIOUS
<1>3. said[o].ok => PartIn(o, parts[1], items[1])
  <2> SUFFICES ASSUME said[o].ok PROVE PartIn(o, parts[1], items[1])
    OBVIOUS
  <2> DEFINE item == PutInto(o, name)
  <2>1. /\ Find(obj[o], name) \in DOMAIN obj[o].data
        /\ e.index \in Nat /\ e.size \in Nat /\ EndOf(e) = e.index + e.size
        /\ Behind(item, SourceData(obj[o]), e.index, e.size)
    BY <1>1, PutBehind
  <2>2. parts[1].at = e.index /\ parts[1].size = e.size /\ items[1] = item
    BY Zenon
  <2>3. e.index <= parts[1].at /\ parts[1].at + parts[1].size <= EndOf(e)
    <3> HIDE DEF e
    <3> QED BY <2>1, <2>2
  <2> HIDE DEF parts, items, item
  <2> QED BY <2>1, <2>2, <2>3 DEF PartIn
<1> HIDE DEF parts, items, vector
<1>4. \A i \in DOMAIN vector : said[o].ok /\ i \in DOMAIN items => PartIn(o, parts[i], items[i])
  BY <1>2, <1>3
<1> QED BY <1>1, <1>2, <1>4, TakeOutFaith

(* Two sequences, one behind the other. *)
LEMMA Joining ==
  ASSUME NEW s \in Seq(Nat), NEW t \in Seq(Nat), NEW r, r = s \o t,
         NEW n, n = Len(s), NEW m, m = Len(t)
  PROVE  /\ r \in Seq(Nat) /\ Len(r) = n + m
         /\ \A j \in 1 .. n : r[j] = s[j]
         /\ \A j \in 1 .. m : r[j + n] = t[j]
<1>1. n \in Nat /\ m \in Nat
  BY LenProperties
<1>2. /\ r \in Seq(Nat) /\ Len(r) = n + m
      /\ \A j \in 1 .. n + m : r[j] = IF j <= n THEN s[j] ELSE t[j - n]
  BY ConcatProperties
<1>3. ASSUME NEW j \in 1 .. n
      PROVE  r[j] = s[j]
  BY <1>1, <1>2
<1>4. ASSUME NEW j \in 1 .. m
      PROVE  r[j + n] = t[j]
  <2>1. j + n \in 1 .. n + m /\ ~(j + n <= n) /\ (j + n) - n = j
    BY <1>1
  <2>2. r[j + n] = t[(j + n) - n]
    BY <1>2, <2>1
  <2> QED BY <2>1, <2>2
<1> QED BY <1>2, <1>3, <1>4

(* x lies in bytes behind the first s of them. *)
Inside(x, bytes, s) ==
  /\ s + Len(x) <= Len(bytes)
  /\ \A c \in 0 .. Len(x) - 1 : x[c + 1] = bytes[(s + c) + 1]

(* Where the items of an array lie in its bytes. *)
LEMMA ArrayInside ==
  ASSUME NEW bytes \in Seq(Nat), NEW i \in DOMAIN ItemsOf(bytes)
  PROVE  LET items == ItemsOf(bytes)
             x == items[1]
             y == items[2]
         IN /\ i \in {1, 2} /\ x \in Seq(Nat)
            /\ bytes[1] = Len(items) /\ bytes[2] = Len(x) /\ Inside(x, bytes, 2)
            /\ i = 1 \/ /\ Len(items) = 2 /\ y \in Seq(Nat)
                        /\ bytes[Len(x) + 3] = Len(y)
                        /\ Inside(y, bytes, Len(x) + 3)
<1> DEFINE single == SubSeq(bytes, 3, Len(bytes))
           first(c) == SubSeq(bytes, 3, c)
           second(c) == SubSeq(bytes, c + 2, Len(bytes))
           made == {items \in {<<single>>} \cup {<<first(c), second(c)>> : c \in 3 .. Len(bytes)} :
                      ArrayBytes(items) = bytes}
           items == ItemsOf(bytes)
<1>1. items = IF made = {} THEN << >> ELSE CHOOSE d \in made : TRUE
  BY Zenon DEF ItemsOf
<1>2. made # {}
  <2>1. CASE made = {}
    <3>1. items = << >>
      BY <1>1, <2>1
    <3> QED BY <3>1
  <2> QED BY <2>1
<1>3. items \in made
  <2> HIDE DEF made
  <2> QED BY <1>1, <1>2, Zenon
<1>4. ArrayBytes(items) = bytes
  BY <1>3
<1>5. items = <<single>> \/ \E c \in 3 .. Len(bytes) : items = <<first(c), second(c)>>
  BY <1>3
<1> HIDE DEF items
<1>6. Len(bytes) \in Nat /\ \A j \in 1 .. Len(bytes) : bytes[j] \in Nat
  BY LenProperties, ElementOfSeq
<1>7. /\ single \in Seq(Nat)
      /\ \A c \in 3 .. Len(bytes) : first(c) \in Seq(Nat) /\ second(c) \in Seq(Nat)
  <2>1. ASSUME NEW p \in Nat, NEW q \in Nat, p >= 1, q <= Len(bytes)
        PROVE  SubSeq(bytes, p, q) \in Seq(Nat)
    <3>1. \A j \in p .. q : bytes[j] \in Nat
      BY <1>6, <2>1
    <3> QED BY <1>6, <2>1, <3>1, SubSeqProperties
  <2> QED BY <1>6, <2>1
<1> HIDE DEF single, first, second
<1>8. ASSUME NEW x \in Seq(Nat), items = <<x>>
      PROVE  /\ i = 1 /\ items[1] = x /\ Len(items) = 1
             /\ bytes[1] = 1 /\ bytes[2] = Len(x) /\ Inside(x, bytes, 2)
  <2>1. items \in [1 .. 1 -> Seq(Nat)] /\ items[1] = x /\ i = 1 /\ Len(items) = 1
    BY <1>8 DEF items
  <2>2. bytes = <<1>> \o (<<Len(x)>> \o x)
    BY <1>4, <2>1, ArrayMade
  <2>3. Len(x) \in Nat
    BY LenProperties
  <2>4. /\ Len(bytes) = Len(x) + 2 /\ bytes[1] = 1 /\ bytes[2] = Len(x)
        /\ \A c \in 0 .. Len(x) - 1 : bytes[(2 + c) + 1] = x[c + 1]
    BY <2>2, <2>3
  <2>5. Inside(x, bytes, 2)
    BY <2>3, <2>4 DEF Inside
  <2> QED BY <2>1, <2>4, <2>5
<1>9. ASSUME NEW x \in Seq(Nat), NEW y \in Seq(Nat), items = <<x, y>>
      PROVE  /\ i \in {1, 2} /\ items[1] = x /\ items[2] = y /\ Len(items) = 2
             /\ bytes[1] = 2 /\ bytes[2] = Len(x) /\ Inside(x, bytes, 2)
             /\ bytes[Len(x) + 3] = Len(y) /\ Inside(y, bytes, Len(x) + 3)
  <2>1. /\ items \in [1 .. 2 -> Seq(Nat)] /\ items[1] = x /\ items[2] = y
        /\ i \in {1, 2} /\ Len(items) = 2
    BY <1>9 DEF items
  <2> DEFINE front == <<Len(x)>> \o x
             back == <<Len(y)>> \o y
  <2>2. bytes = <<2>> \o (front \o back)
    <3>1. 2 \in {1, 2} /\ 2 = 2
      OBVIOUS
    <3>2. ArrayBytes(items) =
            <<2>> \o ((<<Len(items[1])>> \o items[1]) \o (<<Len(items[2])>> \o items[2]))
      BY <2>1, <3>1, ArrayMade, Zenon
    <3> QED BY <1>4, <2>1, <3>2, Zenon
  <2>3. Len(x) \in Nat /\ Len(y) \in Nat
    BY LenProperties
  <2>4. /\ front \in Seq(Nat) /\ Len(front) = Len(x) + 1 /\ front[1] = Len(x)
        /\ \A c \in 0 .. Len(x) - 1 : front[c + 2] = x[c + 1]
    BY <2>3
  <2>5. /\ back \in Seq(Nat) /\ Len(back) = Len(y) + 1 /\ back[1] = Len(y)
        /\ \A c \in 0 .. Len(y) - 1 : back[c + 2] = y[c + 1]
    BY <2>3
  <2> HIDE DEF front, back
  <2> DEFINE p == Len(x)
             q == Len(y)
  <2>6. /\ Len(bytes) = p + q + 3 /\ bytes[1] = 2
        /\ \A j \in 1 .. p + 1 : bytes[j + 1] = front[j]
        /\ \A j \in 1 .. q + 1 : bytes[j + p + 2] = back[j]
    <3> DEFINE both == front \o back
    <3>1. /\ both \in Seq(Nat) /\ Len(both) = p + q + 2
          /\ \A j \in 1 .. p + 1 : both[j] = front[j]
          /\ \A j \in 1 .. q + 1 : both[j + p + 1] = back[j]
      <4> DEFINE f == p + 1
                 g == q + 1
      <4>1. f = Len(front) /\ g = Len(back) /\ p \in Nat /\ q \in Nat
        BY <2>3, <2>4, <2>5
      <4> HIDE DEF p, q, f, g, both
      <4>2. /\ both \in Seq(Nat) /\ Len(both) = f + g
            /\ \A j \in 1 .. f : both[j] = front[j]
            /\ \A j \in 1 .. g : both[j + f] = back[j]
        <5>1. /\ both = front \o back /\ front \in Seq(Nat) /\ back \in Seq(Nat)
              /\ f = Len(front) /\ g = Len(back)
          BY <2>4, <2>5, <4>1 DEF both
        <5> QED BY <5>1, Joining
      <4>3. ASSUME NEW j \in 1 .. q + 1
            PROVE  both[j + p + 1] = back[j]
        <5>1. j \in 1 .. g /\ j + f = j + p + 1
          BY <4>1 DEF f, g
        <5> QED BY <4>2, <5>1
      <4>4. f + g = p + q + 2
        BY <4>1 DEF f, g
      <4> QED BY <4>2, <4>3, <4>4 DEF f
    <3> HIDE DEF both
    <3>2. bytes = <<2>> \o both
      BY <2>2 DEF both
    <3>3. p \in Nat /\ q \in Nat
      BY <2>3
    <3> HIDE DEF p, q
    <3> DEFINE n == p + q + 2
    <3>4. /\ Len(bytes) = p + q + 3 /\ bytes[1] = 2
          /\ \A j \in 1 .. p + q + 2 : bytes[j + 1] = both[j]
      <4> DEFINE head == <<2>>
      <4>1. head \in Seq(Nat) /\ 1 = Len(head) /\ head[1] = 2
        OBVIOUS
      <4>2. n = Len(both) /\ n \in Nat
        BY <3>1, <3>3
      <4> HIDE DEF head, n
      <4>3. /\ Len(bytes) = 1 + n
            /\ \A j \in 1 .. 1 : bytes[j] = head[j]
            /\ \A j \in 1 .. n : bytes[j + 1] = both[j]
        BY <3>1, <3>2, <4>1, <4>2, Joining DEF head
      <4>4. bytes[1] = 2 /\ 1 + n = p + q + 3
        BY <3>3, <4>1, <4>3 DEF n
      <4> QED BY <4>3, <4>4 DEF n
    <3>5. ASSUME NEW j \in 1 .. p + 1
          PROVE  bytes[j + 1] = front[j]
      <4>1. j \in 1 .. p + q + 2
        BY <3>3
      <4> QED BY <3>1, <3>4, <4>1
    <3>6. ASSUME NEW j \in 1 .. q + 1
          PROVE  bytes[j + p + 2] = back[j]
      <4>1. j + p + 1 \in 1 .. p + q + 2 /\ (j + p + 1) + 1 = j + p + 2
        BY <3>3
      <4>2. bytes[(j + p + 1) + 1] = both[j + p + 1]
        BY <3>4, <4>1
      <4> QED BY <3>1, <4>1, <4>2
    <3> QED BY <3>4, <3>5, <3>6
  <2> HIDE DEF p, q
  <2>7. p \in Nat /\ q \in Nat
    BY <2>3 DEF p, q
  <2>8. bytes[2] = p
    <3>1. 1 \in 1 .. p + 1 /\ 1 + 1 = 2
      BY <2>7
    <3> QED BY <2>4, <2>6, <3>1 DEF p
  <2>9. bytes[p + 3] = q
    <3>1. 1 \in 1 .. q + 1 /\ 1 + p + 2 = p + 3
      BY <2>7
    <3> QED BY <2>5, <2>6, <3>1 DEF q
  <2>10. ASSUME NEW c \in 0 .. p - 1
         PROVE  x[c + 1] = bytes[(2 + c) + 1]
    <3>1. c + 2 \in 1 .. p + 1 /\ (c + 2) + 1 = (2 + c) + 1
      BY <2>7
    <3>2. bytes[(c + 2) + 1] = front[c + 2]
      BY <2>6, <3>1
    <3>3. front[c + 2] = x[c + 1]
      BY <2>4 DEF p
    <3> QED BY <3>1, <3>2, <3>3
  <2>11. ASSUME NEW c \in 0 .. q - 1
         PROVE  y[c + 1] = bytes[((p + 3) + c) + 1]
    <3>1. c + 2 \in 1 .. q + 1 /\ (c + 2) + p + 2 = ((p + 3) + c) + 1
      BY <2>7
    <3>2. bytes[(c + 2) + p + 2] = back[c + 2]
      BY <2>6, <3>1
    <3>3. back[c + 2] = y[c + 1]
      BY <2>5 DEF q
    <3> QED BY <3>1, <3>2, <3>3
  <2>12. 2 + p <= Len(bytes) /\ (p + 3) + q <= Len(bytes)
    BY <2>6, <2>7
  <2>13. Inside(x, bytes, 2) /\ Inside(y, bytes, p + 3)
    BY <2>10, <2>11, <2>12 DEF Inside, p, q
  <2> QED BY <2>1, <2>6, <2>8, <2>9, <2>13 DEF p, q
<1> HIDE DEF made
<1>10. CASE items = <<single>>
  BY <1>7, <1>8, <1>10 DEF items
<1>11. CASE \E c \in 3 .. Len(bytes) : items = <<first(c), second(c)>>
  <2>1. PICK c \in 3 .. Len(bytes) : items = <<first(c), second(c)>>
    BY <1>11
  <2> QED BY <1>7, <1>9, <2>1 DEF items
<1> QED BY <1>5, <1>10, <1>11

(* What lies in a part of the value lies in the block where the part does. *)
LEMMA BehindInside ==
  ASSUME NEW bytes, NEW ptr, ptr.at \in Int, NEW at \in Int, NEW size \in Nat,
         Behind(bytes, ptr, at, size),
         NEW x \in Seq(Nat), NEW s \in Nat, Inside(x, bytes, s)
  PROVE  Behind(x, ptr, at + s, Len(x)) /\ s + Len(x) <= size
<1>1. Len(bytes) = size /\ Len(x) \in Nat
  BY LenProperties DEF Behind
<1>2. ASSUME NEW c \in 0 .. Len(x) - 1
      PROVE  x[c + 1] = Peek(heap[ptr.block], ptr.at + ((at + s) + c))
  <2>1. s + c \in 0 .. size - 1 /\ at + (s + c) = (at + s) + c
    BY <1>1 DEF Inside
  <2>2. x[c + 1] = bytes[(s + c) + 1]
    BY DEF Inside
  <2> QED BY <2>1, <2>2 DEF Behind
<1> QED BY <1>1, <1>2 DEF Inside, Behind

LEMMA GetMessageArrayFaith ==
  ASSUME OwnerInv, FaithInv, NEW o \in Objects, NEW name, NEW dest \in Vectors,
         GetMessageArray(o, name, dest)
  PROVE  FaithInv'
<1> DEFINE e == obj[o].data[Find(obj[o], name)]
           parts == PartsOf(obj[o], e)
           bytes == PutInto(o, name)
           items == ItemsOf(bytes)
           ptr == SourceData(obj[o])
<1>1. e \in Entry /\ obj[o] \in Members /\ Find(obj[o], name) # 0
  BY BlockOfObject, FoundEntry DEF GetMessageArray, Retrieves
<1>2. Len(dest) = ItemCount(obj[o], e) /\ TakeOut(o, parts, items, dest)
  BY Zenon DEF GetMessageArray
<1>3. /\ dest \in Seq(Objects) /\ ItemCount(obj[o], e) \in {1, 2}
      /\ DOMAIN dest = 1 .. ItemCount(obj[o], e)
  <2> HIDE DEF e
  <2> QED BY <1>2, VectorParts
<1>4. ASSUME NEW i \in DOMAIN dest, said[o].ok, i \in DOMAIN items
      PROVE  PartIn(o, parts[i], items[i])
  <2>1. /\ Find(obj[o], name) \in DOMAIN obj[o].data
        /\ e.index \in Nat /\ e.size \in Nat /\ EndOf(e) = e.index + e.size
        /\ bytes \in Seq(Nat) /\ Behind(bytes, ptr, e.index, e.size)
    BY <1>1, <1>4, PutBehind
  <2> HIDE DEF e, bytes, ptr
  <2> DEFINE x == items[1]
             y == items[2]
  <2>2. /\ i \in {1, 2} /\ x \in Seq(Nat)
        /\ bytes[1] = Len(items) /\ bytes[2] = Len(x) /\ Inside(x, bytes, 2)
        /\ i = 1 \/ /\ Len(items) = 2 /\ y \in Seq(Nat)
                    /\ bytes[Len(x) + 3] = Len(y)
                    /\ Inside(y, bytes, Len(x) + 3)
    BY <1>4, <2>1, ArrayInside
  <2>3. /\ parts[1].at = e.index + 2
        /\ parts[1].size = CellAt(ptr, e.index + 1)
        /\ ItemCount(obj[o], e) = 2 =>
             /\ parts[2].at = (parts[1].at + parts[1].size) + 1
             /\ parts[2].size = CellAt(ptr, parts[1].at + parts[1].size)
    BY <1>1, <1>3, PartsAre DEF OwnerInv, ptr
  <2> HIDE DEF parts, items
  <2>4. ptr.block # 0 /\ ptr.at \in Nat
    BY <1>4 DEF FaithInv, Keeps, Fine, ptr
  <2>5. Len(bytes) = e.size
    BY <2>1 DEF Behind
  <2>6. ASSUME NEW c \in 0 .. e.size - 1
        PROVE  CellAt(ptr, e.index + c) = bytes[c + 1]
    BY <2>1, <2>4 DEF CellAt, Behind
  <2> DEFINE n == Len(x)
  <2>7. n \in Nat /\ 2 + n <= e.size
    BY <2>2, <2>5, LenProperties DEF Inside
  <2>8. parts[1].size = n
    <3>1. 1 \in 0 .. e.size - 1 /\ 1 + 1 = 2
      BY <2>1, <2>7
    <3> QED BY <2>2, <2>3, <2>6, <3>1
  <2>9. Behind(x, ptr, e.index + 2, n)
    BY <2>1, <2>2, <2>4, BehindInside
  <2>10. CASE i = 1
    <3>1. Behind(items[i], ptr, parts[i].at, parts[i].size)
      BY <2>3, <2>8, <2>9, <2>10
    <3>2. /\ parts[i].at \in Nat /\ parts[i].size \in Nat
          /\ e.index <= parts[i].at /\ parts[i].at + parts[i].size <= EndOf(e)
      <4> DEFINE x1 == e.index
                 x2 == e.size
      <4>1. /\ parts[i].at = x1 + 2 /\ parts[i].size = n /\ EndOf(e) = x1 + x2
            /\ x1 \in Nat /\ x2 \in Nat /\ n \in Nat /\ 2 + n <= x2
        BY <2>1, <2>3, <2>7, <2>8, <2>10
      <4> HIDE DEF n, x1, x2
      <4>2. /\ x1 + 2 \in Nat /\ x1 <= x1 + 2 /\ (x1 + 2) + n <= x1 + x2
        BY <4>1
      <4> QED BY <4>1, <4>2 DEF x1
    <3> QED BY <2>1, <3>1, <3>2 DEF PartIn, e, ptr
  <2>11. CASE i = 2
    <3> DEFINE q == Len(y)
    <3>1. /\ y \in Seq(Nat) /\ q \in Nat /\ bytes[n + 3] = q /\ Inside(y, bytes, n + 3)
      BY <2>2, <2>11, LenProperties
    <3>2. (n + 3) + q <= e.size
      BY <2>5, <3>1 DEF Inside
    <3> HIDE DEF n
    <3>3. Behind(y, ptr, e.index + (n + 3), q)
      BY <2>1, <2>4, <2>7, <3>1, BehindInside
    <3> HIDE DEF q
    <3>4. ItemCount(obj[o], e) = 2
      BY <1>3, <2>11
    <3> DEFINE one == parts[1].at
               two == parts[2].at
               at == e.index
    <3>5. two = at + (n + 3) /\ one + parts[1].size = at + (n + 2)
      <4>1. /\ one = at + 2 /\ parts[1].size = n /\ two = (one + parts[1].size) + 1
            /\ at \in Nat /\ n \in Nat
        BY <2>1, <2>3, <2>7, <2>8, <3>4
      <4> HIDE DEF one, two, at
      <4> QED BY <4>1
    <3>6. n + 2 \in 0 .. e.size - 1 /\ (n + 2) + 1 = n + 3
      BY <2>1, <2>7, <3>1, <3>2
    <3>7. parts[2].size = q
      BY <2>3, <2>6, <3>1, <3>4, <3>5, <3>6
    <3>8. /\ parts[i].at \in Nat /\ parts[i].size \in Nat
          /\ e.index <= parts[i].at /\ parts[i].at + parts[i].size <= EndOf(e)
      <4> DEFINE size == parts[i].size
                 full == e.size
      <4>1. /\ parts[i].at = two /\ size = q /\ two = at + (n + 3) /\ EndOf(e) = at + full
            /\ at \in Nat /\ n \in Nat /\ q \in Nat /\ (n + 3) + q <= full /\ full \in Nat
        BY <2>1, <2>7, <2>11, <3>1, <3>2, <3>5, <3>7
      <4> HIDE DEF one, two, at, size, full
      <4>2. two \in Nat /\ at <= two /\ two + size <= at + full
        BY <4>1
      <4> QED BY <4>1, <4>2 DEF size, at
    <3>9. Behind(items[i], ptr, parts[i].at, parts[i].size)
      BY <2>11, <3>3, <3>5, <3>7
    <3> QED BY <2>1, <3>8, <3>9 DEF PartIn, e, ptr
  <2> QED BY <2>2, <2>10, <2>11
<1> HIDE DEF parts, items, e
<1>5. \A i \in DOMAIN dest : said[o].ok /\ i \in DOMAIN items => PartIn(o, parts[i], items[i])
  BY <1>4
<1> QED BY <1>2, <1>3, <1>5, TakeOutFaith

-----------------------------------------------------------------------------
(* Writing to the block of an owner that others may read. *)

(* A message that reads an owner's block reads nothing behind the owner's message. *)
LEMMA WithinReach ==
  ASSUME NEW m, m.data \in Seq(Entry), NEW b, IsBlock(b), NEW at \in Nat,
         Table(m.data, b, at),
         NEW D \in Seq(Entry), Table(D, b, 0), NEW n, Tiled(D, n),
         Within(m.data, at, b, D)
  PROVE  at + Reach(m) <= n
<1> DEFINE T == m.data
           r == Reach(m)
<1>1. /\ r \in Nat /\ r >= HEADER_ELEMENTS
      /\ \/ r = HEADER_ELEMENTS
         \/ \E i \in DOMAIN T : r = EndOf(T[i])
  BY ReachOf
<1>2. /\ n \in Nat /\ n >= HEADER_ELEMENTS
      /\ \A j \in DOMAIN D : EndOf(D[j]) <= n
  BY TiledEnds
<1> HIDE DEF r
<1>3. CASE at = 0 /\ \A i \in DOMAIN T : \E j \in DOMAIN D : T[i] = D[j]
  <2>1. r <= n
    BY <1>1, <1>2, <1>3
  <2> QED BY <1>1, <1>3, <2>1 DEF r
<1>4. ASSUME NEW j \in DOMAIN D,
             /\ Peek(b, at + SIZE) >= HEADER_ELEMENTS
             /\ at + Peek(b, at + SIZE) <= EndOf(D[j])
             /\ \A i \in DOMAIN T : EndOf(T[i]) <= Peek(b, at + SIZE)
      PROVE  at + r <= n
  <2> DEFINE p == Peek(b, at + SIZE)
             x == EndOf(D[j])
  <2>1. p \in Nat /\ p >= 3 /\ at + p <= x /\ \A i \in DOMAIN T : EndOf(T[i]) <= p
    BY <1>4, PeekCell
  <2>2. x \in Nat /\ x <= n
    BY <1>2, TableEnds
  <2> HIDE DEF p, x
  <2>3. r <= p
    BY <1>1, <2>1
  <2> QED BY <1>1, <1>2, <2>1, <2>2, <2>3
<1> QED BY <1>3, <1>4 DEF Within, r

(* A reader stays within the owner's message when the elements it reads are kept. *)
LEMMA WithinKept ==
  ASSUME NEW m, m.data \in Seq(Entry), NEW b, IsBlock(b), NEW at \in Nat,
         Table(m.data, b, at),
         NEW D \in Seq(Entry), Table(D, b, 0), Within(m.data, at, b, D),
         NEW S,
         \A j \in DOMAIN D : StartOf(D[j]) < at + Reach(m) =>
           \E i \in DOMAIN S : S[i] = D[j],
         NEW c, at >= 2 => Peek(c, at + SIZE) = Peek(b, at + SIZE)
  PROVE  Within(m.data, at, c, S)
<1> DEFINE T == m.data
           r == Reach(m)
<1>1. /\ r \in Nat /\ r >= 3 /\ \A i \in DOMAIN T : EndOf(T[i]) <= r
  BY ReachOf
<1>2. \A j \in DOMAIN D : D[j].index \in Nat /\ StartOf(D[j]) \in Nat
                          /\ StartOf(D[j]) >= 3 /\ StartOf(D[j]) + 2 <= D[j].index
                          /\ D[j].index <= EndOf(D[j])
  <2> TAKE j \in DOMAIN D
  <2> DEFINE d == D[j]
             x == d.index
             y == StartOf(d)
             h == HeaderBytes(d)
             n == d.size
  <2>1. x \in Nat /\ y \in Nat /\ y >= 3 /\ h \in {2, 3} /\ x = y + h
        /\ n \in Nat /\ EndOf(d) = x + n
    BY TableEnds
  <2> HIDE DEF d, x, y, h, n
  <2>2. y + 2 <= x /\ x <= x + n
    BY <2>1
  <2> QED BY <2>1, <2>2 DEF d, x, y
<1> HIDE DEF r
<1>3. CASE at = 0 /\ \A i \in DOMAIN T : \E j \in DOMAIN D : T[i] = D[j]
  <2>1. ASSUME NEW i \in DOMAIN T
        PROVE  \E j \in DOMAIN S : T[i] = S[j]
    <3>1. PICK j \in DOMAIN D : T[i] = D[j]
      BY <1>3
    <3> DEFINE y == StartOf(D[j])
               x == D[j].index
               z == EndOf(D[j])
    <3>2. y \in Nat /\ x \in Nat /\ y + 2 <= x /\ x <= z /\ z <= r
      BY <1>1, <1>2, <3>1
    <3>3. z \in Nat
      BY <3>1, TableEnds
    <3> HIDE DEF y, x, z
    <3>4. y < at + r
      BY <1>1, <1>3, <3>2, <3>3
    <3> QED BY <3>1, <3>4 DEF r, y
  <2> QED BY <1>3, <2>1 DEF Within
<1>4. ASSUME NEW j \in DOMAIN D,
             /\ D[j].index <= at
             /\ Peek(b, at + SIZE) >= HEADER_ELEMENTS
             /\ at + Peek(b, at + SIZE) <= EndOf(D[j])
             /\ \A i \in DOMAIN T : EndOf(T[i]) <= Peek(b, at + SIZE)
      PROVE  Within(T, at, c, S)
  <2> DEFINE y == StartOf(D[j])
             x == D[j].index
  <2>1. y \in Nat /\ x \in Nat /\ y >= 3 /\ y + 2 <= x /\ x <= at
    BY <1>2, <1>4
  <2> HIDE DEF y, x
  <2>2. y < at + r /\ at >= 2
    BY <1>1, <2>1
  <2>3. PICK i \in DOMAIN S : S[i] = D[j]
    BY <2>2 DEF r, y
  <2>4. Peek(c, at + SIZE) = Peek(b, at + SIZE)
    BY <2>2
  <2> QED BY <1>4, <2>3, <2>4 DEF Within
<1> QED BY <1>3, <1>4 DEF Within

(* A call by which o writes to the cells lo .. hi-1 of its block, and to   *)
(* the header: of the others only those that read these cells are no       *)
(* longer right, if what they read of its table is kept.                   *)
Written(o, m, c, lo, hi) ==
  /\ obj'[o] = m /\ \A v \in Objects \ {o} : obj'[v] = obj[v]
  /\ ~m.readOnly /\ m.p_data = obj[o].p_data
  /\ heap'[m.p_data] = c
  /\ \A d \in Blocks : d # m.p_data => heap'[d] = heap[d]
  /\ \A j \in Nat : j >= HEADER_ELEMENTS /\ (j < lo \/ j >= hi) =>
       Peek(c, j) = Peek(heap[m.p_data], j)
  /\ \A j \in DOMAIN obj[o].data :
       StartOf(obj[o].data[j]) < lo \/ hi < obj[o].mem_used =>
         \E i \in DOMAIN m.data : m.data[i] = obj[o].data[j]

(* A reader of the block of o reads nothing behind its message. *)
LEMMA ReaderWithin ==
  ASSUME OwnerInv, FaithInv, NEW o \in Objects, said[o].ok, ~obj[o].readOnly,
         NEW r \in Objects, said[r].ok, obj[r].readOnly,
         obj[r].p_ex_data.block = obj[o].p_data
  PROVE  /\ obj[r].p_ex_data.at \in Nat /\ Reach(obj[r]) \in Nat /\ Reach(obj[r]) >= 3
         /\ obj[r].p_ex_data.at + Reach(obj[r]) <= obj[o].mem_used
<1> DEFINE T == obj[r].data
           D == obj[o].data
           n == obj[o].mem_used
           b == heap[obj[o].p_data]
           at == obj[r].p_ex_data.at
<1>1. /\ n \in Nat /\ D \in Seq(Entry) /\ Table(D, b, 0) /\ Tiled(D, n)
      /\ obj[o].p_data \in Blocks
  BY OwnerKept DEF OwnerFine
<1>2. IsBlock(b)
  BY <1>1, MemoryBlock DEF OwnerInv, Typed
<1>3. T \in Seq(Entry)
  BY BlockOfObject DEF Members
<1>4. at \in Nat /\ Table(T, b, at)
  <2>1. SourceData(obj[r]) = obj[r].p_ex_data
    BY DEF SourceData
  <2> QED BY <2>1 DEF FaithInv, Keeps, Fine
<1>5. Within(T, at, b, D)
  BY DEF FaithInv, View
<1>6. at + Reach(obj[r]) <= n
  BY <1>1, <1>2, <1>3, <1>4, <1>5, WithinReach
<1>7. Reach(obj[r]) \in Nat /\ Reach(obj[r]) >= 3
  BY <1>3, <1>4, ReachOf
<1> QED BY <1>4, <1>6, <1>7

(* A reader that does not read what is written has the table and the entries it had. *)
LEMMA WrittenReader ==
  ASSUME OwnerInv, FaithInv, NEW o \in Objects, said[o].ok, ~obj[o].readOnly,
         NEW m, NEW c, NEW lo \in Nat, NEW hi \in Nat, Written(o, m, c, lo, hi),
         NEW r \in Objects, said[r].ok, obj[r].readOnly,
         obj[r].p_ex_data.block = obj[o].p_data,
         r \notin Reading(o, obj[o].p_data, lo, hi) \/ lo >= obj[o].mem_used,
         NEW b, b = heap[obj[o].p_data], NEW at, at = obj[r].p_ex_data.at
  PROVE  /\ Table(obj[r].data, c, at)
         /\ EntriesIn(obj[r].data, c, at) = EntriesIn(obj[r].data, b, at)
         /\ Within(obj[r].data, at, c, m.data)
<1> DEFINE T == obj[r].data
           D == obj[o].data
           n == obj[o].mem_used
           far == Reach(obj[r])
<1>1. /\ n \in Nat /\ D \in Seq(Entry) /\ Table(D, b, 0) /\ Tiled(D, n)
      /\ obj[o].p_data \in Blocks
  BY OwnerKept DEF OwnerFine
<1>2. IsBlock(b)
  BY <1>1, MemoryBlock DEF OwnerInv, Typed
<1>3. T \in Seq(Entry)
  BY BlockOfObject DEF Members
<1>4. at \in Nat /\ Table(T, b, at)
  <2>1. SourceData(obj[r]) = obj[r].p_ex_data
    BY DEF SourceData
  <2> QED BY <2>1 DEF FaithInv, Keeps, Fine
<1>5. Within(T, at, b, D)
  BY DEF FaithInv, View
<1>6. at + far <= n
  BY ReaderWithin
<1>7. /\ far \in Nat /\ far >= 3
      /\ \A i \in DOMAIN T : EndOf(T[i]) <= far
  BY <1>3, <1>4, ReachOf
<1>8. at >= hi \/ lo >= at + far
  <2>1. CASE lo >= n
    <3> HIDE DEF n, far
    <3> QED BY <1>1, <1>4, <1>6, <1>7, <2>1
  <2>2. CASE r \notin Reading(o, obj[o].p_data, lo, hi)
    <3>1. ~(at < hi /\ lo < at + far)
      BY <2>2 DEF Reading
    <3> HIDE DEF far
    <3> QED BY <1>4, <1>7, <3>1
  <2> QED BY <2>1, <2>2
<1> HIDE DEF n, far
<1>9. /\ \A j \in Nat : j >= 3 /\ (j < lo \/ j >= hi) => Peek(c, j) = Peek(b, j)
      /\ \A j \in DOMAIN D : StartOf(D[j]) < lo \/ hi < n =>
           \E i \in DOMAIN m.data : m.data[i] = D[j]
  BY DEF Written, n
<1>10. \A j \in Nat : j >= 3 /\ at <= j /\ j < at + far => Peek(c, j) = Peek(b, j)
  BY <1>4, <1>7, <1>8, <1>9
<1>11. \A i \in DOMAIN T : \A k \in StartOf(T[i]) .. EndOf(T[i]) - 1 :
         Peek(c, at + k) = Peek(b, at + k)
  <2> TAKE i \in DOMAIN T
  <2> TAKE k \in StartOf(T[i]) .. EndOf(T[i]) - 1
  <2> DEFINE x == StartOf(T[i])
             y == EndOf(T[i])
  <2>1. x \in Nat /\ x >= 3 /\ y \in Nat /\ y <= far /\ k \in x .. y - 1
    BY <1>3, <1>4, <1>7, TableEnds
  <2> HIDE DEF x, y
  <2>2. at + k \in Nat /\ at + k >= 3 /\ at <= at + k /\ at + k < at + far
    BY <1>4, <1>7, <2>1
  <2> QED BY <1>10, <2>2
<1>12. /\ Table(T, c, at)
       /\ EntriesIn(T, c, at) = EntriesIn(T, b, at)
  <2> HIDE DEF T
  <2>1. Same(T, c, at, b, at)
    BY <1>3, <1>4, <1>11, SameCells
  <2> QED BY <2>1 DEF Same
<1>13. at >= 2 => Peek(c, at + SIZE) = Peek(b, at + SIZE)
  <2>1. at \in Nat /\ far \in Nat /\ far >= 3
    BY <1>4, <1>7
  <2>2. at >= 2 => at + 1 \in Nat /\ at + 1 >= 3 /\ at <= at + 1 /\ at + 1 < at + far
    BY <2>1
  <2> QED BY <1>10, <2>2
<1>14. ASSUME NEW j \in DOMAIN D, StartOf(D[j]) < at + far
       PROVE  \E i \in DOMAIN m.data : m.data[i] = D[j]
  <2> DEFINE x == StartOf(D[j])
  <2>1. x \in Nat /\ x < at + far
    BY <1>1, <1>14, TableEnds
  <2> HIDE DEF x
  <2>2. x < lo \/ hi < n
    BY <1>1, <1>4, <1>6, <1>7, <1>8, <2>1
  <2> QED BY <1>9, <2>2 DEF x
<1>15. Within(T, at, c, m.data)
  BY <1>1, <1>2, <1>3, <1>4, <1>5, <1>13, <1>14, WithinKept DEF far
<1> QED BY <1>12, <1>15

(* The owner as it is now, and the readers that are left, are as they should be. *)
LEMMA WrittenFaith ==
  ASSUME OwnerInv, FaithInv, NEW o \in Objects, said[o].ok, ~obj[o].readOnly,
         NEW m, NEW c, NEW lo \in Nat, NEW hi \in Nat, Written(o, m, c, lo, hi),
         Recorded',
         \A v \in Objects \ {o} : said'[v].ok =>
           /\ said'[v] = said[v]
           /\ v \notin Reading(o, obj[o].p_data, lo, hi) \/ lo >= obj[o].mem_used,
         said'[o].ok => Fine(m, c, 0) /\ said'[o].entries = EntriesIn(m.data, c, 0)
  PROVE  FaithInv'
<1> DEFINE B == obj[o].p_data
           b == heap[B]
           Reads(v) == v # o /\ obj[v].readOnly /\ obj[v].p_ex_data.block = B
           X == {v \in Objects : v = o \/ Reads(v)}
<1>1. /\ obj'[o] = m /\ \A v \in Objects \ {o} : obj'[v] = obj[v]
      /\ ~m.readOnly /\ m.p_data = B /\ heap'[B] = c
      /\ \A d \in Blocks : d # B => heap'[d] = heap[d]
  BY DEF Written
<1>2. B # 0 /\ B \in Blocks
  BY OwnerKept
<1>3. ASSUME NEW r \in Objects, Reads(r), said'[r].ok
      PROVE  /\ obj'[r] = obj[r] /\ said'[r] = said[r] /\ said[r].ok
             /\ Table(obj[r].data, c, obj[r].p_ex_data.at)
             /\ EntriesIn(obj[r].data, c, obj[r].p_ex_data.at)
                  = EntriesIn(obj[r].data, b, obj[r].p_ex_data.at)
             /\ Within(obj[r].data, obj[r].p_ex_data.at, c, m.data)
  <2>1. obj'[r] = obj[r] /\ said'[r] = said[r] /\ said[r].ok
    BY <1>1, <1>3
  <2>2. /\ obj[r].readOnly /\ obj[r].p_ex_data.block = obj[o].p_data
        /\ r \notin Reading(o, obj[o].p_data, lo, hi) \/ lo >= obj[o].mem_used
    BY <1>3
  <2> QED BY <2>1, <2>2, WrittenReader
<1>4. ASSUME NEW v \in Objects \ X, said'[v].ok
      PROVE  Came(v, v)
  <2> DEFINE d == SourceData(obj[v]).block
  <2>1. v # o /\ ~Reads(v)
    BY <1>4
  <2>2. said'[v] = said[v] /\ said[v].ok /\ obj'[v] = obj[v]
    BY <1>1, <1>4, <2>1
  <2>3. d # 0 /\ d \in Blocks
    <3>1. Keeps(v)
      BY DEF FaithInv
    <3> QED BY <2>2, <3>1, SomeBlock DEF Keeps
  <2>4. d # B
    <3>1. CASE obj[v].readOnly
      <4>1. d = obj[v].p_ex_data.block
        BY <3>1, SomeBlock
      <4> QED BY <2>1, <3>1, <4>1
    <3>2. CASE ~obj[v].readOnly
      <4>1. d = obj[v].p_data
        BY <3>2, SomeBlock
      <4> QED BY <1>2, <2>1, <4>1 DEF OwnerInv, OneOwner
    <3> QED BY <3>1, <3>2
  <2>5. heap'[d] = heap[d]
    BY <1>1, <2>3, <2>4
  <2> QED BY <2>2, <2>5 DEF Came
<1>5. Keeps(o)'
  <2>1. SourceData(obj'[o]).block = B /\ SourceData(obj'[o]).at = 0
    BY <1>1 DEF SourceData
  <2> QED BY <1>1, <1>2, <2>1 DEF Keeps
<1>6. ASSUME NEW r \in Objects, Reads(r)
      PROVE  Keeps(r)'
  <2> SUFFICES ASSUME said'[r].ok PROVE Keeps(r)'
    BY DEF Keeps
  <2> DEFINE ptr == obj[r].p_ex_data
  <2>1. SourceData(obj[r]) = ptr /\ SourceData(obj'[r]) = ptr /\ ptr.block = B
    BY <1>3, <1>6 DEF SourceData
  <2>2. /\ Fine(obj[r], b, ptr.at) /\ said[r].entries = EntriesIn(obj[r].data, b, ptr.at)
    BY <1>3, <1>6, <2>1 DEF FaithInv, Keeps
  <2>3. Fine(obj[r], c, ptr.at)
    BY <1>3, <1>6, <2>2 DEF Fine
  <2> HIDE DEF ptr
  <2>4. said'[r].entries = EntriesIn(obj[r].data, c, ptr.at)
    BY <1>3, <1>6, <2>2 DEF ptr
  <2> QED BY <1>1, <1>2, <1>3, <1>6, <2>1, <2>3, <2>4 DEF Keeps
<1>7. ASSUME NEW r \in Objects, Reads(r)
      PROVE  View(r, o)'
  BY <1>1, <1>3, <1>7 DEF View
<1>8. ASSUME NEW r \in Objects, Reads(r) \/ r = o, NEW w \in Objects
      PROVE  View(r, w)' /\ View(w, r)'
  <2> SUFFICES ASSUME NEW v \in Objects, NEW u \in Objects, v = r \/ u = r
               PROVE  View(v, u)'
    OBVIOUS
  <2> SUFFICES ASSUME obj'[v].readOnly, ~obj'[u].readOnly,
                      obj'[v].p_ex_data.block = obj'[u].p_data
               PROVE  View(v, u)'
    BY DEF View
  <2>1. v # o
    BY <1>1
  <2>2. obj'[v] = obj[v]
    BY <1>1, <2>1
  <2>3. CASE v = r
    <3>1. Reads(r) /\ obj[r].p_ex_data.block = B
      BY <1>8, <2>1, <2>3
    <3>2. u = o
      <4>1. ASSUME u # o PROVE FALSE
        <5>1. obj[u].p_data = B
          BY <1>1, <2>2, <2>3, <3>1, <4>1
        <5> QED BY <1>2, <4>1, <5>1 DEF OwnerInv, OneOwner
      <4> QED BY <4>1
    <3> QED BY <1>7, <2>3, <3>1, <3>2
  <2>4. CASE v # r
    <3>1. u = r /\ ~Reads(r)
      <4>1. u = r
        BY <2>4
      <4>2. ~obj[r].readOnly \/ r = o
        BY <1>1, <4>1
      <4> QED BY <4>1, <4>2
    <3>2. u = o /\ obj[v].p_ex_data.block = B
      BY <1>1, <1>8, <2>2, <3>1
    <3> QED BY <1>7, <2>1, <2>2, <3>2
  <2> QED BY <2>3, <2>4
<1>9. \A v \in Objects \ X : said'[v].ok => \E u \in Objects : Came(v, u)
  BY <1>4
<1>10. \A x \in Objects \cap X : Keeps(x)'
  BY <1>5, <1>6
<1>11. \A x \in Objects \cap X, w \in Objects : View(x, w)' /\ View(w, x)'
  BY <1>8
<1> HIDE DEF X
<1> QED BY <1>9, <1>10, <1>11, Settle

-----------------------------------------------------------------------------
(* AddElement: what was written is the new element of the table. *)

(* c is what becomes of the block b by appending cells at n. *)
Grown(b, n, cells, size, c) ==
  /\ Peek(c, SIZE) = n + Len(cells)
  /\ \A j \in Nat : j >= HEADER_ELEMENTS /\ (j < n \/ j >= size) => Peek(c, j) = Peek(b, j)
  /\ \A j \in 1 .. Len(cells) : Peek(c, n + j - 1) = cells[j]

(* The cells that were there stay, and the new ones are behind them. *)
LEMMA AddedBlock ==
  ASSUME NEW n \in Nat, n >= HEADER_ELEMENTS, NEW old \in Nat, NEW b \in Block(old), n <= old,
         NEW size \in Nat, old <= size,
         NEW cells \in Seq(Nat), NEW used, used = n + Len(cells), used <= size,
         NEW count \in Nat,
         NEW c, c = WriteHeader(Write(Resize(b, size), n, cells), used, count)
  PROVE  Grown(b, n, cells, size, c)
<1> DEFINE wide == Resize(b, size)
           full == Write(wide, n, cells)
           more == Len(cells)
<1>1. more \in Nat /\ used \in Nat
  BY LenProperties
<1>2. IsBlock(b) /\ Cells(b) = old
  BY CellsOfBlock
<1>3. wide \in Block(size) /\ \A k \in 0 .. size - 1 : wide[k] = Peek(b, k)
  BY <1>2, ResizeBlock
<1> HIDE DEF wide
<1>4. /\ full \in Block(size)
      /\ \A k \in 0 .. size - 1 :
           full[k] = IF n <= k /\ k < n + Len(cells) THEN cells[k - n + 1] ELSE wide[k]
  <2>1. n \in Int
    OBVIOUS
  <2> QED BY <1>3, <2>1, WriteBlock, Zenon
<1> HIDE DEF full
<1>5. /\ c \in Block(size)
      /\ \A k \in 0 .. size - 1 : k \notin {SIZE, ELEMENTS} => c[k] = full[k]
  <2>1. c = WriteHeader(full, used, count)
    BY Zenon DEF full, wide
  <2>2. full \in Block(size)
    BY <1>4
  <2>3. c \in Block(size)
    BY <1>1, <2>1, <2>2, HeaderBlock
  <2>4. \A k \in 0 .. size - 1 : k \notin {SIZE, ELEMENTS} => c[k] = full[k]
    BY <2>1, <2>2 DEF WriteHeader, Block
  <2> QED BY <2>3, <2>4
<1>6. c[SIZE] = used
  <2>1. SIZE \in DOMAIN full /\ SIZE # ELEMENTS
    BY <1>1, <1>4 DEF Block
  <2> QED BY <2>1 DEF WriteHeader, full, wide
<1>7. IsBlock(c) /\ Cells(c) = size
  BY <1>5, CellsOfBlock
<1>8. \A k \in 0 .. size - 1 : Peek(c, k) = c[k]
  BY <1>7, PeekCell
<1>9. Peek(c, SIZE) = used
  BY <1>1, <1>6, <1>8
<1> HIDE DEF more
<1>10. ASSUME NEW j \in Nat, j >= 3, j < n \/ j >= size
       PROVE  Peek(c, j) = Peek(b, j)
  <2>1. CASE j >= size
    <3>1. j \notin DOMAIN c /\ j \notin DOMAIN b
      BY <1>5, <2>1 DEF Block
    <3> QED BY <3>1 DEF Peek
  <2>2. CASE j < n
    <3>1. j \in 0 .. size - 1 /\ j \notin {1, 2} /\ ~(n <= j)
      BY <1>10, <2>2
    <3> QED BY <1>3, <1>4, <1>5, <1>8, <3>1
  <2> QED BY <1>10, <2>1, <2>2
<1>11. ASSUME NEW j \in 1 .. more
       PROVE  Peek(c, n + j - 1) = cells[j]
  <2>1. used = n + more
    BY DEF more
  <2> DEFINE k == n + j - 1
  <2>2. k \in 0 .. size - 1 /\ k \notin {1, 2} /\ n <= k /\ k < n + more /\ k - n + 1 = j
    BY <1>1, <2>1
  <2> HIDE DEF k
  <2>3. full[k] = cells[k - n + 1]
    BY <1>4, <2>2 DEF more
  <2>4. Peek(c, k) = full[k]
    BY <1>5, <1>8, <2>2
  <2> QED BY <2>2, <2>3, <2>4 DEF k
<1> QED BY <1>9, <1>10, <1>11 DEF more, Grown

(* entry is the element e, with that value, from first on and up to last. *)
Encoded(entry, e, value, c, first, last) ==
  /\ entry \in Entry /\ Described(entry, c, 0)
  /\ StartOf(entry) = first /\ EndOf(entry) = last
  /\ EntryIn(entry, c, 0) = [name |-> e.name, type |-> e.type, value |-> value]

(* The new element, from the cells that were written. *)
LEMMA AddedElement ==
  ASSUME NEW e \in Elements, e.type \in KnownTypes, e.basic_type <=> SType[e.type] # 0,
         e.basic_type => e.size = SType[e.type], e.size < U32,
         NEW value \in Seq(Nat), Len(value) = e.size,
         NEW cells, cells = Encode(e, value),
         NEW n \in Nat, n >= HEADER_ELEMENTS, NEW c, NEW b, NEW size,
         Grown(b, n, cells, size, c)
  PROVE  Encoded([e EXCEPT !.index = n + HeaderBytes(e)], e, value, c, n, n + Len(cells))
<1> DEFINE entry == [e EXCEPT !.index = n + HeaderBytes(e)]
           h == HeaderBytes(e)
           s == e.size
<1>0. \A j \in 1 .. Len(cells) : Peek(c, n + j - 1) = cells[j]
  BY DEF Grown
<1>1. s \in Nat /\ h \in {2, 3} /\ (~e.basic_type => h = 3)
  BY HeaderBytesNat DEF Elements, HeaderBytes
<1>2. /\ Len(cells) = h + s
      /\ cells[1] = e.type /\ cells[2] = e.name
      /\ ~e.basic_type => cells[3] = s
      /\ \A i \in 1 .. s : cells[h + i] = value[i]
  <2>1. AsU32(s) = s
    BY <1>1, FormatAssumption, AsU32Fits
  <2>2. e.size <= Len(value)
    BY <1>1
  <2> HIDE DEF entry
  <2>3. /\ Len(cells) = HeaderBytes(e) + e.size
        /\ cells[1] = e.type /\ cells[2] = e.name
        /\ ~e.basic_type => cells[3] = AsU32(e.size)
        /\ \A i \in 1 .. e.size : cells[HeaderBytes(e) + i] = value[i]
    BY <2>2, EncodeCells
  <2> QED BY <2>1, <2>3
<1>3. /\ entry.index = n + h /\ entry.type = e.type /\ entry.name = e.name
      /\ entry.size = s /\ entry.basic_type = e.basic_type /\ entry \in Entry
  <2>1. n + h \in Int
    BY <1>1
  <2> HIDE DEF h
  <2> QED BY <2>1 DEF Elements, Entry, h
<1> HIDE DEF entry
<1>4. HeaderBytes(entry) = h
  BY <1>3 DEF HeaderBytes
<1> HIDE DEF h, s
<1>5. StartOf(entry) = n /\ EndOf(entry) = n + Len(cells) /\ entry.index \in Nat
  <2>1. StartOf(entry) = (n + h) - h /\ EndOf(entry) = (n + h) + s /\ Len(cells) = h + s
    BY <1>2, <1>3, <1>4 DEF StartOf, EndOf
  <2> QED BY <1>1, <1>3, <2>1
<1>6. /\ Peek(c, 0 + n) = e.type
      /\ Peek(c, 0 + (n + 1)) = e.name
      /\ ~e.basic_type => Peek(c, 0 + (n + 2)) = s
  <2>1. 1 \in 1 .. Len(cells) /\ n + 1 - 1 = 0 + n
    BY <1>1, <1>2
  <2>2. 2 \in 1 .. Len(cells) /\ n + 2 - 1 = 0 + (n + 1)
    BY <1>1, <1>2
  <2>3. ~e.basic_type => 3 \in 1 .. Len(cells)
    BY <1>1, <1>2
  <2>4. n + 3 - 1 = 0 + (n + 2)
    OBVIOUS
  <2>5. Peek(c, 0 + n) = e.type
    BY <1>0, <1>2, <2>1
  <2>6. Peek(c, 0 + (n + 1)) = e.name
    BY <1>0, <1>2, <2>2
  <2>7. ~e.basic_type => Peek(c, 0 + (n + 2)) = s
    BY <1>0, <1>2, <2>3, <2>4
  <2> QED BY <2>5, <2>6, <2>7
<1>7. Described(entry, c, 0)
  BY <1>3, <1>5, <1>6 DEF Described, s
<1>8. [i \in 1 .. s |-> Peek(c, 0 + ((n + h) + i - 1))] = value
  <2>1. ASSUME NEW i \in 1 .. s
        PROVE  Peek(c, 0 + ((n + h) + i - 1)) = value[i]
    <3>1. h + i \in 1 .. Len(cells) /\ n + (h + i) - 1 = 0 + ((n + h) + i - 1)
      BY <1>1, <1>2
    <3>2. Peek(c, n + (h + i) - 1) = cells[h + i]
      BY <1>0, <3>1
    <3> QED BY <1>2, <3>1, <3>2
  <2>2. value = [i \in 1 .. s |-> value[i]]
    BY LenProperties DEF s
  <2> QED BY <2>1, <2>2
<1>9. EntryIn(entry, c, 0) = [name |-> e.name, type |-> e.type, value |-> value]
  <2>1. [i \in 1 .. entry.size |-> Peek(c, 0 + (entry.index + i - 1))] = value
    BY <1>3, <1>8
  <2> QED BY <1>3, <2>1, Zenon DEF EntryIn
<1> QED BY <1>3, <1>5, <1>7, <1>9 DEF Encoded, entry

(* m over the cells c has the entry more than entries, which those of the *)
(* table D were, and the cells of b outside n .. size-1.                  *)
Added(m, c, entries, D, entry, b, n, size) ==
  /\ Fine(m, c, 0)
  /\ EntriesIn(m.data, c, 0) = Append(entries, entry)
  /\ \A j \in Nat : j >= HEADER_ELEMENTS /\ (j < n \/ j >= size) => Peek(c, j) = Peek(b, j)
  /\ \A i \in DOMAIN D : i \in DOMAIN m.data /\ m.data[i] = D[i]

(* What is in a message of at most MaxCells has a size the element keeps. *)
LEMMA SizeFits ==
  ASSUME NEW n \in Nat, NEW h \in Nat, NEW s \in Nat,
         NEW used, used = n + (h + s), used <= MaxCells
  PROVE  s < U32 /\ used \in Nat
BY FormatAssumption, ObjectsAssumption

(* The owner after AddElement is what is now said of it. *)
LEMMA AddedFine ==
  ASSUME OwnerInv, FaithInv, NEW o \in Objects, said[o].ok, ~obj[o].readOnly,
         NEW e \in Elements, e.type \in KnownTypes, e.basic_type <=> SType[e.type] # 0,
         e.basic_type => e.size = SType[e.type],
         NEW value \in Seq(Nat), Len(value) = e.size,
         NEW cells, cells = Encode(e, value),
         NEW n, n = obj[o].mem_used,
         NEW used, used = n + Len(cells), used <= MaxCells,
         NEW size \in Nat, used <= size, obj[o].p_size <= size,
         NEW b, b = heap[obj[o].p_data],
         NEW c, c = WriteHeader(Write(Resize(b, size), n, cells), used, obj[o].el_size + 1),
         NEW entry, entry = [e EXCEPT !.index = n + HeaderBytes(e)],
         NEW m, ~m.readOnly, m.data = Append(obj[o].data, entry),
         m.mem_used = used, m.p_size = size
  PROVE  Added(m, c, said[o].entries, obj[o].data,
               [name |-> e.name, type |-> e.type, value |-> value], b, n, size)
<1> DEFINE D == obj[o].data
           old == obj[o].p_size
<1>1. /\ D \in Seq(Entry) /\ b \in Block(old) /\ old \in Nat /\ n \in Nat
      /\ Table(D, b, 0) /\ OwnerFine(obj[o], b)
      /\ said[o].entries = EntriesIn(D, b, 0)
  BY OwnerKept
<1>2. Tiled(D, n) /\ n <= old
  BY <1>1 DEF OwnerFine
<1>3. n >= HEADER_ELEMENTS /\ \A i \in DOMAIN D : EndOf(D[i]) <= n
  BY <1>1, <1>2, TiledEnds
<1>4. obj[o].el_size + 1 \in Nat
  BY BlockOfObject DEF Members
<1>5. cells \in Seq(Nat) /\ Len(cells) = HeaderBytes(e) + e.size
  BY EncodeCells, LenProperties DEF Elements
<1>6. Grown(b, n, cells, size, c)
  <2> DEFINE count == obj[o].el_size + 1
  <2>1. count \in Nat /\ c = WriteHeader(Write(Resize(b, size), n, cells), used, count)
    BY <1>4
  <2>2. old <= size
    OBVIOUS
  <2>3. n \in Nat /\ b \in Block(old) /\ old \in Nat
    BY <1>1
  <2> HIDE DEF old, count
  <2> QED BY <1>2, <1>3, <1>5, <2>1, <2>2, <2>3, AddedBlock, SMTT(20)
<1>7. e.size < U32 /\ used \in Nat
  <2>1. HeaderBytes(e) \in Nat /\ e.size \in Nat
    BY HeaderBytesNat DEF Elements
  <2>2. n \in Nat
    BY <1>1
  <2>3. used = n + (HeaderBytes(e) + e.size) /\ used <= MaxCells
    BY <1>5
  <2> QED BY <2>1, <2>2, <2>3, SizeFits
<1>8. /\ entry \in Entry /\ Described(entry, c, 0) /\ StartOf(entry) = n
      /\ EndOf(entry) = used
      /\ EntryIn(entry, c, 0) = [name |-> e.name, type |-> e.type, value |-> value]
  <2>1. Encoded(entry, e, value, c, n, used)
    BY <1>1, <1>3, <1>6, <1>7, AddedElement
  <2> QED BY <2>1 DEF Encoded
<1>9. Same(D, c, 0, b, 0)
  <2>1. \A i \in DOMAIN D : \A k \in StartOf(D[i]) .. EndOf(D[i]) - 1 :
          Peek(c, 0 + k) = Peek(b, 0 + k)
    <3> TAKE i \in DOMAIN D
    <3> TAKE k \in StartOf(D[i]) .. EndOf(D[i]) - 1
    <3> DEFINE x == StartOf(D[i])
               y == EndOf(D[i])
    <3>1. x \in Nat /\ x >= 3 /\ y \in Nat /\ y <= n /\ k \in x .. y - 1
      BY <1>1, <1>3, TableEnds
    <3> HIDE DEF x, y
    <3>2. n \in Nat
      BY <1>1
    <3>3. k \in Nat /\ k >= 3 /\ k < n /\ 0 + k = k
      BY <3>1, <3>2
    <3> QED BY <1>6, <3>3 DEF Grown
  <2>2. 0 \in Nat
    OBVIOUS
  <2> HIDE DEF D
  <2> QED BY <1>1, <2>1, <2>2, SameCells
<1>10. Longer(D, entry, c, 0)
  <2>1. /\ D \in Seq(Entry) /\ Table(D, c, 0) /\ Tiled(D, n)
        /\ entry \in Entry /\ Described(entry, c, 0) /\ StartOf(entry) = n
    BY <1>1, <1>2, <1>8, <1>9 DEF Same
  <2> HIDE DEF D
  <2> QED BY <2>1, AppendedTable
<1>11. /\ Table(m.data, c, 0) /\ Tiled(m.data, used)
       /\ EntriesIn(m.data, c, 0) =
              Append(said[o].entries, [name |-> e.name, type |-> e.type, value |-> value])
       /\ \A i \in DOMAIN D : i \in DOMAIN m.data /\ m.data[i] = D[i]
  <2>1. EntriesIn(D, c, 0) = said[o].entries
    BY <1>1, <1>9 DEF Same
  <2>2. m.data = Append(D, entry)
    OBVIOUS
  <2> HIDE DEF D
  <2>3. /\ EntryIn(entry, c, 0) = [name |-> e.name, type |-> e.type, value |-> value]
        /\ EndOf(entry) = used
    BY <1>8
  <2> QED BY <1>10, <2>1, <2>2, <2>3 DEF Longer
<1>12. OwnerFine(m, c)
  BY <1>6, <1>7, <1>11 DEF OwnerFine, Grown
<1>13. Fine(m, c, 0)
  BY <1>11, <1>12 DEF Fine
<1> QED BY <1>6, <1>11, <1>13 DEF Grown, Added

LEMMA AddFaith ==
  ASSUME OwnerInv, FaithInv, NEW o \in Objects,
         NEW e \in Elements, e.type \in KnownTypes, e.basic_type <=> SType[e.type] # 0,
         e.basic_type => e.size = SType[e.type],
         NEW value \in Seq(Nat), Len(value) = e.size,
         Add(o, e, value, With(o, e.name, e.type, value))
  PROVE  FaithInv'
<1> DEFINE m     == obj[o]
           told  == With(o, e.name, e.type, value)
           cells == Encode(e, value)
           more  == Reserve(m.p_size, m.mem_used, Len(cells))
           size  == m.p_size + more
           used  == m.mem_used + Len(cells)
           old   == IF m.p_data = 0 THEN NULL ELSE heap[m.p_data]
           new   == WriteHeader(Write(Resize(old, size), m.mem_used, cells),
                                used, m.el_size + 1)
           entry == [e EXCEPT !.index = m.mem_used + HeaderBytes(e)]
           grown == [m EXCEPT !.p_size = size, !.mem_used = used,
                              !.el_size = @ + 1, !.data = Append(@, entry)]
           InPlace == /\ m.p_data # 0
                      /\ Set(o, grown, [heap EXCEPT ![m.p_data] = new], told)
           Moves(b) == /\ Malloc(b)
                       /\ Set(o, [grown EXCEPT !.p_data = b],
                              [Free(heap, m.p_data) EXCEPT ![b] = new], told)
<1>1. /\ Writable(o) /\ used <= MaxCells
      /\ InPlace \/ (more > 0 /\ \E b \in Blocks : Moves(b))
  BY Zenon DEF Add
<1>2. said[o].ok /\ ~m.readOnly
  BY <1>1 DEF Writable
<1>3. /\ m.p_data # 0 /\ m.p_data \in Blocks /\ m.mem_used \in Nat /\ m.p_size \in Nat
      /\ m \in Members
  BY <1>2, OwnerKept, BlockOfObject
<1>4. old = heap[m.p_data]
  BY <1>3
<1>5. /\ size \in Nat /\ used \in Nat /\ used <= size /\ m.p_size <= size
  <2>1. cells \in Seq(Nat)
    BY EncodeCells, LenProperties DEF Elements
  <2>2. Len(cells) \in Nat
    BY <2>1, LenProperties
  <2>3. more \in Nat /\ m.p_size + more >= m.mem_used + Len(cells)
    BY <1>3, <2>2, ReserveEnough
  <2> HIDE DEF more, cells
  <2> QED BY <1>3, <2>2, <2>3
<1>6. told = Says(Append(said[o].entries, [name |-> e.name, type |-> e.type, value |-> value]))
  BY <1>2, Zenon DEF With
<1>7. /\ told.ok /\ Promise(told)
      /\ told.entries = Append(said[o].entries, [name |-> e.name, type |-> e.type, value |-> value])
  BY <1>6, SaysPromise
<1> DEFINE Right(d) == /\ Fine(d, new, 0)
                       /\ told.entries = EntriesIn(d.data, new, 0)
                       /\ \A j \in Nat : j >= HEADER_ELEMENTS /\ (j < m.mem_used \/ j >= size) =>
                            Peek(new, j) = Peek(heap[m.p_data], j)
                       /\ \A i \in DOMAIN m.data : i \in DOMAIN d.data /\ d.data[i] = m.data[i]
<1>8. \A d : ~d.readOnly /\ d.data = Append(m.data, entry) /\ d.mem_used = used /\ d.p_size = size
               => Right(d)
  <2> SUFFICES ASSUME NEW d, ~d.readOnly, d.data = Append(m.data, entry),
                      d.mem_used = used, d.p_size = size
               PROVE  Right(d)
    BY Zenon
  <2>1. new = WriteHeader(Write(Resize(heap[m.p_data], size), m.mem_used, cells),
                          used, obj[o].el_size + 1)
    BY <1>4, Zenon
  <2> HIDE DEF size, new, cells, entry
  <2>2. used = obj[o].mem_used + Len(cells)
    OBVIOUS
  <2> HIDE DEF used
  <2>3. /\ used <= MaxCells /\ size \in Nat /\ used <= size /\ obj[o].p_size <= size
        /\ cells = Encode(e, value)
        /\ entry = [e EXCEPT !.index = obj[o].mem_used + HeaderBytes(e)]
    BY <1>1, <1>5 DEF cells, entry
  <2> HIDE DEF told, InPlace, Moves
  <2>4. Added(d, new, said[o].entries, obj[o].data,
              [name |-> e.name, type |-> e.type, value |-> value],
              heap[obj[o].p_data], obj[o].mem_used, size)
    BY <1>2, <2>1, <2>2, <2>3, AddedFine
  <2> QED BY <1>7, <2>4 DEF Added
<1> HIDE DEF more, used, new, entry, size, told
<1>9. /\ ~grown.readOnly /\ grown.data = Append(m.data, entry) /\ grown.mem_used = used
      /\ grown.p_size = size /\ grown.p_data = m.p_data
  BY <1>2, <1>3 DEF Members
<1>10. ASSUME InPlace
       PROVE  FaithInv'
  <2> DEFINE h == [heap EXCEPT ![m.p_data] = new]
             objects == [obj EXCEPT ![o] = grown]
             promised == [said EXCEPT ![o] = told]
  <2>1. Becomes(objects, h, promised, {})
    BY <1>10, Zenon DEF Set
  <2>2. obj' = objects /\ heap' = h
    BY <2>1, Zenon DEF Becomes
  <2>3. DOMAIN obj = Objects /\ DOMAIN said = Objects /\ DOMAIN heap = Blocks
    BY DEF OwnerInv, Typed, FaithInv, Recorded
  <2>4. /\ obj'[o] = grown /\ promised[o] = told
        /\ \A v \in Objects \ {o} : promised[v] = said[v] /\ obj'[v] = obj[v]
        /\ heap'[m.p_data] = new
        /\ \A d \in Blocks : d # m.p_data => heap'[d] = heap[d]
    <3> HIDE DEF grown
    <3> QED BY <1>3, <2>2, <2>3
  <2> HIDE DEF objects, h, promised
  <2>5. \A v \in Objects : Promise(promised[v])
    BY <1>7, <2>4 DEF FaithInv, Recorded
  <2>6. Recorded' /\ \A v \in Objects : said'[v].ok => said'[v] = promised[v]
    BY <2>1, <2>5, BecomesSaid
  <2> HIDE DEF grown
  <2>7. Right(grown)
    BY <1>8, <1>9
  <2>8. Written(o, grown, new, m.mem_used, size)
    BY <1>9, <2>4, <2>7 DEF Written
  <2>9. \A v \in Objects \ {o} : said'[v].ok =>
          /\ said'[v] = said[v]
          /\ v \notin Reading(o, obj[o].p_data, m.mem_used, size) \/ m.mem_used >= obj[o].mem_used
    <3>1. m.mem_used >= obj[o].mem_used
      BY <1>3
    <3> QED BY <2>4, <2>6, <3>1
  <2>10. said'[o].ok => Fine(grown, new, 0) /\ said'[o].entries = EntriesIn(grown.data, new, 0)
    BY <2>4, <2>6, <2>7
  <2>11. said[o].ok /\ ~obj[o].readOnly /\ m.mem_used \in Nat /\ size \in Nat /\ Recorded'
    BY <1>2, <1>3, <1>5, <2>6
  <2> QED BY <2>8, <2>9, <2>10, <2>11, WrittenFaith
<1>11. ASSUME NEW b \in Blocks, Moves(b)
       PROVE  FaithInv'
  <2> DEFINE d == [grown EXCEPT !.p_data = b]
  <2>1. /\ ~d.readOnly /\ d.data = Append(m.data, entry) /\ d.mem_used = used
        /\ d.p_size = size /\ d.p_data = b
    BY <1>2, <1>3 DEF Members
  <2>2. Malloc(b) /\ Set(o, d, [Free(heap, obj[o].p_data) EXCEPT ![b] = new], told)
    BY <1>11, Zenon
  <2> HIDE DEF d
  <2>3. Fine(d, new, 0) /\ told.entries = EntriesIn(d.data, new, 0)
    BY <1>8, <2>1
  <2> QED BY <1>7, <2>1, <2>2, <2>3, FreshOwner
<1> HIDE DEF InPlace, Moves
<1> QED BY <1>1, <1>10, <1>11

LEMMA AddScalarFaith ==
  ASSUME OwnerInv, FaithInv, NEW o \in Objects,
         NEW name \in ScalarNames, NEW value \in Values, AddScalar(o, name, value)
  PROVE  FaithInv'
<1> DEFINE e == DType(Scalar, name)
<1>1. /\ name \in Nat /\ value \in Seq(Nat)
      /\ Scalar \in KnownTypes /\ SType[Scalar] # 0 /\ Len(value) = SType[Scalar]
  BY ObjectsAssumption
<1>2. e \in Elements /\ (e.basic_type <=> SType[Scalar] # 0)
  BY <1>1, DTypeElement
<1>3. e.type = Scalar /\ e.name = name /\ e.size = SType[Scalar]
  BY DEF DType
<1>4. Add(o, e, value, With(o, e.name, e.type, value))
  BY <1>3 DEF AddScalar
<1> HIDE DEF e
<1> QED BY <1>1, <1>2, <1>3, <1>4, AddFaith

LEMMA AddBytesFaith ==
  ASSUME OwnerInv, FaithInv, NEW o \in Objects,
         NEW name \in Nat, NEW type \in KnownTypes, SType[type] = 0,
         NEW bytes \in Seq(Nat), AddBytes(o, name, type, bytes)
  PROVE  FaithInv'
<1> DEFINE e == [DType(type, name) EXCEPT !.size = Len(bytes)]
<1>1. /\ DType(type, name) \in Elements /\ (DType(type, name).basic_type <=> SType[type] # 0)
      /\ Len(bytes) \in Nat
      /\ DType(type, name).type = type /\ DType(type, name).name = name
  BY DTypeElement, LenProperties DEF DType
<1>2. /\ e \in Elements /\ e.type = type /\ e.name = name /\ e.size = Len(bytes)
      /\ ~e.basic_type
  BY <1>1 DEF Elements
<1>3. Add(o, e, bytes, With(o, e.name, e.type, bytes))
  BY <1>2 DEF AddBytes
<1> HIDE DEF e
<1> QED BY <1>2, <1>3, AddFaith

LEMMA AddMessageFaith ==
  ASSUME OwnerInv, FaithInv, NEW o \in Objects,
         NEW name \in MessageNames, NEW s \in Objects, AddMessage(o, name, s)
  PROVE  FaithInv'
<1>1. name \in Nat /\ MESSAGE \in KnownTypes /\ SType[MESSAGE] = 0
  BY ObjectsAssumption
<1>2. Bytes(s) \in Seq(Nat)
  BY BytesThere
<1> QED BY <1>1, <1>2, AddBytesFaith DEF AddMessage

LEMMA AddMessageArrayFaith ==
  ASSUME OwnerInv, FaithInv, NEW o \in Objects,
         NEW name \in ArrayNames, NEW vector \in Vectors, AddMessageArray(o, name, vector)
  PROVE  FaithInv'
<1> DEFINE items == [i \in DOMAIN vector |-> Bytes(vector[i])]
<1>1. name \in Nat /\ MESSAGEARRAY \in KnownTypes /\ SType[MESSAGEARRAY] = 0
  BY ObjectsAssumption
<1>2. /\ DOMAIN vector = 1 .. Len(vector) /\ Len(vector) \in {1, 2}
      /\ \A i \in DOMAIN vector : vector[i] \in Objects
  BY VectorParts, ElementOfSeq, LenProperties
<1>3. items \in [1 .. Len(vector) -> Seq(Nat)]
  BY <1>2, BytesThere
<1> HIDE DEF items
<1>4. ArrayBytes(items) \in Seq(Nat)
  BY <1>2, <1>3, ArrayOfNumbers
<1>5. AddBytes(o, name, MESSAGEARRAY, ArrayBytes(items))
  BY DEF AddMessageArray, items
<1> QED BY <1>1, <1>4, <1>5, AddBytesFaith

LEMMA UpdateFaith ==
  ASSUME OwnerInv, FaithInv, NEW o \in Objects, NEW name, NEW value \in Values,
         Update(o, name, value)
  PROVE  FaithInv'
<1> DEFINE m  == obj[o]
           T  == m.data
           n  == m.mem_used
           k  == Find(m, name)
           e  == T[k]
           b  == heap[m.p_data]
           lo == e.index
           hi == e.index + e.size
           c  == Write(b, lo, value)
           E  == said[o].entries
           now == [E EXCEPT ![k].value = value]
           promised == [said EXCEPT ![o].entries = IF k \in DOMAIN @
                                                   THEN [@ EXCEPT ![k].value = value] ELSE @]
           h  == [heap EXCEPT ![m.p_data] = c]
<1>1. /\ said[o].ok /\ ~m.readOnly /\ k # 0 /\ e.type = Scalar
      /\ Becomes(obj, h, promised, Reading(o, m.p_data, lo, hi))
  BY DEF Update, Writable
<1>2. /\ m.p_data # 0 /\ m.p_data \in Blocks /\ T \in Seq(Entry)
      /\ b \in Block(m.p_size) /\ m.p_size \in Nat /\ n \in Nat
      /\ Table(T, b, 0) /\ OwnerFine(m, b) /\ E = EntriesIn(T, b, 0)
  BY <1>1, OwnerKept
<1>3. k \in DOMAIN T /\ e \in Entry
  BY <1>1, BlockOfObject, FoundEntry
<1> HIDE DEF k
<1>4. /\ Described(e, b, 0) /\ lo \in Nat /\ e.size \in Nat /\ EndOf(e) = hi
      /\ lo >= 5
  <2> DEFINE x == StartOf(e)
             y == HeaderBytes(e)
  <2>1. /\ Described(e, b, 0) /\ x \in Nat /\ x >= 3 /\ y \in {2, 3}
        /\ lo = x + y /\ lo \in Nat /\ e.size \in Nat /\ EndOf(e) = e.index + e.size
    BY <1>2, <1>3, TableEnds
  <2> HIDE DEF x, y, e, lo
  <2>2. lo >= 5
    BY <2>1
  <2> QED BY <2>1, <2>2 DEF lo
<1>5. e.size = Len(value) /\ value \in Seq(Nat)
  BY <1>1, <1>4, ObjectsAssumption DEF Described
<1>6. hi \in Nat /\ hi <= n /\ hi <= m.p_size
  <2>1. EndOf(e) <= n
    BY <1>2, <1>3, TiledEnds DEF OwnerFine
  <2>2. n <= m.p_size
    BY <1>2 DEF OwnerFine
  <2>3. hi \in Nat /\ hi <= n
    BY <1>4, <2>1
  <2> HIDE DEF hi, n
  <2> QED BY <1>2, <2>2, <2>3
<1>7. /\ c \in Block(m.p_size)
      /\ \A j \in 0 .. m.p_size - 1 :
           c[j] = IF lo <= j /\ j < lo + Len(value) THEN value[j - lo + 1] ELSE b[j]
  <2>1. lo \in Int
    BY <1>4
  <2> HIDE DEF b, lo
  <2> QED BY <1>2, <1>5, <2>1, WriteBlock
<1>8. IsBlock(c) /\ Cells(c) = m.p_size /\ IsBlock(b) /\ Cells(b) = m.p_size
  BY <1>2, <1>7, CellsOfBlock
<1> HIDE DEF c, b, e, lo
<1>9. ASSUME NEW j \in Nat, j \notin lo .. hi - 1
      PROVE  Peek(c, j) = Peek(b, j)
  <2>1. CASE j < m.p_size
    <3>1. j \in 0 .. m.p_size - 1 /\ ~(lo <= j /\ j < lo + Len(value))
      BY <1>2, <1>4, <1>5, <1>9, <2>1 DEF lo
    <3> QED BY <1>7, <1>8, <3>1, PeekCell
  <2>2. CASE ~(j < m.p_size)
    <3>1. j \notin DOMAIN c /\ j \notin DOMAIN b
      BY <1>2, <1>7, <2>2 DEF Block
    <3> QED BY <3>1 DEF Peek
  <2> QED BY <2>1, <2>2
<1>10. \A i \in 1 .. e.size : Peek(c, 0 + (lo + i - 1)) = value[i]
  <2> TAKE i \in 1 .. e.size
  <2> DEFINE j == lo + i - 1
  <2>1. /\ j \in 0 .. m.p_size - 1 /\ lo <= j /\ j < lo + Len(value)
        /\ j - lo + 1 = i /\ 0 + j = j
    <3> DEFINE s == e.size
               p == m.p_size
    <3>1. /\ lo \in Nat /\ s \in Nat /\ p \in Nat /\ lo + s <= p /\ i \in 1 .. s
          /\ s = Len(value)
      BY <1>2, <1>4, <1>5, <1>6 DEF lo
    <3> HIDE DEF s, p
    <3>2. /\ j \in 0 .. p - 1 /\ lo <= j /\ j < lo + s
          /\ j - lo + 1 = i /\ 0 + j = j
      BY <3>1
    <3> QED BY <3>1, <3>2 DEF p
  <2> HIDE DEF j
  <2>2. Peek(c, j) = value[i]
    BY <1>7, <1>8, <2>1, PeekCell
  <2> QED BY <2>1, <2>2 DEF j
<1>11. EntryIn(e, c, 0) = [name |-> e.name, type |-> e.type, value |-> value]
  <2>1. value = [i \in 1 .. e.size |-> value[i]]
    BY <1>5, LenProperties
  <2>2. [i \in 1 .. e.size |-> Peek(c, 0 + (e.index + i - 1))] = value
    BY <1>10, <2>1 DEF lo
  <2> QED BY <2>2, Zenon DEF EntryIn
<1>12. /\ Table(T, c, 0)
       /\ EntriesIn(T, c, 0) = [E EXCEPT ![k] = EntryIn(e, c, 0)]
  <2>1. \A j \in Nat : j \notin T[k].index .. EndOf(T[k]) - 1 =>
                          Peek(c, 0 + j) = Peek(b, 0 + j)
    BY <1>4, <1>9 DEF e, lo
  <2>2. 0 \in Nat
    OBVIOUS
  <2> HIDE DEF T, E
  <2>3. /\ Table(T, c, 0)
        /\ EntriesIn(T, c, 0) = [EntriesIn(T, b, 0) EXCEPT ![k] = EntryIn(T[k], c, 0)]
    BY <1>2, <1>3, <2>1, <2>2, UpdatedTable
  <2> QED BY <1>2, <2>3 DEF e
<1>13. now = EntriesIn(T, c, 0)
  <2>1. k \in DOMAIN E /\ E[k] = EntryIn(e, b, 0)
    BY <1>2, <1>3 DEF EntriesIn, e
  <2>2. [E[k] EXCEPT !.value = value] = EntryIn(e, c, 0)
    BY <1>11, <2>1 DEF EntryIn
  <2> HIDE DEF E
  <2>3. now = [E EXCEPT ![k] = EntryIn(e, c, 0)]
    BY <2>2, Zenon
  <2> QED BY <1>12, <2>3
<1>14. OwnerFine(m, c) /\ Fine(m, c, 0)
  <2>1. 1 \in Nat /\ 1 \notin lo .. hi - 1
    BY <1>4 DEF lo
  <2>2. Peek(c, SIZE) = Peek(b, SIZE)
    BY <1>9, <2>1
  <2>3. OwnerFine(m, c)
    BY <1>2, <2>2 DEF OwnerFine
  <2> QED BY <1>1, <1>12, <2>3 DEF Fine
<1>15. /\ promised[o].ok /\ promised[o].entries = now /\ Promise(promised[o])
       /\ \A v \in Objects \ {o} : promised[v] = said[v]
  <2>1. DOMAIN said = Objects /\ Promise(said[o])
    BY DEF FaithInv, Recorded
  <2>2. k \in DOMAIN E
    BY <1>2, <1>3 DEF EntriesIn
  <2>3. promised = [said EXCEPT ![o].entries = now]
    BY <2>2
  <2> HIDE DEF now, promised, E
  <2> QED BY <1>1, <2>1, <2>3 DEF Promise
<1> HIDE DEF promised, now
<1>16. \A v \in Objects : Promise(promised[v])
  BY <1>15 DEF FaithInv, Recorded
<1>17. /\ Recorded'
       /\ \A v \in Objects : said'[v].ok =>
            said'[v] = promised[v] /\ v \notin Reading(o, m.p_data, lo, hi)
  <2> DEFINE gone == Reading(o, m.p_data, lo, hi)
  <2>1. Becomes(obj, h, promised, gone)
    BY <1>1
  <2> HIDE DEF gone, h
  <2>2. /\ Recorded'
        /\ \A v \in Objects : said'[v].ok => said'[v] = promised[v] /\ v \notin gone
    BY <1>16, <2>1, BecomesSaid
  <2> QED BY <2>2 DEF gone
<1>18. obj' = obj /\ heap' = h
  BY <1>1, Zenon DEF Becomes
<1>19. heap'[m.p_data] = c /\ \A d \in Blocks : d # m.p_data => heap'[d] = heap[d]
  BY <1>2, <1>18 DEF OwnerInv, Typed
<1>20. ASSUME NEW j \in Nat, j < lo \/ j >= hi
       PROVE  Peek(c, j) = Peek(b, j)
  <2>1. j \notin lo .. hi - 1
    BY <1>4, <1>6, <1>20 DEF lo
  <2> QED BY <1>9, <2>1
<1> HIDE DEF hi
<1>21. Written(o, m, c, lo, hi)
  BY <1>1, <1>18, <1>19, <1>20 DEF Written, b
<1>22. /\ \A v \in Objects \ {o} : said'[v].ok =>
            said'[v] = said[v] /\ v \notin Reading(o, obj[o].p_data, lo, hi)
       /\ said'[o].ok => Fine(m, c, 0) /\ said'[o].entries = EntriesIn(m.data, c, 0)
  BY <1>13, <1>14, <1>15, <1>17
<1>23. lo \in Nat /\ hi \in Nat
  BY <1>4, <1>6 DEF lo
<1> HIDE DEF m
<1> QED BY <1>1, <1>17, <1>21, <1>22, <1>23, WrittenFaith DEF m

(* The table T without its element k, which those behind it have moved over. *)
Without(S, T, k, total) ==
  /\ S \in Seq(Entry) /\ Len(S) = Len(T) - 1
  /\ \A i \in 1 .. Len(T) - 1 :
       S[i] = IF i < k THEN T[i] ELSE [T[i + 1] EXCEPT !.index = @ - total]

(* The table that Delete leaves: just the elements behind have moved. *)
LEMMA ShiftedEntries ==
  ASSUME NEW m \in Members, NEW b, Table(m.data, b, 0), NEW k \in DOMAIN m.data,
         NEW total \in Nat
  PROVE  Without(Shifted(m, k, total), m.data, k, total)
<1> DEFINE T == m.data
           n == Len(T)
           moved(i) == IF T[i].index > T[k].index
                       THEN [T[i] EXCEPT !.index = @ - total] ELSE T[i]
           all == [i \in DOMAIN T |-> moved(i)]
<1>1. /\ T \in Seq(Entry) /\ n \in Nat /\ DOMAIN T = 1 .. n /\ k \in 1 .. n
      /\ \A i \in 1 .. n : T[i] \in Entry
  BY LenProperties, ElementOfSeq DEF Members
<1>2. ASSUME NEW i \in 1 .. n
      PROVE  T[i].index > T[k].index <=> i > k
  <2> DEFINE X(j) == T[j].index
             Y(j) == StartOf(T[j])
             Z(j) == EndOf(T[j])
  <2>1. \A j \in 1 .. n :
          X(j) \in Nat /\ Y(j) \in Nat /\ Z(j) \in Nat /\ Y(j) < X(j) /\ X(j) <= Z(j)
    <3> TAKE j \in 1 .. n
    <3> DEFINE x == X(j)
               y == Y(j)
               s == T[j].size
               a == HeaderBytes(T[j])
    <3>1. /\ y \in Nat /\ Z(j) \in Nat /\ a \in {2, 3} /\ x = y + a /\ x \in Nat
          /\ s \in Nat /\ Z(j) = x + s
      BY <1>1, TableEnds
    <3> HIDE DEF x, y, s, a
    <3>2. y < x /\ x <= x + s
      BY <3>1
    <3> QED BY <3>1, <3>2 DEF x, y
  <2>2. \A j, l \in 1 .. n : j < l => Z(j) <= Y(l)
    BY <1>1 DEF Table, Apart
  <2> HIDE DEF X, Y, Z
  <2>3. i \in Nat /\ k \in Nat
    BY <1>1
  <2>4. CASE i > k
    <3>1. Z(k) <= Y(i)
      BY <1>1, <2>2, <2>3, <2>4
    <3>2. X(i) > X(k)
      BY <1>1, <2>1, <3>1
    <3> QED BY <2>4, <3>2 DEF X
  <2>5. CASE i = k
    <3>1. ~(X(i) > X(k)) /\ ~(i > k)
      BY <1>1, <2>1, <2>3, <2>5
    <3> QED BY <3>1 DEF X
  <2>6. CASE i < k
    <3>1. Z(i) <= Y(k)
      BY <1>1, <2>2, <2>3, <2>6
    <3>2. /\ Y(i) \in Nat /\ X(i) \in Nat /\ Z(i) \in Nat /\ X(i) <= Z(i)
          /\ Y(k) \in Nat /\ X(k) \in Nat /\ Y(k) < X(k)
      BY <1>1, <2>1
    <3>3. ~(X(i) > X(k))
      BY <3>1, <3>2
    <3>4. ~(i > k)
      BY <2>3, <2>6
    <3> QED BY <3>3, <3>4 DEF X
  <2>7. i > k \/ i = k \/ i < k
    BY <2>3
  <2> QED BY <2>4, <2>5, <2>6, <2>7
<1>3. \A i \in 1 .. n : moved(i) \in Entry
  <2> TAKE i \in 1 .. n
  <2>1. T[i] \in Entry /\ T[i].index - total \in Int
    <3>1. T[i] \in Entry
      BY <1>1
    <3>2. T[i].index \in Int
      BY <3>1 DEF Entry
    <3> QED BY <3>1, <3>2
  <2>2. [T[i] EXCEPT !.index = @ - total] \in Entry
    BY <2>1 DEF Entry
  <2> QED BY <2>1, <2>2
<1>4. all \in [1 .. n -> Entry] /\ \A i \in 1 .. n : all[i] = moved(i)
  BY <1>1, <1>3
<1> HIDE DEF all
<1>5. all \in Seq(Entry) /\ Len(all) = n /\ k \in DOMAIN all
  BY <1>1, <1>4, SeqDef
<1> DEFINE r == RemoveAt(all, k)
<1>6. /\ r \in Seq(Entry) /\ Len(r) = n - 1
      /\ \A i \in 1 .. n - 1 : r[i] = IF i < k THEN all[i] ELSE all[i + 1]
  <2>1. Removed(r, Entry, all, k)
    BY <1>5, RemovedAt
  <2> HIDE DEF r
  <2> QED BY <1>5, <2>1 DEF Removed
<1>7. r = Shifted(m, k, total)
  BY Zenon DEF Shifted, all
<1> HIDE DEF r
<1>8. ASSUME NEW i \in 1 .. n - 1
      PROVE  r[i] = IF i < k THEN T[i] ELSE [T[i + 1] EXCEPT !.index = @ - total]
  <2>1. i \in 1 .. n /\ i + 1 \in 1 .. n /\ i \in Nat /\ k \in Nat
    BY <1>1
  <2>2. CASE i < k
    <3>1. all[i] = T[i]
      <4>1. ~(i > k)
        BY <2>1, <2>2
      <4>2. ~(T[i].index > T[k].index)
        BY <1>2, <2>1, <4>1
      <4>3. all[i] = moved(i)
        BY <1>4, <2>1
      <4> QED BY <4>2, <4>3, Zenon
    <3> QED BY <1>6, <2>2, <3>1
  <2>3. CASE ~(i < k)
    <3>1. i + 1 > k
      BY <2>1, <2>3
    <3>2. all[i + 1] = [T[i + 1] EXCEPT !.index = @ - total]
      BY <1>2, <1>4, <2>1, <3>1
    <3> QED BY <1>6, <2>3, <3>2
  <2> QED BY <2>2, <2>3
<1>9. Without(r, T, k, total)
  BY <1>6, <1>8 DEF Without
<1> QED BY <1>7, <1>9

(* c is what becomes of the block b of size cells when the total cells at  *)
(* lo are taken out of a message of n.                                     *)
Closed(c, b, lo, total, n, size) ==
  /\ IsBlock(c) /\ Cells(c) = size /\ Peek(c, SIZE) = n - total
  /\ \A j \in Nat : j >= HEADER_ELEMENTS /\ (j < lo \/ j >= size) =>
       Peek(c, j) = Peek(b, j)
  /\ \A j \in Nat : j >= lo + total /\ j < n => Peek(c, j - total) = Peek(b, j)

(* The cells behind those taken out are moved to the front, the others stay. *)
LEMMA ClosedBlock ==
  ASSUME NEW size \in Nat, NEW b \in Block(size), NEW lo \in Nat, lo >= HEADER_ELEMENTS,
         NEW total \in Nat, NEW n \in Nat, lo + total <= n, n <= size,
         NEW used, used = n - total, NEW count \in Nat,
         NEW c, c = WriteHeader(CloseGap(b, lo, total, n), used, count)
  PROVE  Closed(c, b, lo, total, n, size)
<1> DEFINE rest == CloseGap(b, lo, total, n)
<1>1. used \in Nat /\ used >= lo /\ used <= n /\ used <= size
  OBVIOUS
<1>2. /\ rest \in Block(size)
      /\ \A k \in 0 .. size - 1 :
           rest[k] = IF lo <= k /\ k < n - total THEN Peek(b, k + total) ELSE b[k]
  <2>1. lo \in Int
    OBVIOUS
  <2> QED BY <2>1, CloseGapBlock
<1>3. c = WriteHeader(rest, used, count)
  OBVIOUS
<1> HIDE DEF rest
<1>4. IsBlock(b) /\ Cells(b) = size
  BY CellsOfBlock
<1>5. /\ c \in Block(size)
      /\ \A k \in 0 .. size - 1 : k \notin {SIZE, ELEMENTS} => c[k] = rest[k]
  <2>1. c \in Block(size)
    BY <1>1, <1>2, <1>3, HeaderBlock
  <2>2. \A k \in 0 .. size - 1 : k \notin {SIZE, ELEMENTS} => c[k] = rest[k]
    BY <1>2, <1>3 DEF WriteHeader, Block
  <2> QED BY <2>1, <2>2
<1>6. IsBlock(c) /\ Cells(c) = size
  BY <1>5, CellsOfBlock
<1>7. Peek(c, SIZE) = used
  <2>1. SIZE \in DOMAIN rest /\ SIZE # ELEMENTS
    BY <1>1, <1>2 DEF Block
  <2>2. c[SIZE] = used /\ SIZE \in DOMAIN c
    BY <1>3, <2>1 DEF WriteHeader
  <2> QED BY <2>2 DEF Peek
<1>8. ASSUME NEW j \in 3 .. used - 1
      PROVE  Peek(c, j) = rest[j]
  <2>1. j \in 0 .. size - 1 /\ j \notin {1, 2}
    BY <1>1
  <2>2. Peek(c, j) = c[j]
    BY <1>6, <2>1, PeekCell
  <2> QED BY <1>5, <2>1, <2>2
<1>9. ASSUME NEW j \in Nat, j >= 3, j < lo \/ j >= size
       PROVE  Peek(c, j) = Peek(b, j)
  <2>1. CASE j >= size
    <3>1. j \notin DOMAIN c /\ j \notin DOMAIN b
      BY <1>5, <2>1 DEF Block
    <3> QED BY <3>1 DEF Peek
  <2>2. CASE j < lo
    <3>1. j \in 3 .. used - 1 /\ j \in 0 .. size - 1 /\ ~(lo <= j)
      BY <1>1, <1>9, <2>2
    <3>2. rest[j] = b[j]
      BY <1>2, <3>1
    <3>3. Peek(b, j) = b[j]
      BY <1>4, <3>1, PeekCell
    <3> QED BY <1>8, <3>1, <3>2, <3>3
  <2> QED BY <1>9, <2>1, <2>2
<1>10. ASSUME NEW j \in Nat, j >= lo + total, j < n
       PROVE  Peek(c, j - total) = Peek(b, j)
  <2>1. /\ j - total \in 3 .. used - 1 /\ j - total \in 0 .. size - 1
        /\ lo <= j - total /\ j - total < n - total /\ (j - total) + total = j
    BY <1>1, <1>10
  <2>2. rest[j - total] = Peek(b, j)
    BY <1>2, <2>1
  <2> QED BY <1>8, <2>1, <2>2
<1> QED BY <1>6, <1>7, <1>9, <1>10 DEF Closed

(* The table without the element, over the cells without it. *)
LEMMA DeletedEntries ==
  ASSUME NEW T \in Seq(Entry), NEW b, Table(T, b, 0), NEW n, Tiled(T, n),
         NEW k \in DOMAIN T, NEW total \in Nat, EndOf(T[k]) = StartOf(T[k]) + total,
         NEW S, Without(S, T, k, total),
         NEW c, NEW size, Closed(c, b, StartOf(T[k]), total, n, size)
  PROVE  Deleted(S, c, T, b, k, n - total, 0)
<1>1. StartOf(T[k]) \in Nat /\ n \in Nat
  BY TableEnds, TiledEnds
<1>2. total = EndOf(T[k]) - StartOf(T[k]) /\ 0 \in Nat
  BY <1>1
<1>3. \A j \in Nat : j >= HEADER_ELEMENTS /\ j < StartOf(T[k]) =>
                        Peek(c, 0 + j) = Peek(b, 0 + j)
  BY DEF Closed
<1>4. \A j \in Nat : j >= EndOf(T[k]) /\ j < n =>
                        Peek(c, 0 + (j - total)) = Peek(b, 0 + j)
  <2> TAKE j \in Nat
  <2> HAVE j >= EndOf(T[k]) /\ j < n
  <2>1. Peek(c, j - total) = Peek(b, j)
    BY DEF Closed
  <2>2. 0 + (j - total) = j - total /\ 0 + j = j
    OBVIOUS
  <2> QED BY <2>1, <2>2
<1>5. /\ S \in Seq(Entry) /\ Len(S) = Len(T) - 1
      /\ \A i \in 1 .. Len(T) - 1 :
           S[i] = IF i < k THEN T[i] ELSE [T[i + 1] EXCEPT !.index = @ - total]
  BY DEF Without
<1> QED BY <1>2, <1>3, <1>4, <1>5, DeletedTable

(* mem_used does not wrap when an element is taken out of a message. *)
LEMMA UsedFits ==
  ASSUME NEW n \in Nat, n <= MaxCells, NEW total \in Nat, total <= n
  PROVE  AsU64(n - total) = n - total /\ n - total \in Nat
<1>1. n - total \in Int /\ n - total \in 0 .. U64 - 1
  BY ObjectsAssumption, FormatAssumption
<1> QED BY <1>1, AsU64Fits

LEMMA DeleteFaith ==
  ASSUME OwnerInv, FaithInv, NEW o \in Objects, NEW name, Delete(o, name)
  PROVE  FaithInv'
<1> DEFINE m     == obj[o]
           T     == m.data
           n     == m.mem_used
           size  == m.p_size
           b     == heap[m.p_data]
           k     == Find(m, name)
           e     == T[k]
           lo    == StartOf(e)
           total == HeaderBytes(e) + e.size
           used  == AsU64(n - total)
           count == AsU64(m.el_size - 1)
           c     == WriteHeader(CloseGap(b, lo, total, n), used, count)
           S     == Shifted(m, k, total)
           objects == [obj EXCEPT ![o].mem_used = used, ![o].el_size = count, ![o].data = S]
           d     == [m EXCEPT !.mem_used = used, !.el_size = count, !.data = S]
           h     == [heap EXCEPT ![m.p_data] = c]
           promised == [said EXCEPT ![o].entries =
                          IF k \in DOMAIN @ THEN RemoveAt(@, k) ELSE @]
           gone  == Reading(o, m.p_data, lo, n)
<1>1. /\ said[o].ok /\ ~m.readOnly /\ k # 0
      /\ Becomes(objects, h, promised, gone)
  BY Zenon DEF Delete, Writable
<1>2. /\ m.p_data # 0 /\ m.p_data \in Blocks /\ T \in Seq(Entry)
      /\ b \in Block(size) /\ size \in Nat /\ n \in Nat
      /\ Table(T, b, 0) /\ OwnerFine(m, b) /\ said[o].entries = EntriesIn(T, b, 0)
  BY <1>1, OwnerKept
<1>3. k \in DOMAIN T /\ m \in Members /\ e \in Entry
  BY <1>1, BlockOfObject, FoundEntry
<1> HIDE DEF k
<1>4. /\ lo \in Nat /\ lo >= 3 /\ total \in Nat /\ total >= 2
      /\ EndOf(e) = lo + total
  <2> DEFINE x == HeaderBytes(e)
             y == e.size
             z == e.index
  <2>1. /\ lo \in Nat /\ lo >= 3 /\ x \in {2, 3} /\ z = lo + x /\ y \in Nat
        /\ EndOf(e) = z + y /\ total = x + y
    BY <1>2, <1>3, TableEnds
  <2> HIDE DEF x, y, z, e, lo, total
  <2> QED BY <2>1
<1> HIDE DEF total
<1>5. lo + total <= n /\ n <= size
  <2>1. EndOf(e) <= n
    BY <1>2, <1>3, TiledEnds DEF OwnerFine
  <2> QED BY <1>2, <1>4, <2>1 DEF OwnerFine
<1>6. used = n - total /\ used \in Nat
  <2>1. n # HEADER_ELEMENTS
    <3> HIDE DEF n, lo
    <3> QED BY <1>2, <1>4, <1>5
  <2>2. n <= MaxCells
    BY <1>2, <2>1 DEF OwnerFine
  <2> HIDE DEF n, lo
  <2>3. total <= n
    BY <1>2, <1>4, <1>5
  <2> QED BY <1>2, <1>4, <2>2, <2>3, UsedFits
<1>7. count \in Nat
  <2>1. m.el_size - 1 \in Int
    BY <1>3 DEF Members
  <2> QED BY <2>1, AsU64Fits
<1> HIDE DEF used, count, e
<1>8. Closed(c, b, lo, total, n, size)
  <2> HIDE DEF b, lo, n, size
  <2>1. lo >= HEADER_ELEMENTS
    BY <1>4
  <2> QED BY <1>2, <1>4, <1>5, <1>6, <1>7, <2>1, ClosedBlock
<1> HIDE DEF c
<1>9. Without(S, T, k, total)
  <2> HIDE DEF m
  <2> QED BY <1>2, <1>3, <1>4, ShiftedEntries
<1> HIDE DEF S
<1>10. Deleted(S, c, T, b, k, n - total, 0)
  <2>1. Tiled(T, n) /\ EndOf(T[k]) = StartOf(T[k]) + total
        /\ Closed(c, b, StartOf(T[k]), total, n, size)
    BY <1>2, <1>4, <1>8 DEF e, OwnerFine
  <2> HIDE DEF T, b, n, size
  <2> QED BY <1>2, <1>3, <1>4, <1>9, <2>1, DeletedEntries
<1>11. /\ ~d.readOnly /\ d.p_data = m.p_data /\ d.data = S /\ d.mem_used = used
       /\ d.p_size = size
  BY <1>1, <1>3 DEF Members
<1>12. obj' = objects /\ heap' = h
  BY <1>1, Zenon DEF Becomes
<1>13. /\ obj'[o] = d /\ \A v \in Objects \ {o} : obj'[v] = obj[v]
       /\ objects[o] = d
  <2>1. DOMAIN obj = Objects
    BY DEF OwnerInv, Typed
  <2> QED BY <1>12, <2>1
<1> HIDE DEF d, objects
<1>14. OwnerFine(d, c) /\ Fine(d, c, 0)
  <2>1. n = HEADER_ELEMENTS \/ n <= MaxCells
    BY <1>2 DEF OwnerFine
  <2> HIDE DEF n, size, lo
  <2>2. Tiled(d.data, d.mem_used)
    BY <1>6, <1>10, <1>11 DEF Deleted
  <2>3. d.mem_used <= d.p_size /\ d.mem_used <= MaxCells
    BY <1>2, <1>4, <1>5, <1>6, <1>11, <2>1, ObjectsAssumption
  <2>4. Peek(c, SIZE) <= d.mem_used
    BY <1>6, <1>8, <1>11 DEF Closed
  <2>5. OwnerFine(d, c)
    BY <2>2, <2>3, <2>4 DEF OwnerFine
  <2> QED BY <1>10, <1>11, <2>5 DEF Fine, Deleted
<1>15. /\ promised[o].ok /\ promised[o].entries = RemoveAt(said[o].entries, k)
       /\ Promise(promised[o])
       /\ \A v \in Objects \ {o} : promised[v] = said[v]
  <2>1. DOMAIN said = Objects /\ Promise(said[o])
    BY DEF FaithInv, Recorded
  <2>2. k \in DOMAIN said[o].entries
    BY <1>2, <1>3 DEF EntriesIn
  <2> DEFINE now == RemoveAt(said[o].entries, k)
  <2>3. promised = [said EXCEPT ![o].entries = now]
    BY <2>2
  <2> HIDE DEF now, promised
  <2>4. /\ promised[o].ok /\ promised[o].entries = now /\ Promise(promised[o])
        /\ \A v \in Objects \ {o} : promised[v] = said[v]
    BY <1>1, <2>1, <2>3 DEF Promise
  <2> QED BY <2>4 DEF now
<1> HIDE DEF promised
<1>16. \A v \in Objects : Promise(promised[v])
  BY <1>15 DEF FaithInv, Recorded
<1> HIDE DEF gone, h
<1>17. /\ Recorded'
       /\ \A v \in Objects : said'[v].ok => said'[v] = promised[v] /\ v \notin gone
  BY <1>1, <1>16, BecomesSaid
<1>18. heap'[m.p_data] = c /\ \A x \in Blocks : x # m.p_data => heap'[x] = heap[x]
  BY <1>2, <1>12 DEF OwnerInv, Typed, h
<1>19. ASSUME NEW j \in DOMAIN T, StartOf(T[j]) < lo
       PROVE  \E i \in DOMAIN S : S[i] = T[j]
  <2>1. j < k
    <3> DEFINE x == StartOf(T[j])
               y == EndOf(T[k])
    <3>1. x \in Nat /\ y = lo + total
      BY <1>2, <1>4, TableEnds DEF e
    <3>2. k < j => y <= x
      BY <1>2, <1>3 DEF Table, Apart
    <3>3. k = j => x = lo
      BY DEF e
    <3>4. x < lo
      BY <1>19
    <3> HIDE DEF x, y, lo
    <3>5. ~(k < j) /\ k # j
      BY <1>4, <3>1, <3>2, <3>3, <3>4
    <3>6. j \in Nat /\ k \in Nat
      BY <1>2, <1>3, LenProperties
    <3> QED BY <3>5, <3>6
  <2>2. Len(T) \in Nat /\ DOMAIN T = 1 .. Len(T) /\ DOMAIN S = 1 .. Len(S)
    BY <1>2, <1>9, LenProperties DEF Without
  <2> HIDE DEF T
  <2>3. j \in 1 .. Len(T) - 1
    BY <1>3, <2>1, <2>2
  <2> QED BY <1>9, <2>1, <2>2, <2>3 DEF Without
<1>20. Written(o, d, c, lo, size)
  <2>1. ~(size < n)
    <3> HIDE DEF size, n
    <3> QED BY <1>2, <1>5
  <2> QED BY <1>8, <1>11, <1>13, <1>18, <1>19, <2>1 DEF Written, Closed
<1>21. ASSUME NEW v \in Objects \ {o}, said'[v].ok
       PROVE  said'[v] = said[v] /\ v \notin Reading(o, obj[o].p_data, lo, size)
  <2>1. said'[v] = said[v] /\ said[v].ok /\ v \notin Reading(o, m.p_data, lo, n)
    BY <1>15, <1>17, <1>21 DEF gone
  <2>2. CASE obj[v].readOnly /\ obj[v].p_ex_data.block = m.p_data
    <3> DEFINE at == obj[v].p_ex_data.at
               far == Reach(obj[v])
    <3>1. at \in Nat /\ far \in Nat /\ far >= 3 /\ at + far <= n
      BY <1>1, <2>1, <2>2, ReaderWithin
    <3>2. ~(at < n /\ lo < at + far)
      BY <2>1, <2>2 DEF Reading
    <3> HIDE DEF at, far, n, lo
    <3>3. ~(lo < at + far)
      BY <1>2, <3>1, <3>2
    <3> QED BY <2>1, <3>3 DEF Reading, at, far
  <2>3. CASE ~(obj[v].readOnly /\ obj[v].p_ex_data.block = m.p_data)
    BY <2>1, <2>3 DEF Reading
  <2> QED BY <2>2, <2>3
<1>22. said'[o].ok => Fine(d, c, 0) /\ said'[o].entries = EntriesIn(d.data, c, 0)
  BY <1>2, <1>10, <1>11, <1>14, <1>15, <1>17 DEF Deleted
<1> HIDE DEF lo, size
<1> QED BY <1>1, <1>2, <1>4, <1>17, <1>20, <1>21, <1>22, WrittenFaith

-----------------------------------------------------------------------------
(* The invariant. *)

LEMMA FaithInit == Init => FaithInv
<1> SUFFICES ASSUME Init PROVE FaithInv
  OBVIOUS
<1>1. said = [o \in Objects |-> Nothing]
  BY DEF Init
<1>2. \A o \in Objects : said[o] = Nothing
  BY <1>1
<1>3. Recorded
  BY <1>1, <1>2, SaysPromise DEF Recorded
<1>4. \A o \in Objects : ~said[o].ok
  BY <1>2, SaysPromise
<1> QED BY <1>3, <1>4 DEF FaithInv, Keeps, View

LEMMA FaithStep ==
  ASSUME OwnerInv, FaithInv, [Next]_vars
  PROVE  FaithInv'
<1>1. CASE UNCHANGED vars
  <2>1. obj' = obj /\ heap' = heap /\ said' = said
    BY <1>1 DEF vars
  <2>2. Recorded' /\ (\A o \in Objects : Keeps(o)') /\ \A v, w \in Objects : View(v, w)'
    BY <2>1 DEF FaithInv, Recorded, Keeps, View, SourceData
  <2> QED BY <2>2 DEF FaithInv
<1>2. CASE Next
  <2>1. PICK o \in Objects :
          \/ Construct(o) \/ Destroy(o) \/ Clear(o)
          \/ \E name \in ScalarNames, value \in Values :
               AddScalar(o, name, value) \/ Update(o, name, value)
          \/ \E name \in ScalarNames \cup MessageNames \cup ArrayNames : Delete(o, name)
          \/ \E s \in Objects :
               \/ CopyConstruct(o, s) \/ CopyAssign(o, s)
               \/ MoveConstruct(o, s) \/ MoveAssign(o, s)
               \/ Clone(o, s) \/ Wrap(o, s)
               \/ \E name \in MessageNames :
                    AddMessage(o, name, s) \/ GetMessage(o, name, s)
          \/ \E name \in ArrayNames, vector \in Vectors :
               AddMessageArray(o, name, vector) \/ GetMessageArray(o, name, vector)
    BY <1>2, Zenon DEF Next
  <2>2. CASE Construct(o) \/ Destroy(o) \/ Clear(o)
    BY <2>2, ConstructFaith, DestroyFaith, ClearFaith
  <2>3. ASSUME NEW name \in ScalarNames, NEW value \in Values,
               AddScalar(o, name, value) \/ Update(o, name, value)
        PROVE  FaithInv'
    BY <2>3, AddScalarFaith, UpdateFaith
  <2>4. ASSUME NEW name, Delete(o, name)
        PROVE  FaithInv'
    BY <2>4, DeleteFaith
  <2>5. ASSUME NEW s \in Objects,
               \/ CopyConstruct(o, s) \/ CopyAssign(o, s)
               \/ MoveConstruct(o, s) \/ MoveAssign(o, s)
               \/ Clone(o, s) \/ Wrap(o, s)
        PROVE  FaithInv'
    BY <2>5, CopyFaith, MovesFaith, CloneFaith, WrapFaith
  <2>6. ASSUME NEW s \in Objects, NEW name \in MessageNames,
               AddMessage(o, name, s) \/ GetMessage(o, name, s)
        PROVE  FaithInv'
    BY <2>6, AddMessageFaith, GetMessageFaith
  <2>7. ASSUME NEW name \in ArrayNames, NEW vector \in Vectors,
               AddMessageArray(o, name, vector) \/ GetMessageArray(o, name, vector)
        PROVE  FaithInv'
    BY <2>7, AddMessageArrayFaith, GetMessageArrayFaith
  <2> QED BY <2>1, <2>2, <2>3, <2>4, <2>5, <2>6, <2>7, Zenon
<1> QED BY <1>1, <1>2

(* What is promised of a message is what it says. *)
LEMMA FaithHolds == OwnerInv /\ FaithInv => Faithful
<1> SUFFICES ASSUME OwnerInv, FaithInv, NEW o \in Objects, said[o].ok
             PROVE  Contents(obj[o]) = said[o].entries
  BY DEF Faithful
<1> DEFINE ptr == SourceData(obj[o])
<1>1. /\ ptr.block # 0
      /\ Fine(obj[o], heap[ptr.block], ptr.at)
      /\ said[o].entries = EntriesIn(obj[o].data, heap[ptr.block], ptr.at)
  BY DEF FaithInv, Keeps
<1>2. obj[o].data \in Seq(Entry)
  BY BlockOfObject DEF Members
<1>3. ptr.at \in Nat /\ Table(obj[o].data, heap[ptr.block], ptr.at)
  BY <1>1 DEF Fine
<1> HIDE DEF ptr
<1>4. SourceData(obj[o]) = ptr
  BY DEF ptr
<1> QED BY <1>1, <1>2, <1>3, <1>4, ContentsRead

(* Whatever calls are made on however many messages, a message of which    *)
(* something is promised says exactly what was put into it, into the one   *)
(* it was copied, cloned or moved from, or into the element it was read    *)
(* out of; if it is over the buffer of another, until the part it reads is *)
(* written to or freed.                                                    *)
THEOREM FaithfulCorrect == Spec => []Faithful
<1> QED BY OwnerInit, OwnerStep, FaithInit, FaithStep, FaithHolds, PTL DEF Spec

=============================================================================
