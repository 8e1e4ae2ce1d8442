# A TLA+ model of DcMsg

DcMsg is a small self-describing binary message format for C++17 with a Python
port. A message is a byte buffer: a header of three 64-bit words (version, size,
number of elements) and named, typed elements one behind the other. This
directory holds TLA+ modules that model the C++ implementation, the Python port
and the threads around them, TLC configurations that check them on small
instances, and TLAPS proofs, for instances of every size: of the layout and the
counts of messages, of what a receiver finds and what `Get` reads, of the class as an
implementation of a dictionary, of failed allocations, of who owns which block, of the
hand-over between the threads of the demo and of what the logger prints.

References of the form `dcmsg.cpp:1282` are to `src/src/dcmsg.cpp`, those to
`dcmsg.h` to `src/include/dcmsg/dcmsg.h`.

## 1. Inventory

| Component | State | Operations | Modelled |
|---|---|---|---|
| Wire format (`dcmsg.h:3-45`, `dcmsg.cpp:253-352`) | a buffer | encode an element, grow the block, close a gap, write the header | `WireFormat` |
| DcMsg object (`dcmsg.h:224-234`) | `readOnly`, `validData`, the table `data` of element descriptions, owned block `p_data` of `p_size` bytes, received block `p_ex_data`, `mem_used`, `el_size`, `last_error` | construct, `Add*`, `Update*`, `Get*`, `Delete`, `Clear`, `Clone`, `GetData` | `DcMsg` |
| Receiving (`dcmsg.cpp:23-58`, `471-519`) | the object being constructed, `curr_index` | header checks, `ParseData` | `DcMsg` |
| Allocation failures (`dcmsg.cpp:215-221`, `268-274`, `302-309`) | the object | every call that allocates | `AllocFailure` |
| Copy, assignment, move (`dcmsg.cpp:60-183`) | several objects that own or share blocks of a heap | copy and move construction and assignment, destruction, `Clone` | `Objects` |
| Nested messages (`dcmsg.cpp:758-824`, `1201-1252`) | children that read the parent's buffer | `AddMessage[Array]`, `GetMessage[Array]` | `Objects`, `MCViews` |
| Python port (`python/dcmsg.py`) | `read_only`, `p_elem`, `p_header`, `p_data` | `__init__`, `Add*`, `Clear`, `GetData` | `PyDcMsg`, `CrossLanguage` (partly) |
| Logger (`src/logger.cpp`) | two levels, a target mask, a mutex | setters, `Log*` | `Logger` |
| Publisher/subscriber demo (`examples/pubsub_demo.cpp`) | a queue under a mutex, a condition variable, three threads | `Send`, `Receive` | `Channel` |
| Conversions of values, printing, quick starts, tests, build | | | no: see section 6 |

**How the parts interact.** The owner of a `DcMsg` calls its methods from one
thread; the class has no lock. `GetData` hands out a pointer to the block; the
owner copies the bytes to a transport of its choice. A receiver constructs a
read-only object directly over what arrived, without copying it; `Clone` turns
that into an independent writable message. `GetMessage` builds a read-only child
over a part of its parent's block. Every error goes to `last_error` and to the
logger, a process-wide singleton.

**Where it is hard.** Nothing in the class runs concurrently; the logger and the
demo do. In the class the difficulty is that the same facts are kept in several
places, by code that edits each by hand:

- an element is described by an entry of `data` and by the bytes in front of its
  value; `Delete` moves the bytes and corrects the indices separately;
- the number of elements is in `data`, in `el_size` and in the header word;
- the end of the data is in `mem_used` and in the SIZE word, the length of the
  block in `p_size` and with the allocator;
- the block is owned (`p_data`) or somebody else's (`p_ex_data`), by a flag;
- what arrives over the wire decides how the parser moves through it;
- objects share buffers: copies of a received message, children of a parent, whose
  calls move, free and overwrite what others read;
- a second implementation writes and reads the same bytes by rules of its own;
- a failed allocation can happen in the middle of any of this.

The correctness of each component, then:

- *Wire format and object*: table and buffer describe each other; the counts
  agree; a call changes what it names and nothing else; a refused call changes
  nothing and leaves a true reason.
- *Receiving*: what is sent is what is received; any other buffer is refused or
  read within its bounds; the constructor returns.
- *Allocation failures*: a message that is valid stays sound, and its loss is
  reported.
- *Copy and move*: one owner per block; copies are independent and say the same
  as their source.
- *Nested messages*: a child says what was added until a call on its parent moves,
  frees or writes the bytes it reads.
- *Python port*: the two implementations accept the same buffers with the same
  contents, or the differences are known.
- *Logger*: lines are not interleaved; what is printed was asked for by some setting
  in force during the call; calls return.
- *Demo*: every message is delivered, once, in order, and both threads end.

`PROJECT.json` lists the hazards line by line, each with the properties that
cover it or the reason why none does yet.

## 2. Modules

```
 WireFormat        buffers in cells; encoding, growing, shifting, reading
  |  |  |
  |  | Objects     several objects over one heap: copies, moves, children
  |  |
  | PyDcMsg        the Python port's object
  |      |
 DcMsg --+--- CrossLanguage    a message between a C++ and a Python program
  |  |  |
  |  | AllocFailure    one object, with malloc and realloc failing
  |  |
  | DcMsgRefinement -> Dictionary    what the class promises
  |
 WireFormatProofs          lemmas about the format (over WireFormat alone)
  |        |
  |       ObjectsProofs    one owner per block, messages say what was put into them (with Objects)
  |
 DcMsgProofs               types, the layout invariant, Get within the block
  |
 RoundTripProofs           what was sent is what is received
  |        |
  |       RefinementProofs     the steps of Dictionary (with DcMsgRefinement)
  |
 CountsProofs              counts and names; failed allocations (with AllocFailure)

 Channel -> Fifo   the demo, and the queue it implements
 ChannelProofs     the hand-over, for TLAPS
 Logger            the logger and the threads that use it
 LoggerProofs      lines and filter, for TLAPS

 MCDcMsg, MCRefinement, MCAllocFailure, MCObjects, MCViews, MCCrossLanguage,
 MCChannel, MCLogger                            instances for TLC
```

### The unit of the model

A buffer is a function from offsets `0 .. n-1` to numbers; the unit is the
*cell*, one field of the format. A header word, a type code, a name and a length
are one cell each, a value is one or more. What this keeps: every offset, every
bound check, every shift, and that a reader at a wrong offset gets a number that
means something else there, because cells carry no tag. What it drops: the byte
width of fields and the characters of names. A buffer that is cut in the middle
of a field is represented by one that is cut before it: the two fail the same
check, since each check of `ParseData` compares with the end of one or two whole
fields.

The widths of the C++ integers that hold offsets and counts are parameters:
`AsU32` and `AsU64` are applied where the code stores into a `uint32_t` or
`uint64_t` (`index`, `curr_index`, lengths; `mem_used`, `el_size`).

`Undef` is what a cell holds that was never written: `malloc` and `realloc` do
not clear memory, and the bytes behind a buffer that `mem_used` overruns are
somebody else's. It is one number, fixed by the instance; no property relies on
its value, and the proofs hold for every choice.

### DcMsg

The variables are the members of the class under their own names, and:

| Variable | Stands for |
|---|---|
| `pc`, `curr_index` | control state and local variable of `ParseData`, which takes one element per step |
| `wire` | the caller's copy of the bytes, from `GetData` to the receiver's constructor |
| `sent` | history: number of faults, whether `wire` must be accepted, and the contents it must then have |
| `ret` | history: the last call, the name and the type it was about, and what it returned |

| Action | Code |
|---|---|
| `Construct` | `DcMsg()`, `InitHeader` |
| `BeginWrap`; `ParseElement`, `ParseReject`, `ParseDone` | `DcMsg(data, size)` up to `ParseData`; one turn of its loop that succeeds; one of its `return false`; its end |
| `AddScalar`, `AddVariable` | `AddBool` .. `AddDouble`; `AddString`, the `Add*Array` fronts and `AddMemoryArray`; both through `AddValue`, which stands for the two overloads with `CheckName` and `AddElementToBuffer` |
| `AddNoItems` | the first test of `AddStringArray` and `AddMessageArray` |
| `Update`, `Get`, `Delete` | `UpdateValue`, `RetrieveElement` and the `Get*` of variable-length types, `Delete` |
| `Clear`, `Clone` | the same; what `Clone` does to the object is `CopyObject`; it leaves the caller with the clone in place of the source |
| `Send` | `GetData(size)` and the copying of the bytes |
| `Lose`, `Damage` | the transport, which is external: the bytes are lost; a cell changes or the end is cut off |

Some points of the code that the model keeps on purpose:

- the order of the checks decides the error: `CheckName` comes before the
  read-only test, the read-only test before the null pointer, but the test of an
  array without items comes before them all;
- an object refused for its SIZE word keeps the size and the count it has read
  (`dcmsg.cpp:46-52`), so that its `mem_used` may exceed its buffer;
- the elements parsed before a rejection stay in `data`, and `Get` finds them;
- `InitHeader` writes SIZE 0 into an empty message, and such a message is refused
  by its receiver;
- the header of a clone is copied, not rewritten: `Clone` of an object without
  bytes has no header;
- `Clear` of a read-only message does nothing, and no `Clear` resets
  `last_error`.

`NotBasicType` is not in `Errors`: each public function passes a type of the
right kind, so that the test for it is never reached with a failing value.

While bytes are in flight (`pc = "sent"`) no other call is made. The copy in
`wire` shares nothing with the object, so that interleaving calls on the sender
with the flight adds no behaviour of either.

### Dictionary and DcMsgRefinement

`Dictionary` is what the class promises its callers, without buffers: an ordered
collection of named, typed values with `Add`, `Update`, `Remove`, `Get`, and the
life of a message (`Fresh`, `Clear`, `Duplicate`, `Publish`, `Arrive`, `Accept`,
`Reject`, `Lost`). A call is refused only for a reason that holds (`Reasons`): `TypeMismatch`
only where the value of that name has another type than the one asked for, `InvalidArgument`
only for an Add that was passed no value, which the mapping reads off `ret.type`
(`NoType`: a null pointer or an array without items). A message that was sent with at least
one element must be accepted with exactly its entries. The module is written from the README's promises and is not a translation of code; the
mapping is in `DcMsgRefinement`: the abstract `entries` are what `Get` would read
at the offsets of the table.

Of a message that is not valid the dictionary promises only that it does not
become valid by itself (`Unspecified`).

### AllocFailure

Adds the outcomes of the calls that allocate when the allocation fails:

- `ConstructFails`, `ClearFails`, `CloneFails` leave an object without a block,
  marked invalid, with `OutOfMemory`;
- `CloneRecovers`: `Clone` allocates twice, first for the empty message it starts
  from. If only the first allocation fails the clone is complete and yet carries
  `OutOfMemory` (the clone is returned without a move, as compilers do for a
  named local variable: the move constructor would drop `last_error`). The object
  becomes what `CopyObject` of `DcMsg` makes it;
- `AddGivesUp`, `ItemsGiveUp`: no memory for an element, or for the items of an
  array, too wide for the stack (`MAX_STACK_VAR_SIZE`);
- `AddGoesOn`: `AddElementToBuffer` does not look at what `AddToBuffer` returned;
- `AddCrashes`: the same on an object without a block: the header is written
  through a null pointer.

The model ends with the first `AddGoesOn` (variable `unstored`): from there on the
code reads memory behind the block, and nothing more can be said. Growth of
`std::vector` is not included.

### Objects and MCViews

`DcMsg` has one object and everything it does to its own buffer. `Objects` has
several and the heap: a call is one step, a pointer is a block and an offset, and
`heap[b]` is `NULL` while block `b` is not allocated. The header words, the table,
the offsets and the growth of the block are those of `WireFormat`; `ParseData` is a
function here, since its single steps are `DcMsg`'s subject. Refused calls change
nothing in this module: their replies are `DcMsg`'s subject too. Offsets have no width
here: that they stay below 2^32 is the assumption `MaxCells < U32` of the module, with
`MaxCells` the longest message that an Add makes or a `Clone` copies. `mem_used` and
`el_size`, from which `Delete` subtracts what the table says, have their width.

| Action | Code |
|---|---|
| `Construct`, `Destroy`, `Clear` | `DcMsg()`, `~DcMsg`, `Clear` |
| `CopyConstruct`, `CopyAssign` | `DcMsg(const DcMsg&)`, `operator=(const DcMsg&)`: what the source owns is copied; of a received message the pointer is shared and `InitHeader` adds a block, a size and `validData` |
| `MoveConstruct`, `MoveAssign` | `DcMsg(DcMsg&&)`, `operator=(DcMsg&&)`: the source stays constructed and hollow |
| `Clone` | `Clone` into a new object |
| `Wrap` | `DcMsg(data, size)` over what `GetData(size)` of another returns |
| `AddScalar`, `Update`, `Delete` | the same, over a heap, where growing may move the block |
| `AddMessage`, `AddMessageArray` | the bytes of other messages, or of the message itself, as a value |
| `GetMessage`, `GetMessageArray` | a message over each part, move-assigned to objects that exist; `GetMessage` may put it into the parent |

`said[o]` is a history variable: the entries that the calls made on `o`, or on the
messages its contents come from, have put into it. It is withdrawn when
nothing can be promised any more: the block that `o` reads is freed, or a call of the
owner has written the cells that `o` reads (`Reading`). A block that some pointer
still refers to is not handed out again, so that a read through a stale pointer is
seen as such and never happens to find good bytes. A message that `Wrap` makes over the
bytes of a sound one is promised the entries of its sender, not what the parser finds; only
over bytes of which nothing is promised is it what was parsed that counts.

`Live` is the discipline of the callers: they do not read a message whose bytes
are gone. `Writable` leaves out programs that go on to write to a message of which
nothing is promised. `Wrap` of `GetData`'s pointer and of a copy of the bytes are one
action: a caller's copy is a block nobody else writes, and so allows less. `Wrap` leaves out the
programs that give it a size beyond the end of the block, and reads no bytes that are
not there. `GetMessageArray` frees the block of one destination in each turn of its loop and
reads on: programs in which an earlier turn frees the block that a later one reads are left out.
`Delete` leaves the cells behind the new end as they were, as the code does.

In `MCViews` the program starts with three messages that have a scalar each, and
makes `MaxCalls` calls. The states with children, arrays and copies lie a few calls
behind a long preparation, which the initial state takes as done.

The string arrays (`AddStringArray`, `GetStringArray`) lay out their items as the
message arrays do, and have no actions of their own.

### PyDcMsg and CrossLanguage

`PyDcMsg` is the object of the port, in the cells of `WireFormat`: `p_elem` is the
dictionary in its order of insertion, `p_header` and `p_data` are the header words
and the bytes that were added. `Reads` is what the constructor does with a buffer.
It differs from `ParseData` in more than syntax: the version is not looked at; the
count in the header is compared; a later element of one name replaces the earlier; names and
strings must be UTF-8 and nested messages must be readable at once, or the whole
message is refused by an exception. `Encoded` gives what `__Name` writes for a name:
two long names may be written alike, a name may be cut inside a character
(`NotText`), and some cannot be encoded (`Unencodable`), for which `__Name` raises when
the dictionary already has the element.

`CrossLanguage` composes `DcMsg` and `PyDcMsg`: one message is followed from side to
side, as in `tests/cross_lang`. What is in flight may be received by either; a side
that has sent gives its object up when the other receives. `CppStep` is
everything `DcMsg` does, damage included; `PyReceive`, `PyCall` and `PySend` are the
Python program's.

### Channel, Fifo and ChannelProofs

The demo: `main` starts a publisher and a subscriber and joins both. Each thread has
a program counter, and each access to the queue, the mutex or the condition
variable is a step: locking, pushing, unlocking, `notify_one`; locking, the
predicate, blocking, waking, locking again, taking, unlocking. A notification wakes
the subscriber if it is blocked and is lost otherwise; a blocked subscriber may wake
by itself (`WakeSpuriously`). `out` is what was printed. A message is its two values:
encoding and parsing are `DcMsg`'s. `Decoded` has the three things that the subscriber may
print: that the message is invalid, its values, or that one of them cannot be read.

`Fifo` is what the channel promises: messages to do, in transit and arrived. The
mapping takes a message as in transit until it has been decoded and printed.

### Logger and LoggerProofs

Threads make logging calls and call setters. A logging call reads the target, takes
the mutex, compares the level and prints a line in three pieces. The setters take
no mutex, as in the code: each write of a level or of the target is a step between
any two others. By the letter of C++ that is a data race; what a build does is that
a word is read or written in one piece, and that the two writes of `SetLevel` come in
either order. `during` is a history variable: the levels that were in force since a
call began. `file_lvl` is written and never read, since `isFile` is false.

## 3. What the runs check

In the runs of `DcMsg` and `AllocFailure` names and values are small numbers, types are the codes 1 (scalar of one cell), 2
(scalar of two cells) and 3 (variable length). Blocks grow by steps of 2, 3 or 4
cells, so that the second or third element of a message makes the block grow, by
one step or two, with and without a clone having left it at an odd size.

| Run | Instance | Properties |
|---|---|---|
| `messages` | `MCDcMsg.cfg`: 3 names, types 1 and 3, up to 13 cells (3 elements), steps of 2; no damage; 250 000 states | `LayoutOK`, `CountsOK`, `RoundTrip` |
| `damage` | `MCDamage.cfg`: 2 names, types 1 and 3, values of 0 and 1 cell, up to 10 cells (2 elements), steps of 3, 1 fault; 450 000 states | `TypeOK`, `LayoutInv`, `GetInside`, `RoundTrip`, `ParseEnds` |
| `refinement` | `MCRefinement.cfg`: 3 names (one too long), types 2 and 3, values of 1 and 2 cells, up to 11 cells (2 elements), steps of 4; 150 000 states | `ImplementsDictionary` |
| `oom` | `MCAllocFailure.cfg`: 2 names, types 1 and 3, up to 11 cells, steps of 4; 73 000 states | `SoundUnlessUnstored`, `LossReported` |
| `objects` | `MCObjects.cfg`: 2 objects, 4 blocks, one scalar name and value, one name of nested messages, up to 12 cells, steps of 9; 20 000 states up to symmetry | `OneOwner`, `Faithful` |
| `views` | `MCViews.cfg`: 3 objects, 5 blocks, 2 values, a nested message and an array, up to 24 cells, 4 calls; 89 000 states up to symmetry | `Faithful` |
| `cross_language` | `MCCrossLanguage.cfg`: types scalar, nested message and string; 1 C++ name, 5 Python names, up to 12 cells, 1 fault; 330 000 states | `SameReading`, `RoundTrip`, `PyRoundTrip` |
| `channel` | `MCChannel.cfg`: the 5 messages of the demo; 4 800 states | `HandoverInv`, `SentFirst`, `Termination`, `ImplementsFifo`, `Delivers` |
| `logger` | `MCLogger.cfg`: one thread logs, one sets, one does both; 2 levels, 2 targets; 23 000 states | `WholeLines`, `FilterOK`, `LogReturns` |

- `LayoutOK`: the elements of a valid message tile its buffer, each under its own
  type, name and length; while `ParseData` runs, those found so far do so up to
  `curr_index`.
- `LayoutInv`: the same, strengthened to be inductive (section 5).
- `CountsOK`: no two elements of one name, and `data`, `el_size` and the header
  agree. Stated for undamaged channels only: the code accepts a buffer whose
  count is wrong or that repeats a name.
- `RoundTrip`: an undamaged message with elements is accepted, with the contents
  it had when it was sent.
- `ParseEnds`: a constructor that has begun returns.
- `GetInside`: what `Get` reads lies inside the block, also of a message that was refused
  and of its clones: `Get` does not ask `IsValid`.
- `ImplementsDictionary`: each step is one of `Dictionary` or changes nothing
  there, including replies and error codes.
- `SoundUnlessUnstored`: failed allocations other than that of `AddGoesOn` leave
  valid messages sound; a crash happens only in an object that is marked invalid.
- `LossReported`: a valid message becomes invalid only with `OutOfMemory`.
- `OneOwner`: every allocated block is owned by exactly one object, which knows its
  size: nothing leaks and nothing is freed twice.
- `Faithful`: a valid message says what was put into it, or into the message that it
  was copied, cloned, moved or read out of, until the calls listed with `said` above.
- `SameReading`: for every buffer that is received, damaged or not, how the two
  readers differ. What the port accepts C++ accepts, but for the version; of what C++
  accepts, without duplicates, the port refuses exactly what it cannot decode and what has
  another count; what both accept they read alike, and `List` stays inside its table.
- `PyRoundTrip`: the port reads an undamaged message as it was sent, by C++ or by
  Python, if its names differ when cut to 15 bytes and it can decode them.
- `HandoverInv`: the queue holds what was pushed and not taken, in order; the
  subscriber never takes from an empty queue, and the two never touch it at once.
- `SentFirst`: no line of the subscriber comes before the publisher's of its message.
- `Termination`: `main` returns, although notifications are not remembered.
- `ImplementsFifo`: each message is sent once and arrives once, in order.
- `Delivers`: none stays behind, with the publisher or on the way.
- `WholeLines`: the pieces of a line are of one thread, in order.
- `FilterOK`: a call printed, or did not print, as some level in force during the call
  asks for.
- `LogReturns`: every call returns.

**Why these bounds suffice.** The hazards are relations between neighbours: an
element in front of the one that is deleted, one behind it, and the header. Three
elements of two widths have every such arrangement, for each order of Adds and
Deletes. Parsing errors need one good element in front of a damaged one, which two
elements give; one fault changes any one cell or cuts the end off anywhere. A
damaged cell becomes 0, 1 or 3: an unknown type, a scalar or a variable-length one;
a length that ends the element before its value, as it was, or behind the buffer or
inside the next element; a version, size or count that is wrong. Faults (`MaxFaults`) and
message size (`MaxCells`) are the only bounds of the model itself, both named in
guards; an Add that would pass `MaxCells` is not made, and a refused object whose
SIZE word is larger is not sent.

For `Objects` the relations are between a source and its copy, a parent and its
child, and two children of one array: two objects have the first two, with a block
each for a copy, a clone and a message that grows (`Blocks`); `views` has three
objects, arrays of one and two items, and four calls: read a child out, change the
parent in front of, behind or at it, and look. A step of 9 cells lets two scalars in
a row grow the block, 24 cells hold a message with an array of two. In
`cross_language` one scalar or nested message in front of or behind a damaged cell is
enough, since the readers are compared element by element; each of the port's five
names is of a kind of its own. In `channel` nothing is smaller than in the
code. In `logger` a call of one thread can fall between any two steps of another, and
a setter between any two of these.

Deadlock is checked in all passing runs but two. In `oom` `AddCrashes` ends the
program and `AddGoesOn` the model; in `views` the calls are counted.

**Fairness.** `ParseEnds` needs `SpecDamage` to have weak fairness of
`Parse`. `ParseData` is a sequential loop that waits for nothing and calls nothing
that blocks, so that a thread which has entered it goes on. Nothing is assumed of
callers or of the transport.

In `Channel` each of the three threads has weak fairness: it is a started thread
that the operating system schedules. The publisher has strong fairness of taking the
mutex (`SendLock`): a subscriber that wakes spuriously again and again takes and
releases it for ever, and the mutex must not go to it each time. Spurious wakeups have
no fairness: termination may not depend on them. In `Logger` a thread inside a call
goes on (weak fairness) and gets a mutex that is free again and again (strong fairness
of `Lock`), as schedulers and mutexes do in practice though C++ does not require it;
nobody has to call.

### Disagreements between code and documentation

Each has a run of its own in which TLC finds the property violated.

- `add_without_memory` (`AddedIsReadable`): an Add whose `realloc` fails returns
  true and leaves `last_error` at `None`, although `GetLastError` is said to
  describe "why the last call on an instance failed" (`README.md:19`).
- `clone_of_copy` (`ClonesFaithful`): the copy of a received message has a `mem_used`
  of its own, that of an empty header; its `Clone` copies so many bytes and the
  whole table, although `Clone` "deep-copies the underlying buffer regardless of whether
  the source is read-only or already editable" (`README.md:145`). A clone of the
  received message itself is right, and so is a copy of the clone.
- `clone_without_header` (`AddedIsReadable`): the receiver of an empty message, or of a null
  pointer, holds an object without bytes. Its `Clone`, said to be "an independent, mutable
  copy" (`README.md:137`), has no header (`dcmsg.cpp:212`); the first Add stores its element
  at offset 0, writes the header words over it, and returns true, and `Get` reads the words.

Others were met and have no run of their own; the properties are stated so as to
leave them out, and the instances reach all but the third and fourth:

- The SIZE word of a message that was never added to is 0, not its "total size in bytes
  (including header)" (`dcmsg.h:10`, `dcmsg.cpp:237`). Such a message is refused by its
  receiver. After an Add and a Delete the word is right, and the empty message is accepted.
- The receiving constructor takes `el_size` from the ELEMENTS word, the "no of DcMsg
  elements" (`dcmsg.h:10`), and compares it with nothing. A damaged buffer in which that word
  is larger than the number of elements that follow is accepted as valid, and `List` runs to
  that number (`dcmsg.cpp:47`, `562`). The Python port refuses it, which is what
  `SameReading` makes sure of.
- What a clone without a header sends begins with a type code and a name where the version
  should be. With an ordinary name that is far above 1000 and the message is refused;
  with an empty name it is the type code alone, and 10 to 23 are good versions. A
  `DcMsg(nullptr, 0)`, cloned, with one empty-named string of three bytes gives 24 bytes
  that are accepted as a valid message of one element that has none. `CountsOK` is
  stated in the proofs for types that are no versions (section 5); the types of the
  runs are 1 to 3.
- In a message longer than a `uint32_t` counts the index of an element wraps, Add
  returns true and the element is not read back, although sizes are 64-bit everywhere
  else (`dcmsg.h:9-10`, `140`, `231-233`).
- Python adds two names that are alike in their first 15 bytes, or one that is cut
  inside a character, and refuses to read the result (`dcmsg.py:125`, `162`, `247`).
- `GetData` of a message received in Python is its header without its elements
  (`dcmsg.py:445`), where a received C++ message gives its bytes (`dcmsg.cpp:1333`).
- A C++ message to which nothing was added, nested in another, makes Python refuse the
  whole (`dcmsg.py:110`, `198`).

## 4. Mutants

Each property is known to fail for a plausible change of the code; the changed
definitions stand in front of the originals: `CloseGapShort` (a memmove one short),
`WriteHeaderBody` (the SIZE word without the header), `CloneUnsized` (`p_size` not set),
`OlderVersion` (an off-by-one in the version test), `ReadableHeader` (no test of
the value's length), `ParseRetries` (a `continue` for a `return false`),
`AddErrorButDuplicate` (no test of duplicates), `RemovedOnly` (no re-indexing),
`NoBlockButValid` and `ClearFailsSilently` (failed allocations not recorded),
`MovedShared` (the source of a move keeps its block), `CopyWithoutPointer` (a copy
without `p_ex_data`), `PartsUnstepped` (no step over the item that was read),
`SizedHeader` (no test of the value's length in Python), `GrownUnnamed` (a size without
the name), `ValueAtLength` (the length word not stepped over), `RelockAndTake` (an `if`
for the loop of `wait`), `PrintAfterwards` (printing after sending), `NotifyNobody` (no
notification), `TakeCopy` (no `pop_front`), `LockNothing` (no mutex), `ShownAbove` (`>`
for `>=`), `UnlockIfShown` (an early return with the mutex held).

## 5. What is proved

All of it is checked by TLAPS for every value of the constants that meets the
assumptions named in the modules (`FormatAssumption`, `CallerAssumption`,
`LoggerAssumption`, `CountAssumption`).

### WireFormatProofs

No theorem of its own, but the lemmas on which those about one message and those about
several rest: which blocks the helpers make of a block (`ResizeBlock`, `WriteBlock`,
`CloseGapBlock`, `HeaderBlock`), how long an encoded element is (`EncodeCells`), and
when a number fits its width.

### DcMsgProofs

- `TypeCorrect`: `SpecDamage => []TypeOK`. TypeOK is inductive as it stands. Besides
  the types it says that an owned block is exactly `p_size` cells long.
- `LayoutInvariant`: if `MaxCells < U32`, `SpecDamage => []LayoutInv`. Whatever the
  channel does to the bytes, a message that calls itself valid has a table that
  describes its buffer and stays inside it. The hypothesis says that messages are
  smaller than 4 GiB: `index` and `curr_index` are 32-bit, and without it they
  wrap.
- `LayoutCorrect`: under the same hypothesis, `Spec => []LayoutOK`.

**The inductive invariant.** `LayoutOK` says where each element begins relative to
its predecessor (`Tiled`). That is not enough to take a step:

- *Delete* compares indices (`d.index > elem_index`), not positions. That the
  elements behind the deleted one are just those with a larger index, and that the
  memmove leaves the headers of those in front alone, follows from `Ordered`:
  elements earlier in the table end before later ones start. `Ordered` follows from
  `Tiled` by induction over the table, which the provers at hand cannot do; as a
  part of the invariant it is kept step by step instead.
- *ParseData* needs, while it runs, that the object is read-only, that the bounds it
  tests against are those of the block (`mem_used = Cells(p_ex_data)`), and that the
  elements so far tile the buffer up to `curr_index`.
- No 32-bit or 64-bit number wraps, for which messages in the object, in the parser
  and in flight stay within `MaxCells`.

The proof has a lemma per action. The ones on which it turns are `CopyTiled` (a
block that agrees on the headers of all elements is described by the same table;
used for `Clone`, `Add` and `Update`), `AppendTiled` (used for `Add` and the
parser), `DeletedTable` and `EraseSound` (`Delete`: where each element of the new
table lies, and that its header moved with it).

- `GetInsideCorrect`: if `MaxCells < U32`, `SpecDamage => []GetInside`.

`LayoutInv` speaks of valid messages, `Get` does not ask for one. `Inside` is what
remains true of the others: the elements of *every* table follow one another
(`Apart`, which is `Ordered` without the header in front) and end within `mem_used`, which is within
the block. It is kept by `Clone`, `Add` and `Delete` of a writable clone of a refused
message, which may have no header at all, and follows from the layout where there is one.

### RoundTripProofs

- `RoundTripCorrect`: if `MaxCells < U32`, `SpecDamage => RoundTrip`, and so `Spec`. What was sent
  with elements and arrives unchanged is accepted with exactly its contents.

`ParseData` is not compared with a function that computes what it should find; the
argument needs none. A message in flight *carries* the table of its sender
(`Carries`): the table tiles the buffer, the version is good and the SIZE word is right.
The invariant (`InFlight`) has such a table as a witness, and says that the part parsed so far
is a prefix of it (`Prefix`). Each turn of the loop then finds the next entry of the
table (`NextElement`): the type, the name and the length it reads are those in front
of a value that begins where the last one ended. So it cannot reject, and when it has reached the end
the prefix is the whole (`AllFound`). `SizeWord` is needed for the header check; that the
words of the header survive every call (`AddedWords`, `UpdatedWords`, `ErasedWords`) is
where it says more than the layout.

### CountsProofs

- `CountsCorrect`: if `MaxCells < U32` and `TypesAreNoVersions`, `Spec => []CountsOK`.

The counts are kept in the object (`Counted`) and, as in `RoundTripProofs`, against the table that the
receiver is going to find (`Counting`), since `el_size` is taken from the header before
the elements are read. That no count wraps is a pigeonhole argument (`FewElements`): an
element takes cells of its own.

The third part, `Stray`, is about messages that never had a header. An undamaged channel
can carry one: a clone of a refused message to which something was added. Were it taken for
valid, its counts would be wrong, because the words of the header are written over its first
element. It is refused, for the first word, where the version should be, holds the type code of
that element; and this remains so, since its elements follow one another from offset 0 on
(`Headless`) and none is shorter than the header is long, so that the SIZE and ELEMENTS
words that `Add` and `Delete` write never reach the type code of another element, which a
later `Delete` would move to the front.

`TypesAreNoVersions` says that no type the callers use is a number from 10 to 1000. In
the code the word that is read as a version has eight bytes, the type code and the first
seven of the name: it is above 1000 for every name but the empty one and those of a single
character with a code below 4. In the model that word is a cell with the
type alone: where the code has a type number and an ordinary name, whatever the number, the
model has a type that is no version, and the hypothesis leaves out just those few names.
Without it the property is false of the code (section 3), and TLC finds it false of an instance
in which 10 is a type of variable length.

- `SoundAfterFailures`: under the hypotheses of `CountsCorrect`, `SpecOOM =>
  []SoundUnlessUnstored`.
- `LossIsReported`: `SpecOOM => LossReported`, without hypotheses.

`FailureInv` is `CountsInv` until an Add goes on without memory, or the end of the
program in an object that is invalid. A call that gives up changes nothing that
`CountsInv` speaks of; one that ends without a block leaves a state in which it holds
trivially; `CloneRecovers` is a `Clone`. That a crash needs an invalid object follows from the
layout: a valid message has a header, hence a block (`CrashInvalid`).

### RefinementProofs

- `RefinesDictionary`: if `MaxCells < U32` and `ShortValues`, `Spec =>
  ImplementsDictionary`. `Dictionary` has no fairness, so that this is the whole of the
  refinement: the initial states, and each step a step of the dictionary or a stutter.

`ShortValues` says that values are shorter than a `uint32_t` can count:
`AddElementToBuffer` stores the length in 32 bits, and a longer value is cut. The
invariant is `RoundTripInv`. The substance is a frame: `Entries` of table and buffer after a call are
`Append`, `EXCEPT` or `RemoveAt` of those before (`AddedEntries`, `UpdatedEntries`,
`ErasedEntries`), each element that the call is not about having its value moved
together with its index. `Reject` may not happen to a message that has to be accepted
(`RejectRefines`), and `Accept` must show the entries that were published (`DoneRefines`); both are
the arguments of `RoundTripProofs`. Each error code must be a reason that the dictionary
allows (`AddReasons`, `LookupReasons`), the type asked for against the type of the entry included.

### ObjectsProofs

- `OneOwnerCorrect`: `Spec => []OneOwner`, for any number of objects and blocks, all
  names, types and values.
- `FaithfulCorrect`: `Spec => []Faithful`, for the same: at any time, a message of which something
  is promised says exactly what was put into it, or into those it was copied, cloned, moved
  or read out of; a message made by `Wrap` over the bytes of a sound one, what its sender says.

Both rest on the assumptions on the constants in `WireFormat` and `Objects`. The only one that
is about the callers is `MaxCells < U32`, which `Faithful` needs: the sizes and offsets of
a table are `uint32_t`, and a value of 2^32 bytes would be read back cut.

The ownership itself is inductive together with `Idle`: an object that is not
constructed owns nothing. Three ways of changing it are enough for all calls: an object takes a
new block and gives back the one it had (`NewBlock`), keeps its block with other cells of
the same or of a new size (`KeptBlock`), or ends without one (`NoBlock`); moves and the
messages read out of others change who it is that owns (`MovesOwner`, `TakeOutOwner`).

"The owner knows the size of its block" takes more. `p_size` is computed from
`mem_used`, from the lengths of values and from the sizes in the table, and these from
what was read in some buffer: by `Delete`, whatever it finds there, since nothing in
this proof says that the table describes the block. `Typed` therefore has every member and every
cell within its type, and each call must keep it so. For the messages that are made
over a buffer this needs the table that `ParseData` finds, which in this module is a
recursive function of the offset. That there is one (`ParseDataExists`: TLAPS knows of a function
that is defined by recursion only that it is *some* function) is shown by a least
counterexample: were the functions that satisfy the recursion from some offset on not to reach
down to the header, there would be a last offset at which none starts, and each turn
goes from an offset to a larger one, where there is one. So is what `ParsedTable` says of
its elements, and where the parts of a message array lie (`PartsFound`).

`Faithful` compares the history with what is read by the table of an object, from cells that may be
another's. It is not inductive: it says nothing of the headers between the values, by
which `Wrap`, `Clone` and a receiver make new tables, nor of who reads what. `FaithInv`,
beside `OwnerInv`, adds

- `Keeps`, of each object: its table describes its cells, element by element, type code, name
  and size in front of each value (`Table`); an owner's elements follow one another and
  fill its message (`Tiled`), which fits into the block. What was put into it is then what the
  table reads at these offsets (`EntriesIn`), however many cells are copied to read it.
- `View`, of each pair: an object that reads the block of an owner is over the front of the
  owner's message, with some of the owner's entries, or lies *within one element* of it, by
  the size in its own header. So the elements of two objects over one block are nested or
  apart.
- `Recorded`: the history is a promise or none, for each object.

There are four kinds of calls. Copies, moves and what is freed take over what another
object had or lose it (`Came`: an object that has the table, the cells and the promise of one
before has what it had). A call that gives an object a new block leaves all others alone (`Beside`), since nobody
refers to a block that is handed out. Messages over the bytes of others have the table that
`ParseData` finds, which is described by the cells (`ParsedWell`). Over an owner's message the
parser starts at the owner's first element, and since these tile the message finds them
one after the other and no others (`WrapWithin`); over a part of a value it stays within that part (`PartWithin`,
`ArrayInside`). Add, `Update` and
`Delete` in place write to some cells of an owner's block (`Written`): a reader that is not
among those `Reading` them has its cells as they were, and is still within the owner's message
(`WithinKept`), also when elements behind it move (`WrittenFaith`). What the written table is
follows from the frames `AppendedTable`, `UpdatedTable` and `DeletedTable`.

### ChannelProofs

- `HandoverInvariant`: `Spec => []HandoverInv`, for any number of messages.
- `HandoverCorrect`: `Spec => []HandoverOK`, its conclusion alone.

`HandoverOK` counts: the queue has as many messages as were pushed and not taken,
and they are the next ones. It is inductive together with `MutexOK`, which says at
which labels each thread holds the mutex (so that nothing changes the queue between
the predicate and `front`), and `StartOK`, which says that `main` starts a thread that has not
run. That `WakeSpuriously` and a notification lead to the same label is all the proof
needs of them: safety does not depend on who is woken. The lemmas are one per
step of a thread; `Push` and `Take` are where the sequence changes.

- `SentFirstCorrect`: `Spec => []SentFirst`, for any number of messages.

Both threads print outside the mutex, so that no lock orders their lines. What does is the
queue: `OutputInv` says that every message the publisher is past printing is in the output
(`Printed` counts them, and is never behind the number pushed), and what the subscriber decodes
was pushed, by `HandoverInv`.

- `ImplementsFifoCorrect`: `Spec => ImplementsFifo`, the steps of the queue that `Fifo` promises.
  `Delivers`, the fairness of `Fifo`, is left to TLC.

What has arrived, in the mapping, are the subscriber's lines among those of both threads. `Lines`
finds them by recursion over the output; that a line more is one more of the lines of
its thread (`LinesAppend`) is shown by a least counterexample, as is that the recursion defines
a function at all (`LinesExist`). A push takes a message from those to be sent because a
publisher in a turn of his loop has one left (`TurnsLeft`); decoding one takes the first
of those on the way because the subscriber holds in `buffer` what he took from the front; no
other step changes any of the three (`OtherRefines`).

### LoggerProofs

- `LinesAreWhole`: `Spec => []WholeLines`;
- `FilterCorrect`: `Spec => FilterOK`, for any number of threads that log and set.

`LineInv` says who is inside: whoever is between `Lock` and `Unlock` holds the mutex,
and the pieces printed are those before his label. The setters do not touch any of
it. `FilterInv` relates the history of a call to where the call is: the level of the
console is always among those in force, and past `Test` one of them decides as the
test did. A setter only adds to the levels in force of every thread
(`WriteFilter`), and a step of another thread changes nothing of them
(`BystanderFilter`), so that each step is looked at for the thread that takes it.

### Only model-checked

- Liveness (`ParseEnds`, `Termination`, `Delivers`, `LogReturns`), which is out of the prover's reach.
- `ClonesFaithful`, which TLC refutes (section 3).
- `SameReading` and `PyRoundTrip`: they compare two parsers, one of them a recursive
  operator, for which the provers have no definition to work with.

## 6. What is not modelled

- Of the Python port: the conversions of numpy and of `AddValue`, `AddDict`, and what
  the parser finds wrong inside arrays. The port has a scalar, a string, a nested
  message and any other variable-length element.
- What `GetMessage` and `GetMessageArray` return for items that are not valid; the
  objects they leave are there.
- Damaged arrays: `GetStringArray` and `GetMessageArray` go by the counts and sizes
  inside the element; arrays travel undamaged in `Objects`.
- An array made of a vector that contains the message it is added to.
- Two programs that each keep their objects while messages pass: in `CrossLanguage`
  objects share nothing with what is in flight, so that only the last matters.
- `GetConsoleLevel`, colours and formats of the logger; printing.
- The bytes inside values: 16-bit scalars stored as 32-bit ones, the division of an
  array's size by the width of its items, the item lists of string arrays. A value
  is a sequence of cells that `Get` returns as it was stored. That `Get*Array` makes room for
  whole items only and then copies all bytes (`dcmsg.cpp:1040`) shows only where items have a
  width.
- `DType`'s constructors write one byte behind `name` (`dcmsg.h:159`), and a name of
  16 bytes on the wire has no terminator: both lie below the level of cells.
- An empty `std::vector` passed to an `Add*Array` is a null pointer to
  `AddElementToBuffer`, and is refused; the model has the null pointer, independent
  of the value.
- Messages above `MaxCells`. The wrap of 32-bit indices is in no run.

## 7. Plan

The modules, refinements and proofs that were planned are there. What would go beyond them:

1. String arrays and damaged arrays: the item lists in cells, with `GetStringArray` going by
   the count inside the element.
2. Objects of the Python port that share bytes, as `Objects` has it for C++.
3. The wrap of 32-bit offsets in a message of more than 4 GiB, which `MaxCells < U32` leaves out.
