---------------------------- MODULE CrossLanguage -----------------------------
(***************************************************************************)
(* A message that goes to and fro between a C++ program and a Python       *)
(* program (tests/cross_lang).                                             *)
(*                                                                         *)
(* What is in flight may be read by either side, also by the side that has *)
(* sent it.  The object it came from shares nothing with it and is given   *)
(* up when it is received: one object at a time is followed.               *)
(***************************************************************************)
EXTENDS DcMsg

CONSTANTS MESSAGE, TEXT, PyNames, Encoded, Unencodable, NotText  \* PyDcMsg's

ASSUME PyAssumption ==
  /\ {MESSAGE, TEXT} \subseteq KnownTypes
  /\ SType[MESSAGE] = 0 /\ SType[TEXT] = 0
  /\ Unencodable \subseteq PyNames
  /\ \A name \in PyNames \ Unencodable : Encoded[name] \in Nat

VARIABLES
  py_read_only, py_elem, py_header, py_data, py_added,  \* Python's object
  holder,    \* who has the object, or has sent it last: "C++" or "Python"
  accepted   \* history: whether Python's last constructor returned

Py == INSTANCE PyDcMsg
        WITH read_only <- py_read_only, p_elem <- py_elem,
             p_header <- py_header, p_data <- py_data, added <- py_added

cpp      == <<object, last_error, curr_index, ret>>
python   == <<py_read_only, py_elem, py_header, py_data, py_added>>
allVars  == <<vars, python, holder, accepted>>

-----------------------------------------------------------------------------
(* The C++ object is destroyed; an empty one stands in for it. *)
Destroyed ==
  /\ readOnly' = FALSE
  /\ p_ex_data' = NULL
  /\ InitHeader
  /\ Return("Construct", NoName, NoType, TRUE, "None", << >>)
  /\ curr_index' = 0

(* DcMsg(buff) in Python. *)
PyReceive ==
  /\ pc = "sent"
  /\ Py!Receive(wire)
  /\ accepted' = Py!Reads(wire).ok
  /\ holder' = "Python"
  /\ pc' = "ready"
  /\ wire' = NULL
  /\ Forget
  /\ Destroyed

(* Calls on Python's object. *)
PyCall ==
  /\ holder = "Python" /\ pc = "ready"
  /\ \/ Py!Clear
     \/ \E name \in PyNames, type \in Types, value \in Values :
          /\ Len(py_data) + HEADER_ELEMENTS + SIZEOF_U32 + DTYPE_SIZE_NAME + 1
               + Len(value) <= MaxCells
          /\ Py!AddElement(name, type, value)
  /\ UNCHANGED <<vars, holder, accepted>>

(* GetData in Python.  A message that was received there has lost its      *)
(* bytes: nothing is promised of what it sends.                            *)
PySend ==
  /\ holder = "Python" /\ pc = "ready"
  /\ wire' = Py!GetData
  /\ sent' = [sent EXCEPT !.ok = ~py_read_only, !.entries = py_added]
  /\ pc' = "sent"
  /\ UNCHANGED <<cpp, python, holder, accepted>>

(* Everything the C++ side and the transport do.  A message that C++ has   *)
(* begun to read, or that is lost, is no longer Python's.                  *)
CppStep ==
  /\ holder = "C++" \/ pc = "sent"
  /\ NextDamage
  /\ \/ holder = "C++" /\ UNCHANGED <<python, holder>>
     \/ holder = "Python" /\ pc' = "sent" /\ UNCHANGED <<python, holder>>
     \/ holder = "Python" /\ pc' # "sent" /\ Py!Clear /\ holder' = "C++"
  /\ UNCHANGED accepted

CrossInit ==
  /\ Init
  /\ py_read_only = FALSE /\ py_elem = << >> /\ py_data = << >> /\ py_added = << >>
  /\ py_header = <<MESS_VERSION, HEADER_ELEMENTS, 0>>
  /\ holder = "C++"
  /\ accepted = TRUE

CrossNext == CppStep \/ PyReceive \/ PyCall \/ PySend

CrossSpec == CrossInit /\ [][CrossNext]_allVars

-----------------------------------------------------------------------------
Distinct(entries) ==
  \A i, j \in DOMAIN entries : entries[i].name = entries[j].name => i = j

(* The port can decode what is in them: names and strings that are UTF-8,  *)
(* and nested messages that it can read.                                   *)
Legible(entries) == \A i \in DOMAIN entries : Py!Decodable(entries[i])

(* A message that either side has sent, over a channel that has damaged    *)
(* nothing, is read by the Python port as its sender made it, if it is     *)
(* legible and its names are still different when cut to 15 bytes: same    *)
(* names, types and values, in order.                                      *)
PyRoundTrip ==
  [][sent.ok /\ sent.faults = 0 /\ Distinct(sent.entries) /\ Legible(sent.entries)
       /\ pc = "sent" /\ holder' = "Python" /\ pc' = "ready" =>
       accepted' /\ py_elem' = sent.entries]_allVars

(* The two readers on any buffer, damaged or not.  What the port accepts   *)
(* C++ has accepted, unless its version is one C++ does not know.  Of what *)
(* C++ has accepted, and is free of duplicate names, the port refuses what *)
(* is not legible and what has a wrong count, and nothing else, and they   *)
(* read the same in it.  List of C++, which runs to el_size, stays inside  *)
(* the table of all that both accept, duplicate names or not, although C++ *)
(* has compared el_size with nothing.                                      *)
SameReading ==
  pc = "ready" /\ readOnly /\ p_ex_data # NULL =>
    LET read == Py!Reads(p_ex_data)
    IN /\ read.ok => validData \/ ~GoodVersion(p_ex_data)
       /\ validData /\ Distinct(Contents) =>
            /\ read.ok <=> Legible(Contents) /\ Len(data) = p_ex_data[ELEMENTS]
            /\ read.ok => read.elem = Contents
       /\ validData /\ read.ok => el_size <= Len(data)

=============================================================================
