------------------------------ MODULE Dictionary ------------------------------
(***************************************************************************)
(* What a DcMsg promises its callers, without buffers or offsets: a        *)
(* message is an ordered collection of named, typed values that can be     *)
(* written until it is sent, and read where it is received.                *)
(*                                                                         *)
(* Nothing is promised of a message that is not valid, except that only    *)
(* the calls that start a message afresh make it valid again.              *)
(***************************************************************************)
EXTENDS Integers, Sequences

CONSTANTS
  Names,     \* the names callers use
  Types,     \* the types of the values they add
  Values,    \* those values
  LongNames  \* those a message cannot hold

VARIABLES
  stage,     \* "ready"; "sent": its bytes are in flight; "parsing": arriving
  writable,
  valid,
  entries,   \* the message: a sequence of records [name, type, value]
  flight,    \* the message in flight, empty if its receiver may refuse it
  reply,     \* the last call and what it returned
  error      \* what GetLastError returns

vars == <<stage, writable, valid, entries, flight, reply, error>>

NoName == 0
NoType == 0

-----------------------------------------------------------------------------
Has(name) == \E i \in DOMAIN entries : entries[i].name = name

(* A value of another type has that name. *)
HasOther(name, type) ==
  \E i \in DOMAIN entries : entries[i].name = name /\ entries[i].type # type

Reply(op, name, type, ok, out) ==
  reply' = [op |-> op, name |-> name, type |-> type, ok |-> ok, out |-> out]

(* The call returns true, and GetLastError says so. *)
Succeed(op, name, type, out) ==
  Reply(op, name, type, TRUE, out) /\ error' = "None"

(* The reasons there are to refuse a call about a value of the type.  An   *)
(* Add that is passed no value has none.                                   *)
Reasons(op, name, type) ==
  (IF op = "Add" /\ type = NoType THEN {"InvalidArgument"} ELSE {})
    \cup (IF op = "Add" /\ name \in LongNames THEN {"InvalidName"} ELSE {})
    \cup (IF op = "Add" /\ Has(name) THEN {"DuplicateName"} ELSE {})
    \cup (IF op # "Get" /\ ~writable THEN {"ReadOnly"} ELSE {})
    \cup (IF op # "Add" /\ ~Has(name) THEN {"NotFound"} ELSE {})
    \cup (IF op \in {"Get", "Update"} /\ HasOther(name, type)
          THEN {"TypeMismatch"} ELSE {})

-----------------------------------------------------------------------------
Init ==
  /\ stage = "ready"
  /\ writable = TRUE
  /\ valid = TRUE
  /\ entries = << >>
  /\ flight = << >>
  /\ reply = [op |-> "Construct", name |-> NoName, type |-> NoType, ok |-> TRUE,
              out |-> << >>]
  /\ error = "None"

Fresh ==
  /\ stage = "ready"
  /\ writable' = TRUE
  /\ valid' = TRUE
  /\ entries' = << >>
  /\ Succeed("Construct", NoName, NoType, << >>)
  /\ UNCHANGED <<stage, flight>>

(* Clear empties a message that can be written and leaves any other alone. *)
Clear ==
  /\ stage = "ready"
  /\ \/ writable /\ valid' = TRUE /\ entries' = << >>
     \/ ~writable /\ UNCHANGED <<valid, entries>>
  /\ Reply("Clear", NoName, NoType, TRUE, << >>)
  /\ UNCHANGED <<stage, writable, flight, error>>

Duplicate ==
  /\ stage = "ready"
  /\ writable' = TRUE
  /\ Succeed("Clone", NoName, NoType, << >>)
  /\ UNCHANGED <<stage, valid, entries, flight>>

Add(name, type, value) ==
  /\ stage = "ready"
  /\ valid /\ writable /\ name \notin LongNames /\ ~Has(name)
  /\ entries' = Append(entries, [name |-> name, type |-> type, value |-> value])
  /\ Succeed("Add", name, type, value)
  /\ UNCHANGED <<stage, writable, valid, flight>>

Update(i, value) ==
  /\ stage = "ready"
  /\ valid /\ writable
  /\ Len(value) = Len(entries[i].value)
  /\ entries' = [entries EXCEPT ![i].value = value]
  /\ Succeed("Update", entries[i].name, entries[i].type, value)
  /\ UNCHANGED <<stage, writable, valid, flight>>

Remove(i) ==
  /\ stage = "ready"
  /\ valid /\ writable
  /\ entries' = SubSeq(entries, 1, i - 1) \o SubSeq(entries, i + 1, Len(entries))
  /\ Succeed("Delete", entries[i].name, NoType, << >>)
  /\ UNCHANGED <<stage, writable, valid, flight>>

Get(i) ==
  /\ stage = "ready"
  /\ valid
  /\ Succeed("Get", entries[i].name, entries[i].type, entries[i].value)
  /\ UNCHANGED <<stage, writable, valid, entries, flight>>

(* A refused call changes nothing and names a reason there really is. *)
Refuse(op, name, type) ==
  /\ stage = "ready"
  /\ valid
  /\ Reply(op, name, type, FALSE, << >>)
  /\ error' \in Reasons(op, name, type)
  /\ UNCHANGED <<stage, writable, valid, entries, flight>>

(* A call on a message that is not valid. *)
Unspecified ==
  /\ stage = "ready"
  /\ ~valid /\ ~valid'
  /\ UNCHANGED <<stage, entries, flight>>

Publish ==
  /\ stage = "ready" /\ stage' = "sent"
  /\ flight' = entries
  /\ Reply("Send", NoName, NoType, TRUE, << >>)
  /\ UNCHANGED <<writable, valid, entries, error>>

Lost ==
  /\ stage = "sent" /\ stage' = "ready"
  /\ flight' = << >>
  /\ UNCHANGED <<writable, valid, entries, reply, error>>

(* The receiver's object takes the place of the sender's. *)
Arrive ==
  /\ stage = "sent" /\ stage' = "parsing"
  /\ ~writable' /\ ~valid' /\ entries' = << >>
  /\ Reply("Wrap", NoName, NoType, FALSE, << >>)
  /\ error' = "None"
  /\ UNCHANGED flight

(* It ends up with what was sent. *)
Accept ==
  /\ stage = "parsing" /\ stage' = "ready"
  /\ valid'
  /\ flight # << >> => entries' = flight
  /\ flight' = << >>
  /\ Succeed("Wrap", NoName, NoType, << >>)
  /\ UNCHANGED writable

(* Only what was sent without any element may be refused, and the buffer   *)
(* that is no buffer at all.                                               *)
Reject ==
  /\ stage' = "ready"
  /\ flight = << >> /\ UNCHANGED flight
  /\ ~writable' /\ ~valid' /\ entries' = << >>
  /\ Reply("Wrap", NoName, NoType, FALSE, << >>)
  /\ error' \in {"InvalidArgument", "InvalidData"}

Next ==
  \/ Fresh \/ Clear \/ Duplicate \/ Unspecified
  \/ \E name \in Names, type \in Types, value \in Values : Add(name, type, value)
  \/ \E i \in DOMAIN entries :
       \/ \E value \in Values : Update(i, value)
       \/ Remove(i)
       \/ Get(i)
  \/ \E op \in {"Add", "Update", "Delete", "Get"}, name \in Names,
        type \in Types \cup {NoType} : Refuse(op, name, type)
  \/ Publish \/ Lost \/ Arrive \/ Accept \/ Reject

Spec == Init /\ [][Next]_vars
=============================================================================
