--------------------------------- MODULE Fifo ---------------------------------
(***************************************************************************)
(* What the channel of the demo promises: every message that is to be sent *)
(* is handed on, and arrives, once, in the order of the sender.            *)
(***************************************************************************)
EXTENDS Sequences

VARIABLES
  todo,     \* the messages the publisher has yet to send
  transit,  \* those that were sent and have not arrived
  arrived   \* those that arrived

vars == <<todo, transit, arrived>>

Begin(messages) ==
  /\ todo = messages
  /\ transit = << >>
  /\ arrived = << >>

Send ==
  /\ todo # << >>
  /\ transit' = Append(transit, Head(todo))
  /\ todo' = Tail(todo)
  /\ UNCHANGED arrived

Arrive ==
  /\ transit # << >>
  /\ arrived' = Append(arrived, Head(transit))
  /\ transit' = Tail(transit)
  /\ UNCHANGED todo

Steps == [][Send \/ Arrive]_vars

Fairness == WF_vars(Send) /\ WF_vars(Arrive)

=============================================================================
