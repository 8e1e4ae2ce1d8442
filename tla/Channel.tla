-------------------------------- MODULE Channel --------------------------------
(***************************************************************************)
(* The demo of a publisher and a subscriber thread that exchange buffers   *)
(* through a queue with a mutex and a condition variable.                  *)
(*                                                                         *)
(* Each thread runs a loop of steps; a step is what a thread does between  *)
(* two points where the other can see a difference: it takes or releases   *)
(* the mutex, touches the queue, blocks on or signals the condition        *)
(* variable, prints.  A message travels as the two values the subscriber   *)
(* reads out of it; that the bytes say the same at both ends is the        *)
(* business of module DcMsg.                                               *)
(***************************************************************************)
EXTENDS Naturals, Sequences

CONSTANT kMessageCount  \* messages published, and turns of the subscriber

ASSUME CountAssumption == kMessageCount \in Nat

VARIABLES
  pc,      \* pc[t]: the step thread t is about to take
  mutex_,  \* the thread that holds the mutex of the channel, or Nobody
  queue_,  \* the queue of the channel
  chn,     \* the publisher's loop counter
  i,       \* the subscriber's loop counter
  buffer,  \* the buffer Receive returned to the subscriber
  out      \* what was printed: <<thread, message>> per line

vars == <<pc, mutex_, queue_, chn, i, buffer, out>>

Threads == {"main", "publisher", "subscriber"}
Nobody  == "nobody"

(* The steps of the threads. *)
Labels ==
  {"not started", "print", "lock", "push", "unlock", "notify", "sleep",
   "check", "wait", "blocked", "relock", "take", "decode", "done",
   "begin", "start subscriber", "join publisher", "join subscriber", "return"}

(* The message of one turn of the publisher, its double in hundredths. *)
Message(n) == [Channel |-> n, DoubleValue |-> 10115 + 10 * n]

(* What queue_.front() leaves behind if the queue is empty: not a message. *)
NoMessage == [invalid |-> TRUE]

(* Mutant of PublisherNext: the line is printed after the sending. *)
PrintAfterwards ==
  [start |-> "lock", lock |-> "push", push |-> "unlock", unlock |-> "notify",
   notify |-> "print", print |-> "sleep"]

(* A turn of the publisher: print, Channel::Send, sleep; what follows each *)
(* step.                                                                   *)
PublisherNext ==
  [start |-> "print", print |-> "lock", lock |-> "push", push |-> "unlock",
   unlock |-> "notify", notify |-> "sleep"]

(* A turn of the subscriber: Channel::Receive, decode and print.  The loop *)
(* of wait adds "wait", "blocked" and "relock".                            *)
SubscriberNext ==
  [start |-> "lock", lock |-> "check", check |-> "take", take |-> "unlock",
   unlock |-> "decode"]

Goto(t, label) == pc' = [pc EXCEPT ![t] = label]

(* Where a thread goes to begin turn n of its loop. *)
Turn(steps, n) == IF n < kMessageCount THEN steps.start ELSE "done"

Acquire(t) == mutex_ = Nobody /\ mutex_' = t
Release(t) == mutex_ = t /\ mutex_' = Nobody

-----------------------------------------------------------------------------
(* The publisher. *)

Publishes(label) ==
  /\ pc["publisher"] = label
  /\ Goto("publisher", PublisherNext[label])

PrintSent ==
  /\ Publishes("print")
  /\ out' = Append(out, <<"publisher", Message(chn)>>)
  /\ UNCHANGED <<mutex_, queue_, chn, i, buffer>>

SendLock ==
  /\ Publishes("lock")
  /\ Acquire("publisher")
  /\ UNCHANGED <<queue_, chn, i, buffer, out>>

Push ==
  /\ Publishes("push")
  /\ queue_' = Append(queue_, Message(chn))
  /\ UNCHANGED <<mutex_, chn, i, buffer, out>>

SendUnlock ==
  /\ Publishes("unlock")
  /\ Release("publisher")
  /\ UNCHANGED <<queue_, chn, i, buffer, out>>

(* Mutant of NotifyOne: the condition variable is not signalled. *)
NotifyNobody ==
  /\ Publishes("notify")
  /\ UNCHANGED <<mutex_, queue_, chn, i, buffer, out>>

(* notify_one wakes the subscriber if it is blocked, and is not remembered *)
(* if it is not.                                                           *)
NotifyOne ==
  /\ pc["publisher"] = "notify"
  /\ pc' = [pc EXCEPT
       !["publisher"]  = PublisherNext.notify,
       !["subscriber"] = IF @ = "blocked" THEN "relock" ELSE @]
  /\ UNCHANGED <<mutex_, queue_, chn, i, buffer, out>>

Sleep ==
  /\ pc["publisher"] = "sleep"
  /\ chn' = chn + 1
  /\ Goto("publisher", Turn(PublisherNext, chn + 1))
  /\ UNCHANGED <<mutex_, queue_, i, buffer, out>>

Publisher ==
  PrintSent \/ SendLock \/ Push \/ SendUnlock \/ NotifyOne \/ Sleep

-----------------------------------------------------------------------------
(* The subscriber. *)

Subscribes(label) ==
  /\ pc["subscriber"] = label
  /\ Goto("subscriber", SubscriberNext[label])

ReceiveLock ==
  /\ Subscribes("lock")
  /\ Acquire("subscriber")
  /\ UNCHANGED <<queue_, chn, i, buffer, out>>

(* The predicate of wait. *)
Check ==
  /\ \/ queue_ # << >> /\ Subscribes("check")
     \/ queue_ = << >> /\ pc["subscriber"] = "check" /\ Goto("subscriber", "wait")
  /\ UNCHANGED <<mutex_, queue_, chn, i, buffer, out>>

(* wait(lock) gives the mutex back and blocks in one step. *)
Wait ==
  /\ pc["subscriber"] = "wait"
  /\ Release("subscriber")
  /\ Goto("subscriber", "blocked")
  /\ UNCHANGED <<queue_, chn, i, buffer, out>>

(* A blocked thread may wake although nobody notified it. *)
WakeSpuriously ==
  /\ pc["subscriber"] = "blocked"
  /\ Goto("subscriber", "relock")
  /\ UNCHANGED <<mutex_, queue_, chn, i, buffer, out>>

(* Mutant of Relock: the predicate is not asked again. *)
RelockAndTake ==
  /\ pc["subscriber"] = "relock"
  /\ Acquire("subscriber")
  /\ Goto("subscriber", "take")
  /\ UNCHANGED <<queue_, chn, i, buffer, out>>

Relock ==
  /\ pc["subscriber"] = "relock"
  /\ Acquire("subscriber")
  /\ Goto("subscriber", "check")
  /\ UNCHANGED <<queue_, chn, i, buffer, out>>

(* Mutant of Take: the message is copied and stays at the front. *)
TakeCopy ==
  /\ Subscribes("take")
  /\ buffer' = IF queue_ = << >> THEN NoMessage ELSE Head(queue_)
  /\ UNCHANGED <<mutex_, queue_, chn, i, out>>

Take ==
  /\ Subscribes("take")
  /\ buffer' = IF queue_ = << >> THEN NoMessage ELSE Head(queue_)
  /\ queue_' = IF queue_ = << >> THEN << >> ELSE Tail(queue_)
  /\ UNCHANGED <<mutex_, chn, i, out>>

ReceiveUnlock ==
  /\ Subscribes("unlock")
  /\ Release("subscriber")
  /\ UNCHANGED <<queue_, chn, i, buffer, out>>

(* What the subscriber prints of a buffer: that it is no message, its two  *)
(* values, or that one of them is not in it.                               *)
Decoded(received) ==
  IF received = NoMessage THEN [invalid |-> TRUE]
  ELSE IF {"Channel", "DoubleValue"} \subseteq DOMAIN received THEN received
  ELSE [undecodable |-> TRUE]

Decode ==
  /\ pc["subscriber"] = "decode"
  /\ out' = Append(out, <<"subscriber", Decoded(buffer)>>)
  /\ i' = i + 1
  /\ Goto("subscriber", Turn(SubscriberNext, i + 1))
  /\ UNCHANGED <<mutex_, queue_, chn, buffer>>

Subscriber ==
  ReceiveLock \/ Check \/ Wait \/ Relock \/ Take \/ ReceiveUnlock \/ Decode

-----------------------------------------------------------------------------
(* main: starts the threads and waits for them to end. *)

Starts(label, t, steps, next) ==
  /\ pc["main"] = label
  /\ pc' = [pc EXCEPT !["main"] = next, ![t] = Turn(steps, 0)]

Joins(label, t, next) ==
  /\ pc["main"] = label
  /\ pc[t] = "done"
  /\ Goto("main", next)

Main ==
  /\ \/ Starts("begin", "publisher", PublisherNext, "start subscriber")
     \/ Starts("start subscriber", "subscriber", SubscriberNext,
               "join publisher")
     \/ Joins("join publisher", "publisher", "join subscriber")
     \/ Joins("join subscriber", "subscriber", "return")
  /\ UNCHANGED <<mutex_, queue_, chn, i, buffer, out>>

(* The program has ended. *)
Ended == pc["main"] = "return" /\ UNCHANGED vars

Init ==
  /\ pc = [t \in Threads |->
             IF t = "main" THEN "begin" ELSE "not started"]
  /\ mutex_ = Nobody
  /\ queue_ = << >>
  /\ chn = 0 /\ i = 0
  /\ buffer = NoMessage
  /\ out = << >>

Next == Publisher \/ Subscriber \/ WakeSpuriously \/ Main \/ Ended

(* Every thread that can go on does.  The publisher gets a mutex that is   *)
(* free again and again, even from a subscriber that never stops waking.   *)
(* Nobody has to wake without a notification.                              *)
Fairness ==
  /\ WF_vars(Publisher) /\ SF_vars(SendLock)
  /\ WF_vars(Subscriber)
  /\ WF_vars(Main)

Spec == Init /\ [][Next]_vars /\ Fairness

-----------------------------------------------------------------------------
(* Messages pushed and taken so far. *)
Pushed == IF pc["publisher"] \in {"unlock", "notify", "sleep"}
          THEN chn + 1 ELSE chn
Taken  == IF pc["subscriber"] \in {"unlock", "decode"} THEN i + 1 ELSE i

(* However wakeups, real or spurious, and the two unlocks fall: the queue  *)
(* holds what was pushed and not yet taken, in order; what the subscriber  *)
(* took in its turn i is message i; it never takes from an empty queue,    *)
(* and neither thread touches the queue while the other does.              *)
HandoverOK ==
  /\ Len(queue_) = Pushed - Taken
  /\ \A k \in DOMAIN queue_ : queue_[k] = Message(Taken + k - 1)
  /\ pc["subscriber"] \in {"unlock", "decode"} => buffer = Message(i)
  /\ pc["subscriber"] = "take" => queue_ # << >>
  /\ pc["publisher"] = "push" => pc["subscriber"] \notin {"check", "take"}

(* What it takes to prove it: types, who holds the mutex where, and that   *)
(* main starts each thread once.                                           *)
TypeOK ==
  /\ pc \in [Threads -> Labels]
  /\ queue_ \in Seq([Channel : Nat, DoubleValue : Nat])
  /\ chn \in Nat /\ i \in Nat

MutexOK ==
  /\ mutex_ = "publisher" <=> pc["publisher"] \in {"push", "unlock"}
  /\ mutex_ = "subscriber" <=>
       pc["subscriber"] \in {"check", "wait", "take", "unlock"}

StartOK ==
  /\ pc["main"] = "begin" => pc["publisher"] = "not started"
  /\ pc["main"] \in {"begin", "start subscriber"} =>
       pc["subscriber"] = "not started"

HandoverInv == TypeOK /\ MutexOK /\ StartOK /\ HandoverOK

(* Nobody sees a message arrive before he sees it sent: the line of the    *)
(* subscriber follows the publisher's of the same message.                 *)
SentFirst ==
  \A k \in DOMAIN out :
    out[k][1] = "subscriber" =>
      \E j \in 1 .. k - 1 : out[j] = <<"publisher", out[k][2]>>

(* The program ends: no notification is missed, although it is given after *)
(* the mutex was released, and both joins return.                          *)
Termination == <>(pc["main"] = "return")

(* The second parts of the lines that a thread has printed.                *)
Lines(printed, who) ==
  LET lines[k \in 0 .. Len(printed)] ==
        IF k = 0 THEN << >>
        ELSE IF printed[k][1] = who THEN Append(lines[k - 1], printed[k][2])
        ELSE lines[k - 1]
  IN lines[Len(printed)]

AbstractFifo == INSTANCE Fifo WITH
  todo    <- [k \in 1 .. kMessageCount - Pushed |-> Message(Pushed + k - 1)],
  transit <- IF pc["subscriber"] \in {"unlock", "decode"}
             THEN <<buffer>> \o queue_ ELSE queue_,
  arrived <- Lines(out, "subscriber")

(* The threads, mutex and condition variable implement a queue in which    *)
(* each message arrives once, in order.  A message has arrived when it was *)
(* decoded.                                                                *)
ImplementsFifo ==
  /\ AbstractFifo!Begin([k \in 1 .. kMessageCount |-> Message(k - 1)])
  /\ AbstractFifo!Steps

(* No message stays behind, with the publisher or on the way.              *)
Delivers == AbstractFifo!Fairness

=============================================================================
