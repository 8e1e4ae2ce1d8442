---------------------------- MODULE ChannelProofs ----------------------------
(***************************************************************************)
(* The hand-over of messages between the two threads of the demo, for any  *)
(* number of messages.  A step of one thread leaves the other's program    *)
(* counter alone but for a notification, so an action can disturb          *)
(* HandoverOK only by moving Pushed or Taken on or by the mutex changing   *)
(* hands: the steps that do not touch the queue are dealt with together.   *)
(***************************************************************************)
EXTENDS Channel, SequenceTheorems, FiniteSetTheorems, WellFoundedInduction, TLAPS

LEMMA InitHandover == Init => HandoverInv
<1> SUFFICES ASSUME Init PROVE HandoverInv
  OBVIOUS
<1>1. TypeOK
  <2>1. pc \in [Threads -> Labels]
    BY DEF Init, Threads, Labels
  <2>2. queue_ = << >> /\ chn = 0 /\ i = 0
    BY DEF Init
  <2>3. queue_ \in Seq([Channel : Nat, DoubleValue : Nat])
    BY <2>2
  <2> QED
    BY <2>1, <2>2, <2>3 DEF TypeOK
<1>2. MutexOK
  BY DEF Init, MutexOK, Threads, Nobody
<1>3. HandoverOK
  <2>1. pc["publisher"] = "not started" /\ pc["subscriber"] = "not started"
    BY DEF Init, Threads
  <2>2. Pushed = 0 /\ Taken = 0
    BY <2>1 DEF Init, Pushed, Taken
  <2>3. queue_ = << >>
    BY DEF Init
  <2>4. Len(queue_) = 0 /\ DOMAIN queue_ = {}
    BY <2>3
  <2>5. Len(queue_) = Pushed - Taken
    BY <2>2, <2>4
  <2>6. \A k \in DOMAIN queue_ : queue_[k] = Message(Taken + k - 1)
    BY <2>4
  <2> QED
    BY <2>1, <2>5, <2>6 DEF HandoverOK
<1>4. StartOK
  BY DEF Init, StartOK, Threads
<1> QED
  BY <1>1, <1>2, <1>3, <1>4 DEF HandoverInv

(* A step that does not touch the queue, nor the subscriber's buffer. *)
LEMMA QueueUntouched ==
  ASSUME HandoverInv,
         UNCHANGED <<queue_, chn, i, buffer>>,
         Pushed' = Pushed, Taken' = Taken,
         pc'["subscriber"] \in {"unlock", "decode"} =>
           pc["subscriber"] \in {"unlock", "decode"},
         pc'["subscriber"] = "take" =>
           pc["subscriber"] = "take" \/ queue_ # << >>,
         pc'["publisher"] = "push" =>
           pc'["subscriber"] \notin {"check", "take"}
  PROVE  HandoverOK'
<1>1. Len(queue_') = Pushed' - Taken'
  BY DEF HandoverInv, HandoverOK
<1>2. \A k \in DOMAIN queue_' : queue_'[k] = Message(Taken' + k - 1)
  BY DEF HandoverInv, HandoverOK
<1> QED
  BY <1>1, <1>2 DEF HandoverInv, HandoverOK

(* What the action leaves alone, and where the threads are after it. *)
LEMMA QuietSteps ==
  ASSUME HandoverInv,
         \/ PrintSent \/ SendLock \/ SendUnlock \/ NotifyOne
         \/ ReceiveLock \/ Check \/ Wait \/ WakeSpuriously \/ Relock
         \/ ReceiveUnlock \/ Main
  PROVE  HandoverInv'
<1> DEFINE Quiet ==
      /\ UNCHANGED <<queue_, chn, i, buffer>>
      /\ Pushed' = Pushed /\ Taken' = Taken
      /\ pc'["subscriber"] \in {"unlock", "decode"} =>
           pc["subscriber"] \in {"unlock", "decode"}
      /\ pc'["subscriber"] = "take" =>
           pc["subscriber"] = "take" \/ queue_ # << >>
      /\ pc' \in [Threads -> Labels]
      /\ MutexOK'
      /\ StartOK'
      /\ pc'["publisher"] = "push" =>
           pc'["subscriber"] \notin {"check", "take"}
<1>0. TypeOK /\ MutexOK /\ StartOK
  BY DEF HandoverInv
<1>12. Quiet
  <2> USE DEF TypeOK, MutexOK, StartOK, Pushed, Taken, Threads, Labels, Nobody, Goto
  <2>1. CASE PrintSent
    BY <1>0, <2>1 DEF PrintSent, Publishes, PublisherNext
  <2>2. CASE SendLock
    BY <1>0, <2>2 DEF SendLock, Publishes, PublisherNext, Acquire
  <2>3. CASE SendUnlock
    BY <1>0, <2>3 DEF SendUnlock, Publishes, PublisherNext, Release
  <2>4. CASE NotifyOne
    <3>0. pc["publisher"] = "notify" /\ UNCHANGED <<mutex_, queue_, chn, i, buffer>>
      BY <2>4 DEF NotifyOne
    <3>1. CASE pc["subscriber"] = "blocked"
      <4>1. /\ pc' \in [Threads -> Labels]
            /\ pc'["publisher"] = "sleep" /\ pc'["subscriber"] = "relock"
            /\ pc'["main"] = pc["main"]
        BY <1>0, <2>4, <3>1 DEF NotifyOne, PublisherNext
      <4> QED
        BY <1>0, <3>0, <3>1, <4>1
    <3>2. CASE pc["subscriber"] # "blocked"
      <4>1. /\ pc' \in [Threads -> Labels]
            /\ pc'["publisher"] = "sleep" /\ pc'["subscriber"] = pc["subscriber"]
            /\ pc'["main"] = pc["main"]
        BY <1>0, <2>4, <3>2 DEF NotifyOne, PublisherNext
      <4> QED
        BY <1>0, <3>0, <3>2, <4>1
    <3> QED
      BY <3>1, <3>2
  <2>5. CASE ReceiveLock
    BY <1>0, <2>5 DEF ReceiveLock, Subscribes, SubscriberNext, Acquire
  <2>6. CASE Check
    <3>1. CASE queue_ # << >> /\ Subscribes("check")
      BY <1>0, <2>6, <3>1 DEF Check, Subscribes, SubscriberNext
    <3>2. CASE pc["subscriber"] = "check" /\ Goto("subscriber", "wait")
      BY <1>0, <2>6, <3>2 DEF Check
    <3> QED
      BY <2>6, <3>1, <3>2 DEF Check
  <2>7. CASE Wait
    BY <1>0, <2>7 DEF Wait, Release
  <2>8. CASE WakeSpuriously
    BY <1>0, <2>8 DEF WakeSpuriously
  <2>9. CASE Relock
    BY <1>0, <2>9 DEF Relock, Acquire
  <2>10. CASE ReceiveUnlock
    BY <1>0, <2>10 DEF ReceiveUnlock, Subscribes, SubscriberNext, Release
  <2>11. CASE Main
    <3>0. UNCHANGED <<mutex_, queue_, chn, i, buffer>>
      BY <2>11 DEF Main
    <3>1. CASE Starts("begin", "publisher", PublisherNext, "start subscriber")
      <4>1. Turn(PublisherNext, 0) \in {"print", "done"}
        BY DEF Turn, PublisherNext
      <4>2. /\ pc' \in [Threads -> Labels]
            /\ pc'["publisher"] \in {"print", "done"}
            /\ pc'["subscriber"] = pc["subscriber"]
            /\ pc["main"] = "begin" /\ pc'["main"] = "start subscriber"
        BY <1>0, <3>1, <4>1 DEF Starts
      <4> QED
        BY <1>0, <3>0, <4>2
    <3>2. CASE Starts("start subscriber", "subscriber", SubscriberNext,
                      "join publisher")
      <4>1. Turn(SubscriberNext, 0) \in {"lock", "done"}
        BY DEF Turn, SubscriberNext
      <4>2. /\ pc' \in [Threads -> Labels]
            /\ pc'["subscriber"] \in {"lock", "done"}
            /\ pc'["publisher"] = pc["publisher"]
            /\ pc["main"] = "start subscriber"
            /\ pc'["main"] = "join publisher"
        BY <1>0, <3>2, <4>1 DEF Starts
      <4> QED
        BY <1>0, <3>0, <4>2
    <3>3. CASE Joins("join publisher", "publisher", "join subscriber")
      BY <1>0, <3>0, <3>3 DEF Joins
    <3>4. CASE Joins("join subscriber", "subscriber", "return")
      BY <1>0, <3>0, <3>4 DEF Joins
    <3> QED
      BY <2>11, <3>1, <3>2, <3>3, <3>4 DEF Main
  <2> HIDE DEF Quiet
  <2> QED
    BY <2>1, <2>2, <2>3, <2>4, <2>5, <2>6, <2>7, <2>8, <2>9, <2>10, <2>11
<1>13. HandoverOK'
  BY <1>12, QueueUntouched
<1>14. TypeOK'
  BY <1>0, <1>12 DEF TypeOK
<1> QED
  BY <1>12, <1>13, <1>14 DEF HandoverInv

(* The steps that move Pushed or Taken on, and those that begin a turn. *)
LEMMA QueueSteps ==
  ASSUME HandoverInv, Push \/ Take \/ Sleep \/ Decode
  PROVE  HandoverInv'
<1>0. TypeOK /\ MutexOK /\ StartOK /\ HandoverOK
  BY DEF HandoverInv
<1>1. CASE Push
  <2>0. /\ pc["publisher"] = "push" /\ pc' = [pc EXCEPT !["publisher"] = "unlock"]
        /\ queue_' = Append(queue_, Message(chn))
        /\ UNCHANGED <<mutex_, chn, i, buffer>>
    BY <1>1 DEF Push, Publishes, PublisherNext, Goto
  <2>1. Pushed = chn /\ Pushed' = chn + 1 /\ Taken' = Taken
    BY <1>0, <2>0 DEF Pushed, Taken, TypeOK, Threads
  <2>2. Message(chn) \in [Channel : Nat, DoubleValue : Nat]
    BY <1>0 DEF Message, TypeOK
  <2>a. pc' \in [Threads -> Labels]
    BY <1>0, <2>0 DEF TypeOK, Threads, Labels
  <2>b. ASSUME NEW S, queue_ \in Seq(S), Message(chn) \in S
        PROVE  queue_' \in Seq(S)
    BY <2>0, <2>b
  <2>c. queue_' \in Seq([Channel : Nat, DoubleValue : Nat])
    BY <1>0, <2>2, <2>b DEF TypeOK
  <2>3. TypeOK'
    BY <1>0, <2>0, <2>a, <2>c DEF TypeOK
  <2>4. MutexOK' /\ StartOK'
    BY <1>0, <2>0 DEF TypeOK, MutexOK, StartOK, Threads
  <2>5. Taken \in Nat
    BY <1>0 DEF TypeOK, Taken
  <2>6. Len(queue_') = Pushed' - Taken'
    <3>1. Len(queue_) \in Nat /\ Len(queue_') = Len(queue_) + 1
      BY <1>0, <2>0 DEF TypeOK
    <3>2. Len(queue_) = Pushed - Taken
      BY <1>0 DEF HandoverOK
    <3> QED
      BY <1>0, <2>1, <2>5, <3>1, <3>2 DEF TypeOK
  <2>7. ASSUME NEW k \in DOMAIN queue_'
        PROVE  queue_'[k] = Message(Taken' + k - 1)
    <3>1. CASE k \in DOMAIN queue_
      BY <1>0, <2>0, <2>1, <2>2, <3>1 DEF TypeOK, HandoverOK
    <3>2. CASE k \notin DOMAIN queue_
      <4>1. k = Len(queue_) + 1 /\ queue_'[k] = Message(chn)
        BY <1>0, <2>0, <2>2, <3>2 DEF TypeOK
      <4>2. Taken' + k - 1 = chn
        BY <1>0, <2>1, <2>5, <4>1 DEF TypeOK, HandoverOK
      <4> QED
        BY <4>1, <4>2
    <3> QED
      BY <3>1, <3>2
  <2>8. queue_' # << >>
    BY <1>0, <2>0, <2>2 DEF TypeOK
  <2>9. HandoverOK'
    BY <1>0, <2>0, <2>6, <2>7, <2>8 DEF TypeOK, HandoverOK, Threads
  <2> QED
    BY <2>3, <2>4, <2>9 DEF HandoverInv
<1>2. CASE Take
  <2>0. /\ pc["subscriber"] = "take"
        /\ pc' = [pc EXCEPT !["subscriber"] = "unlock"]
        /\ UNCHANGED <<mutex_, chn, i>>
    BY <1>2 DEF Take, Subscribes, SubscriberNext, Goto
  <2>1. queue_ # << >>
    BY <1>0, <2>0 DEF HandoverOK
  <2>2. buffer' = Head(queue_) /\ queue_' = Tail(queue_)
    BY <1>2, <2>1 DEF Take
  <2>3. Taken = i /\ Taken' = i + 1 /\ Pushed' = Pushed /\ Pushed \in Nat
    BY <1>0, <2>0 DEF Pushed, Taken, TypeOK, Threads
  <2>a. pc' \in [Threads -> Labels]
    BY <1>0, <2>0 DEF TypeOK, Threads, Labels
  <2>b. ASSUME NEW S, queue_ \in Seq(S)
        PROVE  queue_' \in Seq(S)
    BY <2>1, <2>2, <2>b
  <2>c. queue_' \in Seq([Channel : Nat, DoubleValue : Nat])
    BY <1>0, <2>b DEF TypeOK
  <2>4. TypeOK'
    BY <1>0, <2>0, <2>a, <2>c DEF TypeOK
  <2>5. MutexOK' /\ StartOK'
    BY <1>0, <2>0 DEF TypeOK, MutexOK, StartOK, Threads
  <2>6. Len(queue_') = Pushed' - Taken'
    BY <1>0, <2>1, <2>2, <2>3 DEF TypeOK, HandoverOK
  <2>7. ASSUME NEW k \in DOMAIN queue_'
        PROVE  queue_'[k] = Message(Taken' + k - 1)
    <3>1. k \in Nat /\ k + 1 \in DOMAIN queue_ /\ queue_'[k] = queue_[k + 1]
      BY <1>0, <2>1, <2>2, SMTT(30) DEF TypeOK
    <3>2. queue_[k + 1] = Message(Taken + (k + 1) - 1)
      BY <1>0, <3>1 DEF HandoverOK
    <3>3. Taken + (k + 1) - 1 = Taken' + k - 1
      BY <1>0, <2>3, <3>1 DEF TypeOK
    <3> QED
      BY <3>1, <3>2, <3>3
  <2>8. buffer' = Message(i')
    <3>1. 1 \in DOMAIN queue_ /\ Head(queue_) = queue_[1]
      BY <1>0, <2>1 DEF TypeOK
    <3>2. queue_[1] = Message(Taken + 1 - 1)
      BY <1>0, <3>1 DEF HandoverOK
    <3>3. Taken + 1 - 1 = i /\ i' = i
      BY <1>0, <2>0, <2>3 DEF TypeOK
    <3> QED
      BY <2>2, <3>1, <3>2, <3>3
  <2>9. pc'["subscriber"] = "unlock"
    BY <1>0, <2>0 DEF TypeOK, Threads
  <2>10. HandoverOK'
    BY <2>6, <2>7, <2>8, <2>9 DEF HandoverOK
  <2> QED
    BY <2>4, <2>5, <2>10 DEF HandoverInv
<1>3. CASE Sleep
  <2>0. /\ pc["publisher"] = "sleep" /\ chn' = chn + 1
        /\ pc' = [pc EXCEPT !["publisher"] = Turn(PublisherNext, chn + 1)]
        /\ UNCHANGED <<mutex_, queue_, i, buffer>>
    BY <1>3 DEF Sleep, Goto
  <2>1. Turn(PublisherNext, chn + 1) \in {"print", "done"}
    BY DEF Turn, PublisherNext
  <2>2. /\ pc' \in [Threads -> Labels]
        /\ pc'["publisher"] \in {"print", "done"}
        /\ pc'["subscriber"] = pc["subscriber"] /\ pc'["main"] = pc["main"]
    BY <1>0, <2>0, <2>1 DEF TypeOK, Threads, Labels
  <2>3. Pushed' = Pushed /\ Taken' = Taken
    BY <1>0, <2>0, <2>2 DEF Pushed, Taken
  <2>4. TypeOK'
    BY <1>0, <2>0, <2>2 DEF TypeOK
  <2>5. MutexOK' /\ StartOK'
    BY <1>0, <2>0, <2>2 DEF MutexOK, StartOK
  <2>6. HandoverOK'
    BY <1>0, <2>0, <2>2, <2>3 DEF HandoverOK
  <2> QED
    BY <2>4, <2>5, <2>6 DEF HandoverInv
<1>4. CASE Decode
  <2>0. /\ pc["subscriber"] = "decode" /\ i' = i + 1
        /\ pc' = [pc EXCEPT !["subscriber"] = Turn(SubscriberNext, i + 1)]
        /\ UNCHANGED <<mutex_, queue_, chn, buffer>>
    BY <1>4 DEF Decode, Goto
  <2>1. Turn(SubscriberNext, i + 1) \in {"lock", "done"}
    BY DEF Turn, SubscriberNext
  <2>2. /\ pc' \in [Threads -> Labels]
        /\ pc'["subscriber"] \in {"lock", "done"}
        /\ pc'["publisher"] = pc["publisher"] /\ pc'["main"] = pc["main"]
    BY <1>0, <2>0, <2>1 DEF TypeOK, Threads, Labels
  <2>3. Pushed' = Pushed /\ Taken' = Taken
    BY <1>0, <2>0, <2>2 DEF Pushed, Taken
  <2>4. TypeOK'
    BY <1>0, <2>0, <2>2 DEF TypeOK
  <2>5. MutexOK' /\ StartOK'
    BY <1>0, <2>0, <2>2 DEF MutexOK, StartOK
  <2>6. HandoverOK'
    BY <1>0, <2>0, <2>2, <2>3 DEF HandoverOK
  <2> QED
    BY <2>4, <2>5, <2>6 DEF HandoverInv
<1> QED
  BY <1>1, <1>2, <1>3, <1>4

(* What the publisher pushed and the subscriber has not taken is in the    *)
(* queue, in order, and the queue is touched by one thread at a time, for  *)
(* every number of messages and every interleaving.                        *)
THEOREM HandoverInvariant == Spec => []HandoverInv
<1>1. HandoverInv /\ UNCHANGED vars => HandoverInv'
  BY DEF HandoverInv, TypeOK, MutexOK, StartOK, HandoverOK, Pushed, Taken, vars
<1>2. HandoverInv /\ [Next]_vars => HandoverInv'
  BY <1>1, QuietSteps, QueueSteps DEF Next, Publisher, Subscriber, Ended
<1> QED
  BY InitHandover, <1>2, PTL DEF Spec

(* The hand-over property by itself. *)
THEOREM HandoverCorrect == Spec => []HandoverOK
<1>1. HandoverInv => HandoverOK
  BY DEF HandoverInv
<1> QED
  BY HandoverInvariant, <1>1, PTL

-----------------------------------------------------------------------------
(* What is printed. *)

(* Messages the publisher has printed so far. *)
Printed == IF pc["publisher"] \in {"lock", "push", "unlock", "notify", "sleep"}
           THEN chn + 1 ELSE chn

(* What is printed stays printed, and every message that was pushed was    *)
(* printed before.                                                         *)
OutputInv ==
  /\ out \in Seq({"publisher", "subscriber"} \X
                   [Channel : Nat, DoubleValue : Nat])
  /\ \A n \in Nat : n < Printed =>
       \E j \in 1 .. Len(out) : out[j] = <<"publisher", Message(n)>>
  /\ SentFirst

(* Only the two steps that print change the output or the number printed.  *)
LEMMA OutputUnchanged ==
  ASSUME OutputInv, UNCHANGED out, Printed' = Printed
  PROVE  OutputInv'
BY DEF OutputInv, SentFirst

LEMMA PrintSentOutput ==
  ASSUME HandoverInv, OutputInv, PrintSent
  PROVE  OutputInv'
<1> DEFINE line  == <<"publisher", Message(chn)>>
           Shown == {"publisher", "subscriber"} \X
                       [Channel : Nat, DoubleValue : Nat]
<1>1. /\ pc \in [Threads -> Labels] /\ chn \in Nat
      /\ out \in Seq(Shown)
  BY DEF HandoverInv, TypeOK, OutputInv
<1>2. /\ pc["publisher"] = "print" /\ pc'["publisher"] = "lock" /\ chn' = chn
      /\ out' = Append(out, line)
  BY <1>1 DEF PrintSent, Publishes, PublisherNext, Goto, Threads
<1>3. line \in Shown
  BY <1>1 DEF Message
<1> HIDE DEF Shown
<1>4. /\ out' \in Seq(Shown) /\ Len(out) \in Nat /\ Len(out') = Len(out) + 1
      /\ DOMAIN out = 1 .. Len(out) /\ DOMAIN out' = 1 .. Len(out) + 1
      /\ out'[Len(out) + 1] = line
      /\ \A k \in 1 .. Len(out) : out'[k] = out[k]
  BY <1>1, <1>2, <1>3, AppendProperties, LenProperties
<1>5. ASSUME NEW n \in Nat, n < Printed'
      PROVE  \E j \in 1 .. Len(out') : out'[j] = <<"publisher", Message(n)>>
  <2>1. n < Printed \/ n = chn
    BY <1>1, <1>2, <1>5 DEF Printed
  <2>2. CASE n = chn
    BY <1>4, <2>2
  <2>3. CASE n < Printed
    <3>1. PICK j \in 1 .. Len(out) : out[j] = <<"publisher", Message(n)>>
      BY <2>3 DEF OutputInv
    <3> QED BY <1>4, <3>1
  <2> QED BY <2>1, <2>2, <2>3
<1>6. ASSUME NEW k \in DOMAIN out', out'[k][1] = "subscriber"
      PROVE  \E j \in 1 .. k - 1 : out'[j] = <<"publisher", out'[k][2]>>
  <2>1. k \in 1 .. Len(out)
    BY <1>4, <1>6
  <2>2. PICK j \in 1 .. k - 1 : out[j] = <<"publisher", out[k][2]>>
    BY <1>4, <1>6, <2>1 DEF OutputInv, SentFirst
  <2>3. j \in 1 .. Len(out)
    BY <1>4, <2>1
  <2> QED BY <1>4, <2>1, <2>2, <2>3
<1> QED BY <1>4, <1>5, <1>6 DEF OutputInv, SentFirst, Shown

(* The publisher's messages are read as what they are. *)
LEMMA MessageDecoded ==
  ASSUME NEW n \in Nat
  PROVE  Decoded(Message(n)) = Message(n)
<1>1. DOMAIN Message(n) = {"Channel", "DoubleValue"} /\ DOMAIN NoMessage = {"invalid"}
  BY DEF Message, NoMessage
<1>2. Message(n) # NoMessage
  BY <1>1
<1> QED BY <1>1, <1>2 DEF Decoded

LEMMA DecodeOutput ==
  ASSUME HandoverInv, OutputInv, Decode
  PROVE  OutputInv'
<1> DEFINE line  == <<"subscriber", buffer>>
           Shown == {"publisher", "subscriber"} \X
                       [Channel : Nat, DoubleValue : Nat]
<1>1. /\ pc \in [Threads -> Labels] /\ chn \in Nat /\ i \in Nat
      /\ out \in Seq(Shown) /\ queue_ \in Seq([Channel : Nat, DoubleValue : Nat])
  BY DEF HandoverInv, TypeOK, OutputInv
<1>2. /\ pc["subscriber"] = "decode" /\ pc'["publisher"] = pc["publisher"]
      /\ chn' = chn /\ out' = Append(out, line)
  <2>1. Decoded(buffer) = buffer
    BY <1>1, MessageDecoded DEF Decode, HandoverInv, HandoverOK
  <2> QED BY <1>1, <2>1 DEF Decode, Goto, Threads
<1>3. buffer = Message(i) /\ i < Printed
  <2>1. buffer = Message(i) /\ Len(queue_) = Pushed - Taken
    BY <1>2 DEF HandoverInv, HandoverOK
  <2>2. Taken = i + 1 /\ Pushed \in Nat /\ Pushed <= Printed /\ Printed \in Nat
    BY <1>1, <1>2 DEF Taken, Pushed, Printed
  <2>3. Len(queue_) \in Nat
    BY <1>1, LenProperties
  <2> QED BY <1>1, <2>1, <2>2, <2>3
<1>4. line \in Shown
  BY <1>1, <1>3 DEF Message
<1> HIDE DEF Shown
<1>5. /\ out' \in Seq(Shown) /\ Len(out) \in Nat /\ Len(out') = Len(out) + 1
      /\ DOMAIN out = 1 .. Len(out) /\ DOMAIN out' = 1 .. Len(out) + 1
      /\ out'[Len(out) + 1] = line
      /\ \A k \in 1 .. Len(out) : out'[k] = out[k]
  BY <1>1, <1>2, <1>4, AppendProperties, LenProperties
<1>6. ASSUME NEW n \in Nat, n < Printed'
      PROVE  \E j \in 1 .. Len(out') : out'[j] = <<"publisher", Message(n)>>
  <2>1. PICK j \in 1 .. Len(out) : out[j] = <<"publisher", Message(n)>>
    BY <1>2, <1>6 DEF OutputInv, Printed
  <2> QED BY <1>5, <2>1
<1>7. ASSUME NEW k \in DOMAIN out', out'[k][1] = "subscriber"
      PROVE  \E j \in 1 .. k - 1 : out'[j] = <<"publisher", out'[k][2]>>
  <2>1. CASE k = Len(out) + 1
    <3>1. PICK j \in 1 .. Len(out) : out[j] = <<"publisher", Message(i)>>
      BY <1>1, <1>3 DEF OutputInv
    <3>2. j \in 1 .. k - 1 /\ out'[j] = <<"publisher", out'[k][2]>>
      BY <1>3, <1>5, <2>1, <3>1
    <3> QED BY <3>2
  <2>2. CASE k # Len(out) + 1
    <3>1. k \in 1 .. Len(out)
      BY <1>5, <1>7, <2>2
    <3>2. PICK j \in 1 .. k - 1 : out[j] = <<"publisher", out[k][2]>>
      BY <1>5, <1>7, <3>1 DEF OutputInv, SentFirst
    <3>3. j \in 1 .. Len(out)
      BY <1>5, <3>1
    <3> QED BY <1>5, <3>1, <3>2, <3>3
  <2> QED BY <2>1, <2>2
<1> QED BY <1>5, <1>6, <1>7 DEF OutputInv, SentFirst, Shown

LEMMA OtherOutput ==
  ASSUME HandoverInv, OutputInv, [Next]_vars, ~PrintSent, ~Decode
  PROVE  OutputInv'
<1>1. /\ pc \in [Threads -> Labels] /\ chn \in Nat
      /\ pc["main"] = "begin" => pc["publisher"] = "not started"
  BY DEF HandoverInv, TypeOK, StartOK
<1> USE <1>1 DEF Printed, Goto, Threads
<1>2. CASE SendLock \/ Push \/ SendUnlock \/ NotifyOne
  <2>1. pc'["publisher"] \in {"lock", "push", "unlock", "notify", "sleep"}
    BY <1>2 DEF SendLock, Push, SendUnlock, NotifyOne, Publishes, PublisherNext
  <2>2. pc["publisher"] \in {"lock", "push", "unlock", "notify", "sleep"}
    BY <1>2 DEF SendLock, Push, SendUnlock, NotifyOne, Publishes
  <2>3. UNCHANGED <<chn, out>>
    BY <1>2 DEF SendLock, Push, SendUnlock, NotifyOne
  <2> QED BY <2>1, <2>2, <2>3, OutputUnchanged
<1>3. CASE Sleep
  <2>1. Turn(PublisherNext, chn + 1) \in {"print", "done"}
    BY DEF Turn, PublisherNext
  <2> QED BY <1>3, <2>1, OutputUnchanged DEF Sleep
<1>4. CASE ReceiveLock \/ Check \/ Wait \/ Relock \/ Take \/ ReceiveUnlock
           \/ WakeSpuriously
  <2>1. pc'["publisher"] = pc["publisher"] /\ UNCHANGED <<chn, out>>
    BY <1>4 DEF ReceiveLock, Check, Wait, Relock, Take, ReceiveUnlock,
                WakeSpuriously, Subscribes
  <2> QED BY <2>1, OutputUnchanged
<1>5. CASE Main
  <2>1. UNCHANGED <<chn, out>>
    BY <1>5 DEF Main
  <2>2. CASE Starts("begin", "publisher", PublisherNext, "start subscriber")
    <3>1. Turn(PublisherNext, 0) \in {"print", "done"}
      BY DEF Turn, PublisherNext
    <3>2. pc["publisher"] = "not started" /\ pc'["publisher"] \in {"print", "done"}
      BY <2>2, <3>1 DEF Starts
    <3> QED BY <2>1, <3>2, OutputUnchanged
  <2>3. CASE ~Starts("begin", "publisher", PublisherNext, "start subscriber")
    <3>1. pc'["publisher"] = pc["publisher"]
      BY <1>5, <2>3 DEF Main, Starts, Joins
    <3> QED BY <2>1, <3>1, OutputUnchanged
  <2> QED BY <2>2, <2>3
<1>6. CASE UNCHANGED vars
  BY <1>6, OutputUnchanged DEF vars
<1> QED
  BY <1>2, <1>3, <1>4, <1>5, <1>6 DEF Next, Publisher, Subscriber, Ended

LEMMA OutputInvariant == Spec => []OutputInv
<1>1. Init => OutputInv
  <2> SUFFICES ASSUME Init PROVE OutputInv
    OBVIOUS
  <2>1. out = << >> /\ chn = 0 /\ pc["publisher"] = "not started"
    BY DEF Init, Threads
  <2>2. ASSUME NEW S
        PROVE  << >> \in Seq(S)
    OBVIOUS
  <2>3. ASSUME NEW n \in Nat
        PROVE  ~(n < Printed)
    <3>1. pc["publisher"] \notin {"lock", "push", "unlock", "notify", "sleep"}
      BY <2>1
    <3>2. Printed = 0
      BY <2>1, <3>1 DEF Printed
    <3> QED BY <3>2
  <2>4. SentFirst
    <3>1. DOMAIN << >> = {}
      OBVIOUS
    <3> QED BY <2>1, <3>1 DEF SentFirst
  <2> QED BY <2>1, <2>2, <2>3, <2>4 DEF OutputInv
<1>2. HandoverInv /\ OutputInv /\ [Next]_vars => OutputInv'
  BY PrintSentOutput, DecodeOutput, OtherOutput
<1> QED
  BY HandoverInvariant, <1>1, <1>2, PTL DEF Spec

(* The line of the subscriber follows the publisher's of the same message, *)
(* for every number of messages and every interleaving, although both      *)
(* print outside the mutex: what orders them is that a message is pushed   *)
(* after it was printed, and decoded after it was taken.                   *)
THEOREM SentFirstCorrect == Spec => []SentFirst
<1>1. OutputInv => SentFirst
  BY DEF OutputInv
<1> QED
  BY OutputInvariant, <1>1, PTL

-----------------------------------------------------------------------------
(* The lines of a thread: Lines is defined by recursion, and that there is *)
(* such a function, and one only, is shown by a least counterexample.      *)

LEMMA LeastNumber ==
  ASSUME NEW I \in SUBSET Nat, I # {}
  PROVE  \E m \in I : \A y \in I : m =< y
<1> DEFINE T == {1 .. n : n \in I}
           N == UNION T
<1>1. T \subseteq FiniteSubsetsOf(N)
  <2>1. ASSUME NEW n \in I
        PROVE  IsFiniteSet(1 .. n)
    BY FS_Interval
  <2> QED BY <2>1, Zenon DEF FiniteSubsetsOf
<1>2. PICK x \in T : \A y \in T : ~ (<<y, x>> \in StrictSubsetOrdering(N))
  <2>1. T # {}
    BY Zenon
  <2>2. IsWellFoundedOn(StrictSubsetOrdering(N), FiniteSubsetsOf(N))
    BY FS_StrictSubsetOrderingWellFounded, Zenon
  <2> HIDE DEF T, N
  <2> QED BY <1>1, <2>1, <2>2, WFMin, Zenon
<1>3. PICK m \in I : x = 1 .. m
  BY <1>2
<1>4. ASSUME NEW y \in I, y < m
      PROVE  FALSE
  <2>1. 1 .. y \subseteq 1 .. m /\ m \in 1 .. m /\ m \notin 1 .. y
    BY <1>4
  <2>2. 1 .. y \in T /\ 1 .. m \in T
    OBVIOUS
  <2>3. <<1 .. y, 1 .. m>> \in StrictSubsetOrdering(N)
    BY <2>1, <2>2, Zenon DEF StrictSubsetOrdering
  <2> QED BY <1>2, <1>3, <2>2, <2>3
<1> QED BY <1>4

(* A turn of the loop: line k of what was printed, after the lines before. *)
NextLines(printed, who, lines, k) ==
  IF k = 0 THEN << >>
  ELSE IF printed[k][1] = who THEN Append(lines[k - 1], printed[k][2])
  ELSE lines[k - 1]

LEMMA LinesExist ==
  ASSUME NEW printed, NEW who, NEW n \in Nat
  PROVE  \E lines : lines = [k \in 0 .. n |-> NextLines(printed, who, lines, k)]
<1> DEFINE Holds(j) ==
             \E lines : lines = [k \in 0 .. j |-> NextLines(printed, who, lines, k)]
           bad == {j \in Nat : ~Holds(j)}
<1>1. ASSUME bad # {}
      PROVE  FALSE
  <2>1. PICK m \in bad : \A y \in bad : m =< y
    BY <1>1, LeastNumber, Zenon
  <2>2. m \in Nat /\ ~Holds(m)
    BY <2>1
  <2>3. CASE m = 0
    <3> DEFINE g == [k \in 0 .. m |-> << >>]
    <3>1. g = [k \in 0 .. m |-> NextLines(printed, who, g, k)]
      BY <2>3 DEF NextLines
    <3> QED BY <2>2, <3>1
  <2>4. CASE m # 0
    <3>1. m - 1 \in Nat /\ m - 1 \notin bad
      <4> HIDE DEF Holds
      <4> QED BY <2>1, <2>2, <2>4
    <3>2. Holds(m - 1)
      <4> HIDE DEF Holds
      <4> QED BY <3>1
    <3>3. PICK f : f = [k \in 0 .. m - 1 |-> NextLines(printed, who, f, k)]
      BY <3>2
    <3> DEFINE g == [k \in 0 .. m |->
                       IF k = m THEN NextLines(printed, who, f, m) ELSE f[k]]
    <3>4. ASSUME NEW k \in 0 .. m
          PROVE  g[k] = NextLines(printed, who, g, k)
      <4>1. k # 0 => k - 1 \in 0 .. m /\ k - 1 # m
        BY <2>2
      <4>2. NextLines(printed, who, g, k) = NextLines(printed, who, f, k)
        BY <4>1 DEF NextLines
      <4>3. k # m => k \in 0 .. m - 1
        BY <2>2
      <4>4. k # m => f[k] = NextLines(printed, who, f, k)
        BY <3>3, <4>3
      <4> QED BY <4>2, <4>4
    <3>5. g = [k \in 0 .. m |-> NextLines(printed, who, g, k)]
      BY <3>4, Zenon
    <3> QED BY <2>2, <3>5
  <2> QED BY <2>3, <2>4
<1> QED BY <1>1

(* A line more is one more of the lines of who printed it.                 *)
LEMMA LinesAppend ==
  ASSUME NEW S, NEW printed \in Seq(S), NEW line \in S, NEW who
  PROVE  Lines(Append(printed, line), who) =
           IF line[1] = who THEN Append(Lines(printed, who), line[2])
           ELSE Lines(printed, who)
<1> DEFINE n == Len(printed)
           more == Append(printed, line)
           Loop(p, f) == f = [k \in 0 .. Len(p) |-> NextLines(p, who, f, k)]
           old == CHOOSE f : Loop(printed, f)
           new == CHOOSE f : Loop(more, f)
<1>1. /\ n \in Nat /\ Len(more) = n + 1 /\ more[n + 1] = line
      /\ \A k \in 1 .. n : more[k] = printed[k]
  BY AppendProperties, LenProperties
<1>2. Lines(printed, who) = old[n] /\ Lines(more, who) = new[n + 1]
  <2>1. Lines(printed, who) = old[Len(printed)] /\ Lines(more, who) = new[Len(more)]
    BY Zenon DEF Lines, NextLines
  <2> QED BY <1>1, <2>1
<1>3. Loop(printed, old)
  BY <1>1, LinesExist, Zenon
<1>4. Loop(more, new)
  <2>1. Len(more) \in Nat
    BY <1>1
  <2> QED BY <2>1, LinesExist, Zenon
<1>5. \A k \in 0 .. n : old[k] = NextLines(printed, who, old, k)
  BY <1>3
<1>6. \A k \in 0 .. n + 1 : new[k] = NextLines(more, who, new, k)
  BY <1>1, <1>4
<1> HIDE DEF old, new, more, n
<1> DEFINE bad == {k \in 0 .. n : old[k] # new[k]}
<1>7. ASSUME bad # {}
      PROVE  FALSE
  <2>1. PICK m \in bad : \A y \in bad : m =< y
    <3>1. bad \in SUBSET Nat
      BY <1>1
    <3> HIDE DEF bad
    <3> QED BY <1>7, <3>1, LeastNumber
  <2>2. m \in 0 .. n /\ m \in 0 .. n + 1 /\ old[m] # new[m]
    BY <1>1, <2>1
  <2>3. m # 0
    BY <1>5, <1>6, <2>2 DEF NextLines
  <2>4. m - 1 \in 0 .. n /\ old[m - 1] = new[m - 1]
    BY <1>1, <2>1, <2>2, <2>3
  <2>5. more[m] = printed[m]
    BY <1>1, <2>2, <2>3
  <2> QED BY <1>5, <1>6, <2>2, <2>3, <2>4, <2>5 DEF NextLines
<1>8. old[n] = new[n]
  BY <1>1, <1>7
<1>9. new[n + 1] = NextLines(more, who, new, n + 1)
  BY <1>1, <1>6
<1>10. n + 1 # 0 /\ n + 1 - 1 = n
  BY <1>1
<1> QED BY <1>1, <1>2, <1>8, <1>9, <1>10 DEF NextLines, more

LEMMA NoLines ==
  ASSUME NEW who
  PROVE  Lines(<< >>, who) = << >>
<1> DEFINE old == CHOOSE f :
              f = [k \in 0 .. Len(<< >>) |-> NextLines(<< >>, who, f, k)]
<1>1. Len(<< >>) = 0
  OBVIOUS
<1>2. Lines(<< >>, who) = old[Len(<< >>)]
  BY Zenon DEF Lines, NextLines
<1>3. old = [k \in 0 .. Len(<< >>) |-> NextLines(<< >>, who, old, k)]
  <2>1. Len(<< >>) \in Nat
    BY <1>1
  <2> QED BY <2>1, LinesExist, Zenon
<1> HIDE DEF old
<1> QED BY <1>1, <1>2, <1>3 DEF NextLines

-----------------------------------------------------------------------------
(* The queue of the demo as an implementation of Fifo.                     *)

(* A publisher in a turn of its loop has a message left to send.           *)
TurnsLeft ==
  /\ pc["publisher"] = "not started" => chn = 0
  /\ pc["publisher"] \in {"print", "lock", "push", "unlock", "notify", "sleep"} =>
       chn < kMessageCount

Msg == [Channel : Nat, DoubleValue : Nat]

(* What Fifo is shown. *)
Todo == [k \in 1 .. kMessageCount - Pushed |-> Message(Pushed + k - 1)]
Transit == IF pc["subscriber"] \in {"unlock", "decode"}
           THEN <<buffer>> \o queue_ ELSE queue_
Arrived == Lines(out, "subscriber")

FifoInv == HandoverInv /\ OutputInv /\ TurnsLeft

LEMMA TurnsStep ==
  ASSUME HandoverInv, TurnsLeft, [Next]_vars
  PROVE  TurnsLeft'
<1>1. pc \in [Threads -> Labels] /\ chn \in Nat /\ kMessageCount \in Nat
  BY CountAssumption DEF HandoverInv, TypeOK
<1> DEFINE Turns == {"print", "lock", "push", "unlock", "notify", "sleep"}
<1>2. ASSUME UNCHANGED chn, pc'["publisher"] \in Turns => pc["publisher"] \in Turns,
             pc'["publisher"] # "not started" \/ pc["publisher"] = "not started"
      PROVE  TurnsLeft'
  BY <1>2 DEF TurnsLeft
<1>3. CASE PrintSent \/ SendLock \/ Push \/ SendUnlock \/ NotifyOne
  <2>1. pc["publisher"] \in Turns /\ chn' = chn /\ pc'["publisher"] # "not started"
    BY <1>1, <1>3 DEF PrintSent, SendLock, Push, SendUnlock, NotifyOne, Publishes,
                      PublisherNext, Goto, Threads
  <2> QED BY <1>2, <2>1
<1>4. CASE Sleep
  <2>1. /\ chn' = chn + 1
        /\ pc'["publisher"] = Turn(PublisherNext, chn + 1)
    BY <1>1, <1>4 DEF Sleep, Goto, Threads
  <2>2. /\ pc'["publisher"] \in Turns => chn + 1 < kMessageCount
        /\ pc'["publisher"] # "not started"
    BY <2>1 DEF Turn, PublisherNext
  <2> QED BY <2>1, <2>2 DEF TurnsLeft
<1>5. CASE ReceiveLock \/ Check \/ Wait \/ Relock \/ Take \/ ReceiveUnlock
           \/ Decode \/ WakeSpuriously
  <2>1. pc'["publisher"] = pc["publisher"] /\ chn' = chn
    BY <1>1, <1>5 DEF ReceiveLock, Check, Wait, Relock, Take, ReceiveUnlock, Decode,
                      WakeSpuriously, Subscribes, Goto, Threads
  <2> QED BY <1>2, <2>1
<1>6. CASE Main
  <2>1. chn' = chn
    BY <1>6 DEF Main
  <2>2. CASE Starts("begin", "publisher", PublisherNext, "start subscriber")
    <3>1. chn = 0
      BY <2>2 DEF HandoverInv, StartOK, Starts, TurnsLeft
    <3>2. /\ pc'["publisher"] # "not started"
          /\ pc'["publisher"] \in Turns => 0 < kMessageCount
      BY <1>1, <2>2 DEF Starts, Turn, PublisherNext, Threads
    <3> QED BY <2>1, <3>1, <3>2 DEF TurnsLeft
  <2>3. CASE ~Starts("begin", "publisher", PublisherNext, "start subscriber")
    <3>1. pc'["publisher"] = pc["publisher"]
      BY <1>1, <1>6, <2>3 DEF Main, Starts, Joins, Goto, Threads
    <3> QED BY <1>2, <2>1, <3>1
  <2> QED BY <2>2, <2>3
<1>7. CASE UNCHANGED vars
  BY <1>2, <1>7 DEF vars
<1> QED BY <1>3, <1>4, <1>5, <1>6, <1>7 DEF Next, Publisher, Subscriber, Ended

LEMMA TransitKept ==
  ASSUME UNCHANGED <<queue_, buffer>>,
         pc'["subscriber"] \in {"unlock", "decode"} <=>
           pc["subscriber"] \in {"unlock", "decode"}
  PROVE  Transit' = Transit
BY DEF Transit

(* The step of the publisher that sends. *)
LEMMA PushRefines ==
  ASSUME FifoInv, Push
  PROVE  AbstractFifo!Send
<1>1. /\ pc \in [Threads -> Labels] /\ queue_ \in Seq(Msg) /\ chn \in Nat /\ i \in Nat
      /\ kMessageCount \in Nat
  BY CountAssumption DEF FifoInv, HandoverInv, TypeOK, Msg
<1>2. /\ pc["publisher"] = "push" /\ pc'["publisher"] = "unlock"
      /\ pc'["subscriber"] = pc["subscriber"] /\ queue_' = Append(queue_, Message(chn))
      /\ UNCHANGED <<chn, i, buffer, out>>
  BY <1>1 DEF Push, Publishes, PublisherNext, Goto, Threads
<1>3. Pushed = chn /\ Pushed' = chn + 1 /\ chn < kMessageCount
  BY <1>2 DEF Pushed, FifoInv, TurnsLeft
<1>4. Todo # << >> /\ Head(Todo) = Message(chn) /\ Todo' = Tail(Todo)
  <2> DEFINE n == kMessageCount - chn
  <2>1. n \in Nat /\ n > 0 /\ kMessageCount - (chn + 1) = n - 1
    BY <1>1, <1>3
  <2>2. Todo = [k \in 1 .. n |-> Message(chn + k - 1)]
    BY <1>3 DEF Todo
  <2>3. Todo' = [k \in 1 .. n - 1 |-> Message(chn + 1 + k - 1)]
    BY <1>2, <1>3, <2>1 DEF Todo
  <2> HIDE DEF n
  <2>4. Todo \in Seq(Msg) /\ Len(Todo) = n
    BY <1>1, <2>1, <2>2 DEF Message, Msg
  <2>5. Head(Todo) = Message(chn) /\ Todo # << >>
    BY <1>1, <2>1, <2>2, <2>4
  <2>6. /\ Tail(Todo) \in Seq(Msg) /\ Len(Tail(Todo)) = n - 1
        /\ \A k \in 1 .. n - 1 : Tail(Todo)[k] = Todo[k + 1]
    BY <2>4, <2>5, HeadTailProperties
  <2>7. Todo' \in Seq(Msg) /\ Len(Todo') = n - 1
    BY <1>1, <2>1, <2>3 DEF Message, Msg
  <2>8. \A k \in 1 .. n - 1 : Tail(Todo)[k] = Todo'[k]
    BY <1>1, <2>1, <2>2, <2>3, <2>6
  <2>9. Todo' = Tail(Todo)
    BY <2>6, <2>7, <2>8, SeqEqual
  <2> QED BY <2>5, <2>9
<1>5. Transit' = Append(Transit, Message(chn))
  <2>1. CASE pc["subscriber"] \in {"unlock", "decode"}
    <3>1. Transit = <<buffer>> \o queue_ /\ Transit' = <<buffer>> \o Append(queue_, Message(chn))
      BY <1>2, <2>1 DEF Transit
    <3>2. buffer \in Msg /\ Message(chn) \in Msg
      BY <1>1, <2>1 DEF FifoInv, HandoverInv, HandoverOK, Message, Msg
    <3> QED BY <1>1, <3>1, <3>2
  <2>2. CASE pc["subscriber"] \notin {"unlock", "decode"}
    BY <1>2, <2>2 DEF Transit
  <2> QED BY <2>1, <2>2
<1>6. Arrived' = Arrived
  BY <1>2 DEF Arrived
<1> QED BY <1>4, <1>5, <1>6 DEF AbstractFifo!Send, Todo, Transit, Arrived

(* The step of the subscriber by which a message arrives. *)
LEMMA DecodeRefines ==
  ASSUME FifoInv, Decode
  PROVE  AbstractFifo!Arrive
<1>1. /\ pc \in [Threads -> Labels] /\ queue_ \in Seq(Msg) /\ chn \in Nat /\ i \in Nat
      /\ out \in Seq({"publisher", "subscriber"} \X Msg)
  BY DEF FifoInv, HandoverInv, TypeOK, Msg, OutputInv
<1>2. /\ pc["subscriber"] = "decode" /\ pc'["publisher"] = pc["publisher"]
      /\ pc'["subscriber"] \in {"lock", "done"}
      /\ out' = Append(out, <<"subscriber", buffer>>)
      /\ UNCHANGED <<queue_, chn, buffer>>
  <2>1. Decoded(buffer) = buffer
    BY <1>1, MessageDecoded DEF Decode, FifoInv, HandoverInv, HandoverOK
  <2> QED BY <1>1, <2>1 DEF Decode, Goto, Threads, Turn, SubscriberNext
<1>3. buffer \in Msg
  BY <1>1, <1>2 DEF FifoInv, HandoverInv, HandoverOK, Message, Msg
<1>4. Transit = <<buffer>> \o queue_ /\ Transit' = queue_
  BY <1>2 DEF Transit
<1>5. Transit # << >> /\ Head(Transit) = buffer /\ Transit' = Tail(Transit)
  BY <1>1, <1>3, <1>4
<1>6. Arrived' = Append(Arrived, buffer)
  <2>1. <<"subscriber", buffer>> \in {"publisher", "subscriber"} \X Msg
    BY <1>3
  <2>2. /\ <<"subscriber", buffer>>[1] = "subscriber"
        /\ <<"subscriber", buffer>>[2] = buffer
    OBVIOUS
  <2> QED BY <1>1, <1>2, <2>1, <2>2, LinesAppend DEF Arrived
<1>7. Todo' = Todo
  BY <1>2 DEF Todo, Pushed
<1> QED BY <1>5, <1>6, <1>7 DEF AbstractFifo!Arrive, Todo, Transit, Arrived

(* All other steps leave what Fifo is shown as it is. *)
LEMMA OtherRefines ==
  ASSUME FifoInv, [Next]_vars, ~Push, ~Decode
  PROVE  UNCHANGED AbstractFifo!vars
<1>1. /\ pc \in [Threads -> Labels] /\ queue_ \in Seq(Msg) /\ chn \in Nat /\ i \in Nat
      /\ out \in Seq({"publisher", "subscriber"} \X Msg)
      /\ pc["main"] = "begin" => pc["publisher"] = "not started"
      /\ pc["main"] \in {"begin", "start subscriber"} =>
           pc["subscriber"] = "not started"
  BY DEF FifoInv, HandoverInv, TypeOK, StartOK, Msg, OutputInv
<1>2. SUFFICES Todo' = Todo /\ Transit' = Transit /\ Arrived' = Arrived
  BY DEF AbstractFifo!vars, Todo, Transit, Arrived
<1>3. ASSUME Pushed' = Pushed, UNCHANGED <<queue_, buffer, out>>,
             pc'["subscriber"] \in {"unlock", "decode"} <=>
               pc["subscriber"] \in {"unlock", "decode"}
      PROVE  Todo' = Todo /\ Transit' = Transit /\ Arrived' = Arrived
  BY <1>3, TransitKept DEF Todo, Arrived
<1>4. CASE PrintSent
  <2>1. /\ pc'["publisher"] = "lock" /\ pc["publisher"] = "print"
        /\ pc'["subscriber"] = pc["subscriber"]
        /\ out' = Append(out, <<"publisher", Message(chn)>>)
        /\ UNCHANGED <<queue_, chn, buffer>>
    BY <1>1, <1>4 DEF PrintSent, Publishes, PublisherNext, Goto, Threads
  <2>2. Arrived' = Arrived
    <3>1. <<"publisher", Message(chn)>> \in {"publisher", "subscriber"} \X Msg
      <4>1. Message(chn) \in Msg
        <5>1. chn \in Nat
          BY <1>1
        <5> QED BY <5>1 DEF Message, Msg
      <4> QED BY <4>1
    <3>2. <<"publisher", Message(chn)>>[1] # "subscriber"
      OBVIOUS
    <3> DEFINE line  == <<"publisher", Message(chn)>>
               Shown == {"publisher", "subscriber"} \X Msg
    <3>3. Lines(Append(out, line), "subscriber") = Lines(out, "subscriber")
      <4> HIDE DEF line
      <4>1. line \in Shown /\ line[1] # "subscriber"
        BY <3>1, <3>2 DEF line
      <4>2. out \in Seq(Shown)
        BY <1>1
      <4> HIDE DEF Shown
      <4> QED BY <4>1, <4>2, LinesAppend, Zenon
    <3> QED BY <2>1, <3>3 DEF Arrived
  <2>3. Pushed' = Pushed
    BY <2>1 DEF Pushed
  <2> QED BY <2>1, <2>2, <2>3, TransitKept DEF Todo
<1>5. CASE SendLock \/ SendUnlock \/ NotifyOne
  <2>1. /\ \/ pc["publisher"] = "lock" /\ pc'["publisher"] = "push"
           \/ pc["publisher"] = "unlock" /\ pc'["publisher"] = "notify"
           \/ pc["publisher"] = "notify" /\ pc'["publisher"] = "sleep"
        /\ \/ pc'["subscriber"] = pc["subscriber"]
           \/ pc["subscriber"] = "blocked" /\ pc'["subscriber"] = "relock"
        /\ UNCHANGED <<queue_, chn, buffer, out>>
    BY <1>1, <1>5 DEF SendLock, SendUnlock, NotifyOne, Publishes, PublisherNext,
                      Goto, Threads
  <2>2. Pushed' = Pushed
    BY <2>1 DEF Pushed
  <2> QED BY <1>3, <2>1, <2>2
<1>6. CASE Sleep
  <2>1. /\ pc["publisher"] = "sleep" /\ pc'["publisher"] \in {"print", "done"}
        /\ chn' = chn + 1 /\ pc'["subscriber"] = pc["subscriber"]
        /\ UNCHANGED <<queue_, buffer, out>>
    BY <1>1, <1>6 DEF Sleep, Goto, Threads, Turn, PublisherNext
  <2>2. Pushed' = Pushed
    BY <1>1, <2>1 DEF Pushed
  <2> QED BY <1>3, <2>1, <2>2
<1>7. CASE ReceiveLock \/ Check \/ Wait \/ Relock \/ WakeSpuriously \/ ReceiveUnlock
  <2>1. /\ \/ /\ pc["subscriber"] \notin {"unlock", "decode"}
              /\ pc'["subscriber"] \notin {"unlock", "decode"}
           \/ pc["subscriber"] = "unlock" /\ pc'["subscriber"] = "decode"
        /\ pc'["publisher"] = pc["publisher"]
        /\ UNCHANGED <<queue_, chn, buffer, out>>
    BY <1>1, <1>7 DEF ReceiveLock, Check, Wait, Relock, WakeSpuriously, ReceiveUnlock,
                      Subscribes, SubscriberNext, Goto, Threads
  <2>2. Pushed' = Pushed
    BY <2>1 DEF Pushed
  <2> QED BY <1>3, <2>1, <2>2
<1>8. CASE Take
  <2>1. /\ pc["subscriber"] = "take" /\ pc'["subscriber"] = "unlock"
        /\ pc'["publisher"] = pc["publisher"] /\ UNCHANGED <<chn, out>>
    BY <1>1, <1>8 DEF Take, Subscribes, SubscriberNext, Goto, Threads
  <2>2. queue_ # << >> /\ buffer' = Head(queue_) /\ queue_' = Tail(queue_)
    BY <1>8, <2>1 DEF Take, FifoInv, HandoverInv, HandoverOK
  <2>3. Transit' = Transit
    <3>1. Transit = queue_ /\ Transit' = <<Head(queue_)>> \o Tail(queue_)
      BY <2>1, <2>2 DEF Transit
    <3>2. /\ Head(queue_) \in Msg /\ Tail(queue_) \in Seq(Msg)
          /\ Len(Tail(queue_)) = Len(queue_) - 1 /\ Len(queue_) \in Nat
          /\ Head(queue_) = queue_[1]
          /\ \A k \in 1 .. Len(Tail(queue_)) : Tail(queue_)[k] = queue_[k + 1]
      <4>1. queue_ \in Seq(Msg) /\ queue_ # << >>
        BY <1>1, <2>2
      <4> QED BY <4>1, HeadTailProperties, LenProperties
    <3>3. <<Head(queue_)>> \in Seq(Msg) /\ Len(<<Head(queue_)>>) = 1
          /\ <<Head(queue_)>>[1] = Head(queue_)
      BY <3>2
    <3>4. /\ Transit' \in Seq(Msg) /\ Len(Transit') = Len(queue_)
          /\ \A k \in 1 .. Len(queue_) :
               Transit'[k] = IF k <= 1 THEN Head(queue_) ELSE Tail(queue_)[k - 1]
      BY <3>1, <3>2, <3>3, ConcatProperties
    <3>5. \A k \in 1 .. Len(queue_) : Transit'[k] = queue_[k]
      BY <3>2, <3>4
    <3> QED BY <1>1, <3>1, <3>4, <3>5, SeqEqual
  <2> QED BY <2>1, <2>3 DEF Todo, Pushed, Arrived
<1>9. CASE Main
  <2>1. UNCHANGED <<queue_, chn, buffer, out>>
    BY <1>9 DEF Main
  <2>2. /\ pc'["publisher"] # pc["publisher"] =>
             pc["publisher"] = "not started" /\ pc'["publisher"] \in {"print", "done"}
        /\ pc'["subscriber"] # pc["subscriber"] =>
             pc["subscriber"] = "not started" /\ pc'["subscriber"] \in {"lock", "done"}
    BY <1>1, <1>9 DEF Main, Starts, Joins, Goto, Threads, Turn, PublisherNext,
                      SubscriberNext
  <2>3. Pushed' = Pushed
    BY <2>1, <2>2 DEF Pushed
  <2> QED BY <1>3, <2>1, <2>2, <2>3
<1>10. CASE UNCHANGED vars
  BY <1>3, <1>10 DEF vars, Pushed
<1> QED
  BY <1>4, <1>5, <1>6, <1>7, <1>8, <1>9, <1>10
  DEF Next, Publisher, Subscriber, Ended

(* The two threads, their mutex and their condition variable are a queue:  *)
(* what the subscriber decodes is what the publisher had to send, each     *)
(* message once and in order, for any number of messages; a push is the    *)
(* only step by which a message gets on its way, and decoding it the only  *)
(* one by which it leaves.                                                 *)
THEOREM ImplementsFifoCorrect == Spec => ImplementsFifo
<1>1. Init => AbstractFifo!Begin([k \in 1 .. kMessageCount |-> Message(k - 1)])
  <2> SUFFICES ASSUME Init
               PROVE  AbstractFifo!Begin([k \in 1 .. kMessageCount |-> Message(k - 1)])
    OBVIOUS
  <2>1. /\ pc["publisher"] = "not started" /\ pc["subscriber"] = "not started"
        /\ chn = 0 /\ queue_ = << >> /\ out = << >> /\ kMessageCount \in Nat
    BY CountAssumption DEF Init, Threads
  <2>2. Pushed = 0
    BY <2>1 DEF Pushed
  <2>3. Todo = [k \in 1 .. kMessageCount |-> Message(k - 1)]
    <3>1. \A k \in Int : 0 + k - 1 = k - 1
      OBVIOUS
    <3>2. kMessageCount - 0 = kMessageCount
      BY CountAssumption
    <3> QED BY <2>2, <3>1, <3>2 DEF Todo
  <2>4. Transit = << >> /\ Arrived = << >>
    BY <2>1, NoLines DEF Transit, Arrived
  <2> QED BY <2>3, <2>4 DEF AbstractFifo!Begin, Todo, Transit, Arrived
<1>2. Init => TurnsLeft
  BY DEF Init, TurnsLeft, Threads
<1>3. HandoverInv /\ TurnsLeft /\ [Next]_vars => TurnsLeft'
  BY TurnsStep
<1>4. HandoverInv /\ OutputInv /\ TurnsLeft /\ [Next]_vars =>
        [AbstractFifo!Send \/ AbstractFifo!Arrive]_AbstractFifo!vars
  BY PushRefines, DecodeRefines, OtherRefines DEF FifoInv
<1> QED
  BY HandoverInvariant, OutputInvariant, <1>1, <1>2, <1>3, <1>4, PTL
  DEF Spec, ImplementsFifo, AbstractFifo!Steps

=============================================================================
