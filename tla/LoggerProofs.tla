----------------------------- MODULE LoggerProofs -----------------------------
(***************************************************************************)
(* Whole lines and the filter of the logger, for any number of threads.    *)
(*                                                                         *)
(* A step of one thread changes its own pc only, so that what is said of   *)
(* the others has to survive two things: the mutex, the line and the       *)
(* console level are shared, and a setter writes the history of everyone.  *)
(***************************************************************************)
EXTENDS Logger, SequenceTheorems, TLAPS

Locked == {"test", "prefix", "text", "end", "unlock"}
InCall == {"lock"} \cup Locked
Labels == {"idle", "set file", "set console"} \cup InCall

TypeOK ==
  /\ pc \in [Threads -> Labels]
  /\ call \in [Threads -> [level : Nat, target : Nat]]
  /\ during \in
       [Threads -> [levels : SUBSET Nat, target : Nat, printed : BOOLEAN]]
  /\ console_lvl \in Nat /\ file_lvl \in Nat /\ trg \in Nat

(* Who is inside holds the mutex, and the pieces are those that he printed. *)
LineInv ==
  /\ \A t \in Threads : pc[t] \in Locked => mtx = t
  /\ \A t \in Threads : pc[t] = "text" => line = <<<<t, "prefix">>>>
  /\ \A t \in Threads :
       pc[t] = "end" => line = <<<<t, "prefix">>, <<t, "text">>>>
  /\ line # << >> => \E t \in Threads : pc[t] \in {"text", "end"}

(* A level among those in force during the call of t shows its message. *)
Asked(t, l) == ToConsole(during[t].target) /\ call[t].level >= l

(* The history of t has the arguments of its call and the level of the     *)
(* console, and a level for which t does what it is about to do.           *)
FilterInvOf(t) ==
  /\ pc[t] \in InCall =>
       /\ during[t].target = call[t].target
       /\ console_lvl \in during[t].levels
  /\ pc[t] \in InCall \ {"unlock"} => ~during[t].printed
  /\ pc[t] \in {"prefix", "text", "end"} \/ (pc[t] = "unlock" /\ during[t].printed)
       => \E l \in during[t].levels : Asked(t, l)
  /\ pc[t] = "unlock" /\ ~during[t].printed =>
       \E l \in during[t].levels : ~Asked(t, l)

FilterInv == \A t \in Threads : FilterInvOf(t)

LoggerInv == TypeOK /\ LineInv /\ FilterInv

-----------------------------------------------------------------------------
LEMMA InitLogger == Init => LoggerInv
<1> SUFFICES ASSUME Init PROVE LoggerInv
  OBVIOUS
<1>1. \A t \in Threads : pc[t] = "idle"
  BY DEF Init
<1>2. TypeOK
  BY DEF Init, TypeOK, Labels, InCall, Locked, NoCall, Unseen, Info, Console
<1>3. LineInv
  BY <1>1 DEF Init, LineInv, Locked
<1>4. FilterInv
  BY <1>1 DEF FilterInv, FilterInvOf, InCall, Locked
<1> QED
  BY <1>2, <1>3, <1>4 DEF LoggerInv

LEMMA CallersNaturals == Levels \subseteq Nat /\ Targets \subseteq Nat
<1>1. \A n \in 0 .. Critical : n \in Nat
  BY DEF Critical
<1>2. \A n \in 0 .. 3 : n \in Nat
  OBVIOUS
<1> QED
  BY <1>1, <1>2, LoggerAssumption

LEMMA WriteTypeOK ==
  ASSUME TypeOK, NEW level \in Nat, WriteConsoleLevel(level)
  PROVE  /\ console_lvl' \in Nat
         /\ during' \in
              [Threads -> [levels : SUBSET Nat, target : Nat, printed : BOOLEAN]]
<1> DEFINE History == [levels : SUBSET Nat, target : Nat, printed : BOOLEAN]
           new(u) == IF during[u] = Unseen THEN during[u]
                     ELSE [during[u] EXCEPT !.levels = @ \cup {level}]
<1>1. ASSUME NEW u \in Threads PROVE new(u) \in History
  <2>1. during[u] \in History
    BY DEF TypeOK
  <2>2. during[u].levels \cup {level} \in SUBSET Nat
    BY <2>1
  <2> QED
    BY <2>1, <2>2
<1>2. during' = [u \in Threads |-> new(u)]
  BY DEF WriteConsoleLevel
<1>3. during' \in [Threads -> History]
  <2> HIDE DEF new, History
  <2> QED
    BY <1>1, <1>2
<1> QED
  BY <1>3 DEF WriteConsoleLevel

(* Types. *)
LEMMA StepTypeOK ==
  ASSUME LoggerInv, Next
  PROVE  TypeOK'
<1> USE CallersNaturals DEF LoggerInv, TypeOK, Labels, InCall, Locked, Goto
<1>0. PICK t \in Threads :
        \/ vLog(t) \/ SetLevelEnd(t)
        \/ \E level \in Levels :
             \/ Call(t, level)
             \/ SetLevel(t, level) \/ SetConsoleLevel(t, level)
             \/ SetFileLevel(t, level)
        \/ \E target \in Targets : SetTarget(t, target)
  BY DEF Next
<1>1. CASE Lock(t)
  BY <1>1 DEF Lock, settings
<1>2. CASE Test(t)
  BY <1>2 DEF Test, settings
<1>3. CASE Prefix(t) \/ Text(t)
  BY <1>3 DEF Prefix, Text, Piece, settings
<1>4. CASE EndLine(t)
  BY <1>4 DEF EndLine, settings
<1>5. CASE Unlock(t)
  BY <1>5 DEF Unlock, settings, NoCall, Unseen
<1>6. CASE SetLevelEnd(t)
  <2>1. CASE pc[t] = "set file" /\ UNCHANGED <<console_lvl, during>>
    BY <1>6, <2>1 DEF SetLevelEnd, NoCall
  <2>2. CASE WriteConsoleLevel(call[t].level)
    <3>1. call[t].level \in Nat
      OBVIOUS
    <3> QED
      BY <1>6, <2>2, <3>1, WriteTypeOK DEF SetLevelEnd, NoCall
  <2> QED
    BY <1>6, <2>1, <2>2 DEF SetLevelEnd
<1>7. ASSUME NEW level \in Levels, Call(t, level) PROVE TypeOK'
  <2>1. PICK target \in Targets \cup {trg} :
          /\ call' = [call EXCEPT ![t] = [level |-> level, target |-> target]]
          /\ during' = [during EXCEPT
               ![t] = [levels |-> {console_lvl}, target |-> target,
                       printed |-> FALSE]]
    BY <1>7 DEF Call
  <2>2. target \in Nat /\ level \in Nat
    OBVIOUS
  <2> QED
    BY <1>7, <2>1, <2>2 DEF Call, settings
<1>8. ASSUME NEW level \in Levels, SetLevel(t, level) PROVE TypeOK'
  <2>1. CASE UNCHANGED <<console_lvl, during>>
    BY <1>8, <2>1, ZenonT(30) DEF SetLevel
  <2>2. CASE WriteConsoleLevel(level)
    BY <1>8, <2>2, WriteTypeOK, ZenonT(30) DEF SetLevel
  <2> QED
    BY <1>8, <2>1, <2>2 DEF SetLevel
<1>9. ASSUME NEW level \in Levels, SetConsoleLevel(t, level) PROVE TypeOK'
  BY <1>9, WriteTypeOK DEF SetConsoleLevel
<1>10. ASSUME NEW level \in Levels, SetFileLevel(t, level) PROVE TypeOK'
  BY <1>10 DEF SetFileLevel
<1>11. ASSUME NEW target \in Targets, SetTarget(t, target) PROVE TypeOK'
  BY <1>11 DEF SetTarget
<1> QED
  BY <1>0, <1>1, <1>2, <1>3, <1>4, <1>5, <1>6, <1>7, <1>8, <1>9, <1>10, <1>11
     DEF vLog

-----------------------------------------------------------------------------
(* Lines. *)

(* The thread that steps is outside before and after, or stays inside      *)
(* without printing; nobody else is concerned.                             *)
LEMMA QuietLine ==
  ASSUME LineInv, pc \in [Threads -> Labels], NEW t \in Threads, NEW label,
         pc' = [pc EXCEPT ![t] = label],
         UNCHANGED <<mtx, line>>,
         label \in Locked => pc[t] \in Locked,
         pc[t] \notin {"text", "end"}, label \notin {"text", "end"}
  PROVE  LineInv'
<1>1. \A u \in Threads : u # t => pc'[u] = pc[u]
  OBVIOUS
<1>2. pc'[t] = label
  OBVIOUS
<1>3. \A u \in Threads : pc'[u] \in Locked => mtx' = u
  BY <1>1, <1>2 DEF LineInv
<1>4. \A u \in Threads : pc'[u] \in {"text", "end"} <=> pc[u] \in {"text", "end"}
  BY <1>1, <1>2
<1>5. \A u \in Threads : pc'[u] \in {"text", "end"} => pc'[u] = pc[u]
  BY <1>1, <1>2
<1> QED
  BY <1>3, <1>4, <1>5 DEF LineInv

LEMMA AppendToOne ==
  ASSUME NEW S, NEW x \in S, NEW y \in S
  PROVE  Append(<<x>>, y) = <<x, y>>
<1>1. <<x>> \in Seq(S) /\ <<x, y>> \in Seq(S)
  OBVIOUS
<1>2. Len(<<x>>) = 1 /\ Len(<<x, y>>) = 2 /\ <<x>>[1] = x
        /\ <<x, y>>[1] = x /\ <<x, y>>[2] = y
  OBVIOUS
<1>3. /\ Append(<<x>>, y) \in Seq(S)
      /\ Len(Append(<<x>>, y)) = 2
      /\ Append(<<x>>, y)[1] = x
      /\ Append(<<x>>, y)[2] = y
  BY <1>1, <1>2, AppendProperties
<1>4. \A i \in 1 .. 2 : Append(<<x>>, y)[i] = <<x, y>>[i]
  <2> SUFFICES ASSUME NEW i \in 1 .. 2 PROVE Append(<<x>>, y)[i] = <<x, y>>[i]
    OBVIOUS
  <2>1. i = 1 \/ i = 2
    OBVIOUS
  <2> QED
    BY <1>2, <1>3, <2>1
<1> QED
  BY <1>1, <1>2, <1>3, <1>4, SeqEqual

LEMMA StepLineInv ==
  ASSUME LoggerInv, Next
  PROVE  LineInv'
<1> USE DEF LoggerInv, TypeOK, Goto
<1>0. PICK t \in Threads :
        \/ vLog(t) \/ SetLevelEnd(t)
        \/ \E level \in Levels :
             \/ Call(t, level)
             \/ SetLevel(t, level) \/ SetConsoleLevel(t, level)
             \/ SetFileLevel(t, level)
        \/ \E target \in Targets : SetTarget(t, target)
  BY DEF Next
(* Who is inside is t, and what is printed is t's. *)
<1>a. ASSUME pc[t] \in Locked PROVE \A u \in Threads : pc[u] \in Locked => u = t
  BY <1>a DEF LineInv
<1>b. ASSUME pc[t] \in {"test", "prefix", "unlock"} PROVE line = << >>
  BY <1>a, <1>b DEF LineInv, Locked
<1>1. CASE Lock(t)
  <2>1. mtx = Nobody /\ mtx' = t /\ pc' = [pc EXCEPT ![t] = "test"] /\ line' = line
    BY <1>1 DEF Lock
  <2>2. \A u \in Threads : pc[u] \notin Locked
    BY <2>1, LoggerAssumption DEF LineInv
  <2>3. \A u \in Threads : pc'[u] \in Locked => mtx' = u
    BY <2>1, <2>2
  <2>4. line = << >> /\ \A u \in Threads : pc'[u] \notin {"text", "end"}
    BY <2>1, <2>2 DEF LineInv, Locked
  <2> QED
    BY <2>1, <2>3, <2>4 DEF LineInv
<1>2. CASE Test(t)
  <2>1. PICK label \in {"prefix", "unlock"} : pc' = [pc EXCEPT ![t] = label]
    BY <1>2 DEF Test
  <2> QED
    BY <1>2, <2>1, QuietLine DEF Test, Locked
<1>3. CASE Prefix(t)
  <2>1. /\ pc[t] = "prefix" /\ pc' = [pc EXCEPT ![t] = "text"] /\ mtx' = mtx
        /\ line' = Append(line, <<t, "prefix">>)
    BY <1>3 DEF Prefix, Piece
  <2>2. line' = <<<<t, "prefix">>>>
    BY <1>b, <2>1
  <2>3. \A u \in Threads : pc'[u] \in Locked => u = t
    BY <1>a, <2>1 DEF Locked
  <2>4. mtx = t /\ pc'[t] = "text"
    BY <2>1 DEF LineInv, Locked
  <2> QED
    BY <2>1, <2>2, <2>3, <2>4 DEF LineInv, Locked
<1>4. CASE Text(t)
  <2>1. /\ pc[t] = "text" /\ pc' = [pc EXCEPT ![t] = "end"] /\ mtx' = mtx
        /\ line' = Append(line, <<t, "text">>)
    BY <1>4 DEF Text, Piece
  <2>2. line = <<<<t, "prefix">>>>
    BY <2>1 DEF LineInv
  <2>3. line' = <<<<t, "prefix">>, <<t, "text">>>>
    <3> DEFINE x == <<t, "prefix">>
               y == <<t, "text">>
    <3>1. x \in {x, y} /\ y \in {x, y} /\ line = <<x>> /\ line' = Append(line, y)
      BY <2>1, <2>2
    <3> HIDE DEF x, y
    <3>2. line' = <<x, y>>
      BY <3>1, AppendToOne
    <3> QED
      BY <3>2 DEF x, y
  <2>4. \A u \in Threads : pc'[u] \in Locked => u = t
    BY <1>a, <2>1 DEF Locked
  <2>5. mtx = t /\ pc'[t] = "end"
    BY <2>1 DEF LineInv, Locked
  <2> QED
    BY <2>1, <2>3, <2>4, <2>5 DEF LineInv, Locked
<1>5. CASE EndLine(t)
  <2>1. /\ pc[t] = "end" /\ pc' = [pc EXCEPT ![t] = "unlock"] /\ mtx' = mtx
        /\ line' = << >>
    BY <1>5 DEF EndLine
  <2>2. \A u \in Threads : pc'[u] \in Locked => u = t
    BY <1>a, <2>1 DEF Locked
  <2>3. mtx = t /\ pc'[t] = "unlock"
    BY <2>1 DEF LineInv, Locked
  <2> QED
    BY <2>1, <2>2, <2>3 DEF LineInv, Locked
<1>6. CASE Unlock(t)
  <2>1. pc[t] = "unlock" /\ pc' = [pc EXCEPT ![t] = "idle"] /\ line' = line
    BY <1>6 DEF Unlock
  <2>2. \A u \in Threads : pc'[u] \notin Locked
    BY <1>a, <2>1 DEF Locked
  <2>3. line' = << >>
    BY <1>b, <2>1
  <2> QED
    BY <2>2, <2>3 DEF LineInv, Locked
<1>7. CASE SetLevelEnd(t)
  BY <1>7, QuietLine, ZenonT(30) DEF SetLevelEnd, Locked
<1>8. ASSUME NEW level \in Levels, Call(t, level) PROVE LineInv'
  <2>1. /\ pc[t] = "idle" /\ pc' = [pc EXCEPT ![t] = "lock"]
        /\ UNCHANGED <<mtx, line>>
    BY <1>8 DEF Call
  <2> QED
    BY <2>1, QuietLine DEF Locked
<1>9. ASSUME NEW level \in Levels, SetLevel(t, level) PROVE LineInv'
  <2>1. PICK label \in {"set file", "set console"} : pc' = [pc EXCEPT ![t] = label]
    BY <1>9 DEF SetLevel
  <2> QED
    BY <1>9, <2>1, QuietLine DEF SetLevel, Locked
<1>10. ASSUME UNCHANGED <<mtx, pc, line>> PROVE LineInv'
  BY <1>10 DEF LineInv
<1> QED
  BY <1>0, <1>1, <1>2, <1>3, <1>4, <1>5, <1>6, <1>7, <1>8, <1>9, <1>10
     DEF vLog, SetConsoleLevel, SetFileLevel, SetTarget

-----------------------------------------------------------------------------
(* The filter. *)

(* A thread that does not step: more levels may be in force. *)
LEMMA BystanderFilter ==
  ASSUME NEW u \in Threads, FilterInvOf(u),
         pc'[u] = pc[u],
         pc[u] \in InCall => call'[u] = call[u],
         during'[u].target = during[u].target,
         during'[u].printed = during[u].printed,
         during[u].levels \subseteq during'[u].levels,
         pc[u] \in InCall => console_lvl' \in during'[u].levels
  PROVE  FilterInvOf(u)'
<1>1. pc[u] \in InCall => \A l : Asked(u, l)' <=> Asked(u, l)
  BY DEF Asked, ToConsole
<1>2. CASE pc[u] \notin InCall
  BY <1>2 DEF FilterInvOf, InCall, Locked
<1>3. CASE pc[u] \in InCall
  <2>1. pc'[u] \in {"prefix", "text", "end"} \/ (pc'[u] = "unlock" /\ during'[u].printed)
          => \E l \in during'[u].levels : Asked(u, l)'
    BY <1>1, <1>3 DEF FilterInvOf
  <2>2. pc'[u] = "unlock" /\ ~during'[u].printed =>
          \E l \in during'[u].levels : ~Asked(u, l)'
    BY <1>1, <1>3 DEF FilterInvOf
  <2> QED
    BY <1>3, <2>1, <2>2 DEF FilterInvOf
<1> QED
  BY <1>2, <1>3

(* A write of the console level, for the threads that are in a call. *)
LEMMA WriteFilter ==
  ASSUME TypeOK, FilterInv, NEW level \in Nat, WriteConsoleLevel(level),
         NEW u \in Threads, pc'[u] = pc[u],
         pc[u] \in InCall => call'[u] = call[u]
  PROVE  FilterInvOf(u)'
<1>0. FilterInvOf(u)
  BY DEF FilterInv
<1>1. during[u] \in [levels : SUBSET Nat, target : Nat, printed : BOOLEAN]
  BY DEF TypeOK
<1>2. CASE during[u] = Unseen
  <2>1. during'[u] = during[u]
    BY <1>2 DEF WriteConsoleLevel
  <2>2. pc[u] \notin InCall
    BY <1>0, <1>2 DEF FilterInvOf, Unseen
  <2> QED
    BY <1>0, <2>1, <2>2, BystanderFilter
<1>3. CASE during[u] # Unseen
  <2>1. during'[u] = [during[u] EXCEPT !.levels = @ \cup {level}]
    BY <1>3 DEF WriteConsoleLevel
  <2>2. /\ during'[u].target = during[u].target
        /\ during'[u].printed = during[u].printed
        /\ during'[u].levels = during[u].levels \cup {level}
    BY <1>1, <2>1
  <2>3. console_lvl' = level
    BY DEF WriteConsoleLevel
  <2> QED
    BY <1>0, <2>2, <2>3, BystanderFilter
<1> QED
  BY <1>2, <1>3

(* A step of t that leaves the level and the history of the others alone. *)
LEMMA OwnFilter ==
  ASSUME LoggerInv, NEW t \in Threads, NEW label,
         pc' = [pc EXCEPT ![t] = label],
         \A u \in Threads \ {t} : call'[u] = call[u] /\ during'[u] = during[u],
         console_lvl' = console_lvl,
         FilterInvOf(t)'
  PROVE  FilterInv'
<1>1. ASSUME NEW u \in Threads \ {t} PROVE FilterInvOf(u)'
  <2>1. FilterInvOf(u) /\ pc'[u] = pc[u]
    BY DEF LoggerInv, FilterInv, TypeOK
  <2>2. pc[u] \in InCall => console_lvl' \in during'[u].levels
    BY <2>1 DEF FilterInvOf
  <2> QED
    BY <2>1, <2>2, BystanderFilter
<1> QED
  BY <1>1 DEF FilterInv

LEMMA StepFilterInv ==
  ASSUME LoggerInv, Next
  PROVE  FilterInv'
<1> USE DEF Goto
<1>0. PICK t \in Threads :
        \/ vLog(t) \/ SetLevelEnd(t)
        \/ \E level \in Levels :
             \/ Call(t, level)
             \/ SetLevel(t, level) \/ SetConsoleLevel(t, level)
             \/ SetFileLevel(t, level)
        \/ \E target \in Targets : SetTarget(t, target)
  BY DEF Next
<1>t. /\ pc \in [Threads -> Labels]
      /\ call \in [Threads -> [level : Nat, target : Nat]]
      /\ during \in
           [Threads -> [levels : SUBSET Nat, target : Nat, printed : BOOLEAN]]
  BY DEF LoggerInv, TypeOK
<1>f. FilterInvOf(t)
  BY DEF LoggerInv, FilterInv
<1>1. CASE Lock(t)
  <2>1. /\ pc[t] = "lock" /\ pc' = [pc EXCEPT ![t] = "test"]
        /\ UNCHANGED <<console_lvl, call, during>>
    BY <1>1 DEF Lock, settings
  <2>2. FilterInvOf(t)'
    BY <1>t, <1>f, <2>1 DEF FilterInvOf, InCall, Locked
  <2> QED
    BY <2>1, <2>2, OwnFilter
<1>2. CASE Test(t)
  <2>1. /\ pc[t] = "test"
        /\ pc' = [pc EXCEPT ![t] = IF Shown(t) THEN "prefix" ELSE "unlock"]
        /\ UNCHANGED <<console_lvl, call, during>>
    BY <1>2 DEF Test, settings
  <2>2. Shown(t) <=> Asked(t, console_lvl)
    BY <1>f, <2>1 DEF FilterInvOf, InCall, Locked, Shown, Asked
  <2>3. \A l : Asked(t, l)' <=> Asked(t, l)
    BY <2>1 DEF Asked
  <2>4. console_lvl \in during[t].levels /\ ~during[t].printed
    BY <1>f, <2>1 DEF FilterInvOf, InCall, Locked
  <2>5. FilterInvOf(t)'
    <3>1. CASE Shown(t)
      <4>1. pc'[t] = "prefix"
        BY <1>t, <2>1, <3>1
      <4> QED
        BY <1>f, <2>1, <2>2, <2>3, <2>4, <3>1, <4>1 DEF FilterInvOf, InCall, Locked
    <3>2. CASE ~Shown(t)
      <4>1. pc'[t] = "unlock"
        BY <1>t, <2>1, <3>2
      <4> QED
        BY <1>f, <2>1, <2>2, <2>3, <2>4, <3>2, <4>1 DEF FilterInvOf, InCall, Locked
    <3> QED
      BY <3>1, <3>2
  <2> QED
    BY <2>1, <2>5, OwnFilter
<1>3. CASE Prefix(t) \/ Text(t)
  <2>1. PICK label \in {"text", "end"} :
          /\ pc[t] \in {"prefix", "text"} /\ pc' = [pc EXCEPT ![t] = label]
          /\ UNCHANGED <<console_lvl, call, during>>
    BY <1>3 DEF Prefix, Text, Piece, settings
  <2>2. \A l : Asked(t, l)' <=> Asked(t, l)
    BY <2>1 DEF Asked
  <2>3. FilterInvOf(t)'
    BY <1>t, <1>f, <2>1, <2>2 DEF FilterInvOf, InCall, Locked
  <2> QED
    BY <2>1, <2>3, OwnFilter
<1>4. CASE EndLine(t)
  <2>1. /\ pc[t] = "end" /\ pc' = [pc EXCEPT ![t] = "unlock"]
        /\ during' = [during EXCEPT ![t].printed = TRUE]
        /\ UNCHANGED <<console_lvl, call>>
    BY <1>4 DEF EndLine, settings
  <2>2. /\ during'[t].levels = during[t].levels
        /\ during'[t].target = during[t].target
        /\ during'[t].printed
        /\ pc'[t] = "unlock"
    BY <1>t, <2>1
  <2>3. \A l : Asked(t, l)' <=> Asked(t, l)
    BY <2>1, <2>2 DEF Asked
  <2>4. FilterInvOf(t)'
    BY <1>f, <2>1, <2>2, <2>3 DEF FilterInvOf, InCall, Locked
  <2> QED
    BY <1>t, <2>1, <2>4, OwnFilter
<1>5. CASE Unlock(t)
  <2>1. /\ pc[t] = "unlock" /\ pc' = [pc EXCEPT ![t] = "idle"]
        /\ call' = [call EXCEPT ![t] = NoCall]
        /\ during' = [during EXCEPT ![t] = Unseen]
        /\ console_lvl' = console_lvl
    BY <1>5 DEF Unlock, settings
  <2>2. FilterInvOf(t)'
    BY <1>t, <2>1 DEF FilterInvOf, InCall, Locked
  <2> QED
    BY <1>t, <2>1, <2>2, OwnFilter
<1>6. ASSUME NEW level \in Levels, Call(t, level) PROVE FilterInv'
  <2>1. PICK target \in Targets \cup {trg} :
          /\ call' = [call EXCEPT ![t] = [level |-> level, target |-> target]]
          /\ during' = [during EXCEPT
               ![t] = [levels |-> {console_lvl}, target |-> target,
                       printed |-> FALSE]]
    BY <1>6 DEF Call
  <2>2. pc' = [pc EXCEPT ![t] = "lock"] /\ console_lvl' = console_lvl
    BY <1>6 DEF Call, settings
  <2>3. FilterInvOf(t)'
    BY <1>t, <2>1, <2>2 DEF FilterInvOf, InCall, Locked
  <2> QED
    BY <1>t, <2>1, <2>2, <2>3, OwnFilter
(* The setters: whoever sets is in no call. *)
<1>s. ASSUME NEW level \in Nat, WriteConsoleLevel(level), NEW label,
             label \notin InCall, pc[t] \notin InCall,
             pc' = [pc EXCEPT ![t] = label],
             \A u \in Threads \ {t} : call'[u] = call[u]
      PROVE  FilterInv'
  <2>1. ASSUME NEW u \in Threads \ {t} PROVE FilterInvOf(u)'
    BY <1>t, <1>s, WriteFilter DEF LoggerInv
  <2>2. FilterInvOf(t)'
    BY <1>t, <1>s DEF FilterInvOf, InCall, Locked
  <2> QED
    BY <2>1, <2>2 DEF FilterInv
<1>n. ASSUME UNCHANGED <<console_lvl, during>>, NEW label,
             label \notin InCall, pc[t] \notin InCall,
             pc' = [pc EXCEPT ![t] = label],
             \A u \in Threads \ {t} : call'[u] = call[u]
      PROVE  FilterInv'
  <2>1. FilterInvOf(t)'
    BY <1>t, <1>n DEF FilterInvOf, InCall, Locked
  <2> QED
    BY <1>n, <2>1, OwnFilter
<1>7. CASE SetLevelEnd(t)
  <2>1. /\ pc[t] \in {"set file", "set console"} /\ pc' = [pc EXCEPT ![t] = "idle"]
        /\ \A u \in Threads \ {t} : call'[u] = call[u]
    BY <1>t, <1>7 DEF SetLevelEnd
  <2>2. pc[t] \notin InCall /\ "idle" \notin InCall
    BY <2>1 DEF InCall, Locked
  <2>3. CASE UNCHANGED <<console_lvl, during>>
    BY <1>n, <2>1, <2>2, <2>3
  <2>4. CASE WriteConsoleLevel(call[t].level)
    BY <1>t, <1>s, <2>1, <2>2, <2>4
  <2> QED
    BY <1>7, <2>3, <2>4 DEF SetLevelEnd
<1>8. ASSUME NEW level \in Levels, SetLevel(t, level) PROVE FilterInv'
  <2>1. PICK label \in {"set file", "set console"} : pc' = [pc EXCEPT ![t] = label]
    BY <1>8 DEF SetLevel
  <2>2. pc[t] = "idle" /\ \A u \in Threads \ {t} : call'[u] = call[u]
    BY <1>t, <1>8 DEF SetLevel
  <2>3. pc[t] \notin InCall /\ label \notin InCall
    BY <2>1, <2>2 DEF InCall, Locked
  <2>4. CASE UNCHANGED <<console_lvl, during>>
    BY <1>n, <2>1, <2>2, <2>3, <2>4
  <2>5. CASE WriteConsoleLevel(level)
    BY <1>s, <2>1, <2>2, <2>3, <2>5, CallersNaturals
  <2> QED
    BY <1>8, <2>4, <2>5 DEF SetLevel
<1>9. ASSUME NEW level \in Levels, SetConsoleLevel(t, level) PROVE FilterInv'
  <2>1. ASSUME NEW u \in Threads PROVE FilterInvOf(u)'
    BY <1>9, WriteFilter, CallersNaturals DEF SetConsoleLevel, LoggerInv
  <2> QED
    BY <2>1 DEF FilterInv
<1>10. ASSUME UNCHANGED <<console_lvl, pc, call, during>> PROVE FilterInv'
  BY <1>10 DEF LoggerInv, FilterInv, FilterInvOf, Asked
<1> QED
  BY <1>0, <1>1, <1>2, <1>3, <1>4, <1>5, <1>6, <1>7, <1>8, <1>9, <1>10
     DEF vLog, SetFileLevel, SetTarget

-----------------------------------------------------------------------------
LEMMA StutterLogger == ASSUME LoggerInv, UNCHANGED vars PROVE LoggerInv'
BY DEF vars, settings, LoggerInv, TypeOK, LineInv, FilterInv, FilterInvOf, Asked

(* LoggerInv holds of the logger at all times. *)
THEOREM LoggerInvariant == Spec => []LoggerInv
<1>1. LoggerInv /\ [Next]_vars => LoggerInv'
  BY StepTypeOK, StepLineInv, StepFilterInv, StutterLogger DEF LoggerInv
<1> QED
  BY InitLogger, <1>1, PTL DEF Spec

(* Lines are whole, however many threads log while others set. *)
THEOREM LinesAreWhole == Spec => []WholeLines
<1>1. LoggerInv => WholeLines
  <2> SUFFICES ASSUME LoggerInv, line # << >> PROVE
        /\ mtx = line[1][1]
        /\ line \in {<<<<mtx, "prefix">>>>, <<<<mtx, "prefix">>, <<mtx, "text">>>>}
    BY DEF WholeLines
  <2>1. PICK t \in Threads : pc[t] \in {"text", "end"}
    BY DEF LoggerInv, LineInv
  <2>2. mtx = t
    BY <2>1 DEF LoggerInv, LineInv, Locked
  <2>3. line \in {<<<<t, "prefix">>>>, <<<<t, "prefix">>, <<t, "text">>>>}
    BY <2>1 DEF LoggerInv, LineInv
  <2> QED
    BY <2>2, <2>3
<1> QED
  BY LoggerInvariant, <1>1, PTL

(* What a call prints was asked for by a setting in force during the call, *)
(* whatever other threads set meanwhile.                                   *)
THEOREM FilterCorrect == Spec => FilterOK
<1> DEFINE Asked_(t) == {ToConsole(during[t].target) /\ call[t].level >= l :
                           l \in during[t].levels}
           Returns == \A t \in Threads : pc[t] = "unlock" /\ pc'[t] = "idle" =>
                        during[t].printed \in Asked_(t)
<1>1. LoggerInv => Returns
  <2> SUFFICES ASSUME LoggerInv, NEW t \in Threads, pc[t] = "unlock"
               PROVE  during[t].printed \in Asked_(t)
    OBVIOUS
  <2>1. FilterInvOf(t) /\ during[t].printed \in BOOLEAN
    BY DEF LoggerInv, FilterInv, TypeOK
  <2>2. \E l \in during[t].levels : during[t].printed <=> Asked(t, l)
    BY <2>1 DEF FilterInvOf
  <2>3. \A l : Asked(t, l) \in BOOLEAN
    BY DEF Asked, ToConsole
  <2> QED
    BY <2>1, <2>2, <2>3 DEF Asked
<1>2. LoggerInv /\ [Next]_vars => [Returns]_vars
  BY <1>1
<1> QED
  BY LoggerInvariant, <1>2, PTL DEF Spec, FilterOK
=============================================================================
