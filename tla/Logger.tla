--------------------------------- MODULE Logger --------------------------------
(***************************************************************************)
(* The logger every DcMsg reports its errors to, shared by all threads.    *)
(*                                                                         *)
(* A logging call takes the mutex, asks the level and prints a line in     *)
(* three pieces.  The setters take no mutex: their writes fall between any *)
(* two steps of a call.  A word is read or written in one piece; SetLevel  *)
(* writes two, in an order that nothing fixes.                             *)
(***************************************************************************)
EXTENDS Naturals, Sequences

CONSTANTS
  Loggers,  \* the threads that log
  Setters,  \* the threads that set; a thread may do both
  Nobody,   \* not a thread
  Levels,   \* the levels the callers use
  Targets   \* the targets they use

Threads == Loggers \cup Setters

Info     == 2   \* Trace is 0, Critical is 5
Critical == 5

(* Targets are sets of bits: Console is bit 0, File is bit 1. *)
Console == 1
ToConsole(target) == target % 2 = 1

ASSUME LoggerAssumption ==
  /\ Levels \subseteq 0 .. Critical
  /\ Targets \subseteq 0 .. 3
  /\ Nobody \notin Threads

VARIABLES
  console_lvl, file_lvl, trg,  \* the settings
  mtx,     \* the thread that holds the mutex, or Nobody
  pc,      \* pc[t]: where in a call thread t is
  call,    \* call[t]: the arguments of the call t is in
  line,    \* the pieces printed since the last end of line, each <<thread, piece>>
  during   \* history: levels and targets in force since t's call began, and
           \* whether it printed

settings == <<console_lvl, file_lvl, trg>>
vars     == <<settings, mtx, pc, call, line, during>>

NoCall == [level |-> 0, target |-> 0]
Unseen == [levels |-> {}, target |-> 0, printed |-> FALSE]

Goto(t, label) == pc' = [pc EXCEPT ![t] = label]

-----------------------------------------------------------------------------
(* Logging. *)

(* Log(level, ...), LogTrace .. LogCritical take the target of the logger, *)
(* before they have the mutex; the other Log is told which.                *)
Call(t, level) ==
  /\ t \in Loggers /\ pc[t] = "idle"
  /\ \E target \in Targets \cup {trg} :
       /\ call' = [call EXCEPT ![t] = [level |-> level, target |-> target]]
       /\ during' = [during EXCEPT
            ![t] = [levels |-> {console_lvl}, target |-> target,
                    printed |-> FALSE]]
  /\ Goto(t, "lock")
  /\ UNCHANGED <<settings, mtx, line>>

(* Mutant of Lock: the mutex is not taken. *)
LockNothing(t) ==
  /\ pc[t] = "lock"
  /\ Goto(t, "test")
  /\ UNCHANGED <<settings, mtx, call, line, during>>

Lock(t) ==
  /\ pc[t] = "lock"
  /\ mtx = Nobody
  /\ mtx' = t
  /\ Goto(t, "test")
  /\ UNCHANGED <<settings, call, line, during>>

(* Mutant of Shown: only what is above the level is printed. *)
ShownAbove(t) == ToConsole(call[t].target) /\ call[t].level > console_lvl

Shown(t) == ToConsole(call[t].target) /\ call[t].level >= console_lvl

Test(t) ==
  /\ pc[t] = "test"
  /\ Goto(t, IF Shown(t) THEN "prefix" ELSE "unlock")
  /\ UNCHANGED <<settings, mtx, call, line, during>>

(* One printf. *)
Piece(t, label, next) ==
  /\ pc[t] = label
  /\ line' = Append(line, <<t, label>>)
  /\ Goto(t, next)
  /\ UNCHANGED <<settings, mtx, call>>

Prefix(t) == Piece(t, "prefix", "text") /\ UNCHANGED during
Text(t)   == Piece(t, "text", "end") /\ UNCHANGED during

(* The third piece ends with the end of the line. *)
EndLine(t) ==
  /\ pc[t] = "end"
  /\ line' = << >>
  /\ during' = [during EXCEPT ![t].printed = TRUE]
  /\ Goto(t, "unlock")
  /\ UNCHANGED <<settings, mtx, call>>

(* Mutant of Unlock: a message that is not shown returns with the mutex. *)
UnlockIfShown(t) ==
  /\ pc[t] = "unlock"
  /\ mtx' = IF during[t].printed THEN Nobody ELSE mtx
  /\ Goto(t, "idle")
  /\ call' = [call EXCEPT ![t] = NoCall]
  /\ during' = [during EXCEPT ![t] = Unseen]
  /\ UNCHANGED <<settings, line>>

(* isFile is always false: the branch of the file target is never taken    *)
(* and file_lvl is never read.                                             *)
Unlock(t) ==
  /\ pc[t] = "unlock"
  /\ mtx' = Nobody
  /\ Goto(t, "idle")
  /\ call' = [call EXCEPT ![t] = NoCall]
  /\ during' = [during EXCEPT ![t] = Unseen]
  /\ UNCHANGED <<settings, line>>

vLog(t) ==
  Lock(t) \/ Test(t) \/ Prefix(t) \/ Text(t) \/ EndLine(t) \/ Unlock(t)

-----------------------------------------------------------------------------
(* Setting. *)

(* The level of the console becomes level, in the middle of whatever the   *)
(* other threads do.                                                       *)
WriteConsoleLevel(level) ==
  /\ console_lvl' = level
  /\ during' = [u \in Threads |->
       IF during[u] = Unseen THEN during[u]
       ELSE [during[u] EXCEPT !.levels = @ \cup {level}]]

SetConsoleLevel(t, level) ==
  /\ t \in Setters /\ pc[t] = "idle"
  /\ WriteConsoleLevel(level)
  /\ UNCHANGED <<file_lvl, trg, mtx, pc, call, line>>

SetFileLevel(t, level) ==
  /\ t \in Setters /\ pc[t] = "idle"
  /\ file_lvl' = level
  /\ UNCHANGED <<console_lvl, trg, mtx, pc, call, line, during>>

SetTarget(t, target) ==
  /\ t \in Setters /\ pc[t] = "idle"
  /\ trg' = target
  /\ UNCHANGED <<console_lvl, file_lvl, mtx, pc, call, line, during>>

(* SetLevel: one of its two writes, then the other. *)
SetLevel(t, level) ==
  /\ t \in Setters /\ pc[t] = "idle"
  /\ call' = [call EXCEPT ![t].level = level]
  /\ \/ /\ WriteConsoleLevel(level)
        /\ Goto(t, "set file")
        /\ UNCHANGED file_lvl
     \/ /\ file_lvl' = level
        /\ Goto(t, "set console")
        /\ UNCHANGED <<console_lvl, during>>
  /\ UNCHANGED <<trg, mtx, line>>

SetLevelEnd(t) ==
  /\ \/ pc[t] = "set file" /\ file_lvl' = call[t].level
          /\ UNCHANGED <<console_lvl, during>>
     \/ pc[t] = "set console" /\ WriteConsoleLevel(call[t].level)
          /\ UNCHANGED file_lvl
  /\ Goto(t, "idle")
  /\ call' = [call EXCEPT ![t] = NoCall]
  /\ UNCHANGED <<trg, mtx, line>>

-----------------------------------------------------------------------------
Init ==
  /\ console_lvl = Info /\ file_lvl = Info /\ trg = Console
  /\ mtx = Nobody
  /\ pc = [t \in Threads |-> "idle"]
  /\ call = [t \in Threads |-> NoCall]
  /\ line = << >>
  /\ during = [t \in Threads |-> Unseen]

Next ==
  \E t \in Threads :
    \/ vLog(t) \/ SetLevelEnd(t)
    \/ \E level \in Levels :
         \/ Call(t, level)
         \/ SetLevel(t, level) \/ SetConsoleLevel(t, level)
         \/ SetFileLevel(t, level)
    \/ \E target \in Targets : SetTarget(t, target)

(* A thread inside a call goes on, and gets a mutex that is free again and *)
(* again.  Nobody has to call.                                             *)
Spec ==
  /\ Init /\ [][Next]_vars
  /\ \A t \in Threads :
       /\ WF_vars(vLog(t)) /\ SF_vars(Lock(t))
       /\ WF_vars(SetLevelEnd(t))

-----------------------------------------------------------------------------
(* Lines are whole: the pieces since the last end of line are those of one *)
(* thread, which holds the mutex, in their order, whoever else logs.       *)
WholeLines ==
  line # << >> =>
    /\ mtx = line[1][1]
    /\ line \in {<<<<mtx, "prefix">>>>, <<<<mtx, "prefix">>, <<mtx, "text">>>>}

(* Without the mutex the setters still cannot make a call print, or not    *)
(* print, in a way that no setting in force during the call asks for.      *)
FilterOK ==
  [][\A t \in Threads :
       pc[t] = "unlock" /\ pc'[t] = "idle" =>
         LET asked == {ToConsole(during[t].target) /\ call[t].level >= l :
                         l \in during[t].levels}
         IN during[t].printed \in asked]_vars

(* Every call returns. *)
LogReturns == \A t \in Threads : pc[t] # "idle" ~> pc[t] = "idle"

=============================================================================
