----------------------------- MODULE TimerProofs -----------------------------
(***************************************************************************)
(* Proofs about Timer for any number of threads, of calls of set() and of  *)
(* callbacks inside callbacks.                                             *)
(***************************************************************************)
EXTENDS Timer, SequenceTheorems, TLAPS

(* Thread t is in a set() that brings callback i and has not programmed the  *)
(* timerfd yet.                                                              *)
Setting(t, i) == call[t].at \in {"set", "installed"} /\ call[t].n = i

(* Thread t is in a cancel() that may still call callback i. *)
Holds(t, i) == call[t].at \in {"copied", "swapped"} /\ call[t].id = i

(* A set() that was not begun has left no trace. *)
OnlySetIsUsed ==
  \A i \in Ids : i > sets =>
    /\ fires[i] = 0 /\ cancels[i] = 0
    /\ handler # i /\ setting # i
    /\ i \notin astray /\ i \notin shared
    /\ \A t \in Threads : call[t].id # i /\ call[t].n # i

(* What is installed is what was brought, unless it was thrown away. *)
BringsItsOwn ==
  \A t \in Threads : call[t].at = "set" /\ call[t].id \in Ids => call[t].n = call[t].id

(* A callback is installed once, programmed once, and read at the earliest   *)
(* when it was programmed.                                                   *)
ProgrammedOnce ==
  \A i \in Ids : \A t \in Threads : Setting(t, i) =>
    /\ setting # i
    /\ \A u \in Threads : (Setting(u, i) => u = t) /\ ~(call[u].at = "read" /\ call[u].n = i)
    /\ call[t].m = mode[i]
InstalledOnce ==
  \A i \in Ids : \A t \in Threads : call[t].at = "set" /\ call[t].id = i =>
    /\ handler # i
    /\ fires[i] = 0 /\ cancels[i] = 0
    /\ \A u \in Threads : ~Holds(u, i)

(* The timerfd runs as it was asked to; a single-shot timer that has expired *)
(* does not run, and while its expiration is in process() it does neither.   *)
RunsAsAsked ==
  \A i \in Ids : mode[i] = "single" =>
    /\ setting = i => armed # "repeated" /\ (expired => armed = "off")
    /\ \A t \in Threads : call[t].at = "read" /\ call[t].n = i /\ setting = i =>
         armed = "off" /\ ~expired

(* A single-shot callback that was called with fired=true for its own        *)
(* setting has used it up.                                                   *)
FiredIsOver ==
  \A i \in Ids : mode[i] = "single" /\ fires[i] > 0 /\ i \notin astray =>
    /\ fires[i] = 1 /\ cancels[i] = 0
    /\ setting = i => armed = "off" /\ ~expired
    /\ \A t \in Threads : ~Setting(t, i) /\ ~(call[t].at = "read" /\ call[t].n = i)

(* A callback that a cancel() has taken out is not installed again, and only *)
(* an overlapping cancel() has it as well.                                   *)
TakenOut ==
  \A i \in Ids :
    /\ \A t \in Threads : call[t].at = "swapped" /\ call[t].id = i => handler # i
    /\ \A t, u \in Threads : Holds(t, i) /\ Holds(u, i) => t = u \/ i \in shared
    /\ cancels[i] > 0 => handler # i
    /\ cancels[i] > 0 /\ i \notin shared => cancels[i] = 1 /\ \A t \in Threads : ~Holds(t, i)

(* Nothing comes before its time: only process() of the loop reads. *)
OnlyLoopReads == \A t \in Threads : call[t].at = "read" => t = Loop

(* Without overlaps one thread at most is inside, the timerfd runs for the   *)
(* callback that is installed or taken out, and the callback that process()  *)
(* is about to call is the one whose expiration it has read.                 *)
AloneInside ==
  ~overlap =>
    /\ astray = {} /\ shared = {}
    /\ \A t, u \in Threads : call[t].at # "idle" /\ call[u].at # "idle" => t = u
    /\ handler \in Ids /\ (armed # "off" \/ expired)
         => setting = handler \/ \E t \in Threads : call[t].at = "installed"
    /\ \A t \in Threads : call[t].at \in {"installed", "read"} /\ handler \in Ids
         => call[t].n = handler
    /\ \A t \in Threads :
         /\ call[t].at \in {"copied", "swapped"} /\ call[t].id \in Ids /\ armed # "off"
              => setting = call[t].id
         /\ call[t].at = "copied" => call[t].id = handler

ReportInv ==
  /\ OnlySetIsUsed /\ BringsItsOwn
  /\ ProgrammedOnce /\ InstalledOnce
  /\ RunsAsAsked /\ FiredIsOver
  /\ TakenOut /\ OnlyLoopReads
  /\ AloneInside
TimerInv == TypeOK /\ ReportInv

(* The variables that need no argument of their own for their types. *)
RestOK ==
  /\ handler \in Callbacks
  /\ armed \in Modes \cup {"off"}
  /\ sets \in 0..MaxSets
  /\ setting \in 0..sets
  /\ live \in 0..sets
  /\ lost \in {"no", "undone", "dropped"}
  /\ astray \subseteq Ids
  /\ shared \subseteq Ids

-----------------------------------------------------------------------------
(* The two callbacks that come from no set() are none of those that do. *)
LEMMA NotIds == Nop # Empty /\ Nop \notin Ids /\ Empty \notin Ids /\ Nop # 0 /\ Empty # 0
  BY CallbacksAssumption, BoundsAssumption DEF Ids

(* The flags are Boolean. *)
LEMMA FlagsType ==
  ASSUME TypeOK, [Next]_vars
  PROVE  expired' \in BOOLEAN /\ alive' \in BOOLEAN /\ overlap' \in BOOLEAN
<1> USE BoundsAssumption, NotIds, ThreadsAssumption
<1> USE DEF TypeOK, Ids, Modes, Threads, Callbacks, kernel, calls, ghosts
<1>1. CASE Elapse
  BY <1>1 DEF Elapse
<1>2. ASSUME NEW t \in Threads, NEW m \in Modes, NEW h \in Ids \cup {Empty}, SetLook(t, m, h)
      PROVE  expired' \in BOOLEAN /\ alive' \in BOOLEAN /\ overlap' \in BOOLEAN
  BY <1>2 DEF SetLook, Begin
<1>3. ASSUME NEW t \in Threads, CancelCopy(t)
      PROVE  expired' \in BOOLEAN /\ alive' \in BOOLEAN /\ overlap' \in BOOLEAN
  BY <1>3 DEF CancelCopy, Begin
<1>4. ASSUME NEW t \in Threads, SetInstall(t)
      PROVE  expired' \in BOOLEAN /\ alive' \in BOOLEAN /\ overlap' \in BOOLEAN
  BY <1>4 DEF SetInstall, At
<1>5. ASSUME NEW t \in Threads, SetTime(t)
      PROVE  expired' \in BOOLEAN /\ alive' \in BOOLEAN /\ overlap' \in BOOLEAN
  BY <1>5 DEF SetTime, At, Leave, Idle, Settime
<1>6. ASSUME NEW t \in Threads, CancelSwap(t)
      PROVE  expired' \in BOOLEAN /\ alive' \in BOOLEAN /\ overlap' \in BOOLEAN
  BY <1>6 DEF CancelSwap, At, GoTo
<1>7. ASSUME NEW t \in Threads, CancelRunning(t)
      PROVE  expired' \in BOOLEAN /\ alive' \in BOOLEAN /\ overlap' \in BOOLEAN
  BY <1>7 DEF CancelRunning, At, Leave, Idle, Callback
<1>8. ASSUME NEW t \in Threads, CancelSilent(t)
      PROVE  expired' \in BOOLEAN /\ alive' \in BOOLEAN /\ overlap' \in BOOLEAN
  BY <1>8 DEF CancelSilent, At, Idle
<1>9. ASSUME NEW t \in Threads, CancelStop(t)
      PROVE  expired' \in BOOLEAN /\ alive' \in BOOLEAN /\ overlap' \in BOOLEAN
  BY <1>9 DEF CancelStop, At, Leave, Idle, Stop, Settime
<1>10. ASSUME NEW t \in Threads, CancelReturn(t)
      PROVE  expired' \in BOOLEAN /\ alive' \in BOOLEAN /\ overlap' \in BOOLEAN
  BY <1>10 DEF CancelReturn, At, Stop, Settime
<1>11. ASSUME NEW t \in Threads, CancelThrow(t)
      PROVE  expired' \in BOOLEAN /\ alive' \in BOOLEAN /\ overlap' \in BOOLEAN
  BY <1>11 DEF CancelThrow
<1>12. CASE ProcessRead
  BY <1>12 DEF ProcessRead, Begin
<1>13. CASE ProcessCall
  BY <1>13 DEF ProcessCall, At, Leave, Idle, Callback
<1>14. CASE ProcessNothing
  BY <1>14 DEF ProcessNothing, At, Leave, Idle
<1>15. CASE FireReturn
  BY <1>15 DEF FireReturn
<1>16. CASE Destroy
  BY <1>16 DEF Destroy, Settime
<1>17. CASE UNCHANGED vars
  BY <1>17 DEF vars, calls
<1> HIDE DEF TypeOK
<1> QED
  BY <1>1, <1>2, <1>3, <1>4, <1>5, <1>6, <1>7, <1>8, <1>9, <1>10, <1>11, <1>12, <1>13, <1>14, <1>15, <1>16, <1>17
  DEF Next, SetSteps, CancelSteps, ProcessSteps, Returns

(* The callbacks that run when the innermost one has returned. *)
LEMMA PopType ==
  ASSUME TypeOK, NEW t \in Threads, stack[t] # <<>>
  PROVE  SubSeq(stack[t], 1, Len(stack[t]) - 1) \in Seq({"fire", "cancel"})
<1> DEFINE Whys == {"fire", "cancel"}
<1>1. stack[t] \in Seq(Whys)
  BY DEF TypeOK
<1> HIDE DEF Whys
<1>2. Len(stack[t]) \in Nat \ {0}
  BY <1>1, EmptySeq
<1>3. \A i \in 1..Len(stack[t]) - 1 : stack[t][i] \in Whys
  BY <1>1, <1>2, ElementOfSeq
<1>4. PICK n \in Int : n = Len(stack[t]) - 1
  BY <1>2
<1>5. SubSeq(stack[t], 1, n) \in Seq(Whys)
  BY <1>3, <1>4, SubSeqProperties
<1> QED BY <1>4, <1>5 DEF Whys

(* What runs are callbacks called by process() or cancel(). *)
LEMMA StackType ==
  ASSUME TypeOK, [Next]_vars
  PROVE  stack' \in [Threads -> Seq({"fire", "cancel"})]
<1> USE BoundsAssumption, NotIds, ThreadsAssumption
<1> USE DEF TypeOK, Ids, Modes, Threads, Callbacks, kernel, calls, ghosts
<1>1. CASE Elapse
  BY <1>1 DEF Elapse
<1>2. ASSUME NEW t \in Threads, NEW m \in Modes, NEW h \in Ids \cup {Empty}, SetLook(t, m, h)
      PROVE  stack' \in [Threads -> Seq({"fire", "cancel"})]
  BY <1>2 DEF SetLook, Begin
<1>3. ASSUME NEW t \in Threads, CancelCopy(t)
      PROVE  stack' \in [Threads -> Seq({"fire", "cancel"})]
  BY <1>3 DEF CancelCopy, Begin
<1>4. ASSUME NEW t \in Threads, SetInstall(t)
      PROVE  stack' \in [Threads -> Seq({"fire", "cancel"})]
  BY <1>4 DEF SetInstall, At
<1>5. ASSUME NEW t \in Threads, SetTime(t)
      PROVE  stack' \in [Threads -> Seq({"fire", "cancel"})]
  BY <1>5 DEF SetTime, At, Leave, Idle, Settime
<1>6. ASSUME NEW t \in Threads, CancelSwap(t)
      PROVE  stack' \in [Threads -> Seq({"fire", "cancel"})]
  BY <1>6 DEF CancelSwap, At, GoTo
<1>7. ASSUME NEW t \in Threads, CancelRunning(t)
      PROVE  stack' \in [Threads -> Seq({"fire", "cancel"})]
  BY <1>7 DEF CancelRunning, Callback
<1>8. ASSUME NEW t \in Threads, CancelSilent(t)
      PROVE  stack' \in [Threads -> Seq({"fire", "cancel"})]
  BY <1>8 DEF CancelSilent, At, Idle
<1>9. ASSUME NEW t \in Threads, CancelStop(t)
      PROVE  stack' \in [Threads -> Seq({"fire", "cancel"})]
  BY <1>9 DEF CancelStop, At, Leave, Idle, Stop, Settime
<1>10. ASSUME NEW t \in Threads, CancelReturn(t)
      PROVE  stack' \in [Threads -> Seq({"fire", "cancel"})]
  BY <1>10, PopType DEF CancelReturn, Pop, In
<1>11. ASSUME NEW t \in Threads, CancelThrow(t)
      PROVE  stack' \in [Threads -> Seq({"fire", "cancel"})]
  BY <1>11, PopType DEF CancelThrow, Pop, In
<1>12. CASE ProcessRead
  BY <1>12 DEF ProcessRead, Begin
<1>13. CASE ProcessCall
  BY <1>13 DEF ProcessCall, Callback
<1>14. CASE ProcessNothing
  BY <1>14 DEF ProcessNothing, At, Leave, Idle
<1>15. CASE FireReturn
  BY <1>15, PopType DEF FireReturn, Pop, In
<1>16. CASE Destroy
  BY <1>16 DEF Destroy, Settime
<1>17. CASE UNCHANGED vars
  BY <1>17 DEF vars, calls
<1> HIDE DEF TypeOK
<1> QED
  BY <1>1, <1>2, <1>3, <1>4, <1>5, <1>6, <1>7, <1>8, <1>9, <1>10, <1>11, <1>12, <1>13, <1>14, <1>15, <1>16, <1>17
  DEF Next, SetSteps, CancelSteps, ProcessSteps, Returns

(* A record of call[t] with another place, and with no callback any more. *)
LEMMA PlaceType ==
  ASSUME NEW N, NEW f \in [at : Places, id : Callbacks, m : Modes, n : N], NEW where \in Places
  PROVE  /\ [f EXCEPT !.at = where] \in [at : Places, id : Callbacks, m : Modes, n : N]
         /\ [f EXCEPT !.at = where, !.id = Nop] \in [at : Places, id : Callbacks, m : Modes, n : N]
<1>1. Nop \in Callbacks
  BY DEF Callbacks
<1> QED BY <1>1

(* Every thread is in one of the places of the three functions, or in none. *)
LEMMA CallType ==
  ASSUME TypeOK, [Next]_vars
  PROVE  call' \in [Threads -> [at : Places, id : Callbacks, m : Modes, n : 0..sets']]
<1> USE BoundsAssumption, NotIds, ThreadsAssumption
<1> USE DEF TypeOK, Ids, Modes, Threads, Callbacks, kernel, calls, ghosts, Places
<1>1. CASE Elapse
  BY <1>1 DEF Elapse
<1>2. ASSUME NEW t \in Threads, NEW m \in Modes, NEW h \in Ids \cup {Empty}, SetLook(t, m, h)
      PROVE  call' \in [Threads -> [at : Places, id : Callbacks, m : Modes, n : 0..sets']]
  BY <1>2 DEF SetLook, Begin
<1>3. ASSUME NEW t \in Threads, CancelCopy(t)
      PROVE  call' \in [Threads -> [at : Places, id : Callbacks, m : Modes, n : 0..sets']]
  BY <1>3 DEF CancelCopy, Begin
<1>4. ASSUME NEW t \in Threads, SetInstall(t)
      PROVE  call' \in [Threads -> [at : Places, id : Callbacks, m : Modes, n : 0..sets']]
  <2>1. [call[t] EXCEPT !.at = "installed", !.id = Nop] \in [at : Places, id : Callbacks, m : Modes, n : 0..sets]
    <3>1. call[t] \in [at : Places, id : Callbacks, m : Modes, n : 0..sets] /\ "installed" \in Places
      OBVIOUS
    <3> HIDE DEF Places, Callbacks, Modes
    <3> QED BY <3>1, PlaceType, Zenon
  <2>2. call' = [call EXCEPT ![t] = [call[t] EXCEPT !.at = "installed", !.id = Nop]] /\ sets' = sets
    BY <1>4 DEF SetInstall
  <2> QED BY <2>1, <2>2
<1>5. ASSUME NEW t \in Threads, SetTime(t)
      PROVE  call' \in [Threads -> [at : Places, id : Callbacks, m : Modes, n : 0..sets']]
  BY <1>5 DEF SetTime, At, Leave, Idle, Settime
<1>6. ASSUME NEW t \in Threads, CancelSwap(t)
      PROVE  call' \in [Threads -> [at : Places, id : Callbacks, m : Modes, n : 0..sets']]
  <2>1. [call[t] EXCEPT !.at = "swapped"] \in [at : Places, id : Callbacks, m : Modes, n : 0..sets]
    <3>1. call[t] \in [at : Places, id : Callbacks, m : Modes, n : 0..sets] /\ "swapped" \in Places
      OBVIOUS
    <3> HIDE DEF Places, Callbacks, Modes
    <3> QED BY <3>1, PlaceType, Zenon
  <2>2. call' = [call EXCEPT ![t] = [call[t] EXCEPT !.at = "swapped"]] /\ sets' = sets
    BY <1>6 DEF CancelSwap, GoTo
  <2> QED BY <2>1, <2>2
<1>7. ASSUME NEW t \in Threads, CancelRunning(t)
      PROVE  call' \in [Threads -> [at : Places, id : Callbacks, m : Modes, n : 0..sets']]
  BY <1>7 DEF CancelRunning, At, Leave, Idle, Callback
<1>8. ASSUME NEW t \in Threads, CancelSilent(t)
      PROVE  call' \in [Threads -> [at : Places, id : Callbacks, m : Modes, n : 0..sets']]
  BY <1>8 DEF CancelSilent, At, Idle
<1>9. ASSUME NEW t \in Threads, CancelStop(t)
      PROVE  call' \in [Threads -> [at : Places, id : Callbacks, m : Modes, n : 0..sets']]
  BY <1>9 DEF CancelStop, At, Leave, Idle, Stop, Settime
<1>10. ASSUME NEW t \in Threads, CancelReturn(t)
      PROVE  call' \in [Threads -> [at : Places, id : Callbacks, m : Modes, n : 0..sets']]
  BY <1>10 DEF CancelReturn, At, Stop, Settime
<1>11. ASSUME NEW t \in Threads, CancelThrow(t)
      PROVE  call' \in [Threads -> [at : Places, id : Callbacks, m : Modes, n : 0..sets']]
  BY <1>11 DEF CancelThrow
<1>12. CASE ProcessRead
  BY <1>12 DEF ProcessRead, Begin
<1>13. CASE ProcessCall
  BY <1>13 DEF ProcessCall, At, Leave, Idle, Callback
<1>14. CASE ProcessNothing
  BY <1>14 DEF ProcessNothing, At, Leave, Idle
<1>15. CASE FireReturn
  BY <1>15 DEF FireReturn
<1>16. CASE Destroy
  BY <1>16 DEF Destroy, Settime
<1>17. CASE UNCHANGED vars
  BY <1>17 DEF vars, calls
<1> HIDE DEF TypeOK
<1> QED
  BY <1>1, <1>2, <1>3, <1>4, <1>5, <1>6, <1>7, <1>8, <1>9, <1>10, <1>11, <1>12, <1>13, <1>14, <1>15, <1>16, <1>17
  DEF Next, SetSteps, CancelSteps, ProcessSteps, Returns

(* What was asked for and what was called is counted per set(). *)
LEMMA FunctionsType ==
  ASSUME TypeOK, [Next]_vars
  PROVE  mode' \in [Ids -> Modes] /\ fires' \in [Ids -> 0..2] /\ cancels' \in [Ids -> Nat]
<1> USE BoundsAssumption, NotIds, ThreadsAssumption
<1> USE DEF TypeOK, Ids, Modes, Threads, Callbacks, kernel, calls, ghosts
<1>1. CASE Elapse
  BY <1>1 DEF Elapse
<1>2. ASSUME NEW t \in Threads, NEW m \in Modes, NEW h \in Ids \cup {Empty}, SetLook(t, m, h)
      PROVE  mode' \in [Ids -> Modes] /\ fires' \in [Ids -> 0..2] /\ cancels' \in [Ids -> Nat]
  BY <1>2 DEF SetLook, Begin
<1>3. ASSUME NEW t \in Threads, CancelCopy(t)
      PROVE  mode' \in [Ids -> Modes] /\ fires' \in [Ids -> 0..2] /\ cancels' \in [Ids -> Nat]
  BY <1>3 DEF CancelCopy, Begin
<1>4. ASSUME NEW t \in Threads, SetInstall(t)
      PROVE  mode' \in [Ids -> Modes] /\ fires' \in [Ids -> 0..2] /\ cancels' \in [Ids -> Nat]
  BY <1>4 DEF SetInstall, At
<1>5. ASSUME NEW t \in Threads, SetTime(t)
      PROVE  mode' \in [Ids -> Modes] /\ fires' \in [Ids -> 0..2] /\ cancels' \in [Ids -> Nat]
  BY <1>5 DEF SetTime, At, Leave, Idle, Settime
<1>6. ASSUME NEW t \in Threads, CancelSwap(t)
      PROVE  mode' \in [Ids -> Modes] /\ fires' \in [Ids -> 0..2] /\ cancels' \in [Ids -> Nat]
  BY <1>6 DEF CancelSwap, At, GoTo
<1>7. ASSUME NEW t \in Threads, CancelRunning(t)
      PROVE  mode' \in [Ids -> Modes] /\ fires' \in [Ids -> 0..2] /\ cancels' \in [Ids -> Nat]
  BY <1>7, SMTT(30) DEF CancelRunning, At, Leave, Idle, Callback
<1>8. ASSUME NEW t \in Threads, CancelSilent(t)
      PROVE  mode' \in [Ids -> Modes] /\ fires' \in [Ids -> 0..2] /\ cancels' \in [Ids -> Nat]
  BY <1>8 DEF CancelSilent, At, Idle
<1>9. ASSUME NEW t \in Threads, CancelStop(t)
      PROVE  mode' \in [Ids -> Modes] /\ fires' \in [Ids -> 0..2] /\ cancels' \in [Ids -> Nat]
  BY <1>9 DEF CancelStop, At, Leave, Idle, Stop, Settime
<1>10. ASSUME NEW t \in Threads, CancelReturn(t)
      PROVE  mode' \in [Ids -> Modes] /\ fires' \in [Ids -> 0..2] /\ cancels' \in [Ids -> Nat]
  BY <1>10 DEF CancelReturn, At, Stop, Settime
<1>11. ASSUME NEW t \in Threads, CancelThrow(t)
      PROVE  mode' \in [Ids -> Modes] /\ fires' \in [Ids -> 0..2] /\ cancels' \in [Ids -> Nat]
  BY <1>11 DEF CancelThrow
<1>12. CASE ProcessRead
  BY <1>12 DEF ProcessRead, Begin
<1>13. CASE ProcessCall
  <2>1. fires[handler] \in 0..2 /\ handler \in Ids
    BY <1>13 DEF ProcessCall
  <2>2. (IF fires[handler] < 2 THEN fires[handler] + 1 ELSE 2) \in 0..2
    BY <2>1
  <2> QED BY <1>13, <2>2 DEF ProcessCall
<1>14. CASE ProcessNothing
  BY <1>14 DEF ProcessNothing, At, Leave, Idle
<1>15. CASE FireReturn
  BY <1>15 DEF FireReturn
<1>16. CASE Destroy
  BY <1>16 DEF Destroy, Settime
<1>17. CASE UNCHANGED vars
  BY <1>17 DEF vars, calls
<1> HIDE DEF TypeOK
<1> QED
  BY <1>1, <1>2, <1>3, <1>4, <1>5, <1>6, <1>7, <1>8, <1>9, <1>10, <1>11, <1>12, <1>13, <1>14, <1>15, <1>16, <1>17
  DEF Next, SetSteps, CancelSteps, ProcessSteps, Returns

(* The other variables keep their types. *)
LEMMA RestType ==
  ASSUME TypeOK, [Next]_vars
  PROVE  RestOK'
<1> USE BoundsAssumption, NotIds, ThreadsAssumption
<1> USE DEF TypeOK, Ids, Modes, Threads, Callbacks, kernel, calls, ghosts, RestOK
<1>1. CASE Elapse
  BY <1>1 DEF Elapse
<1>2. ASSUME NEW t \in Threads, NEW m \in Modes, NEW h \in Ids \cup {Empty}, SetLook(t, m, h)
      PROVE  RestOK'
  BY <1>2 DEF SetLook, Begin
<1>3. ASSUME NEW t \in Threads, CancelCopy(t)
      PROVE  RestOK'
  BY <1>3 DEF CancelCopy, Begin
<1>4. ASSUME NEW t \in Threads, SetInstall(t)
      PROVE  RestOK'
  BY <1>4 DEF SetInstall, At
<1>5. ASSUME NEW t \in Threads, SetTime(t)
      PROVE  RestOK'
  BY <1>5 DEF SetTime, At, Leave, Idle, Settime
<1>6. ASSUME NEW t \in Threads, CancelSwap(t)
      PROVE  RestOK'
  BY <1>6 DEF CancelSwap, At, GoTo
<1>7. ASSUME NEW t \in Threads, CancelRunning(t)
      PROVE  RestOK'
  BY <1>7 DEF CancelRunning, At, Leave, Idle, Callback
<1>8. ASSUME NEW t \in Threads, CancelSilent(t)
      PROVE  RestOK'
  BY <1>8 DEF CancelSilent, At, Idle
<1>9. ASSUME NEW t \in Threads, CancelStop(t)
      PROVE  RestOK'
  BY <1>9 DEF CancelStop, At, Leave, Idle, Stop, Settime
<1>10. ASSUME NEW t \in Threads, CancelReturn(t)
      PROVE  RestOK'
  BY <1>10 DEF CancelReturn, At, Stop, Settime
<1>11. ASSUME NEW t \in Threads, CancelThrow(t)
      PROVE  RestOK'
  BY <1>11 DEF CancelThrow
<1>12. CASE ProcessRead
  BY <1>12 DEF ProcessRead, Begin
<1>13. CASE ProcessCall
  BY <1>13 DEF ProcessCall, At, Leave, Idle, Callback
<1>14. CASE ProcessNothing
  BY <1>14 DEF ProcessNothing, At, Leave, Idle
<1>15. CASE FireReturn
  BY <1>15 DEF FireReturn
<1>16. CASE Destroy
  BY <1>16, SMTT(30) DEF Destroy, Settime
<1>17. CASE UNCHANGED vars
  BY <1>17 DEF vars, calls
<1> HIDE DEF TypeOK, RestOK
<1> QED
  BY <1>1, <1>2, <1>3, <1>4, <1>5, <1>6, <1>7, <1>8, <1>9, <1>10, <1>11, <1>12, <1>13, <1>14, <1>15, <1>16, <1>17
  DEF Next, SetSteps, CancelSteps, ProcessSteps, Returns

(* Every variable keeps its type. *)
LEMMA TypeStep ==
  ASSUME TypeOK, [Next]_vars
  PROVE  TypeOK'
  BY FlagsType, StackType, CallType, FunctionsType, RestType, Zenon DEF TypeOK, RestOK

(* Each set() brings a number that nobody has seen. *)
LEMMA OnlySetIsUsedStep ==
  ASSUME TimerInv, [Next]_vars
  PROVE  OnlySetIsUsed'
<1> USE BoundsAssumption, NotIds, ThreadsAssumption
<1> USE DEF TimerInv, ReportInv, TypeOK, Ids, Modes, Threads, Callbacks, kernel, calls, ghosts, OnlySetIsUsed
<1>1. CASE Elapse
  BY <1>1 DEF Elapse
<1>2. ASSUME NEW t \in Threads, NEW m \in Modes, NEW h \in Ids \cup {Empty}, SetLook(t, m, h)
      PROVE  OnlySetIsUsed'
  BY <1>2 DEF SetLook, Begin
<1>3. ASSUME NEW t \in Threads, CancelCopy(t)
      PROVE  OnlySetIsUsed'
  BY <1>3, SMTT(30) DEF CancelCopy, Begin
<1>4. ASSUME NEW t \in Threads, SetInstall(t)
      PROVE  OnlySetIsUsed'
  BY <1>4 DEF SetInstall, At
<1>5. ASSUME NEW t \in Threads, SetTime(t)
      PROVE  OnlySetIsUsed'
  BY <1>5 DEF SetTime, At, Leave, Idle, Settime
<1>6. ASSUME NEW t \in Threads, CancelSwap(t)
      PROVE  OnlySetIsUsed'
  BY <1>6 DEF CancelSwap, At, GoTo
<1>7. ASSUME NEW t \in Threads, CancelRunning(t)
      PROVE  OnlySetIsUsed'
  BY <1>7, SMTT(60) DEF CancelRunning, At, Leave, Idle, Callback
<1>8. ASSUME NEW t \in Threads, CancelSilent(t)
      PROVE  OnlySetIsUsed'
  BY <1>8 DEF CancelSilent, At, Idle
<1>9. ASSUME NEW t \in Threads, CancelStop(t)
      PROVE  OnlySetIsUsed'
  BY <1>9 DEF CancelStop, At, Leave, Idle, Stop, Settime
<1>10. ASSUME NEW t \in Threads, CancelReturn(t)
      PROVE  OnlySetIsUsed'
  BY <1>10 DEF CancelReturn, At, Stop, Settime
<1>11. ASSUME NEW t \in Threads, CancelThrow(t)
      PROVE  OnlySetIsUsed'
  BY <1>11 DEF CancelThrow
<1>12. CASE ProcessRead
  BY <1>12 DEF ProcessRead, Begin
<1>13. CASE ProcessCall
  BY <1>13, SMTT(30) DEF ProcessCall, At, Leave, Idle, Callback
<1>14. CASE ProcessNothing
  BY <1>14 DEF ProcessNothing, At, Leave, Idle
<1>15. CASE FireReturn
  BY <1>15 DEF FireReturn
<1>16. CASE Destroy
  BY <1>16, SMTT(60) DEF Destroy, Settime
<1>17. CASE UNCHANGED vars
  BY <1>17 DEF vars, calls
<1> HIDE DEF TimerInv, ReportInv, TypeOK, OnlySetIsUsed
<1> QED
  BY <1>1, <1>2, <1>3, <1>4, <1>5, <1>6, <1>7, <1>8, <1>9, <1>10, <1>11, <1>12, <1>13, <1>14, <1>15, <1>16, <1>17
  DEF Next, SetSteps, CancelSteps, ProcessSteps, Returns

(* set() decides once what it installs. *)
LEMMA BringsItsOwnStep ==
  ASSUME TimerInv, [Next]_vars
  PROVE  BringsItsOwn'
<1> USE BoundsAssumption, NotIds, ThreadsAssumption
<1> USE DEF TimerInv, ReportInv, TypeOK, Ids, Modes, Threads, Callbacks, kernel, calls, ghosts, BringsItsOwn
<1>1. CASE Elapse
  BY <1>1 DEF Elapse
<1>2. ASSUME NEW t \in Threads, NEW m \in Modes, NEW h \in Ids \cup {Empty}, SetLook(t, m, h)
      PROVE  BringsItsOwn'
  BY <1>2 DEF SetLook, Begin
<1>3. ASSUME NEW t \in Threads, CancelCopy(t)
      PROVE  BringsItsOwn'
  BY <1>3 DEF CancelCopy, Begin
<1>4. ASSUME NEW t \in Threads, SetInstall(t)
      PROVE  BringsItsOwn'
  BY <1>4 DEF SetInstall, At
<1>5. ASSUME NEW t \in Threads, SetTime(t)
      PROVE  BringsItsOwn'
  BY <1>5 DEF SetTime, At, Leave, Idle, Settime
<1>6. ASSUME NEW t \in Threads, CancelSwap(t)
      PROVE  BringsItsOwn'
  BY <1>6 DEF CancelSwap, At, GoTo
<1>7. ASSUME NEW t \in Threads, CancelRunning(t)
      PROVE  BringsItsOwn'
  BY <1>7 DEF CancelRunning, At, Leave, Idle, Callback
<1>8. ASSUME NEW t \in Threads, CancelSilent(t)
      PROVE  BringsItsOwn'
  BY <1>8 DEF CancelSilent, At, Idle
<1>9. ASSUME NEW t \in Threads, CancelStop(t)
      PROVE  BringsItsOwn'
  BY <1>9 DEF CancelStop, At, Leave, Idle, Stop, Settime
<1>10. ASSUME NEW t \in Threads, CancelReturn(t)
      PROVE  BringsItsOwn'
  BY <1>10 DEF CancelReturn, At, Stop, Settime
<1>11. ASSUME NEW t \in Threads, CancelThrow(t)
      PROVE  BringsItsOwn'
  BY <1>11 DEF CancelThrow
<1>12. CASE ProcessRead
  BY <1>12 DEF ProcessRead, Begin
<1>13. CASE ProcessCall
  BY <1>13 DEF ProcessCall, At, Leave, Idle, Callback
<1>14. CASE ProcessNothing
  BY <1>14 DEF ProcessNothing, At, Leave, Idle
<1>15. CASE FireReturn
  BY <1>15 DEF FireReturn
<1>16. CASE Destroy
  BY <1>16 DEF Destroy, Settime
<1>17. CASE UNCHANGED vars
  BY <1>17 DEF vars, calls
<1> HIDE DEF TimerInv, ReportInv, TypeOK, BringsItsOwn
<1> QED
  BY <1>1, <1>2, <1>3, <1>4, <1>5, <1>6, <1>7, <1>8, <1>9, <1>10, <1>11, <1>12, <1>13, <1>14, <1>15, <1>16, <1>17
  DEF Next, SetSteps, CancelSteps, ProcessSteps, Returns

(* timerfd_settime is the last line of set(): nothing of the set() is in the *)
(* timerfd before, and the set() is over after.                              *)
LEMMA ProgrammedOnceStep ==
  ASSUME TimerInv, [Next]_vars
  PROVE  ProgrammedOnce'
<1> USE BoundsAssumption, NotIds, ThreadsAssumption
<1> USE DEF TimerInv, ReportInv, TypeOK, Ids, Modes, Threads, Callbacks, kernel, calls, ghosts, ProgrammedOnce, Setting, OnlySetIsUsed
<1>1. CASE Elapse
  BY <1>1 DEF Elapse
<1>2. ASSUME NEW t \in Threads, NEW m \in Modes, NEW h \in Ids \cup {Empty}, SetLook(t, m, h)
      PROVE  ProgrammedOnce'
  BY <1>2, SMTT(30) DEF SetLook, Begin
<1>3. ASSUME NEW t \in Threads, CancelCopy(t)
      PROVE  ProgrammedOnce'
  BY <1>3, SMTT(30) DEF CancelCopy, Begin
<1>4. ASSUME NEW t \in Threads, SetInstall(t)
      PROVE  ProgrammedOnce'
  BY <1>4, SMTT(30) DEF SetInstall, At
<1>5. ASSUME NEW t \in Threads, SetTime(t)
      PROVE  ProgrammedOnce'
  BY <1>5 DEF SetTime, At, Leave, Idle, Settime
<1>6. ASSUME NEW t \in Threads, CancelSwap(t)
      PROVE  ProgrammedOnce'
  BY <1>6 DEF CancelSwap, At, GoTo
<1>7. ASSUME NEW t \in Threads, CancelRunning(t)
      PROVE  ProgrammedOnce'
  BY <1>7, SMTT(30) DEF CancelRunning, At, Leave, Idle, Callback
<1>8. ASSUME NEW t \in Threads, CancelSilent(t)
      PROVE  ProgrammedOnce'
  BY <1>8 DEF CancelSilent, At, Idle
<1>9. ASSUME NEW t \in Threads, CancelStop(t)
      PROVE  ProgrammedOnce'
  BY <1>9 DEF CancelStop, At, Leave, Idle, Stop, Settime
<1>10. ASSUME NEW t \in Threads, CancelReturn(t)
      PROVE  ProgrammedOnce'
  BY <1>10 DEF CancelReturn, At, Stop, Settime
<1>11. ASSUME NEW t \in Threads, CancelThrow(t)
      PROVE  ProgrammedOnce'
  BY <1>11 DEF CancelThrow
<1>12. CASE ProcessRead
  BY <1>12, SMTT(90) DEF ProcessRead, Begin
<1>13. CASE ProcessCall
  BY <1>13, SMTT(30) DEF ProcessCall, At, Leave, Idle, Callback
<1>14. CASE ProcessNothing
  BY <1>14, SMTT(60) DEF ProcessNothing, At, Leave, Idle
<1>15. CASE FireReturn
  BY <1>15 DEF FireReturn
<1>16. CASE Destroy
  BY <1>16, SMTT(60) DEF Destroy, Settime
<1>17. CASE UNCHANGED vars
  BY <1>17 DEF vars, calls
<1> HIDE DEF TimerInv, ReportInv, TypeOK, ProgrammedOnce, Setting, OnlySetIsUsed
<1> QED
  BY <1>1, <1>2, <1>3, <1>4, <1>5, <1>6, <1>7, <1>8, <1>9, <1>10, <1>11, <1>12, <1>13, <1>14, <1>15, <1>16, <1>17
  DEF Next, SetSteps, CancelSteps, ProcessSteps, Returns

(* A callback cannot be copied or called before set() has installed it. *)
LEMMA InstalledOnceStep ==
  ASSUME TimerInv, [Next]_vars
  PROVE  InstalledOnce'
<1> USE BoundsAssumption, NotIds, ThreadsAssumption
<1> USE DEF TimerInv, ReportInv, TypeOK, Ids, Modes, Threads, Callbacks, kernel, calls, ghosts, InstalledOnce, Setting, Holds, OnlySetIsUsed, BringsItsOwn, ProgrammedOnce
<1>1. CASE Elapse
  BY <1>1 DEF Elapse
<1>2. ASSUME NEW t \in Threads, NEW m \in Modes, NEW h \in Ids \cup {Empty}, SetLook(t, m, h)
      PROVE  InstalledOnce'
  BY <1>2, SMTT(30) DEF SetLook, Begin
<1>3. ASSUME NEW t \in Threads, CancelCopy(t)
      PROVE  InstalledOnce'
  BY <1>3 DEF CancelCopy, Begin
<1>4. ASSUME NEW t \in Threads, SetInstall(t)
      PROVE  InstalledOnce'
  BY <1>4, SMTT(30) DEF SetInstall, At
<1>5. ASSUME NEW t \in Threads, SetTime(t)
      PROVE  InstalledOnce'
  BY <1>5 DEF SetTime, At, Leave, Idle, Settime
<1>6. ASSUME NEW t \in Threads, CancelSwap(t)
      PROVE  InstalledOnce'
  BY <1>6 DEF CancelSwap, At, GoTo
<1>7. ASSUME NEW t \in Threads, CancelRunning(t)
      PROVE  InstalledOnce'
  BY <1>7, SMTT(30) DEF CancelRunning, At, Leave, Idle, Callback
<1>8. ASSUME NEW t \in Threads, CancelSilent(t)
      PROVE  InstalledOnce'
  BY <1>8 DEF CancelSilent, At, Idle
<1>9. ASSUME NEW t \in Threads, CancelStop(t)
      PROVE  InstalledOnce'
  BY <1>9 DEF CancelStop, At, Leave, Idle, Stop, Settime
<1>10. ASSUME NEW t \in Threads, CancelReturn(t)
      PROVE  InstalledOnce'
  BY <1>10 DEF CancelReturn, At, Stop, Settime
<1>11. ASSUME NEW t \in Threads, CancelThrow(t)
      PROVE  InstalledOnce'
  BY <1>11 DEF CancelThrow
<1>12. CASE ProcessRead
  BY <1>12, SMTT(30) DEF ProcessRead, Begin
<1>13. CASE ProcessCall
  BY <1>13 DEF ProcessCall, At, Leave, Idle, Callback
<1>14. CASE ProcessNothing
  BY <1>14 DEF ProcessNothing, At, Leave, Idle
<1>15. CASE FireReturn
  BY <1>15 DEF FireReturn
<1>16. CASE Destroy
  BY <1>16 DEF Destroy, Settime
<1>17. CASE UNCHANGED vars
  BY <1>17 DEF vars, calls
<1> HIDE DEF TimerInv, ReportInv, TypeOK, InstalledOnce, Setting, Holds, OnlySetIsUsed, BringsItsOwn, ProgrammedOnce
<1> QED
  BY <1>1, <1>2, <1>3, <1>4, <1>5, <1>6, <1>7, <1>8, <1>9, <1>10, <1>11, <1>12, <1>13, <1>14, <1>15, <1>16, <1>17
  DEF Next, SetSteps, CancelSteps, ProcessSteps, Returns

(* read() takes the expiration of a single-shot timer that does not run any  *)
(* more, and no other set() brings that setting back.                        *)
LEMMA RunsAsAskedStep ==
  ASSUME TimerInv, [Next]_vars
  PROVE  RunsAsAsked'
<1> USE BoundsAssumption, NotIds, ThreadsAssumption
<1> USE DEF TimerInv, ReportInv, TypeOK, Ids, Modes, Threads, Callbacks, kernel, calls, ghosts, RunsAsAsked, Setting, OnlySetIsUsed, ProgrammedOnce
<1>1. CASE Elapse
  BY <1>1 DEF Elapse
<1>2. ASSUME NEW t \in Threads, NEW m \in Modes, NEW h \in Ids \cup {Empty}, SetLook(t, m, h)
      PROVE  RunsAsAsked'
  BY <1>2 DEF SetLook, Begin
<1>3. ASSUME NEW t \in Threads, CancelCopy(t)
      PROVE  RunsAsAsked'
  BY <1>3 DEF CancelCopy, Begin
<1>4. ASSUME NEW t \in Threads, SetInstall(t)
      PROVE  RunsAsAsked'
  BY <1>4 DEF SetInstall, At
<1>5. ASSUME NEW t \in Threads, SetTime(t)
      PROVE  RunsAsAsked'
  BY <1>5 DEF SetTime, At, Leave, Idle, Settime
<1>6. ASSUME NEW t \in Threads, CancelSwap(t)
      PROVE  RunsAsAsked'
  BY <1>6 DEF CancelSwap, At, GoTo
<1>7. ASSUME NEW t \in Threads, CancelRunning(t)
      PROVE  RunsAsAsked'
  BY <1>7 DEF CancelRunning, At, Leave, Idle, Callback
<1>8. ASSUME NEW t \in Threads, CancelSilent(t)
      PROVE  RunsAsAsked'
  BY <1>8 DEF CancelSilent, At, Idle
<1>9. ASSUME NEW t \in Threads, CancelStop(t)
      PROVE  RunsAsAsked'
  BY <1>9 DEF CancelStop, At, Leave, Idle, Stop, Settime
<1>10. ASSUME NEW t \in Threads, CancelReturn(t)
      PROVE  RunsAsAsked'
  BY <1>10 DEF CancelReturn, At, Stop, Settime
<1>11. ASSUME NEW t \in Threads, CancelThrow(t)
      PROVE  RunsAsAsked'
  BY <1>11 DEF CancelThrow
<1>12. CASE ProcessRead
  BY <1>12 DEF ProcessRead, Begin
<1>13. CASE ProcessCall
  BY <1>13 DEF ProcessCall, At, Leave, Idle, Callback
<1>14. CASE ProcessNothing
  BY <1>14 DEF ProcessNothing, At, Leave, Idle
<1>15. CASE FireReturn
  BY <1>15 DEF FireReturn
<1>16. CASE Destroy
  BY <1>16 DEF Destroy, Settime
<1>17. CASE UNCHANGED vars
  BY <1>17 DEF vars, calls
<1> HIDE DEF TimerInv, ReportInv, TypeOK, RunsAsAsked, Setting, OnlySetIsUsed, ProgrammedOnce
<1> QED
  BY <1>1, <1>2, <1>3, <1>4, <1>5, <1>6, <1>7, <1>8, <1>9, <1>10, <1>11, <1>12, <1>13, <1>14, <1>15, <1>16, <1>17
  DEF Next, SetSteps, CancelSteps, ProcessSteps, Returns

(* process() has read before it calls: a single-shot callback that is called *)
(* for its own setting is called for the only expiration there ever was.     *)
LEMMA FiredIsOverStep ==
  ASSUME TimerInv, [Next]_vars
  PROVE  FiredIsOver'
<1> USE BoundsAssumption, NotIds, ThreadsAssumption
<1> USE DEF TimerInv, ReportInv, TypeOK, Ids, Modes, Threads, Callbacks, kernel, calls, ghosts, FiredIsOver, Setting, OnlySetIsUsed, BringsItsOwn, ProgrammedOnce, InstalledOnce, RunsAsAsked, OnlyLoopReads
<1>1. CASE Elapse
  BY <1>1 DEF Elapse
<1>2. ASSUME NEW t \in Threads, NEW m \in Modes, NEW h \in Ids \cup {Empty}, SetLook(t, m, h)
      PROVE  FiredIsOver'
  BY <1>2 DEF SetLook, Begin
<1>3. ASSUME NEW t \in Threads, CancelCopy(t)
      PROVE  FiredIsOver'
  BY <1>3 DEF CancelCopy, Begin
<1>4. ASSUME NEW t \in Threads, SetInstall(t)
      PROVE  FiredIsOver'
  BY <1>4 DEF SetInstall, At
<1>5. ASSUME NEW t \in Threads, SetTime(t)
      PROVE  FiredIsOver'
  BY <1>5 DEF SetTime, At, Leave, Idle, Settime
<1>6. ASSUME NEW t \in Threads, CancelSwap(t)
      PROVE  FiredIsOver'
  BY <1>6 DEF CancelSwap, At, GoTo
<1>7. ASSUME NEW t \in Threads, CancelRunning(t)
      PROVE  FiredIsOver'
  BY <1>7 DEF CancelRunning, At, Leave, Idle, Callback
<1>8. ASSUME NEW t \in Threads, CancelSilent(t)
      PROVE  FiredIsOver'
  BY <1>8 DEF CancelSilent, At, Idle
<1>9. ASSUME NEW t \in Threads, CancelStop(t)
      PROVE  FiredIsOver'
  BY <1>9 DEF CancelStop, At, Leave, Idle, Stop, Settime
<1>10. ASSUME NEW t \in Threads, CancelReturn(t)
      PROVE  FiredIsOver'
  BY <1>10 DEF CancelReturn, At, Stop, Settime
<1>11. ASSUME NEW t \in Threads, CancelThrow(t)
      PROVE  FiredIsOver'
  BY <1>11 DEF CancelThrow
<1>12. CASE ProcessRead
  BY <1>12 DEF ProcessRead, Begin
<1>13. CASE ProcessCall
  <2> SUFFICES ASSUME NEW i \in Ids, mode[i] = "single", fires'[i] > 0, i \notin astray'
               PROVE  /\ fires'[i] = 1 /\ cancels'[i] = 0
                      /\ setting = i => armed = "off" /\ ~expired
                      /\ \A t \in Threads : ~Setting(t, i)' /\ ~(call'[t].at = "read" /\ call'[t].n = i)
    BY <1>13, Zenon DEF ProcessCall, FiredIsOver
  <2>1. /\ call[Loop].at = "read" /\ handler \in Ids
        /\ \A t \in Threads \ {Loop} : call'[t] = call[t]
        /\ call'[Loop].at = "idle"
        /\ \A t \in Threads : call'[t].at # "read"
    BY <1>13 DEF ProcessCall, At, Leave, Idle
  <2>2. \A t \in Threads : ~Setting(t, i) => ~Setting(t, i)'
    BY <2>1
  <2>3. CASE handler = i
    <3>1. call[Loop].n = i /\ i \notin astray
      BY <1>13, <2>3 DEF ProcessCall
    <3>2. fires[i] = 0
      <4>1. Loop \in Threads /\ fires[i] \in 0..2
        OBVIOUS
      <4>2. ~(fires[i] > 0)
        BY <2>1, <3>1, <4>1
      <4> QED BY <4>1, <4>2
    <3>3. fires'[i] = 1 /\ cancels'[i] = 0
      <4>1. cancels[i] = 0
        BY <2>3 DEF TakenOut
      <4> QED BY <1>13, <2>3, <3>2, <4>1 DEF ProcessCall
    <3>4. setting = i => armed = "off" /\ ~expired
      BY <2>1, <3>1
    <3>5. \A t \in Threads : ~Setting(t, i)
      BY <2>1, <3>1
    <3> QED BY <2>1, <2>2, <3>3, <3>4, <3>5
  <2>4. CASE handler # i
    <3>1. fires'[i] = fires[i] /\ cancels'[i] = cancels[i] /\ i \notin astray
      BY <1>13, <2>4 DEF ProcessCall
    <3> QED BY <2>1, <2>2, <3>1
  <2> QED BY <2>3, <2>4
<1>14. CASE ProcessNothing
  BY <1>14 DEF ProcessNothing, At, Leave, Idle
<1>15. CASE FireReturn
  BY <1>15 DEF FireReturn
<1>16. CASE Destroy
  BY <1>16, SMTT(30) DEF Destroy, Settime
<1>17. CASE UNCHANGED vars
  BY <1>17 DEF vars, calls
<1> HIDE DEF TimerInv, ReportInv, TypeOK, FiredIsOver, Setting, OnlySetIsUsed, BringsItsOwn, ProgrammedOnce, InstalledOnce, RunsAsAsked, OnlyLoopReads
<1> QED
  BY <1>1, <1>2, <1>3, <1>4, <1>5, <1>6, <1>7, <1>8, <1>9, <1>10, <1>11, <1>12, <1>13, <1>14, <1>15, <1>16, <1>17
  DEF Next, SetSteps, CancelSteps, ProcessSteps, Returns

(* cancel() replaces the callback before it calls it, and no set() brings it *)
(* back.                                                                     *)
LEMMA TakenOutStep ==
  ASSUME TimerInv, [Next]_vars
  PROVE  TakenOut'
<1> USE BoundsAssumption, NotIds, ThreadsAssumption
<1> USE DEF TimerInv, ReportInv, TypeOK, Ids, Modes, Threads, Callbacks, kernel, calls, ghosts, TakenOut, Setting, Holds, OnlySetIsUsed, InstalledOnce
<1>1. CASE Elapse
  BY <1>1 DEF Elapse
<1>2. ASSUME NEW t \in Threads, NEW m \in Modes, NEW h \in Ids \cup {Empty}, SetLook(t, m, h)
      PROVE  TakenOut'
  BY <1>2 DEF SetLook, Begin
<1>3. ASSUME NEW t \in Threads, CancelCopy(t)
      PROVE  TakenOut'
  <2>1. /\ call[t].at = "idle" /\ call'[t].at = "copied" /\ call'[t].id = handler
        /\ \A u \in Threads \ {t} : call'[u] = call[u]
        /\ handler' = handler /\ cancels' = cancels
        /\ shared \subseteq shared'
    BY <1>3 DEF CancelCopy, Begin
  <2>2. ASSUME NEW i \in Ids, NEW u \in Threads, u # t, Holds(u, i), handler = i
        PROVE  i \in shared'
    <3>1. call[u].at = "copied"
      BY <2>2
    <3> QED BY <1>3, <2>2, <3>1 DEF CancelCopy, At
  <2>3. ASSUME NEW i \in Ids, NEW u \in Threads, NEW v \in Threads, Holds(u, i)', Holds(v, i)', u # v
        PROVE  i \in shared'
    <3>1. CASE u = t
      <4>1. handler = i /\ Holds(v, i)
        BY <2>1, <2>3, <3>1
      <4> QED BY <2>2, <2>3, <3>1, <4>1
    <3>2. CASE v = t
      <4>1. handler = i /\ Holds(u, i)
        BY <2>1, <2>3, <3>2
      <4> QED BY <2>2, <2>3, <3>2, <4>1
    <3>3. CASE u # t /\ v # t
      <4>1. Holds(u, i) /\ Holds(v, i)
        BY <2>1, <2>3, <3>3
      <4> QED BY <2>1, <2>3, <4>1
    <3> QED BY <3>1, <3>2, <3>3
  <2>4. ASSUME NEW i \in Ids, cancels[i] > 0
        PROVE  handler # i /\ (i \notin shared' => cancels[i] = 1 /\ \A u \in Threads : ~Holds(u, i)')
    BY <2>1, <2>4
  <2>5. ASSUME NEW i \in Ids, NEW u \in Threads, call'[u].at = "swapped", call'[u].id = i
        PROVE  handler # i
    BY <2>1, <2>5
  <2> QED BY <2>1, <2>3, <2>4, <2>5, Zenon
<1>4. ASSUME NEW t \in Threads, SetInstall(t)
      PROVE  TakenOut'
  BY <1>4, SMTT(30) DEF SetInstall, At
<1>5. ASSUME NEW t \in Threads, SetTime(t)
      PROVE  TakenOut'
  BY <1>5 DEF SetTime, At, Leave, Idle, Settime
<1>6. ASSUME NEW t \in Threads, CancelSwap(t)
      PROVE  TakenOut'
  BY <1>6 DEF CancelSwap, At, GoTo
<1>7. ASSUME NEW t \in Threads, CancelRunning(t)
      PROVE  TakenOut'
  BY <1>7, SMTT(30) DEF CancelRunning, At, Leave, Idle, Callback
<1>8. ASSUME NEW t \in Threads, CancelSilent(t)
      PROVE  TakenOut'
  BY <1>8 DEF CancelSilent, At, Idle
<1>9. ASSUME NEW t \in Threads, CancelStop(t)
      PROVE  TakenOut'
  BY <1>9 DEF CancelStop, At, Leave, Idle, Stop, Settime
<1>10. ASSUME NEW t \in Threads, CancelReturn(t)
      PROVE  TakenOut'
  BY <1>10 DEF CancelReturn, At, Stop, Settime
<1>11. ASSUME NEW t \in Threads, CancelThrow(t)
      PROVE  TakenOut'
  BY <1>11 DEF CancelThrow
<1>12. CASE ProcessRead
  BY <1>12 DEF ProcessRead, Begin
<1>13. CASE ProcessCall
  BY <1>13 DEF ProcessCall, At, Leave, Idle, Callback
<1>14. CASE ProcessNothing
  BY <1>14 DEF ProcessNothing, At, Leave, Idle
<1>15. CASE FireReturn
  BY <1>15 DEF FireReturn
<1>16. CASE Destroy
  BY <1>16 DEF Destroy, Settime
<1>17. CASE UNCHANGED vars
  BY <1>17 DEF vars, calls
<1> HIDE DEF TimerInv, ReportInv, TypeOK, TakenOut, Setting, Holds, OnlySetIsUsed, InstalledOnce
<1> QED
  BY <1>1, <1>2, <1>3, <1>4, <1>5, <1>6, <1>7, <1>8, <1>9, <1>10, <1>11, <1>12, <1>13, <1>14, <1>15, <1>16, <1>17
  DEF Next, SetSteps, CancelSteps, ProcessSteps, Returns

(* process() runs in the thread of the loop. *)
LEMMA OnlyLoopReadsStep ==
  ASSUME TimerInv, [Next]_vars
  PROVE  OnlyLoopReads'
<1> USE BoundsAssumption, NotIds, ThreadsAssumption
<1> USE DEF TimerInv, ReportInv, TypeOK, Ids, Modes, Threads, Callbacks, kernel, calls, ghosts, OnlyLoopReads
<1>1. CASE Elapse
  BY <1>1 DEF Elapse
<1>2. ASSUME NEW t \in Threads, NEW m \in Modes, NEW h \in Ids \cup {Empty}, SetLook(t, m, h)
      PROVE  OnlyLoopReads'
  BY <1>2 DEF SetLook, Begin
<1>3. ASSUME NEW t \in Threads, CancelCopy(t)
      PROVE  OnlyLoopReads'
  BY <1>3 DEF CancelCopy, Begin
<1>4. ASSUME NEW t \in Threads, SetInstall(t)
      PROVE  OnlyLoopReads'
  BY <1>4 DEF SetInstall, At
<1>5. ASSUME NEW t \in Threads, SetTime(t)
      PROVE  OnlyLoopReads'
  BY <1>5 DEF SetTime, At, Leave, Idle, Settime
<1>6. ASSUME NEW t \in Threads, CancelSwap(t)
      PROVE  OnlyLoopReads'
  BY <1>6 DEF CancelSwap, At, GoTo
<1>7. ASSUME NEW t \in Threads, CancelRunning(t)
      PROVE  OnlyLoopReads'
  BY <1>7 DEF CancelRunning, At, Leave, Idle, Callback
<1>8. ASSUME NEW t \in Threads, CancelSilent(t)
      PROVE  OnlyLoopReads'
  BY <1>8 DEF CancelSilent, At, Idle
<1>9. ASSUME NEW t \in Threads, CancelStop(t)
      PROVE  OnlyLoopReads'
  BY <1>9 DEF CancelStop, At, Leave, Idle, Stop, Settime
<1>10. ASSUME NEW t \in Threads, CancelReturn(t)
      PROVE  OnlyLoopReads'
  BY <1>10 DEF CancelReturn, At, Stop, Settime
<1>11. ASSUME NEW t \in Threads, CancelThrow(t)
      PROVE  OnlyLoopReads'
  BY <1>11 DEF CancelThrow
<1>12. CASE ProcessRead
  BY <1>12 DEF ProcessRead, Begin
<1>13. CASE ProcessCall
  BY <1>13 DEF ProcessCall, At, Leave, Idle, Callback
<1>14. CASE ProcessNothing
  BY <1>14 DEF ProcessNothing, At, Leave, Idle
<1>15. CASE FireReturn
  BY <1>15 DEF FireReturn
<1>16. CASE Destroy
  BY <1>16 DEF Destroy, Settime
<1>17. CASE UNCHANGED vars
  BY <1>17 DEF vars, calls
<1> HIDE DEF TimerInv, ReportInv, TypeOK, OnlyLoopReads
<1> QED
  BY <1>1, <1>2, <1>3, <1>4, <1>5, <1>6, <1>7, <1>8, <1>9, <1>10, <1>11, <1>12, <1>13, <1>14, <1>15, <1>16, <1>17
  DEF Next, SetSteps, CancelSteps, ProcessSteps, Returns

(* A call that nobody overlaps finds callback and timerfd in agreement and   *)
(* leaves them so.                                                           *)
LEMMA AloneInsideStep ==
  ASSUME TimerInv, [Next]_vars
  PROVE  AloneInside'
<1> USE BoundsAssumption, NotIds, ThreadsAssumption
<1> USE DEF TimerInv, ReportInv, TypeOK, Ids, Modes, Threads, Callbacks, kernel, calls, ghosts, AloneInside, OnlyLoopReads, BringsItsOwn
<1>1. CASE Elapse
  BY <1>1 DEF Elapse
<1>2. ASSUME NEW t \in Threads, NEW m \in Modes, NEW h \in Ids \cup {Empty}, SetLook(t, m, h)
      PROVE  AloneInside'
  BY <1>2 DEF SetLook, Begin
<1>3. ASSUME NEW t \in Threads, CancelCopy(t)
      PROVE  AloneInside'
  <2>1. /\ call[t].at = "idle" /\ call'[t].at = "copied" /\ call'[t].id = handler
        /\ \A u \in Threads \ {t} : call'[u] = call[u]
        /\ UNCHANGED <<handler, armed, expired, setting, astray>>
    BY <1>3 DEF CancelCopy, Begin
  <2> SUFFICES ASSUME ~overlap' PROVE AloneInside'
    OBVIOUS
  <2>2. ~overlap /\ \A u \in Threads \ {t} : call[u].at = "idle"
    BY <1>3 DEF CancelCopy, Begin
  <2>3. shared' = {}
    BY <1>3, <2>2 DEF CancelCopy, At
  <2>4. \A u \in Threads : call'[u].at # "idle" => u = t
    BY <2>1, <2>2
  <2>5. handler \in Ids /\ (armed # "off" \/ expired) => setting = handler
    BY <2>1, <2>2
  <2> QED BY <2>1, <2>2, <2>3, <2>4, <2>5
<1>4. ASSUME NEW t \in Threads, SetInstall(t)
      PROVE  AloneInside'
  <2>1. /\ call[t].at = "set" /\ call'[t].at = "installed" /\ call'[t].n = call[t].n
        /\ handler' = call[t].id
        /\ \A u \in Threads \ {t} : call'[u] = call[u]
        /\ UNCHANGED <<armed, expired, setting, astray, shared, overlap>>
    BY <1>4 DEF SetInstall, At
  <2> SUFFICES ASSUME ~overlap PROVE AloneInside'
    BY <2>1
  <2>2. \A u \in Threads \ {t} : call[u].at = "idle"
    BY <2>1
  <2>3. handler' \in Ids => call'[t].n = handler'
    BY <2>1
  <2> QED BY <2>1, <2>2, <2>3, SMTT(30)
<1>5. ASSUME NEW t \in Threads, SetTime(t)
      PROVE  AloneInside'
  BY <1>5, ZenonT(60) DEF SetTime, At, Leave, Idle, Settime
<1>6. ASSUME NEW t \in Threads, CancelSwap(t)
      PROVE  AloneInside'
  <2>1. /\ call[t].at = "copied" /\ call'[t].at = "swapped" /\ call'[t].id = call[t].id
        /\ handler' = Nop
        /\ \A u \in Threads \ {t} : call'[u] = call[u]
        /\ UNCHANGED <<armed, expired, setting, astray, shared, overlap>>
    BY <1>6 DEF CancelSwap, At, GoTo
  <2> SUFFICES ASSUME ~overlap PROVE AloneInside'
    BY <2>1
  <2>2. \A u \in Threads \ {t} : call[u].at = "idle"
    BY <2>1
  <2>3. call[t].id \in Ids /\ armed # "off" => setting = call[t].id
    BY <2>1, <2>2
  <2> QED BY <2>1, <2>2, <2>3
<1>7. ASSUME NEW t \in Threads, CancelRunning(t)
      PROVE  AloneInside'
  BY <1>7 DEF CancelRunning, At, Leave, Idle, Callback
<1>8. ASSUME NEW t \in Threads, CancelSilent(t)
      PROVE  AloneInside'
  BY <1>8 DEF CancelSilent, At, Idle
<1>9. ASSUME NEW t \in Threads, CancelStop(t)
      PROVE  AloneInside'
  BY <1>9 DEF CancelStop, At, Leave, Idle, Stop, Settime
<1>10. ASSUME NEW t \in Threads, CancelReturn(t)
      PROVE  AloneInside'
  BY <1>10 DEF CancelReturn, At, Stop, Settime
<1>11. ASSUME NEW t \in Threads, CancelThrow(t)
      PROVE  AloneInside'
  BY <1>11 DEF CancelThrow
<1>12. CASE ProcessRead
  BY <1>12 DEF ProcessRead, Begin
<1>13. CASE ProcessCall
  BY <1>13 DEF ProcessCall, At, Leave, Idle, Callback
<1>14. CASE ProcessNothing
  BY <1>14 DEF ProcessNothing, At, Leave, Idle
<1>15. CASE FireReturn
  BY <1>15 DEF FireReturn
<1>16. CASE Destroy
  BY <1>16 DEF Destroy, Settime
<1>17. CASE UNCHANGED vars
  BY <1>17 DEF vars, calls
<1> HIDE DEF TimerInv, ReportInv, TypeOK, AloneInside, OnlyLoopReads, BringsItsOwn
<1> QED
  BY <1>1, <1>2, <1>3, <1>4, <1>5, <1>6, <1>7, <1>8, <1>9, <1>10, <1>11, <1>12, <1>13, <1>14, <1>15, <1>16, <1>17
  DEF Next, SetSteps, CancelSteps, ProcessSteps, Returns

(* No step but the two that are named loses a timer that was set. *)
LEMMA PendingStep ==
  ASSUME TypeOK, BringsItsOwn, SetTimerIsPending, [Next]_vars
  PROVE  SetTimerIsPending'
<1> USE BoundsAssumption, NotIds, ThreadsAssumption
<1> USE DEF TypeOK, Ids, Modes, Threads, Callbacks, kernel, calls, ghosts, SetTimerIsPending, BringsItsOwn
<1>1. CASE Elapse
  BY <1>1 DEF Elapse
<1>2. ASSUME NEW t \in Threads, NEW m \in Modes, NEW h \in Ids \cup {Empty}, SetLook(t, m, h)
      PROVE  SetTimerIsPending'
  BY <1>2 DEF SetLook, Begin
<1>3. ASSUME NEW t \in Threads, CancelCopy(t)
      PROVE  SetTimerIsPending'
  BY <1>3 DEF CancelCopy, Begin
<1>4. ASSUME NEW t \in Threads, SetInstall(t)
      PROVE  SetTimerIsPending'
  BY <1>4 DEF SetInstall, At
<1>5. ASSUME NEW t \in Threads, SetTime(t)
      PROVE  SetTimerIsPending'
  BY <1>5 DEF SetTime, At, Leave, Idle, Settime
<1>6. ASSUME NEW t \in Threads, CancelSwap(t)
      PROVE  SetTimerIsPending'
  BY <1>6 DEF CancelSwap, At, GoTo
<1>7. ASSUME NEW t \in Threads, CancelRunning(t)
      PROVE  SetTimerIsPending'
  BY <1>7 DEF CancelRunning, At, Leave, Idle, Callback
<1>8. ASSUME NEW t \in Threads, CancelSilent(t)
      PROVE  SetTimerIsPending'
  BY <1>8 DEF CancelSilent, At, Idle
<1>9. ASSUME NEW t \in Threads, CancelStop(t)
      PROVE  SetTimerIsPending'
  BY <1>9 DEF CancelStop, At, Leave, Idle, Stop, Settime
<1>10. ASSUME NEW t \in Threads, CancelReturn(t)
      PROVE  SetTimerIsPending'
  BY <1>10 DEF CancelReturn, At, Stop, Settime
<1>11. ASSUME NEW t \in Threads, CancelThrow(t)
      PROVE  SetTimerIsPending'
  BY <1>11 DEF CancelThrow
<1>12. CASE ProcessRead
  BY <1>12 DEF ProcessRead, Begin
<1>13. CASE ProcessCall
  <2>1. CASE handler = live
    <3>1. live \in Ids /\ fires[live] \in 0..2 /\ live' = live
      BY <1>13, <2>1 DEF ProcessCall
    <3>2. fires' = [fires EXCEPT ![live] = IF fires[live] < 2 THEN fires[live] + 1 ELSE 2]
      BY <1>13, <2>1 DEF ProcessCall
    <3>3. fires'[live] = IF fires[live] < 2 THEN fires[live] + 1 ELSE 2
      BY <3>1, <3>2
    <3>4. fires'[live] > 0
      BY <3>1, <3>3
    <3> QED BY <3>1, <3>4
  <2>2. CASE handler # live
    <3>1. live # 0 => fires'[live] = fires[live]
      BY <1>13, <2>2 DEF ProcessCall
    <3> QED BY <1>13, <2>2, <3>1 DEF ProcessCall
  <2> QED BY <2>1, <2>2
<1>14. CASE ProcessNothing
  BY <1>14 DEF ProcessNothing, At, Leave, Idle
<1>15. CASE FireReturn
  BY <1>15 DEF FireReturn
<1>16. CASE Destroy
  BY <1>16 DEF Destroy, Settime
<1>17. CASE UNCHANGED vars
  BY <1>17 DEF vars, calls
<1> HIDE DEF TypeOK, SetTimerIsPending, BringsItsOwn
<1> QED
  BY <1>1, <1>2, <1>3, <1>4, <1>5, <1>6, <1>7, <1>8, <1>9, <1>10, <1>11, <1>12, <1>13, <1>14, <1>15, <1>16, <1>17
  DEF Next, SetSteps, CancelSteps, ProcessSteps, Returns

(* All of it holds in the beginning. *)
LEMMA TimerStart == Init => TimerInv /\ SetTimerIsPending
<1> SUFFICES ASSUME Init PROVE TimerInv /\ SetTimerIsPending
  OBVIOUS
<1> USE BoundsAssumption, NotIds, ThreadsAssumption DEF Init, Ids, Modes, Threads, Callbacks, Places
<1>1. expired \in BOOLEAN /\ alive \in BOOLEAN /\ overlap \in BOOLEAN
  OBVIOUS
<1>2. call \in [Threads -> [at : Places, id : Callbacks, m : Modes, n : 0..sets]]
  BY DEF Idle
<1>3. stack \in [Threads -> Seq({"fire", "cancel"})]
  OBVIOUS
<1>4. TypeOK
  BY <1>1, <1>2, <1>3 DEF TypeOK
<1>5. /\ \A t \in Threads : call[t].at = "idle" /\ call[t].id = Nop /\ call[t].n = 0
      /\ \A i \in Ids : fires[i] = 0 /\ cancels[i] = 0
  BY DEF Idle
<1>6. OnlySetIsUsed /\ BringsItsOwn /\ OnlyLoopReads
  BY <1>5 DEF OnlySetIsUsed, BringsItsOwn, OnlyLoopReads
<1>7. ProgrammedOnce /\ InstalledOnce /\ TakenOut
  BY <1>5 DEF ProgrammedOnce, InstalledOnce, TakenOut, Setting, Holds
<1>8. RunsAsAsked /\ FiredIsOver
  BY <1>5 DEF RunsAsAsked, FiredIsOver, Setting
<1>9. AloneInside
  <2>1. handler \notin Ids /\ astray = {} /\ shared = {}
    OBVIOUS
  <2> QED BY <1>5, <2>1 DEF AloneInside
<1> QED BY <1>4, <1>6, <1>7, <1>8, <1>9 DEF TimerInv, ReportInv, SetTimerIsPending

(* The invariant is inductive. *)
LEMMA TimerStep == TimerInv /\ [Next]_vars => TimerInv'
<1> SUFFICES ASSUME TimerInv, [Next]_vars PROVE TimerInv'
  OBVIOUS
<1>1. TypeOK'
  BY TypeStep DEF TimerInv
<1> QED
  BY <1>1, OnlySetIsUsedStep, BringsItsOwnStep, ProgrammedOnceStep, InstalledOnceStep, RunsAsAskedStep,
     FiredIsOverStep, TakenOutStep, OnlyLoopReadsStep, AloneInsideStep, Zenon DEF TimerInv, ReportInv

(* It bounds the reports: a callback that fired for its own setting was not  *)
(* canceled and fired once, and one that was canceled was so once.           *)
LEMMA ReportBound == TimerInv => SingleShotReportsOnce
<1> SUFFICES ASSUME TimerInv PROVE SingleShotReportsOnce
  OBVIOUS
<1>1. ASSUME NEW i \in 1..sets, mode[i] = "single", fires[i] + cancels[i] > 1, i \notin astray, i \notin shared
      PROVE  FALSE
  <2>1. i \in Ids /\ fires[i] \in 0..2 /\ cancels[i] \in Nat
    BY BoundsAssumption DEF TimerInv, TypeOK, Ids
  <2>2. fires[i] > 0 => fires[i] = 1 /\ cancels[i] = 0
    BY <1>1, <2>1 DEF TimerInv, ReportInv, FiredIsOver
  <2>3. cancels[i] > 0 => cancels[i] = 1
    BY <1>1, <2>1 DEF TimerInv, ReportInv, TakenOut
  <2> QED BY <1>1, <2>1, <2>2, <2>3
<1>2. astray \cup shared # {} => overlap
  BY DEF TimerInv, ReportInv, AloneInside
<1> QED BY <1>1, <1>2 DEF SingleShotReportsOnce

(* A single-shot timer reports at most once, fired or canceled, whatever is  *)
(* set, canceled or destroyed from inside its callbacks and by whichever     *)
(* thread; more than once only if its callback was called on another         *)
(* setting's account or canceled by two at once, which takes two threads     *)
(* inside the timer at the same time.                                        *)
THEOREM ReportsOnce == Spec => []SingleShotReportsOnce
<1>1. Init => TimerInv
  BY TimerStart
<1> QED BY <1>1, TimerStep, ReportBound, PTL DEF Spec

(* A timer that was set and left alone is running, has expired, is being set *)
(* or processed, or has fired, unless it was lost in one of the two ways:    *)
(* a cancel() begun before went on, or set() over an empty callback.         *)
THEOREM StaysPending == Spec => []SetTimerIsPending
<1>1. TimerInv /\ SetTimerIsPending /\ [Next]_vars => SetTimerIsPending'
  BY PendingStep DEF TimerInv, ReportInv
<1> QED BY <1>1, TimerStart, TimerStep, PTL DEF Spec

(* A step leaves a callback alone that was told of its cancellation: cancel()*)
(* had taken it out before, so that neither an expiration that waits nor one *)
(* that was read reaches it, and no cancel() that begins later finds it.     *)
LEMMA CanceledStep ==
  ASSUME TimerInv, [Next]_vars, NEW i \in Ids, cancels[i] > 0
  PROVE  fires'[i] = fires[i] /\ (cancels'[i] = cancels[i] \/ i \in shared)
<1>1. handler # i /\ (i \in shared \/ \A t \in Threads : ~Holds(t, i))
  BY DEF TimerInv, ReportInv, TakenOut
<1>2. ASSUME NEW t \in Threads, CancelRunning(t)
      PROVE  fires'[i] = fires[i] /\ (cancels'[i] = cancels[i] \/ i \in shared)
  BY <1>1, <1>2 DEF CancelRunning, At, Holds, TimerInv, TypeOK
<1>3. CASE ProcessCall
  BY <1>1, <1>3 DEF ProcessCall, TimerInv, TypeOK
<1>4. CASE UNCHANGED <<fires, cancels>>
  BY <1>4
<1>5. (\E t \in Threads : CancelRunning(t)) \/ ProcessCall \/ UNCHANGED <<fires, cancels>>
  BY DEF Next, vars, calls, Elapse, SetLook, CancelCopy, SetSteps, SetInstall, SetTime, CancelSteps, CancelSwap,
         CancelSilent, CancelStop, Stop, Returns, CancelReturn, CancelThrow, ProcessSteps, ProcessRead,
         ProcessNothing, FireReturn, Destroy
<1> QED
  BY <1>2, <1>3, <1>4, <1>5

(* No callback is called with fired=true after it was told of the            *)
(* cancellation, nor told again but by a cancel() that overlapped the first. *)
THEOREM CanceledStaysSilent == Spec => SilentAfterCancel
<1>1. TimerInv /\ [Next]_vars =>
        [\A i \in Ids : cancels[i] > 0 =>
           /\ fires'[i] = fires[i]
           /\ cancels'[i] = cancels[i] \/ i \in shared]_vars
  BY CanceledStep
<1> QED BY TimerStart, TimerStep, <1>1, PTL DEF Spec, SilentAfterCancel
=============================================================================
