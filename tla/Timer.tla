-------------------------------- MODULE Timer --------------------------------
(***************************************************************************)
(* The timer of lib/sys/linux/timer.cpp.  It has no lock: process() runs   *)
(* in the thread of the event loop, set() and cancel() in any thread, as   *)
(* the tests of the timer do, and in callbacks, also in the callback of    *)
(* this timer, which process() calls with fired=true and cancel() with     *)
(* fired=false.  The three are modelled statement by statement: call[t] is *)
(* where thread t is in one of them, stack[t] holds the callbacks of this  *)
(* timer that it is in.  The timerfd is external.                          *)
(*                                                                         *)
(* The i-th set() brings callback i, so that calls can be told apart.      *)
(* Reading m_eventHandler while another thread assigns it is a data race;  *)
(* the model has the outcomes in which the old or the new callback is read *)
(* and none where a torn std::function is.  Nor is the event loop stopped: *)
(* it would drop the expiration of a batch in which it finds its stop().   *)
(***************************************************************************)
EXTENDS Naturals, Sequences

CONSTANTS
  Nop,            \* the default callback
  Empty,          \* an empty std::function
  Loop,           \* the thread that executes the event loop
  Users,          \* the other threads
  MaxSets         \* bound: calls of set()

ASSUME BoundsAssumption == MaxSets \in Nat \ {0}
ASSUME CallbacksAssumption == Nop # Empty /\ {Nop, Empty} \cap (0..MaxSets) = {}
ASSUME ThreadsAssumption == Loop \notin Users

Ids == 1..MaxSets
Modes == {"single", "repeated"}
Threads == {Loop} \cup Users

VARIABLES
  handler,  \* m_eventHandler
  armed,    \* the timerfd: "off" or its mode
  expired,  \* the timerfd has expirations that were not read
  alive,    \* the timer has not been destroyed
  call,     \* the call each thread is in the middle of, with what it holds
  stack,    \* running callbacks of this timer of each thread, innermost last
  sets,     \* calls of set() so far
  mode,     \* what the i-th set() asked for
  setting,  \* the set() the timerfd was last set by; 0 for none with a callback
  fires,    \* calls of callback i with fired=true, counted up to 2
  cancels,  \* calls of callback i with fired=false
  live,     \* the last set() with a callback, until cancel() is called; 0 for none
  lost,     \* live was "undone" when a cancel() begun before went on, or its callback
            \* "dropped" because an empty one was installed; else "no"
  astray,   \* callbacks called while the timerfd had been set by another set()
  shared,   \* callbacks that two cancel() in different threads got hold of
  overlap   \* two threads have been in the middle of calls at once (a thread that is in
            \* a callback and nowhere else does not count)

kernel == <<armed, expired>>
calls == <<fires, cancels, astray, shared>>
ghosts == <<sets, mode, setting, live, lost, overlap>>
vars == <<handler, kernel, alive, call, stack, calls, ghosts>>

Idle == [at |-> "idle", id |-> Nop, m |-> "single", n |-> 0]

Init ==
  /\ handler = Nop
  /\ armed = "off"
  /\ expired = FALSE
  /\ alive = TRUE
  /\ call = [t \in Threads |-> Idle]
  /\ stack = [t \in Threads |-> <<>>]
  /\ sets = 0
  /\ mode = [i \in Ids |-> "single"]
  /\ setting = 0
  /\ fires = [i \in Ids |-> 0]
  /\ cancels = [i \in Ids |-> 0]
  /\ live = 0
  /\ lost = "no"
  /\ astray = {}
  /\ shared = {}
  /\ overlap = FALSE

-----------------------------------------------------------------------------
(* External: timerfd_settime replaces the setting and forgets expirations. *)
Settime(m) == armed' = m /\ expired' = FALSE

(* External: the period elapses.  A repeated timer keeps running. *)
Elapse ==
  /\ armed # "off"
  /\ expired' = TRUE
  /\ armed' = IF armed = "repeated" THEN "repeated" ELSE "off"
  /\ UNCHANGED <<handler, alive, call, stack, calls, ghosts>>

(* Thread t calls set(), cancel() or process(), at the top or from a callback. *)
Begin(t, where, id, m, n) ==
  /\ alive
  /\ call[t].at = "idle"
  /\ call' = [call EXCEPT ![t] = [at |-> where, id |-> id, m |-> m, n |-> n]]
  /\ overlap' = (overlap \/ \E u \in Threads \ {t} : call[u].at # "idle")

At(t, where) == call[t].at = where
GoTo(t, where) == call' = [call EXCEPT ![t].at = where]
Leave(t) == call' = [call EXCEPT ![t] = Idle]

Callback(t, why) == stack' = [stack EXCEPT ![t] = Append(@, why)]
In(t, why) == stack[t] # <<>> /\ stack[t][Len(stack[t])] = why
Pop(t) == stack' = [stack EXCEPT ![t] = SubSeq(@, 1, Len(@) - 1)]

-----------------------------------------------------------------------------
(* set() looks at the callback that is installed, not at the one it gets: if *)
(* the installed one is empty, the new one is dropped.  A period of 0 is     *)
(* refused without any effect.                                               *)
SetLook(t, m, h) ==
  /\ sets < MaxSets
  /\ h \in {sets + 1, Empty}
  /\ Begin(t, "set", IF handler # Empty THEN h ELSE Nop, m, IF h = Empty THEN 0 ELSE h)
  /\ sets' = sets + 1
  /\ mode' = [mode EXCEPT ![sets + 1] = m]
  /\ UNCHANGED <<handler, kernel, alive, stack, calls, setting, live, lost>>

(* Mutant: the test of the callback is the wrong way round. *)
SetInstallInverted(t) ==
  /\ At(t, "set")
  /\ handler' = IF call[t].id = Nop THEN Empty ELSE Nop
  /\ live' = call[t].n
  /\ lost' = IF call[t].n # 0 /\ call[t].id = Nop THEN "dropped" ELSE "no"
  /\ call' = [call EXCEPT ![t].at = "installed", ![t].id = Nop]
  /\ UNCHANGED <<kernel, alive, stack, calls, sets, mode, setting, overlap>>

SetInstall(t) ==
  /\ At(t, "set")
  /\ handler' = call[t].id
  /\ live' = call[t].n
  /\ lost' = IF call[t].n # 0 /\ call[t].id = Nop THEN "dropped" ELSE "no"
  /\ call' = [call EXCEPT ![t].at = "installed", ![t].id = Nop]
  /\ UNCHANGED <<kernel, alive, stack, calls, sets, mode, setting, overlap>>

(* The interval is programmed only if repeated is true. *)
SetTime(t) ==
  /\ At(t, "installed")
  /\ Settime(call[t].m)
  /\ setting' = call[t].n
  /\ Leave(t)
  /\ UNCHANGED <<handler, alive, stack, calls, sets, mode, live, lost, overlap>>

-----------------------------------------------------------------------------
(* cancel() copies the callback ... *)
CancelCopy(t) ==
  /\ Begin(t, "copied", handler, "single", 0)
  /\ shared' = IF handler \in Ids /\ \E u \in Threads \ {t} : At(u, "copied") /\ call[u].id = handler
                 THEN shared \cup {handler} ELSE shared
  /\ UNCHANGED <<handler, kernel, alive, stack, fires, cancels, astray,
                 sets, mode, setting, live, lost>>

(* Mutant: the callback stays installed while it is called. *)
CancelSwapKeeps(t) ==
  /\ At(t, "copied")
  /\ GoTo(t, "swapped")
  /\ live' = 0
  /\ lost' = "no"
  /\ UNCHANGED <<handler, kernel, alive, stack, calls, sets, mode, setting, overlap>>

(* ... and replaces it, against recursion. *)
CancelSwap(t) ==
  /\ At(t, "copied")
  /\ handler' = Nop
  /\ GoTo(t, "swapped")
  /\ live' = 0
  /\ lost' = "no"
  /\ UNCHANGED <<kernel, alive, stack, calls, sets, mode, setting, overlap>>

(* If the timer is running, the copy is called with fired=false. *)
CancelRunning(t) ==
  /\ At(t, "swapped")
  /\ armed # "off"
  /\ call[t].id \in Ids
  /\ Callback(t, "cancel")
  /\ Leave(t)
  /\ LET i == call[t].id IN
       /\ cancels' = [cancels EXCEPT ![i] = @ + 1]
       /\ astray' = IF setting = i THEN astray ELSE astray \cup {i}
  /\ UNCHANGED <<handler, kernel, alive, fires, shared, ghosts>>

(* A single-shot timer that has expired is not running, processed or not. *)
CancelSilent(t) ==
  /\ At(t, "swapped")
  /\ armed = "off" \/ call[t].id \notin Ids
  /\ call' = [call EXCEPT ![t] = [Idle EXCEPT !.at = "stopping"]]
  /\ UNCHANGED <<handler, kernel, alive, stack, calls, ghosts>>

(* The timer is stopped, also when it was set again since cancel() began,    *)
(* by its callback or by another thread.  A set() that has installed its     *)
(* callback and comes to timerfd_settime later starts it again.              *)
Stop ==
  /\ Settime("off")
  /\ setting' = 0
  /\ lost' = IF lost = "no" /\ live # 0 /\ ~\E u \in Threads : At(u, "installed") THEN "undone" ELSE lost
  /\ UNCHANGED <<handler, alive, calls, sets, mode, live, overlap>>

CancelStop(t) ==
  /\ At(t, "stopping")
  /\ Leave(t)
  /\ Stop
  /\ UNCHANGED stack

CancelReturn(t) ==
  /\ At(t, "idle") /\ In(t, "cancel")
  /\ Pop(t)
  /\ Stop
  /\ UNCHANGED call

(* An exception of the callback leaves cancel() before the timer is stopped. *)
CancelThrow(t) ==
  /\ At(t, "idle") /\ In(t, "cancel")
  /\ Pop(t)
  /\ UNCHANGED <<handler, kernel, alive, call, calls, ghosts>>

-----------------------------------------------------------------------------
(* Mutant: the expirations are not read. *)
ProcessReadNothing ==
  /\ expired
  /\ stack[Loop] = <<>>
  /\ Begin(Loop, "read", Nop, "single", setting)
  /\ UNCHANGED <<handler, kernel, alive, stack, calls, sets, mode, setting, live, lost>>

(* process() reads the expirations, however many there are ... *)
ProcessRead ==
  /\ expired
  /\ stack[Loop] = <<>>
  /\ Begin(Loop, "read", Nop, "single", setting)
  /\ expired' = FALSE
  /\ UNCHANGED <<handler, armed, alive, stack, calls, sets, mode, setting, live, lost>>

(* ... and calls the callback that is installed then once with fired=true.   *)
ProcessCall ==
  /\ At(Loop, "read")
  /\ handler \in Ids
  /\ Callback(Loop, "fire")
  /\ Leave(Loop)
  /\ fires' = [fires EXCEPT ![handler] = IF @ < 2 THEN @ + 1 ELSE 2]
  /\ astray' = IF call[Loop].n = handler THEN astray ELSE astray \cup {handler}
  /\ UNCHANGED <<handler, kernel, alive, cancels, shared, ghosts>>

(* Nothing happens for nop, and calling an empty callback throws. *)
ProcessNothing ==
  /\ At(Loop, "read")
  /\ handler \notin Ids
  /\ Leave(Loop)
  /\ UNCHANGED <<handler, kernel, alive, stack, calls, ghosts>>

(* The fired=true callback returns, or throws into the event loop. *)
FireReturn ==
  /\ At(Loop, "idle") /\ In(Loop, "fire")
  /\ Pop(Loop)
  /\ UNCHANGED <<handler, kernel, alive, call, calls, ghosts>>

(* The destructor erases the event and closes the timerfd; no callback is    *)
(* told.  Nobody is using the timer then.                                    *)
Destroy ==
  /\ alive
  /\ \A t \in Threads : At(t, "idle") /\ stack[t] = <<>>
  /\ alive' = FALSE
  /\ Settime("off")
  /\ setting' = 0
  /\ live' = 0
  /\ lost' = "no"
  /\ UNCHANGED <<handler, call, stack, calls, sets, mode, overlap>>

-----------------------------------------------------------------------------
SetSteps(t) == SetInstall(t) \/ SetTime(t)
CancelSteps(t) == CancelSwap(t) \/ CancelRunning(t) \/ CancelSilent(t) \/ CancelStop(t)
ProcessSteps(t) == t = Loop /\ (ProcessCall \/ ProcessNothing)
Returns(t) == CancelReturn(t) \/ CancelThrow(t) \/ (t = Loop /\ FireReturn)

Next ==
  \/ Elapse
  \/ \E t \in Threads :
       \/ \E m \in Modes : \E h \in Ids \cup {Empty} : SetLook(t, m, h)
       \/ CancelCopy(t)
       \/ SetSteps(t)
       \/ CancelSteps(t)
       \/ ProcessSteps(t)
       \/ Returns(t)
  \/ ProcessRead
  \/ Destroy

Spec == Init /\ [][Next]_vars

(* Time passes, threads are scheduled, callbacks return. *)
LiveSpec ==
  /\ Spec
  /\ WF_vars(Elapse)
  /\ \A t \in Threads :
       /\ WF_vars(SetSteps(t) \/ CancelSteps(t) \/ ProcessSteps(t))
       /\ SF_vars(Returns(t))
  /\ SF_vars(ProcessRead)

-----------------------------------------------------------------------------
Places == {"idle", "set", "installed", "copied", "swapped", "stopping", "read"}
Callbacks == Ids \cup {Nop, Empty}

(* Every variable has its type. *)
TypeOK ==
  /\ handler \in Callbacks
  /\ armed \in Modes \cup {"off"}
  /\ expired \in BOOLEAN
  /\ alive \in BOOLEAN
  /\ call \in [Threads -> [at : Places, id : Callbacks, m : Modes, n : 0..sets]]
  /\ stack \in [Threads -> Seq({"fire", "cancel"})]
  /\ sets \in 0..MaxSets
  /\ mode \in [Ids -> Modes]
  /\ setting \in 0..sets
  /\ fires \in [Ids -> 0..2]
  /\ cancels \in [Ids -> Nat]
  /\ live \in 0..sets
  /\ lost \in {"no", "undone", "dropped"}
  /\ astray \subseteq Ids
  /\ shared \subseteq Ids
  /\ overlap \in BOOLEAN

(* A callback that was told of the cancellation (fired=false) is not called  *)
(* with fired=true any more, not for an expiration that was already waiting  *)
(* or read, whatever other threads do; and it is not told again, by its own  *)
(* cancel() or another thread's, unless two threads were in cancel() with it *)
(* at once.                                                                  *)
SilentAfterCancel ==
  [][\A i \in Ids : cancels[i] > 0 =>
       /\ fires'[i] = fires[i]
       /\ cancels'[i] = cancels[i] \/ i \in shared]_vars

(* A single-shot timer reports once: fired, or canceled, but never both and  *)
(* never twice, however often it is set again or canceled from callbacks and *)
(* other threads.  It may report more only if its callback was called for    *)
(* another setting of the timer (between the lines of process(), cancel() or *)
(* set() of two threads), or two threads canceled it at once; and as long as *)
(* no two threads are inside the timer at the same time neither happens.     *)
SingleShotReportsOnce ==
  /\ \A i \in 1..sets : mode[i] = "single" /\ fires[i] + cancels[i] > 1 => i \in astray \cup shared
  /\ astray \cup shared # {} => overlap

(* timer.h:18-19: the timer starts when setting the period, and its callback *)
(* is called when the period elapsed.  So a timer that was set, and that     *)
(* nobody set again or canceled since, has fired, or has its callback in     *)
(* place and is running, has expired, is about to be started or to be        *)
(* called.  There are two ways to lose it and no other: a cancel() that was  *)
(* begun before goes on (its callback has called set(), or another thread),  *)
(* and set() while an empty callback is installed.                           *)
SetTimerIsPending ==
  live # 0 => \/ fires[live] > 0
              \/ /\ handler = live
                 /\ armed # "off" \/ expired \/ \E t \in Threads : call[t].at \in {"installed", "read"}
              \/ lost # "no"

(* The same as a liveness property: the callback of a timer that is left     *)
(* alone gets called, unless the timer was lost in one of the two ways.      *)
SetTimerFires == live # 0 ~> (live = 0 \/ fires[live] > 0 \/ lost # "no")
=============================================================================
