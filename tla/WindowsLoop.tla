----------------------------- MODULE WindowsLoop -----------------------------
(***************************************************************************)
(* The Windows build of event loop, timer and notifier (lib/sys/windows):  *)
(* an I/O completion port whose packets carry a handle as their key, and   *)
(* m_eventInfos, which maps handles to callbacks.                          *)
(*                                                                         *)
(* The loop, the thread of the timer queue and threads that use timers run *)
(* concurrently.  set() is split where another thread can see the          *)
(* difference; inLoop says that it is called from a callback of the loop,  *)
(* which waits for it.                                                     *)
(***************************************************************************)
EXTENDS Naturals, Sequences, FiniteSets

CONSTANTS
  Timers,
  Handles,    \* handles of the timer queue
  Null,       \* WSA_INVALID_EVENT, the key that stops the loop
  Notifier,   \* the event of a notifier
  Socket,     \* the event of a socket
  MaxSets,    \* bound: calls of set() and cancel() of a timer
  MaxPort,    \* bound: packets in the port
  MaxNotify   \* bound: calls of notify()

Keys == Handles \cup {Notifier, Socket}
Nobody == "nobody"
None == [timer |-> Nobody, setting |-> 0]
Expired == [timer |-> "expired", setting |-> 0]

(* A handle, NULL and the two events are different; so is what a handle or   *)
(* a setting may belong to.                                                  *)
ASSUME WindowsAssumption ==
  /\ {Null, Notifier, Socket} \cap Handles = {}
  /\ Null # Notifier /\ Null # Socket /\ Notifier # Socket
  /\ Timers \cap {Nobody, Expired.timer, Notifier, Socket} = {}
  /\ Nobody \notin {Notifier, Socket}
  /\ {MaxSets, MaxPort, MaxNotify} \subseteq Nat

VARIABLES
  port,      \* the completion port: packets with key, status, and by whom
  infos,     \* m_eventInfos: the owner of the callback, or Nobody
  loop,      \* where execute() is
  packet,    \* the packet it has taken
  retval,    \* the callback has returned a positive value
  asked,     \* calls of stop() that have not ended an execute() yet
  ended,     \* why execute() returned last
  timer,     \* per timer: hEvent, progress of set(), number of the setting, and
             \* whether it expired before it was registered and was reported
  queue,     \* the timer queue: the setting each handle was created for
  timerCb,   \* the setting timerCb has been called for, or None
  overlap,   \* set() or cancel() was called while timerCb was running
  reused,    \* a handle was given out while the port had packets of it
  stale,     \* it was called for a setting that was not the present one
  notified,  \* calls of notify()
  called     \* calls of the notifier's callback

portVars == <<port, infos, asked>>
loopVars == <<loop, packet, retval, ended>>
timerVars == <<timer, queue, timerCb, overlap, reused, stale>>
notifierVars == <<notified, called>>
vars == <<portVars, loopVars, timerVars, notifierVars>>

(* The record of a timer whose next setting begins. *)
Fresh(at, inLoop, setting) ==
  [hEvent |-> Null, at |-> at, inLoop |-> inLoop, setting |-> setting, early |-> FALSE, reported |-> FALSE]

NoPacket == [key |-> Null, status |-> "ok", by |-> None]

Init ==
  /\ port = <<>>
  /\ infos = [k \in Keys |-> IF k = Notifier THEN Notifier ELSE Nobody]
  /\ asked = 0
  /\ loop = "out"
  /\ packet = NoPacket
  /\ retval = FALSE
  /\ ended = "not"
  /\ timer = [t \in Timers |-> Fresh("idle", FALSE, 0)]
  /\ queue = [h \in Handles |-> None]
  /\ timerCb = None
  /\ overlap = FALSE
  /\ reused = FALSE
  /\ stale = FALSE
  /\ notified = 0
  /\ called = 0

Setting(t) == [timer |-> t, setting |-> timer[t].setting]

Post(key, status, by) ==
  /\ Len(port) < MaxPort
  /\ port' = Append(port, [key |-> key, status |-> status, by |-> by])

-----------------------------------------------------------------------------
(* EventLoop *)

(* addEvent and eraseEvent, as a socket uses them. *)
AddEvent ==
  /\ infos' = [infos EXCEPT ![Socket] = Socket]
  /\ UNCHANGED <<port, asked, loopVars, timerVars, notifierVars>>

EraseEvent ==
  /\ infos' = [infos EXCEPT ![Socket] = Nobody]
  /\ UNCHANGED <<port, asked, loopVars, timerVars, notifierVars>>

(* External: an overlapped operation of the socket ends. *)
OperationEnds(status) ==
  /\ Post(Socket, status, None)
  /\ UNCHANGED <<infos, asked, loopVars, timerVars, notifierVars>>

Stop ==
  /\ asked = 0
  /\ Post(Null, "ok", None)
  /\ asked' = asked + 1
  /\ UNCHANGED <<infos, loopVars, timerVars, notifierVars>>

Execute ==
  /\ loop = "out"
  /\ loop' = "wait"
  /\ ended' = "not"
  /\ UNCHANGED <<portVars, packet, retval, timerVars, notifierVars>>

(* The loop calls back with the mutex, so that eraseEvent and addEvent of    *)
(* another thread wait.                                                      *)
Calling == loop \in {"call", "call once"}

(* The loop thread runs unless it is in a set() of one of its callbacks. *)
LoopRuns == \A t \in Timers : ~timer[t].inLoop

(* GetQueuedCompletionStatus: a stop, a callback to call until it has no     *)
(* more to do, one to call once (ERROR_NETNAME_DELETED), nothing             *)
(* (ERROR_OPERATION_ABORTED), or another error, which ends execute().        *)
Dequeue ==
  LET p == Head(port)
      stops == p.status = "ok" /\ p.key = Null
  IN
  /\ loop = "wait"
  /\ port # <<>>
  /\ port' = Tail(port)
  /\ loop' = CASE stops \/ p.status = "error" -> "out"
               [] ~stops /\ p.status = "ok"   -> "find"
               [] p.status = "deleted"        -> "once"
               [] p.status = "aborted"        -> "wait"
  /\ packet' = IF loop' \in {"find", "once"} THEN p ELSE NoPacket
  /\ retval' = FALSE
  /\ ended' = CASE p.status = "error"  -> "error"
                [] stops /\ asked > 0  -> "asked"
                [] stops /\ asked = 0  -> "not asked"
                [] ~stops /\ p.status # "error" -> ended
  /\ asked' = IF stops /\ asked > 0 THEN asked - 1 ELSE asked
  /\ UNCHANGED <<infos, timerVars, notifierVars>>

(* With the mutex, the callback is looked up and called. *)
CallHandler ==
  LET owner == infos[packet.key] IN
  /\ loop \in {"find", "once"}
  /\ owner # Nobody
  /\ loop' = IF loop = "find" THEN "call" ELSE "call once"
  /\ timer' = [t \in Timers |-> IF t = owner THEN [timer[t] EXCEPT !.reported = TRUE] ELSE timer[t]]
  /\ stale' = (stale \/ (owner \in Timers /\ packet.by # Setting(owner)))
  /\ called' = IF owner = Notifier THEN called + 1 ELSE called
  /\ UNCHANGED <<portVars, packet, retval, ended, queue, timerCb, overlap, reused, notified>>

(* There is none: retval keeps the value of the call before, so that the     *)
(* loop goes on forever if that one was positive.                            *)
NoHandler ==
  /\ loop \in {"find", "once"}
  /\ infos[packet.key] = Nobody
  /\ loop' = IF retval THEN loop ELSE "wait"
  /\ packet' = IF retval THEN packet ELSE NoPacket
  /\ UNCHANGED <<portVars, retval, ended, timerVars, notifierVars>>

Returned(values) ==
  /\ Calling
  /\ retval' \in IF loop = "call" THEN values ELSE {FALSE}
  /\ loop' = IF retval' THEN "find" ELSE "wait"
  /\ packet' = IF retval' THEN packet ELSE NoPacket
  /\ UNCHANGED <<portVars, ended, timerVars, notifierVars>>

(* Mutant: a callback that returns 0 is called again. *)
HandlerReturnsZeroMore == Returned(BOOLEAN)

(* Timer and notifier return 0, a socket may have more to read. *)
HandlerReturns == Returned(IF packet.key = Socket THEN BOOLEAN ELSE {FALSE})

(* Nobody catches the exception: it leaves execute(). *)
HandlerThrows ==
  /\ Calling
  /\ loop' = "out"
  /\ ended' = "exception"
  /\ packet' = NoPacket
  /\ retval' = FALSE
  /\ UNCHANGED <<portVars, timerVars, notifierVars>>

-----------------------------------------------------------------------------
(* Timer *)

(* External: the timer queue calls timerCb.  A timer that is not repeated    *)
(* expires once.                                                             *)
Expire(h, repeated) ==
  /\ queue[h].timer \in Timers
  /\ timerCb = None
  /\ timerCb' = queue[h]
  /\ queue' = IF repeated THEN queue ELSE [queue EXCEPT ![h] = Expired]
  /\ timer' = [timer EXCEPT ![queue[h].timer].early = @ \/ timer[queue[h].timer].at = "created"]
  /\ UNCHANGED <<portVars, loopVars, overlap, reused, stale, notifierVars>>

(* timerCb posts the handle that hEvent holds by now. *)
TimerCb ==
  /\ timerCb # None
  /\ Post(timer[timerCb.timer].hEvent, "ok", timerCb)
  /\ timerCb' = None
  /\ UNCHANGED <<infos, asked, loopVars, timer, queue, overlap, reused, stale, notifierVars>>

Without(f, k, none) == [x \in DOMAIN f |-> IF x = k THEN none ELSE f[x]]

Canceled(t) == Fresh("idle", FALSE, timer[t].setting + 1)

(* eraseEvent and DeleteTimerQueueTimer, which does not wait for timerCb. *)
EndSetting(t, then) ==
  /\ infos' = Without(infos, timer[t].hEvent, Nobody)
  /\ queue' = Without(queue, timer[t].hEvent, None)
  /\ timer' = [timer EXCEPT ![t] = then]
  /\ overlap' = (overlap \/ timerCb.timer = t)
  /\ UNCHANGED <<port, asked, loopVars, timerCb, reused, stale, notifierVars>>

(* set(), up to m_eventHandler = eventHandler, *)
SetErase(t, inLoop) ==
  /\ timer[t].at = "idle"
  /\ timer[t].setting < MaxSets
  /\ inLoop <=> Calling
  /\ inLoop => LoopRuns
  /\ EndSetting(t, Fresh("erased", inLoop, timer[t].setting + 1))

(* CreateTimerQueueTimer, which may give out a handle that was deleted, *)
SetCreate(t, h) ==
  /\ timer[t].at = "erased"
  /\ queue[h] = None
  /\ queue' = [queue EXCEPT ![h] = Setting(t)]
  /\ timer' = [timer EXCEPT ![t].hEvent = h, ![t].at = "created"]
  /\ reused' = \/ reused
               \/ loop = "find" /\ packet.key = h
               \/ \E k \in DOMAIN port : port[k].key = h
  /\ UNCHANGED <<portVars, loopVars, timerCb, overlap, stale, notifierVars>>

(* or fail, *)
SetFails(t) ==
  /\ timer[t].at = "erased"
  /\ timer' = [timer EXCEPT ![t].at = "idle", ![t].inLoop = FALSE]
  /\ UNCHANGED <<portVars, loopVars, queue, timerCb, overlap, reused, stale, notifierVars>>

(* and addEvent. *)
SetAdd(t) ==
  /\ timer[t].at = "created"
  /\ timer[t].inLoop \/ ~Calling
  /\ infos' = [infos EXCEPT ![timer[t].hEvent] = t]
  /\ timer' = [timer EXCEPT ![t].at = "idle", ![t].inLoop = FALSE]
  /\ UNCHANGED <<port, asked, loopVars, queue, timerCb, overlap, reused, stale, notifierVars>>


(* Mutant: the timer is not deleted. *)
CancelOnlyErases(t) ==
  /\ timer[t].at = "idle"
  /\ timer[t].setting < MaxSets
  /\ infos' = Without(infos, timer[t].hEvent, Nobody)
  /\ timer' = [timer EXCEPT ![t] = Canceled(t)]
  /\ overlap' = (overlap \/ timerCb.timer = t)
  /\ UNCHANGED <<port, asked, loopVars, queue, timerCb, reused, stale, notifierVars>>

(* Mutant: the event is not erased. *)
CancelOnlyDeletes(t) ==
  /\ timer[t].at = "idle"
  /\ timer[t].setting < MaxSets
  /\ queue' = Without(queue, timer[t].hEvent, None)
  /\ timer' = [timer EXCEPT ![t] = Canceled(t)]
  /\ overlap' = (overlap \/ timerCb.timer = t)
  /\ UNCHANGED <<port, infos, asked, loopVars, timerCb, reused, stale, notifierVars>>

(* cancel(), which calls the callback with fired = false, set or not. *)
Cancel(t) ==
  /\ timer[t].at = "idle"
  /\ timer[t].setting < MaxSets
  /\ EndSetting(t, Canceled(t))

-----------------------------------------------------------------------------
(* Notifier *)

Notify ==
  /\ infos[Notifier] # Nobody
  /\ notified < MaxNotify
  /\ Post(Notifier, "ok", None)
  /\ notified' = notified + 1
  /\ UNCHANGED <<infos, asked, loopVars, timerVars, called>>

(* The destructor: packets stay in the port. *)
CloseNotifier ==
  /\ loop = "call" => packet.key # Notifier
  /\ infos' = [infos EXCEPT ![Notifier] = Nobody]
  /\ UNCHANGED <<port, asked, loopVars, timerVars, notifierVars>>

LoopStep ==
  LoopRuns /\ (Execute \/ Dequeue \/ CallHandler \/ NoHandler \/ HandlerReturns \/ HandlerThrows)

SetStep(t) ==
  \/ \E inLoop \in BOOLEAN : SetErase(t, inLoop)
  \/ \E h \in Handles : SetCreate(t, h)
  \/ SetFails(t) \/ SetAdd(t) \/ Cancel(t)

Next ==
  \/ AddEvent \/ EraseEvent \/ Stop \/ LoopStep \/ TimerCb \/ Notify \/ CloseNotifier
  \/ \E status \in {"ok", "deleted", "aborted", "error"} : OperationEnds(status)
  \/ \E h \in Handles, repeated \in BOOLEAN : Expire(h, repeated)
  \/ \E t \in Timers : SetStep(t)

Spec == Init /\ [][Next]_vars

-----------------------------------------------------------------------------
(* execute() returns for a stop(), an error or an exception.  There is one   *)
(* more way: timerCb (timer.cpp:20) posts the handle it reads from its       *)
(* timer, which set() or cancel() of another thread sets to NULL meanwhile,  *)
(* and NULL is the key that stops the loop (eventloop.cpp:137).              *)
ReturnsOnlyWhenAsked == ended = "not asked" => overlap

(* A callback with fired = true is for an expiration of the present setting  *)
(* of its timer, not of one that was replaced or canceled while its packet   *)
(* was in the port; and no expiration is lost.  The exceptions are a handle  *)
(* that is given out again while packets of its former timer are in the      *)
(* port, timerCb overlapping with set() or cancel(), and a timer that        *)
(* expires before the set() of another thread has registered it              *)
(* (timer.cpp:67).                                                           *)
TimerReportsItsSetting ==
  ~overlap /\ ~reused =>
    /\ ~stale
    /\ \A t \in Timers :
         timer[t].at = "idle" /\ timer[t].hEvent # Null /\ ~timer[t].early
           => \/ queue[timer[t].hEvent] = Setting(t)
              \/ timerCb = Setting(t)
              \/ timer[t].reported
              \/ \E k \in DOMAIN port : port[k].by = Setting(t)
              \/ loop = "find" /\ packet.by = Setting(t)

(* The notifier of Windows: its calls are in the port. *)
Pending ==
  IF infos[Notifier] = Nobody THEN 0
  ELSE Cardinality({k \in DOMAIN port : port[k].key = Notifier})
         + (IF loop = "find" /\ packet.key = Notifier THEN 1 ELSE 0)

Abstract == INSTANCE Notification WITH pending <- Pending, open <- infos[Notifier] # Nobody, stalled <- FALSE

(* Every notify() becomes exactly one call of the callback, whatever else    *)
(* passes through the port and whenever execute() returns and is called      *)
(* again (notifier.h:17).                                                    *)
NotifiesOneByOne == Abstract!Spec
=============================================================================
