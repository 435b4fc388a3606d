------------------------- MODULE WindowsLoopProofs -------------------------
(***************************************************************************)
(* Proofs about WindowsLoop for any number of timers and handles and any   *)
(* length of the port.                                                     *)
(***************************************************************************)
EXTENDS WindowsLoop, FiniteSetTheorems, SequenceTheorems, TLAPS

Settings == [timer : Timers, setting : Nat]

Packets ==
  [key : Keys \cup {Null}, status : {"ok", "deleted", "aborted", "error"}, by : Settings \cup {None}]

TimerStates ==
  [hEvent : Handles \cup {Null}, at : {"idle", "erased", "created"}, inLoop : BOOLEAN,
   setting : Nat, early : BOOLEAN, reported : BOOLEAN]

(* Every variable has its type. *)
Types ==
  /\ port \in Seq(Packets)
  /\ infos \in [Keys -> Timers \cup {Nobody, Notifier, Socket}]
  /\ asked \in {0, 1}
  /\ loop \in {"out", "wait", "find", "once", "call", "call once"}
  /\ packet \in Packets
  /\ retval \in BOOLEAN
  /\ ended \in {"not", "asked", "not asked", "error", "exception"}
  /\ timer \in [Timers -> TimerStates]
  /\ queue \in [Handles -> Settings \cup {None, Expired}]
  /\ timerCb \in Settings \cup {None}
  /\ overlap \in BOOLEAN /\ reused \in BOOLEAN /\ stale \in BOOLEAN
  /\ notified \in Nat /\ called \in Nat

-----------------------------------------------------------------------------
(* A handle belongs to one timer, from CreateTimerQueueTimer to              *)
(* DeleteTimerQueueTimer; while it does, the queue has its setting or has    *)
(* let it expire.                                                            *)
OneOwner ==
  /\ \A h \in Handles : queue[h].timer \in Timers =>
       timer[queue[h].timer].hEvent = h /\ queue[h] = Setting(queue[h].timer)
  /\ \A t \in Timers : timer[t].hEvent # Null => queue[timer[t].hEvent] \in {Setting(t), Expired}
  /\ \A t, u \in Timers : t # u /\ timer[t].hEvent = timer[u].hEvent => timer[t].hEvent = Null

(* m_eventInfos has the timers whose set() has returned, under their handle. *)
InfosOfTimers ==
  /\ \A t \in Timers : /\ timer[t].at = "erased" => timer[t].hEvent = Null
                       /\ timer[t].at = "created" => timer[t].hEvent # Null
                       /\ timer[t].at = "idle" /\ timer[t].hEvent # Null => infos[timer[t].hEvent] = t
  /\ \A h \in Handles : /\ infos[h] \in Timers \cup {Nobody}
                        /\ infos[h] \in Timers => timer[infos[h]].hEvent = h /\ timer[infos[h]].at = "idle"
  /\ infos[Socket] \in {Socket, Nobody}
  /\ infos[Notifier] \in {Notifier, Nobody}

(* An expiration is of a setting that has been made: the present one has a   *)
(* handle.                                                                   *)
Made(s) ==
  s # None =>
    /\ s.setting <= timer[s.timer].setting
    /\ timer[s.timer].hEvent = Null => s.setting < timer[s.timer].setting

(* Without overlap, timerCb finds the handle of the setting it runs for. *)
CallbackFits ==
  /\ Made(timerCb)
  /\ ~overlap /\ timerCb # None => timerCb = Setting(timerCb.timer) /\ timer[timerCb.timer].hEvent # Null

(* A packet of a timer carries the handle it had when it was posted. *)
WellFormed(p) ==
  /\ p.status # "ok" => p.key = Socket
  /\ Made(p.by)
  /\ ~overlap /\ p.by # None => p.key \in Handles
  /\ ~overlap => \A t \in Timers : p.by = Setting(t) => p.key = timer[t].hEvent

(* The timer that has the handle of a packet by now is the one it is from. *)
OfOwner(p) ==
  ~overlap /\ ~reused => \A t \in Timers : p.key # Null /\ p.key = timer[t].hEvent => p.by = Setting(t)

InPort == {port[k] : k \in DOMAIN port}

Waiting == \A p \in InPort : WellFormed(p) /\ OfOwner(p)

Taken ==
  /\ WellFormed(packet)
  /\ loop \in {"find", "once", "call", "call once"} => packet.key \in Keys
  /\ loop = "find" => OfOwner(packet)
  /\ loop = "once" => packet.key = Socket

(* Without overlap, the one packet with NULL is that of a stop(). *)
StopsAsked ==
  ~overlap => \A j, k \in DOMAIN port : port[j].key = Null /\ port[k].key = Null => j = k /\ asked = 1

(* Nothing is lost: TimerReportsItsSetting, and a setting that has not been  *)
(* registered yet.                                                           *)
NotLost(t) ==
  \/ queue[timer[t].hEvent] = Setting(t)
  \/ timer[t].at = "idle" /\ ( \/ timerCb = Setting(t)
                               \/ timer[t].reported
                               \/ \E p \in InPort : p.by = Setting(t)
                               \/ loop = "find" /\ packet.by = Setting(t) )

Reports ==
  ~overlap /\ ~reused => ~stale /\ \A t \in Timers : timer[t].hEvent # Null /\ ~timer[t].early => NotLost(t)

-----------------------------------------------------------------------------
(* The port: a packet is appended, *)
LEMMA Posted ==
  ASSUME port \in Seq(Packets), NEW p \in Packets, port' = Append(port, p)
  PROVE  /\ port' \in Seq(Packets)
         /\ Len(port) \in Nat
         /\ DOMAIN port = 1..Len(port)
         /\ DOMAIN port' = 1..Len(port) + 1
         /\ \A k \in 1..Len(port) : port'[k] = port[k]
         /\ port'[Len(port) + 1] = p
         /\ InPort' = InPort \cup {p}
<1>1. /\ port' \in Seq(Packets) /\ Len(port) \in Nat
      /\ DOMAIN port = 1..Len(port) /\ DOMAIN port' = 1..Len(port) + 1
      /\ \A k \in 1..Len(port) : port'[k] = port[k]
      /\ port'[Len(port) + 1] = p
  BY AppendProperties, LenProperties
<1>2. InPort' = InPort \cup {p}
  BY <1>1 DEF InPort
<1> QED BY <1>1, <1>2

(* and the first one is taken off. *)
LEMMA Dequeued ==
  ASSUME port \in Seq(Packets), port # <<>>, port' = Tail(port)
  PROVE  /\ port' \in Seq(Packets)
         /\ Head(port) \in Packets
         /\ Len(port) \in Nat \ {0}
         /\ Head(port) = port[1]
         /\ DOMAIN port = 1..Len(port)
         /\ DOMAIN port' = 1..Len(port) - 1
         /\ \A k \in 1..Len(port) - 1 : port'[k] = port[k + 1]
         /\ InPort = InPort' \cup {Head(port)}
<1>1. /\ port' \in Seq(Packets) /\ Head(port) \in Packets /\ Head(port) = port[1]
      /\ Len(port') = Len(port) - 1
      /\ \A k \in 1..Len(port') : port'[k] = port[k + 1]
  BY HeadTailProperties
<1>2. /\ Len(port) \in Nat /\ DOMAIN port = 1..Len(port) /\ DOMAIN port' = 1..Len(port')
      /\ Len(port) # 0
  BY <1>1, LenProperties, EmptySeq
<1>3. InPort \subseteq InPort' \cup {Head(port)}
  <2> SUFFICES ASSUME NEW k \in 1..Len(port)
               PROVE  port[k] \in InPort' \cup {Head(port)}
    BY <1>2 DEF InPort
  <2>1. CASE k = 1
    BY <2>1, <1>1
  <2>2. CASE k # 1
    <3>1. k - 1 \in DOMAIN port' /\ port'[k - 1] = port[k]
      BY <2>2, <1>1, <1>2
    <3> QED BY <3>1 DEF InPort
  <2> QED BY <2>1, <2>2
<1>4. InPort' \cup {Head(port)} \subseteq InPort
  <2>1. \A k \in DOMAIN port' : k + 1 \in DOMAIN port /\ port'[k] = port[k + 1]
    BY <1>1, <1>2
  <2>2. 1 \in DOMAIN port
    BY <1>2
  <2> QED BY <1>1, <2>1, <2>2 DEF InPort
<1> QED BY <1>1, <1>2, <1>3, <1>4

LEMMA StateTypes ==
  /\ NoPacket \in Packets
  /\ \A at \in {"idle", "erased"}, inLoop \in BOOLEAN, n \in Nat : Fresh(at, inLoop, n) \in TimerStates
  /\ None \notin Settings /\ Expired \notin Settings /\ None # Expired
  /\ None.timer \notin Timers /\ Expired.timer \notin Timers
<1>1. NoPacket \in Packets
  BY DEF NoPacket, Packets
<1>2. \A at \in {"idle", "erased"}, inLoop \in BOOLEAN, n \in Nat : Fresh(at, inLoop, n) \in TimerStates
  BY DEF Fresh, TimerStates
<1>3. None.timer \notin Timers /\ Expired.timer \notin Timers
  BY WindowsAssumption DEF None
<1>4. None \notin Settings /\ Expired \notin Settings
  BY <1>3 DEF Settings
<1>5. None # Expired
  BY DEF None, Expired, Nobody
<1> QED BY <1>1, <1>2, <1>3, <1>4, <1>5

(* The ways a step changes the port. *)
LEMMA PostTypes ==
  ASSUME port \in Seq(Packets), NEW key \in Keys \cup {Null}, NEW status \in {"ok", "deleted", "aborted", "error"},
         NEW by \in Settings \cup {None}, Post(key, status, by)
  PROVE  /\ [key |-> key, status |-> status, by |-> by] \in Packets
         /\ port' = Append(port, [key |-> key, status |-> status, by |-> by])
         /\ port' \in Seq(Packets)
<1>1. [key |-> key, status |-> status, by |-> by] \in Packets
  BY DEF Packets
<1> QED BY <1>1, Posted DEF Post

LEMMA DequeueTypes ==
  ASSUME Types, Dequeue
  PROVE  Types'
<1> DEFINE p == Head(port)
           stops == p.status = "ok" /\ p.key = Null
<1>1. p \in Packets /\ port' \in Seq(Packets)
  BY Dequeued DEF Dequeue, Types
<1>2. p.status \in {"ok", "deleted", "aborted", "error"}
  BY <1>1 DEF Packets
<1>3. loop' = CASE stops \/ p.status = "error" -> "out"
                [] ~stops /\ p.status = "ok"   -> "find"
                [] p.status = "deleted"        -> "once"
                [] p.status = "aborted"        -> "wait"
  BY DEF Dequeue
<1>4. loop' \in {"out", "find", "once", "wait"}
  BY <1>2, <1>3
<1>5. ended' = CASE p.status = "error"  -> "error"
                 [] stops /\ asked > 0  -> "asked"
                 [] stops /\ asked = 0  -> "not asked"
                 [] ~stops /\ p.status # "error" -> ended
  BY DEF Dequeue
<1>6. asked \in {0, 1} /\ (asked > 0 \/ asked = 0)
  <2>1. asked \in {0, 1}
    BY DEF Types
  <2> QED BY <2>1, SMT
<1>7. ended' \in {"not", "asked", "not asked", "error", "exception"}
  BY <1>2, <1>5, <1>6 DEF Types
<1>8. packet' \in Packets
  BY <1>1, StateTypes DEF Dequeue, Types
<1>9. asked' \in {0, 1}
  <2>1. asked' = IF stops /\ asked > 0 THEN asked - 1 ELSE asked
    BY DEF Dequeue
  <2> HIDE DEF stops
  <2> QED BY <1>6, <2>1
<1>10. UNCHANGED <<infos, timer, queue, timerCb, overlap, reused, stale, notified, called>> /\ retval' = FALSE
  BY DEF Dequeue, timerVars, notifierVars
<1> QED BY <1>1, <1>4, <1>7, <1>8, <1>9, <1>10 DEF Types
(* What a step of a timer does to its handle, its setting and its state. *)
LEMMA EndSettingEffect ==
  ASSUME Types, NEW t \in Timers, timer[t].at = "idle", NEW then \in TimerStates, then.hEvent = Null,
         EndSetting(t, then)
  PROVE  /\ timer' \in [Timers -> TimerStates]
         /\ infos' \in [Keys -> Timers \cup {Nobody, Notifier, Socket}]
         /\ queue' \in [Handles -> Settings \cup {None, Expired}]
         /\ timer'[t] = then
         /\ \A u \in Timers \ {t} : timer'[u] = timer[u]
         /\ \A k \in Keys : infos'[k] = IF k = timer[t].hEvent THEN Nobody ELSE infos[k]
         /\ \A h \in Handles : queue'[h] = IF h = timer[t].hEvent THEN None ELSE queue[h]
         /\ overlap' = (overlap \/ timerCb.timer = t)
         /\ UNCHANGED <<port, asked, loop, packet, retval, ended, timerCb, reused, stale, notified, called>>
<1>1. /\ infos' = [k \in Keys |-> IF k = timer[t].hEvent THEN Nobody ELSE infos[k]]
      /\ queue' = [h \in Handles |-> IF h = timer[t].hEvent THEN None ELSE queue[h]]
      /\ timer' = [timer EXCEPT ![t] = then]
      /\ overlap' = (overlap \/ timerCb.timer = t)
      /\ UNCHANGED <<port, asked, loop, packet, retval, ended, timerCb, reused, stale, notified, called>>
  BY DEF EndSetting, Without, Types, loopVars, notifierVars
<1> QED BY <1>1 DEF Types

LEMMA SetCreateEffect ==
  ASSUME Types, NEW t \in Timers, NEW h \in Handles, SetCreate(t, h)
  PROVE  /\ timer' \in [Timers -> TimerStates]
         /\ queue' \in [Handles -> Settings \cup {None, Expired}]
         /\ timer[t].at = "erased" /\ queue[h] = None
         /\ timer'[t].hEvent = h /\ timer'[t].at = "created"
         /\ timer'[t].setting = timer[t].setting /\ timer'[t].early = timer[t].early
         /\ timer'[t].reported = timer[t].reported
         /\ \A u \in Timers \ {t} : timer'[u] = timer[u]
         /\ queue'[h] = Setting(t)
         /\ \A k \in Handles \ {h} : queue'[k] = queue[k]
         /\ ~reused' => ~reused /\ ~(loop = "find" /\ packet.key = h) /\ \A p \in InPort : p.key # h
         /\ reused' \in BOOLEAN
         /\ UNCHANGED <<portVars, loopVars, timerCb, overlap, stale, notifierVars>>
<1>1. /\ timer[t].at = "erased" /\ queue[h] = None
      /\ queue' = [queue EXCEPT ![h] = Setting(t)]
      /\ timer' = [timer EXCEPT ![t].hEvent = h, ![t].at = "created"]
      /\ reused' = (reused \/ (loop = "find" /\ packet.key = h) \/ \E k \in DOMAIN port : port[k].key = h)
      /\ UNCHANGED <<portVars, loopVars, timerCb, overlap, stale, notifierVars>>
  BY DEF SetCreate
<1>2. Setting(t) \in Settings
  BY DEF Setting, Settings, Types, TimerStates
<1>3. /\ timer' \in [Timers -> TimerStates]
      /\ timer'[t].hEvent = h /\ timer'[t].at = "created"
      /\ timer'[t].setting = timer[t].setting /\ timer'[t].early = timer[t].early
      /\ timer'[t].reported = timer[t].reported
      /\ \A u \in Timers \ {t} : timer'[u] = timer[u]
  BY <1>1 DEF Types, TimerStates
<1>4. /\ queue' \in [Handles -> Settings \cup {None, Expired}]
      /\ queue'[h] = Setting(t)
      /\ \A k \in Handles \ {h} : queue'[k] = queue[k]
  BY <1>1, <1>2 DEF Types
<1>5. ~reused' => ~reused /\ ~(loop = "find" /\ packet.key = h) /\ \A p \in InPort : p.key # h
  BY <1>1 DEF InPort
<1>6. reused' \in BOOLEAN
  BY <1>1 DEF Types
<1> QED BY <1>1, <1>3, <1>4, <1>5, <1>6

(* A set() that ends, registering its handle or not. *)
LEMMA SetEndsEffect ==
  ASSUME Types, NEW t \in Timers, SetAdd(t) \/ SetFails(t)
  PROVE  /\ timer' \in [Timers -> TimerStates]
         /\ timer'[t].at = "idle"
         /\ timer'[t].hEvent = timer[t].hEvent
         /\ timer'[t].setting = timer[t].setting /\ timer'[t].early = timer[t].early
         /\ timer'[t].reported = timer[t].reported
         /\ \A u \in Timers \ {t} : timer'[u] = timer[u]
         /\ UNCHANGED <<port, asked, loopVars, queue, timerCb, overlap, reused, stale, notifierVars>>
<1>1. /\ timer' = [timer EXCEPT ![t].at = "idle", ![t].inLoop = FALSE]
      /\ UNCHANGED <<port, asked, loopVars, queue, timerCb, overlap, reused, stale, notifierVars>>
  BY DEF SetAdd, SetFails, portVars
<1> DEFINE new == [timer[t] EXCEPT !.at = "idle", !.inLoop = FALSE]
<1>2. timer[t] \in TimerStates
  BY DEF Types
<1>3. /\ new \in TimerStates /\ new.at = "idle" /\ new.hEvent = timer[t].hEvent
      /\ new.setting = timer[t].setting /\ new.early = timer[t].early /\ new.reported = timer[t].reported
  BY <1>2 DEF TimerStates
<1>4. timer' = [timer EXCEPT ![t] = new]
  BY <1>1
<1> HIDE DEF new
<1>5. /\ timer' \in [Timers -> TimerStates] /\ timer'[t] = new
      /\ \A u \in Timers \ {t} : timer'[u] = timer[u]
  BY <1>3, <1>4 DEF Types
<1> QED BY <1>1, <1>3, <1>5

LEMMA ExpireEffect ==
  ASSUME Types, NEW h \in Handles, NEW repeated \in BOOLEAN, Expire(h, repeated)
  PROVE  /\ queue[h].timer \in Timers /\ queue[h] \in Settings
         /\ timerCb = None /\ timerCb' = queue[h]
         /\ queue' \in [Handles -> Settings \cup {None, Expired}]
         /\ queue'[h] \in {queue[h], Expired}
         /\ \A k \in Handles \ {h} : queue'[k] = queue[k]
         /\ timer' \in [Timers -> TimerStates]
         /\ \A u \in Timers :
              /\ timer'[u].hEvent = timer[u].hEvent /\ timer'[u].at = timer[u].at
              /\ timer'[u].setting = timer[u].setting /\ timer'[u].reported = timer[u].reported
              /\ timer[u].early => timer'[u].early
              /\ u = queue[h].timer /\ timer[u].at = "created" => timer'[u].early
              /\ u # queue[h].timer => timer'[u].early = timer[u].early
         /\ UNCHANGED <<portVars, loopVars, overlap, reused, stale, notifierVars>>
<1> DEFINE t == queue[h].timer
           late == timer[t].early \/ timer[t].at = "created"
<1>1. /\ t \in Timers
      /\ timerCb = None /\ timerCb' = queue[h]
      /\ queue' = IF repeated THEN queue ELSE [queue EXCEPT ![h] = Expired]
      /\ timer' = [timer EXCEPT ![t].early = late]
      /\ UNCHANGED <<portVars, loopVars, overlap, reused, stale, notifierVars>>
  BY DEF Expire, Types
<1>2. queue[h] \in Settings
  BY <1>1, StateTypes DEF Types
<1>3. /\ queue' \in [Handles -> Settings \cup {None, Expired}]
      /\ queue'[h] \in {queue[h], Expired}
      /\ \A k \in Handles \ {h} : queue'[k] = queue[k]
  BY <1>1 DEF Types
<1>4. late \in BOOLEAN
  BY <1>1 DEF Types, TimerStates
<1> HIDE DEF t, late
<1>5. timer' \in [Timers -> TimerStates] /\ timer'[t] = [timer[t] EXCEPT !.early = late]
      /\ \A u \in Timers \ {t} : timer'[u] = timer[u]
  BY <1>1, <1>4, ZenonT(60) DEF Types, TimerStates
<1>6. /\ timer'[t].hEvent = timer[t].hEvent /\ timer'[t].at = timer[t].at
      /\ timer'[t].setting = timer[t].setting /\ timer'[t].reported = timer[t].reported
      /\ timer'[t].early = late
  BY <1>1, <1>5 DEF Types, TimerStates
<1> QED BY <1>1, <1>2, <1>3, <1>5, <1>6 DEF late, t

LEMMA CallHandlerEffect ==
  ASSUME Types, CallHandler
  PROVE  /\ loop \in {"find", "once"} /\ infos[packet.key] # Nobody
         /\ loop' = IF loop = "find" THEN "call" ELSE "call once"
         /\ timer' \in [Timers -> TimerStates]
         /\ \A u \in Timers :
              /\ timer'[u].hEvent = timer[u].hEvent /\ timer'[u].at = timer[u].at
              /\ timer'[u].setting = timer[u].setting /\ timer'[u].early = timer[u].early
              /\ timer[u].reported => timer'[u].reported
              /\ u = infos[packet.key] => timer'[u].reported
         /\ stale' = (stale \/ (infos[packet.key] \in Timers /\ packet.by # Setting(infos[packet.key])))
         /\ called' = IF infos[packet.key] = Notifier THEN called + 1 ELSE called
         /\ UNCHANGED <<portVars, packet, retval, ended, queue, timerCb, overlap, reused, notified>>
<1> DEFINE owner == infos[packet.key]
<1>1. /\ loop \in {"find", "once"} /\ owner # Nobody
      /\ loop' = IF loop = "find" THEN "call" ELSE "call once"
      /\ timer' = [t \in Timers |-> IF t = owner THEN [timer[t] EXCEPT !.reported = TRUE] ELSE timer[t]]
      /\ stale' = (stale \/ (owner \in Timers /\ packet.by # Setting(owner)))
      /\ called' = IF owner = Notifier THEN called + 1 ELSE called
      /\ UNCHANGED <<portVars, packet, retval, ended, queue, timerCb, overlap, reused, notified>>
  BY DEF CallHandler
<1> HIDE DEF owner
<1>2. ASSUME NEW u \in Timers
      PROVE  /\ timer'[u] \in TimerStates
             /\ timer'[u].hEvent = timer[u].hEvent /\ timer'[u].at = timer[u].at
             /\ timer'[u].setting = timer[u].setting /\ timer'[u].early = timer[u].early
             /\ timer[u].reported => timer'[u].reported
             /\ u = owner => timer'[u].reported
  BY <1>1 DEF Types, TimerStates
<1>3. timer' \in [Timers -> TimerStates]
  BY <1>1, <1>2
<1> QED BY <1>1, <1>2, <1>3 DEF owner
(* The steps of the loop that do not call back. *)
LEMMA LoopTypes ==
  ASSUME Types, Execute \/ NoHandler \/ HandlerReturns \/ HandlerThrows
  PROVE  /\ Types'
         /\ UNCHANGED <<portVars, timerVars, notifierVars>>
         /\ loop' \in {"wait", "find", "once", "out"}
         /\ packet' \in {packet, NoPacket}
         /\ loop' = "once" => loop = "once"
         /\ loop' = "once" => packet' = packet
         /\ loop' = "find" => packet' = packet /\ (loop = "find" \/ packet.key = Socket)
         /\ loop = "find" => infos[packet.key] = Nobody \/ loop' = "find"
         /\ loop = "find" => infos[packet.key] = Nobody
         /\ ended' = "not asked" => ended = "not asked"
<1>1. CASE Execute
  BY <1>1 DEF Execute, Types, portVars, timerVars, notifierVars
<1>2. CASE NoHandler
  BY <1>2, StateTypes DEF NoHandler, Types, portVars, timerVars, notifierVars
<1>3. CASE HandlerReturns
  <2>1. /\ Calling
        /\ retval' \in {TRUE, FALSE}
        /\ retval' => packet.key = Socket
        /\ loop' = IF retval' THEN "find" ELSE "wait"
        /\ packet' = IF retval' THEN packet ELSE NoPacket
        /\ UNCHANGED <<portVars, ended, timerVars, notifierVars>>
    BY <1>3 DEF HandlerReturns, Returned
  <2> QED BY <2>1, StateTypes DEF Calling, Types, portVars, timerVars, notifierVars
<1>4. CASE HandlerThrows
  BY <1>4, StateTypes DEF HandlerThrows, Calling, Types, portVars, timerVars, notifierVars
<1> QED BY <1>1, <1>2, <1>3, <1>4

(* set() and cancel() begin with the end of the setting. *)
LEMMA SettingEnds ==
  ASSUME Types, NEW t \in Timers, Cancel(t) \/ \E inLoop \in BOOLEAN : SetErase(t, inLoop)
  PROVE  /\ timer[t].at = "idle"
         /\ \E then \in TimerStates :
              /\ then.hEvent = Null /\ then.at \in {"idle", "erased"}
              /\ then.setting = timer[t].setting + 1
              /\ EndSetting(t, then)
<1>1. timer[t].setting \in Nat
  BY DEF Types, TimerStates
<1>2. timer[t].setting + 1 \in Nat
  BY <1>1
<1>3. \A at \in {"idle", "erased"}, inLoop \in BOOLEAN :
        /\ Fresh(at, inLoop, timer[t].setting + 1) \in TimerStates
        /\ Fresh(at, inLoop, timer[t].setting + 1).hEvent = Null
        /\ Fresh(at, inLoop, timer[t].setting + 1).at = at
        /\ Fresh(at, inLoop, timer[t].setting + 1).setting = timer[t].setting + 1
  <2>1. \A at \in {"idle", "erased"}, inLoop \in BOOLEAN :
          /\ Fresh(at, inLoop, timer[t].setting + 1).hEvent = Null
          /\ Fresh(at, inLoop, timer[t].setting + 1).at = at
          /\ Fresh(at, inLoop, timer[t].setting + 1).setting = timer[t].setting + 1
    BY DEF Fresh
  <2> QED BY <1>2, <2>1, StateTypes
<1>4. CASE Cancel(t)
  BY <1>3, <1>4 DEF Cancel, Canceled
<1>5. ASSUME NEW inLoop \in BOOLEAN, SetErase(t, inLoop)
      PROVE  /\ timer[t].at = "idle"
             /\ EndSetting(t, Fresh("erased", inLoop, timer[t].setting + 1))
  BY <1>5 DEF SetErase
<1> QED BY <1>3, <1>4, <1>5

LEMMA TypesStep ==
  ASSUME Types, [Next]_vars
  PROVE  Types'
<1>1. CASE AddEvent \/ EraseEvent \/ CloseNotifier
  <2>1. infos' \in [Keys -> Timers \cup {Nobody, Notifier, Socket}]
    BY <1>1 DEF AddEvent, EraseEvent, CloseNotifier, Types
  <2>2. UNCHANGED <<port, asked, loopVars, timerVars, notifierVars>>
    BY <1>1 DEF AddEvent, EraseEvent, CloseNotifier
  <2> QED BY <2>1, <2>2, ZenonT(60) DEF Types, loopVars, timerVars, notifierVars
<1>2. CASE Stop
  <2>1. port' \in Seq(Packets)
    BY <1>2, PostTypes DEF Stop, Types
  <2>2. asked' = 1 /\ UNCHANGED <<infos, loopVars, timerVars, notifierVars>>
    BY <1>2 DEF Stop
  <2> QED BY <2>1, <2>2 DEF Types, loopVars, timerVars, notifierVars
<1>3. ASSUME NEW status \in {"ok", "deleted", "aborted", "error"}, OperationEnds(status)
      PROVE  Types'
  <2>1. port' \in Seq(Packets)
    BY <1>3, PostTypes DEF OperationEnds, Types, Keys
  <2> QED BY <1>3, <2>1, ZenonT(60) DEF OperationEnds, Types, loopVars, timerVars, notifierVars
<1>4. CASE Notify
  <2>1. port' \in Seq(Packets)
    BY <1>4, PostTypes DEF Notify, Types, Keys
  <2>2. notified \in Nat /\ notified' = notified + 1 /\ UNCHANGED <<infos, asked, loopVars, timerVars, called>>
    BY <1>4 DEF Notify, Types
  <2>3. notified' \in Nat
    BY <2>2
  <2> QED BY <2>1, <2>2, <2>3, ZenonT(60) DEF Types, loopVars, timerVars
<1>5. CASE TimerCb
  <2>1. timerCb \in Settings /\ timer[timerCb.timer].hEvent \in Keys \cup {Null}
    BY <1>5 DEF TimerCb, Types, Settings, TimerStates, Keys
  <2>2. port' \in Seq(Packets)
    BY <1>5, <2>1, PostTypes DEF TimerCb, Types
  <2> QED BY <1>5, <2>2 DEF TimerCb, Types, loopVars, notifierVars
<1>6. CASE LoopStep
  <2>1. CASE CallHandler
    <3>1. UNCHANGED <<portVars, packet, retval, ended, queue, timerCb, overlap, reused, notified>>
          /\ timer' \in [Timers -> TimerStates]
          /\ loop' \in {"call", "call once"}
      BY <2>1, CallHandlerEffect
    <3>2. called' \in Nat
      <4>1. called \in Nat /\ called' \in {called, called + 1}
        BY <2>1, CallHandlerEffect DEF Types
      <4> QED BY <4>1
    <3>3. stale' \in BOOLEAN
      BY <2>1, CallHandlerEffect DEF Types
    <3> QED BY <3>1, <3>2, <3>3 DEF Types, portVars
  <2> QED BY <1>6, <2>1, LoopTypes, DequeueTypes DEF LoopStep
<1>7. ASSUME NEW h \in Handles, NEW repeated \in BOOLEAN, Expire(h, repeated)
      PROVE  Types'
  <2>1. /\ UNCHANGED <<portVars, loopVars, overlap, reused, stale, notifierVars>>
        /\ timerCb' \in Settings
        /\ queue' \in [Handles -> Settings \cup {None, Expired}]
        /\ timer' \in [Timers -> TimerStates]
    BY <1>7, ExpireEffect
  <2> QED BY <2>1 DEF Types, portVars, loopVars, notifierVars
<1>8. ASSUME NEW t \in Timers, NEW h \in Handles, SetCreate(t, h)
      PROVE  Types'
  <2>1. /\ UNCHANGED <<portVars, loopVars, timerCb, overlap, stale, notifierVars>>
        /\ reused' \in BOOLEAN
        /\ queue' \in [Handles -> Settings \cup {None, Expired}]
        /\ timer' \in [Timers -> TimerStates]
    BY <1>8, SetCreateEffect
  <2> QED BY <2>1 DEF Types, portVars, loopVars, notifierVars
<1>9. ASSUME NEW t \in Timers, SetAdd(t) \/ SetFails(t)
      PROVE  Types'
  <2>1. /\ UNCHANGED <<port, asked, loopVars, queue, timerCb, overlap, reused, stale, notifierVars>>
        /\ timer' \in [Timers -> TimerStates]
    BY <1>9, SetEndsEffect
  <2>2. infos' \in [Keys -> Timers \cup {Nobody, Notifier, Socket}]
    BY <1>9 DEF SetAdd, SetFails, portVars, Types
  <2> QED BY <2>1, <2>2, ZenonT(60) DEF Types, loopVars, notifierVars
<1>10. ASSUME NEW t \in Timers, NEW then \in TimerStates, then.hEvent = Null, timer[t].at = "idle",
              EndSetting(t, then)
       PROVE  Types'
  <2>1. /\ timer' \in [Timers -> TimerStates]
        /\ infos' \in [Keys -> Timers \cup {Nobody, Notifier, Socket}]
        /\ queue' \in [Handles -> Settings \cup {None, Expired}]
        /\ overlap' \in BOOLEAN
        /\ UNCHANGED <<port, asked, loop, packet, retval, ended, timerCb, reused, stale, notified, called>>
    BY <1>10, EndSettingEffect DEF Types
  <2> QED BY <2>1 DEF Types
<1>11. ASSUME NEW t \in Timers, Cancel(t) \/ \E inLoop \in BOOLEAN : SetErase(t, inLoop)
       PROVE  Types'
  BY <1>10, <1>11, SettingEnds
<1>12. CASE UNCHANGED vars
  BY <1>12, ZenonT(60) DEF vars, Types, portVars, loopVars, timerVars, notifierVars
<1> QED
  BY <1>1, <1>2, <1>3, <1>4, <1>5, <1>6, <1>7, <1>8, <1>9, <1>10, <1>11, <1>12 DEF Next, SetStep
-----------------------------------------------------------------------------
Owners == OneOwner /\ InfosOfTimers

(* The timers keep their handles, settings and states. *)
TimersStay ==
  \A t \in Timers : /\ timer'[t].hEvent = timer[t].hEvent
                    /\ timer'[t].at = timer[t].at
                    /\ timer'[t].setting = timer[t].setting

LEMMA OwnersStay ==
  ASSUME Types, Owners, TimersStay, UNCHANGED queue,
         \A h \in Handles : infos'[h] = infos[h],
         infos'[Socket] \in {Socket, Nobody}, infos'[Notifier] \in {Notifier, Nobody}
  PROVE  Owners'
<1>1. \A t \in Timers : timer[t].hEvent \in Handles \cup {Null}
  BY DEF Types, TimerStates
<1>2. OneOwner'
  BY DEF Owners, OneOwner, TimersStay, Setting
<1>3. InfosOfTimers'
  BY <1>1 DEF Owners, InfosOfTimers, TimersStay
<1> QED BY <1>2, <1>3 DEF Owners

LEMMA ExpireOwners ==
  ASSUME Types, Owners, NEW h \in Handles, NEW repeated \in BOOLEAN, Expire(h, repeated)
  PROVE  Owners' /\ TimersStay
<1>1. /\ queue[h].timer \in Timers
      /\ queue'[h] \in {queue[h], Expired}
      /\ \A k \in Handles \ {h} : queue'[k] = queue[k]
      /\ TimersStay
      /\ UNCHANGED infos
  BY ExpireEffect DEF TimersStay, portVars
<1>2. \A t \in Timers : timer[t].hEvent \in Handles \cup {Null}
  BY DEF Types, TimerStates
<1>3. Expired.timer \notin Timers
  BY StateTypes
<1>4. InfosOfTimers'
  BY <1>1, <1>2 DEF Owners, InfosOfTimers, TimersStay
<1>5. OneOwner'
  <2>1. ASSUME NEW k \in Handles, queue'[k].timer \in Timers
        PROVE  (timer[queue[k].timer].hEvent = k /\ queue[k] = Setting(queue[k].timer))'
    BY <1>1, <1>3, <2>1 DEF Owners, OneOwner, TimersStay, Setting
  <2>2. ASSUME NEW t \in Timers, timer'[t].hEvent # Null
        PROVE  queue'[timer'[t].hEvent] \in {Setting(t)', Expired}
    BY <1>1, <1>2, <2>2 DEF Owners, OneOwner, TimersStay, Setting
  <2>3. (\A t, u \in Timers : t # u /\ timer[t].hEvent = timer[u].hEvent => timer[t].hEvent = Null)'
    BY <1>1 DEF Owners, OneOwner, TimersStay
  <2> QED BY <2>1, <2>2, <2>3 DEF OneOwner
<1> QED BY <1>1, <1>4, <1>5 DEF Owners

(* A handle that is deleted belongs to nobody. *)
LEMMA EndSettingOwners ==
  ASSUME Types, Owners, NEW t \in Timers, timer[t].at = "idle",
         NEW then \in TimerStates, then.hEvent = Null, then.at \in {"idle", "erased"},
         then.setting = timer[t].setting + 1, EndSetting(t, then)
  PROVE  Owners'
<1>1. /\ timer'[t] = then
      /\ \A u \in Timers \ {t} : timer'[u] = timer[u]
      /\ \A k \in Keys : infos'[k] = IF k = timer[t].hEvent THEN Nobody ELSE infos[k]
      /\ \A h \in Handles : queue'[h] = IF h = timer[t].hEvent THEN None ELSE queue[h]
  BY EndSettingEffect
<1>2. \A u \in Timers : timer[u].hEvent \in Handles \cup {Null}
  BY DEF Types, TimerStates
<1>3. None.timer \notin Timers /\ Null \notin Handles /\ Nobody \notin Timers
  BY StateTypes, WindowsAssumption
<1>4. \A u \in Timers \ {t} : timer[u].hEvent # Null => timer[u].hEvent # timer[t].hEvent
  BY DEF Owners, OneOwner
<1>5. OneOwner'
  <2>1. ASSUME NEW k \in Handles, queue'[k].timer \in Timers
        PROVE  (timer[queue[k].timer].hEvent = k /\ queue[k] = Setting(queue[k].timer))'
    <3>1. k # timer[t].hEvent /\ queue'[k] = queue[k]
      BY <1>1, <1>3, <2>1
    <3>2. queue[k].timer \in Timers /\ timer[queue[k].timer].hEvent = k /\ queue[k] = Setting(queue[k].timer)
      BY <2>1, <3>1 DEF Owners, OneOwner
    <3>3. queue[k].timer # t
      BY <3>1, <3>2
    <3> QED BY <1>1, <3>1, <3>2, <3>3 DEF Setting
  <2>2. ASSUME NEW u \in Timers, timer'[u].hEvent # Null
        PROVE  queue'[timer'[u].hEvent] \in {Setting(u)', Expired}
    <3>1. u # t /\ timer'[u] = timer[u]
      BY <1>1, <2>2
    <3>2. queue'[timer[u].hEvent] = queue[timer[u].hEvent]
      BY <1>1, <1>2, <1>4, <2>2, <3>1
    <3> QED BY <2>2, <3>1, <3>2 DEF Owners, OneOwner, Setting
  <2>3. (\A u, v \in Timers : u # v /\ timer[u].hEvent = timer[v].hEvent => timer[u].hEvent = Null)'
    BY <1>1 DEF Owners, OneOwner
  <2> QED BY <2>1, <2>2, <2>3 DEF OneOwner
<1>6. InfosOfTimers'
  <2>1. ASSUME NEW u \in Timers
        PROVE  /\ timer'[u].at = "erased" => timer'[u].hEvent = Null
               /\ timer'[u].at = "created" => timer'[u].hEvent # Null
               /\ timer'[u].at = "idle" /\ timer'[u].hEvent # Null => infos'[timer'[u].hEvent] = u
    <3>1. CASE u = t
      BY <1>1, <3>1
    <3>2. CASE u # t
      <4>1. timer'[u] = timer[u]
        BY <1>1, <3>2
      <4>2. timer[u].hEvent # Null => infos'[timer[u].hEvent] = infos[timer[u].hEvent]
        BY <1>1, <1>2, <1>4, <3>2 DEF Keys
      <4> QED BY <4>1, <4>2 DEF Owners, InfosOfTimers
    <3> QED BY <3>1, <3>2
  <2>2. ASSUME NEW h \in Handles
        PROVE  /\ infos'[h] \in Timers \cup {Nobody}
               /\ infos'[h] \in Timers => timer'[infos'[h]].hEvent = h /\ timer'[infos'[h]].at = "idle"
    <3>1. CASE h = timer[t].hEvent
      BY <1>1, <1>3, <3>1 DEF Keys
    <3>2. CASE h # timer[t].hEvent
      <4>1. infos'[h] = infos[h]
        BY <1>1, <3>2 DEF Keys
      <4>2. infos[h] # t
        BY <3>2 DEF Owners, InfosOfTimers
      <4> QED BY <1>1, <4>1, <4>2 DEF Owners, InfosOfTimers
    <3> QED BY <3>1, <3>2
  <2>3. infos'[Socket] \in {Socket, Nobody} /\ infos'[Notifier] \in {Notifier, Nobody}
    BY <1>1 DEF Keys, Owners, InfosOfTimers
  <2> QED BY <2>1, <2>2, <2>3 DEF InfosOfTimers
<1> QED BY <1>5, <1>6 DEF Owners

(* A new handle has no other owner. *)
LEMMA SetCreateOwners ==
  ASSUME Types, Owners, NEW t \in Timers, NEW h \in Handles, SetCreate(t, h)
  PROVE  Owners'
<1>1. /\ timer[t].at = "erased" /\ queue[h] = None
      /\ timer'[t].hEvent = h /\ timer'[t].at = "created"
      /\ timer'[t].setting = timer[t].setting
      /\ \A u \in Timers \ {t} : timer'[u] = timer[u]
      /\ queue'[h] = Setting(t)
      /\ \A k \in Handles \ {h} : queue'[k] = queue[k]
      /\ UNCHANGED infos
  BY SetCreateEffect DEF portVars
<1>2. \A u \in Timers : timer[u].hEvent \in Handles \cup {Null}
  BY DEF Types, TimerStates
<1>3. Null \notin Handles /\ \A u \in Timers : Setting(u) # None /\ Setting(u).timer = u
  BY WindowsAssumption DEF None, Setting
<1>4. timer[t].hEvent = Null /\ \A u \in Timers : timer[u].hEvent # h
  BY <1>1, <1>3, StateTypes DEF Owners, OneOwner, InfosOfTimers
<1>5. \A u \in Timers : Setting(u)' = Setting(u)
  BY <1>1 DEF Setting
<1>6. OneOwner'
  <2>1. ASSUME NEW k \in Handles, queue'[k].timer \in Timers
        PROVE  (timer[queue[k].timer].hEvent = k /\ queue[k] = Setting(queue[k].timer))'
    <3>1. CASE k = h
      BY <1>1, <1>3, <3>1 DEF Setting
    <3>2. CASE k # h
      <4>1. queue'[k] = queue[k]
        BY <1>1, <3>2
      <4>2. queue[k].timer \in Timers /\ timer[queue[k].timer].hEvent = k /\ queue[k] = Setting(queue[k].timer)
        BY <2>1, <4>1 DEF Owners, OneOwner
      <4>3. queue[k].timer # t
        BY <1>3, <1>4, <4>2
      <4> QED BY <1>1, <4>1, <4>2, <4>3 DEF Setting
    <3> QED BY <3>1, <3>2
  <2>2. ASSUME NEW u \in Timers, timer'[u].hEvent # Null
        PROVE  queue'[timer'[u].hEvent] \in {Setting(u)', Expired}
    <3>1. CASE u = t
      BY <1>1, <1>5, <3>1
    <3>2. CASE u # t
      <4>1. timer'[u] = timer[u] /\ timer[u].hEvent \in Handles \ {h}
        BY <1>1, <1>2, <1>4, <2>2, <3>2
      <4> QED BY <1>1, <1>5, <2>2, <4>1 DEF Owners, OneOwner
    <3> QED BY <3>1, <3>2
  <2>3. (\A u, v \in Timers : u # v /\ timer[u].hEvent = timer[v].hEvent => timer[u].hEvent = Null)'
    BY <1>1, <1>4 DEF Owners, OneOwner
  <2> QED BY <2>1, <2>2, <2>3 DEF OneOwner
<1>7. InfosOfTimers'
  <2>1. ASSUME NEW u \in Timers
        PROVE  /\ timer'[u].at = "erased" => timer'[u].hEvent = Null
               /\ timer'[u].at = "created" => timer'[u].hEvent # Null
               /\ timer'[u].at = "idle" /\ timer'[u].hEvent # Null => infos'[timer'[u].hEvent] = u
    BY <1>1, <1>3 DEF Owners, InfosOfTimers
  <2>2. ASSUME NEW k \in Handles
        PROVE  /\ infos'[k] \in Timers \cup {Nobody}
               /\ infos'[k] \in Timers => timer'[infos'[k]].hEvent = k /\ timer'[infos'[k]].at = "idle"
    BY <1>1 DEF Owners, InfosOfTimers
  <2>3. infos'[Socket] \in {Socket, Nobody} /\ infos'[Notifier] \in {Notifier, Nobody}
    BY <1>1 DEF Owners, InfosOfTimers
  <2> QED BY <2>1, <2>2, <2>3 DEF InfosOfTimers
<1> QED BY <1>6, <1>7 DEF Owners

(* set() ends: its handle is registered, or it has none. *)
LEMMA SetEndsOwners ==
  ASSUME Types, Owners, NEW t \in Timers, SetAdd(t) \/ SetFails(t)
  PROVE  Owners'
<1>1. /\ timer'[t].at = "idle"
      /\ timer'[t].hEvent = timer[t].hEvent
      /\ timer'[t].setting = timer[t].setting
      /\ \A u \in Timers \ {t} : timer'[u] = timer[u]
      /\ UNCHANGED queue
  BY SetEndsEffect
<1>2. timer[t].at \in {"created", "erased"}
  BY DEF SetAdd, SetFails
<1>3. \A u \in Timers : timer[u].hEvent \in Handles \cup {Null}
  BY DEF Types, TimerStates
<1>4. \A k \in Keys : infos'[k] = IF timer[t].at = "created" /\ k = timer[t].hEvent THEN t ELSE infos[k]
  BY DEF SetAdd, SetFails, portVars, Types
<1>5. Null \notin Handles /\ Socket \notin Handles /\ Notifier \notin Handles
      /\ Null \notin {Socket, Notifier}
  BY WindowsAssumption
<1>6. \A u \in Timers : Setting(u)' = Setting(u) /\ timer'[u].hEvent = timer[u].hEvent
  BY <1>1 DEF Setting
<1>7. OneOwner'
  BY <1>1, <1>6 DEF Owners, OneOwner
<1>8. InfosOfTimers'
  <2>1. ASSUME NEW u \in Timers
        PROVE  /\ timer'[u].at = "erased" => timer'[u].hEvent = Null
               /\ timer'[u].at = "created" => timer'[u].hEvent # Null
               /\ timer'[u].at = "idle" /\ timer'[u].hEvent # Null => infos'[timer'[u].hEvent] = u
    <3>1. CASE u = t
      BY <1>1, <1>2, <1>3, <1>4, <3>1 DEF Owners, InfosOfTimers, Keys
    <3>2. CASE u # t
      <4>1. timer'[u] = timer[u] /\ (timer[u].hEvent # Null => timer[u].hEvent # timer[t].hEvent)
        BY <1>1, <3>2 DEF Owners, OneOwner
      <4> QED BY <1>3, <1>4, <4>1 DEF Owners, InfosOfTimers, Keys
    <3> QED BY <3>1, <3>2
  <2>2. ASSUME NEW k \in Handles
        PROVE  /\ infos'[k] \in Timers \cup {Nobody}
               /\ infos'[k] \in Timers => timer'[infos'[k]].hEvent = k /\ timer'[infos'[k]].at = "idle"
    <3>1. CASE timer[t].at = "created" /\ k = timer[t].hEvent
      BY <1>1, <1>4, <3>1 DEF Keys
    <3>2. CASE ~(timer[t].at = "created" /\ k = timer[t].hEvent)
      <4>1. infos'[k] = infos[k] /\ infos[k] # t
        BY <1>2, <1>4, <3>2 DEF Keys, Owners, InfosOfTimers
      <4> QED BY <1>1, <4>1 DEF Owners, InfosOfTimers
    <3> QED BY <3>1, <3>2
  <2>3. infos'[Socket] \in {Socket, Nobody} /\ infos'[Notifier] \in {Notifier, Nobody}
    BY <1>3, <1>4, <1>5 DEF Owners, InfosOfTimers, Keys
  <2> QED BY <2>1, <2>2, <2>3 DEF InfosOfTimers
<1> QED BY <1>7, <1>8 DEF Owners
-----------------------------------------------------------------------------
Travels == CallbackFits /\ Waiting /\ Taken

LEMMA InPortTypes ==
  ASSUME port \in Seq(Packets)
  PROVE  InPort \subseteq Packets
<1>1. \A k \in DOMAIN port : port[k] \in Packets
  BY ElementOfSeq, LenProperties
<1> QED BY <1>1 DEF InPort

LEMMA SettingTypes ==
  ASSUME Types
  PROVE  \A t \in Timers : /\ Setting(t) \in Settings /\ Setting(t).timer = t /\ Setting(t).setting = timer[t].setting
                           /\ Setting(t) # None /\ Setting(t) # Expired
                           /\ timer[t].hEvent \in Handles \cup {Null} /\ timer[t].setting \in Nat
<1>1. \A t \in Timers : timer[t].hEvent \in Handles \cup {Null} /\ timer[t].setting \in Nat
  BY DEF Types, TimerStates
<1>2. \A t \in Timers : Setting(t) \in Settings /\ Setting(t).timer = t /\ Setting(t).setting = timer[t].setting
  BY <1>1 DEF Setting, Settings
<1> QED BY <1>1, <1>2, StateTypes

(* What is true of a packet stays true while timers keep their handles, *)
LEMMA PacketStays ==
  ASSUME \A t \in Timers : timer'[t].hEvent = timer[t].hEvent /\ timer'[t].setting = timer[t].setting,
         UNCHANGED <<overlap, reused>>
  PROVE  \A p \in Packets : /\ WellFormed(p) => WellFormed(p)'
                            /\ OfOwner(p) => OfOwner(p)'
                            /\ Made(p.by) => Made(p.by)'
<1> SUFFICES ASSUME NEW p \in Packets
             PROVE  /\ WellFormed(p) => WellFormed(p)'
                    /\ OfOwner(p) => OfOwner(p)'
                    /\ Made(p.by) => Made(p.by)'
  OBVIOUS
<1>1. p.by # None => p.by.timer \in Timers
  BY DEF Packets, Settings
<1>2. Made(p.by) => Made(p.by)'
  BY <1>1 DEF Made
<1>3. \A t \in Timers : Setting(t)' = Setting(t)
  BY DEF Setting
<1>4. WellFormed(p) => WellFormed(p)'
  BY <1>2, <1>3 DEF WellFormed
<1>5. OfOwner(p) => OfOwner(p)'
  BY <1>3 DEF OfOwner
<1> QED BY <1>2, <1>4, <1>5

(* when the setting of one of them ends, *)
LEMMA PacketOutlives ==
  ASSUME Types, NEW t \in Timers, timer[t].at = "idle",
         NEW then \in TimerStates, then.hEvent = Null, then.setting = timer[t].setting + 1,
         EndSetting(t, then)
  PROVE  /\ \A s \in Settings \cup {None} : Made(s) => Made(s)'
         /\ \A p \in Packets : WellFormed(p) => WellFormed(p)'
         /\ \A p \in Packets : OfOwner(p) => OfOwner(p)'
<1>1. /\ timer'[t].hEvent = Null /\ timer'[t].setting = timer[t].setting + 1
      /\ \A u \in Timers \ {t} : timer'[u] = timer[u]
      /\ overlap' = (overlap \/ timerCb.timer = t) /\ reused' = reused
  BY EndSettingEffect
<1>2. \A u \in Timers : timer[u].setting \in Nat /\ timer[u].hEvent \in Handles \cup {Null}
  BY SettingTypes
<1>3. ASSUME NEW s \in Settings \cup {None}, Made(s)
      PROVE  Made(s)'
  <2> SUFFICES ASSUME s # None
               PROVE  /\ s.setting <= timer'[s.timer].setting
                      /\ timer'[s.timer].hEvent = Null => s.setting < timer'[s.timer].setting
    BY DEF Made
  <2>1. s.timer \in Timers /\ s.setting \in Nat
    BY DEF Settings
  <2>2. CASE s.timer = t
    <3>1. s.setting <= timer[t].setting
      BY <1>3, <2>2 DEF Made
    <3> QED BY <1>1, <1>2, <2>1, <2>2, <3>1
  <2>3. CASE s.timer # t
    BY <1>1, <1>3, <2>1, <2>3 DEF Made
  <2> QED BY <2>2, <2>3
<1>4. \A u \in Timers \ {t} : Setting(u)' = Setting(u)
  BY <1>1 DEF Setting
<1>5. ASSUME NEW p \in Packets, WellFormed(p)
      PROVE  WellFormed(p)'
  <2>1. p.by \in Settings \cup {None}
    BY DEF Packets
  <2>2. Made(p.by)'
    BY <1>3, <1>5, <2>1 DEF WellFormed
  <2>3. p.by # Setting(t)'
    <3> SUFFICES ASSUME p.by = Setting(t)'
                 PROVE  FALSE
      OBVIOUS
    <3>1. p.by.timer = t /\ p.by.setting = timer[t].setting + 1
      BY <1>1 DEF Setting
    <3>2. p.by # None
      BY <3>1, StateTypes
    <3>3. p.by.setting <= timer[t].setting
      BY <1>5, <3>1, <3>2 DEF WellFormed, Made
    <3> QED BY <1>2, <3>1, <3>3
  <2>4. ~overlap' => ~overlap
    BY <1>1
  <2> QED BY <1>1, <1>4, <1>5, <2>2, <2>3, <2>4 DEF WellFormed
<1>6. ASSUME NEW p \in Packets, OfOwner(p)
      PROVE  OfOwner(p)'
  BY <1>1, <1>4, <1>6 DEF OfOwner
<1> QED BY <1>3, <1>5, <1>6

(* and when one gets a handle no packet has. *)
LEMMA PacketPrecedes ==
  ASSUME Types, Owners, NEW t \in Timers, NEW h \in Handles, SetCreate(t, h)
  PROVE  /\ \A s \in Settings \cup {None} : Made(s) => Made(s)'
         /\ \A p \in Packets : WellFormed(p) => WellFormed(p)'
         /\ \A p \in Packets : OfOwner(p) /\ (p.key = h => reused') => OfOwner(p)'
<1>1. /\ timer[t].at = "erased"
      /\ timer'[t].hEvent = h /\ timer'[t].setting = timer[t].setting
      /\ \A u \in Timers \ {t} : timer'[u] = timer[u]
      /\ ~reused' => ~reused
      /\ UNCHANGED overlap
  BY SetCreateEffect
<1>2. timer[t].hEvent = Null /\ h # Null
  BY <1>1, WindowsAssumption DEF Owners, InfosOfTimers
<1>3. ASSUME NEW s \in Settings \cup {None}, Made(s)
      PROVE  Made(s)'
  BY <1>1, <1>2, <1>3 DEF Made, Settings
<1>4. \A u \in Timers : Setting(u)' = Setting(u)
  BY <1>1 DEF Setting
<1>5. ASSUME NEW p \in Packets, WellFormed(p)
      PROVE  WellFormed(p)'
  <2>1. Made(p.by)'
    BY <1>3, <1>5 DEF WellFormed, Packets
  <2>2. p.by # Setting(t)
    <3> SUFFICES ASSUME p.by = Setting(t)
                 PROVE  FALSE
      OBVIOUS
    <3>1. p.by # None /\ p.by.timer = t /\ p.by.setting = timer[t].setting /\ timer[t].setting \in Nat
      BY SettingTypes
    <3> QED BY <1>2, <1>5, <3>1 DEF WellFormed, Made
  <2> QED BY <1>1, <1>4, <1>5, <2>1, <2>2 DEF WellFormed
<1>6. ASSUME NEW p \in Packets, OfOwner(p), p.key = h => reused'
      PROVE  OfOwner(p)'
  BY <1>1, <1>4, <1>6 DEF OfOwner
<1> QED BY <1>3, <1>5, <1>6
(* Nothing that a packet meets changes. *)
LEMMA TravelsStay ==
  ASSUME Types, Travels,
         \A t \in Timers : timer'[t].hEvent = timer[t].hEvent /\ timer'[t].setting = timer[t].setting,
         UNCHANGED <<overlap, reused>>
  PROVE  /\ UNCHANGED timerCb => CallbackFits'
         /\ UNCHANGED port => Waiting'
         /\ UNCHANGED <<loop, packet>> => Taken'
<1>1. \A s \in Settings \cup {None} : Made(s) => Made(s)'
  BY DEF Made, Settings
<1>2. \A t \in Timers : Setting(t)' = Setting(t)
  BY DEF Setting
<1>3. ASSUME UNCHANGED timerCb
      PROVE  CallbackFits'
  <2>1. timerCb \in Settings \cup {None}
    BY DEF Types
  <2>2. Made(timerCb)'
    BY <1>1, <1>3, <2>1 DEF Travels, CallbackFits, Made
  <2>3. (~overlap /\ timerCb # None => timerCb = Setting(timerCb.timer) /\ timer[timerCb.timer].hEvent # Null)'
    BY <1>3, <2>1 DEF Travels, CallbackFits, Settings, Setting
  <2> QED BY <2>2, <2>3 DEF CallbackFits
<1>4. ASSUME UNCHANGED port
      PROVE  Waiting'
  <2>1. InPort \subseteq Packets /\ InPort' = InPort
    BY <1>4, InPortTypes DEF Types, InPort
  <2> QED BY <2>1, PacketStays DEF Travels, Waiting
<1>5. ASSUME UNCHANGED <<loop, packet>>
      PROVE  Taken'
  <2>1. packet \in Packets /\ packet' = packet /\ loop' = loop
    BY <1>5 DEF Types
  <2>2. (WellFormed(packet) => WellFormed(packet)') /\ (OfOwner(packet) => OfOwner(packet)')
    BY <1>1, <1>2, <2>1 DEF WellFormed, OfOwner, Packets
  <2> QED BY <2>1, <2>2 DEF Travels, Taken
<1> QED BY <1>3, <1>4, <1>5

(* A packet that is not a timer's is posted. *)
LEMMA PostTravels ==
  ASSUME Types, Travels, NEW key \in {Null, Socket, Notifier},
         NEW status \in {"ok", "deleted", "aborted", "error"}, status # "ok" => key = Socket,
         Post(key, status, None), UNCHANGED <<loop, packet, timer, timerCb, overlap, reused>>
  PROVE  Travels'
<1> DEFINE p == [key |-> key, status |-> status, by |-> None]
<1>1. key \in Keys \cup {Null}
  BY DEF Keys
<1>2. p \in Packets /\ port' = Append(port, p) /\ port' \in Seq(Packets)
  BY <1>1, PostTypes DEF Types
<1>3. InPort' = InPort \cup {p} /\ InPort \subseteq Packets
  BY <1>2, Posted, InPortTypes DEF Types
<1>4. CallbackFits' /\ Taken'
  BY TravelsStay
<1>5. WellFormed(p)' /\ OfOwner(p)'
  <2>1. \A t \in Timers : Setting(t)' # None /\ (key # Null => key # timer'[t].hEvent)
    BY SettingTypes, WindowsAssumption DEF Setting
  <2>2. WellFormed(p)'
    BY <2>1 DEF WellFormed, Made
  <2>3. OfOwner(p)'
    BY <2>1 DEF OfOwner
  <2> QED BY <2>2, <2>3
<1>6. \A q \in InPort : WellFormed(q)' /\ OfOwner(q)'
  BY <1>3, PacketStays DEF Travels, Waiting
<1> HIDE DEF p
<1>7. Waiting'
  BY <1>3, <1>5, <1>6 DEF Waiting
<1> QED BY <1>4, <1>7 DEF Travels

(* timerCb posts the handle of the timer. *)
LEMMA TimerCbTravels ==
  ASSUME Types, Owners, Travels, TimerCb
  PROVE  Travels'
<1> DEFINE t == timerCb.timer
           p == [key |-> timer[t].hEvent, status |-> "ok", by |-> timerCb]
<1>1. /\ timerCb # None /\ Post(timer[t].hEvent, "ok", timerCb) /\ timerCb' = None
      /\ UNCHANGED <<loop, packet, timer, overlap, reused>>
  BY DEF TimerCb, loopVars
<1>2. timerCb \in Settings /\ t \in Timers /\ timer[t].hEvent \in Handles \cup {Null}
  BY <1>1, SettingTypes DEF Types, Settings
<1>3. p \in Packets /\ port' = Append(port, p) /\ port' \in Seq(Packets)
  BY <1>1, <1>2, PostTypes DEF Types, Keys
<1>4. InPort' = InPort \cup {p} /\ InPort \subseteq Packets
  BY <1>3, Posted, InPortTypes DEF Types
<1>5. CallbackFits'
  BY <1>1 DEF CallbackFits, Made
<1>6. Taken'
  BY <1>1, TravelsStay
<1>7. WellFormed(p)
  <2>1. Made(timerCb) /\ (~overlap => timer[t].hEvent \in Handles)
    BY <1>1, <1>2 DEF Travels, CallbackFits
  <2>2. \A u \in Timers : timerCb = Setting(u) => u = t
    BY DEF Setting
  <2> QED BY <2>1, <2>2 DEF WellFormed
<1>8. OfOwner(p)
  <2>1. \A u \in Timers : timer[t].hEvent # Null /\ timer[t].hEvent = timer[u].hEvent => u = t
    BY <1>2 DEF Owners, OneOwner
  <2>2. ~overlap => timerCb = Setting(t)
    BY <1>1 DEF Travels, CallbackFits
  <2> QED BY <2>1, <2>2 DEF OfOwner
<1>9. \A q \in InPort \cup {p} : WellFormed(q)' /\ OfOwner(q)'
  <2>1. \A q \in InPort \cup {p} : WellFormed(q) /\ OfOwner(q)
    BY <1>7, <1>8 DEF Travels, Waiting
  <2> HIDE DEF p
  <2> QED BY <1>1, <1>3, <1>4, <2>1, PacketStays
<1> HIDE DEF p
<1>10. Waiting'
  BY <1>4, <1>9 DEF Waiting
<1> QED BY <1>5, <1>6, <1>10 DEF Travels

(* What GetQueuedCompletionStatus makes of the first packet. *)
LEMMA DequeueEffect ==
  ASSUME Types, Dequeue
  PROVE  /\ loop = "wait" /\ port # <<>> /\ port' = Tail(port)
         /\ loop' \in {"out", "wait", "find", "once"}
         /\ loop' = "find" <=> Head(port).status = "ok" /\ Head(port).key # Null
         /\ loop' = "once" => Head(port).status = "deleted"
         /\ packet' = IF loop' \in {"find", "once"} THEN Head(port) ELSE NoPacket
         /\ ended' = "not asked" => ended = "not asked" \/ (Head(port).key = Null /\ ~(asked > 0))
         /\ asked' # asked => Head(port).key = Null
         /\ UNCHANGED <<infos, timerVars, notifierVars>>
<1> DEFINE p == Head(port)
           stops == p.status = "ok" /\ p.key = Null
<1>1. p.status \in {"ok", "deleted", "aborted", "error"}
  BY Dequeued DEF Dequeue, Types, Packets
<1>2. /\ loop' = CASE stops \/ p.status = "error" -> "out"
                   [] ~stops /\ p.status = "ok"   -> "find"
                   [] p.status = "deleted"        -> "once"
                   [] p.status = "aborted"        -> "wait"
      /\ packet' = IF loop' \in {"find", "once"} THEN p ELSE NoPacket
      /\ ended' = CASE p.status = "error"  -> "error"
                    [] stops /\ asked > 0  -> "asked"
                    [] stops /\ asked = 0  -> "not asked"
                    [] ~stops /\ p.status # "error" -> ended
      /\ asked' = IF stops /\ asked > 0 THEN asked - 1 ELSE asked
      /\ loop = "wait" /\ port # <<>> /\ port' = Tail(port)
      /\ UNCHANGED <<infos, timerVars, notifierVars>>
  BY DEF Dequeue
<1>3. (asked > 0 \/ asked = 0) /\ (asked = 0 => ~(asked > 0))
  <2>1. asked \in {0, 1}
    BY DEF Types
  <2> QED BY <2>1, SMT
<1>4. stops => p.key = Null
  OBVIOUS
<1>5. /\ loop' \in {"out", "wait", "find", "once"}
      /\ loop' = "find" <=> p.status = "ok" /\ ~stops
      /\ loop' = "once" => p.status = "deleted"
  <2> HIDE DEF p
  <2> QED BY <1>1, <1>2
<1>6. /\ ended' = "not asked" => ended = "not asked" \/ (p.key = Null /\ ~(asked > 0))
      /\ asked' # asked => p.key = Null
  <2> HIDE DEF p, stops
  <2>1. stops => p.status = "ok"
    BY DEF stops
  <2> QED BY <1>1, <1>2, <1>3, <1>4, <2>1
<1> QED BY <1>2, <1>5, <1>6

LEMMA DequeueTravels ==
  ASSUME Types, Travels, Dequeue
  PROVE  Travels'
<1> DEFINE p == Head(port)
<1>1. /\ port # <<>> /\ port' = Tail(port)
      /\ loop' \in {"out", "wait", "find", "once"}
      /\ loop' = "find" <=> p.status = "ok" /\ p.key # Null
      /\ loop' = "once" => p.status = "deleted"
      /\ packet' = IF loop' \in {"find", "once"} THEN p ELSE NoPacket
      /\ UNCHANGED <<timer, timerCb, overlap, reused>>
  BY DequeueEffect DEF timerVars
<1>2. p \in Packets /\ InPort = InPort' \cup {p} /\ InPort \subseteq Packets
  BY <1>1, Dequeued, InPortTypes DEF Types
<1>3. CallbackFits'
  BY <1>1, TravelsStay
<1>4. \A q \in InPort : WellFormed(q) /\ WellFormed(q)' /\ OfOwner(q)'
  BY <1>1, <1>2, PacketStays DEF Travels, Waiting
<1>5. Waiting'
  BY <1>2, <1>4 DEF Waiting
<1>6. WellFormed(NoPacket)'
  <2>1. \A t \in Timers : Setting(t)' # None
    BY <1>1, SettingTypes DEF Setting
  <2> QED BY <2>1 DEF WellFormed, NoPacket, Made
<1>7. WellFormed(p)
  BY <1>2, <1>4
<1>8. Taken'
  <2>1. CASE loop' \in {"find", "once"}
    <3>1. packet' = p
      BY <1>1, <2>1
    <3>2. p.key \in Keys /\ (loop' = "once" => p.key = Socket)
      BY <1>1, <1>2, <1>7, <2>1 DEF WellFormed, Packets, Keys
    <3>3. WellFormed(packet)' /\ OfOwner(packet)'
      <4> PICK q \in Packets : q = p
        BY <1>2
      <4>1. WellFormed(q)' /\ OfOwner(q)' /\ q = packet'
        BY <1>2, <1>4, <3>1
      <4> QED BY <4>1 DEF WellFormed, OfOwner, Made
    <3> QED BY <2>1, <3>1, <3>2, <3>3 DEF Taken
  <2>2. CASE loop' \in {"out", "wait"}
    <3>1. packet' = NoPacket
      BY <1>1, <2>2
    <3>2. WellFormed(packet)'
      BY <1>6, <3>1 DEF WellFormed, Made, NoPacket
    <3> QED BY <2>2, <3>2 DEF Taken
  <2> QED BY <1>1, <2>1, <2>2
<1> QED BY <1>3, <1>5, <1>8 DEF Travels
(* The callback is called, has returned or was not found. *)
LEMMA LoopTravels ==
  ASSUME Types, Travels, Execute \/ NoHandler \/ HandlerReturns \/ HandlerThrows
  PROVE  Travels'
<1>1. /\ UNCHANGED <<port, timer, timerCb, overlap, reused>>
      /\ loop' \in {"wait", "find", "once", "out"}
      /\ packet' \in {packet, NoPacket}
      /\ loop' = "once" => loop = "once" /\ packet' = packet
      /\ loop' = "find" => packet' = packet /\ (loop = "find" \/ packet.key = Socket)
  BY LoopTypes DEF portVars, timerVars
<1>2. CallbackFits' /\ Waiting'
  BY <1>1, TravelsStay
<1>3. \A t \in Timers : Setting(t)' = Setting(t) /\ Setting(t) # None /\ timer[t].hEvent # Socket
  BY <1>1, SettingTypes, WindowsAssumption DEF Setting
<1>4. WellFormed(packet)'
  <2>1. CASE packet' = packet
    BY <1>1, <1>3, <2>1 DEF Travels, Taken, WellFormed, Made
  <2>2. CASE packet' = NoPacket
    BY <1>1, <1>3, <2>2 DEF WellFormed, NoPacket, Made
  <2> QED BY <1>1, <2>1, <2>2
<1>5. loop' \in {"find", "once"} => packet'.key \in Keys
  BY <1>1 DEF Travels, Taken, Keys
<1>6. loop' = "find" => OfOwner(packet)'
  BY <1>1, <1>3 DEF Travels, Taken, OfOwner
<1>7. loop' = "once" => packet'.key = Socket
  BY <1>1 DEF Travels, Taken
<1>8. Taken'
  BY <1>1, <1>4, <1>5, <1>6, <1>7 DEF Taken
<1> QED BY <1>2, <1>8 DEF Travels

LEMMA CallHandlerTravels ==
  ASSUME Types, Travels, CallHandler
  PROVE  Travels' /\ TimersStay
<1>1. /\ loop \in {"find", "once"}
      /\ loop' \in {"call", "call once"}
      /\ TimersStay
      /\ UNCHANGED <<port, packet, timerCb, overlap, reused>>
  BY CallHandlerEffect DEF TimersStay, portVars
<1>2. CallbackFits' /\ Waiting'
  BY <1>1, TravelsStay DEF TimersStay
<1>3. WellFormed(packet)'
  <2>1. packet \in Packets /\ WellFormed(packet)
    BY DEF Types, Travels, Taken
  <2>2. \A t \in Timers : Setting(t)' = Setting(t)
    BY <1>1 DEF TimersStay, Setting
  <2>3. packet.by # None => packet.by.timer \in Timers
    BY <2>1 DEF Packets, Settings
  <2> QED BY <1>1, <2>1, <2>2, <2>3 DEF WellFormed, Made, TimersStay
<1>4. Taken'
  BY <1>1, <1>3 DEF Travels, Taken
<1> QED BY <1>1, <1>2, <1>4 DEF Travels

LEMMA ExpireTravels ==
  ASSUME Types, Owners, Travels, NEW h \in Handles, NEW repeated \in BOOLEAN, Expire(h, repeated)
  PROVE  Travels'
<1>1. /\ queue[h].timer \in Timers /\ timerCb' = queue[h]
      /\ UNCHANGED <<port, loop, packet, overlap, reused>>
      /\ TimersStay
  BY ExpireEffect, ExpireOwners DEF portVars, loopVars
<1>2. Waiting' /\ Taken'
  BY <1>1, TravelsStay DEF TimersStay
<1>3. /\ queue[h] = Setting(queue[h].timer) /\ timer[queue[h].timer].hEvent = h /\ h # Null
      /\ timer[queue[h].timer].setting \in Nat
  BY <1>1, SettingTypes, WindowsAssumption DEF Owners, OneOwner
<1>4. CallbackFits'
  BY <1>1, <1>3 DEF CallbackFits, Made, TimersStay, Setting
<1> QED BY <1>2, <1>4 DEF Travels

LEMMA EndSettingTravels ==
  ASSUME Types, Travels, NEW t \in Timers, timer[t].at = "idle",
         NEW then \in TimerStates, then.hEvent = Null, then.setting = timer[t].setting + 1,
         EndSetting(t, then)
  PROVE  Travels'
<1>1. /\ \A u \in Timers \ {t} : timer'[u] = timer[u]
      /\ overlap' = (overlap \/ timerCb.timer = t)
      /\ UNCHANGED <<port, loop, packet, timerCb>>
  BY EndSettingEffect
<1>2. /\ \A s \in Settings \cup {None} : Made(s) => Made(s)'
      /\ \A p \in Packets : WellFormed(p) => WellFormed(p)'
      /\ \A p \in Packets : OfOwner(p) => OfOwner(p)'
  BY PacketOutlives
<1>3. Waiting'
  <2>1. InPort \subseteq Packets /\ InPort' = InPort
    BY <1>1, InPortTypes DEF Types, InPort
  <2> QED BY <1>2, <2>1 DEF Travels, Waiting
<1>4. Taken'
  <2> PICK q \in Packets : q = packet
    BY DEF Types
  <2>1. WellFormed(q)' /\ (loop = "find" => OfOwner(q)') /\ q = packet'
    BY <1>1, <1>2 DEF Travels, Taken
  <2>2. WellFormed(packet)' /\ (loop = "find" => OfOwner(packet)')
    BY <2>1 DEF WellFormed, OfOwner, Made
  <2> QED BY <1>1, <2>2 DEF Travels, Taken
<1>5. CallbackFits'
  <2> PICK s \in Settings \cup {None} : s = timerCb
    BY DEF Types
  <2>1. Made(s)' /\ s = timerCb'
    BY <1>1, <1>2 DEF Travels, CallbackFits
  <2>2. Made(timerCb)'
    BY <2>1 DEF Made
  <2>3. ASSUME ~overlap', s # None
        PROVE  s = Setting(s.timer)' /\ timer'[s.timer].hEvent # Null
    <3>1. s.timer \in Timers \ {t} /\ ~overlap
      BY <1>1, <2>3 DEF Settings
    <3> QED BY <1>1, <2>3, <3>1 DEF Travels, CallbackFits, Setting
  <2> QED BY <2>1, <2>2, <2>3 DEF CallbackFits, Setting
<1> QED BY <1>3, <1>4, <1>5 DEF Travels

LEMMA SetCreateTravels ==
  ASSUME Types, Owners, Travels, NEW t \in Timers, NEW h \in Handles, SetCreate(t, h)
  PROVE  Travels'
<1>1. /\ timer[t].at = "erased"
      /\ timer'[t].hEvent = h /\ timer'[t].setting = timer[t].setting
      /\ \A u \in Timers \ {t} : timer'[u] = timer[u]
      /\ ~reused' => ~(loop = "find" /\ packet.key = h) /\ \A p \in InPort : p.key # h
      /\ UNCHANGED <<port, loop, packet, timerCb, overlap>>
  BY SetCreateEffect DEF portVars, loopVars
<1>2. /\ \A s \in Settings \cup {None} : Made(s) => Made(s)'
      /\ \A p \in Packets : WellFormed(p) => WellFormed(p)'
      /\ \A p \in Packets : OfOwner(p) /\ (p.key = h => reused') => OfOwner(p)'
  BY PacketPrecedes
<1>3. Waiting'
  <2>1. InPort \subseteq Packets /\ InPort' = InPort
    BY <1>1, InPortTypes DEF Types, InPort
  <2> QED BY <1>1, <1>2, <2>1 DEF Travels, Waiting
<1>4. Taken'
  <2> PICK q \in Packets : q = packet
    BY DEF Types
  <2>1. WellFormed(q)' /\ (loop = "find" => OfOwner(q)') /\ q = packet'
    BY <1>1, <1>2 DEF Travels, Taken
  <2>2. WellFormed(packet)' /\ (loop = "find" => OfOwner(packet)')
    BY <2>1 DEF WellFormed, OfOwner, Made
  <2> QED BY <1>1, <2>2 DEF Travels, Taken
<1>5. CallbackFits'
  <2> PICK s \in Settings \cup {None} : s = timerCb
    BY DEF Types
  <2>1. Made(s)' /\ s = timerCb'
    BY <1>1, <1>2 DEF Travels, CallbackFits
  <2>2. Made(timerCb)'
    BY <2>1 DEF Made
  <2>3. ASSUME ~overlap', s # None
        PROVE  s = Setting(s.timer)' /\ timer'[s.timer].hEvent # Null
    <3>1. s.timer \in Timers /\ ~overlap /\ h # Null
      BY <1>1, <2>3, WindowsAssumption DEF Settings
    <3> QED BY <1>1, <2>3, <3>1 DEF Travels, CallbackFits, Setting
  <2> QED BY <2>1, <2>2, <2>3 DEF CallbackFits, Setting
<1> QED BY <1>3, <1>4, <1>5 DEF Travels

LEMMA SetEndsTravels ==
  ASSUME Types, Travels, NEW t \in Timers, SetAdd(t) \/ SetFails(t)
  PROVE  Travels'
<1>1. /\ \A u \in Timers : timer'[u].hEvent = timer[u].hEvent /\ timer'[u].setting = timer[u].setting
      /\ UNCHANGED <<port, loop, packet, timerCb, overlap, reused>>
  BY SetEndsEffect DEF loopVars
<1> QED BY <1>1, TravelsStay DEF Travels
-----------------------------------------------------------------------------
(* A packet with another key than NULL does not stop the loop. *)
LEMMA PostStops ==
  ASSUME Types, StopsAsked, NEW p \in Packets, port' = Append(port, p),
         UNCHANGED <<asked, overlap>>, ~overlap => p.key # Null
  PROVE  StopsAsked'
<1>1. /\ DOMAIN port = 1..Len(port) /\ DOMAIN port' = 1..Len(port) + 1 /\ Len(port) \in Nat
      /\ \A k \in 1..Len(port) : port'[k] = port[k]
      /\ port'[Len(port) + 1] = p
  BY Posted DEF Types
<1> SUFFICES ASSUME ~overlap, NEW j \in DOMAIN port', NEW k \in DOMAIN port',
                    port'[j].key = Null, port'[k].key = Null
             PROVE  j = k /\ asked = 1
  BY DEF StopsAsked
<1>2. j \in DOMAIN port /\ k \in DOMAIN port
  BY <1>1
<1> QED BY <1>1, <1>2 DEF StopsAsked

(* stop() itself. *)
LEMMA StopStops ==
  ASSUME Types, StopsAsked, Stop
  PROVE  StopsAsked'
<1>1. asked = 0 /\ asked' = 1 /\ Post(Null, "ok", None) /\ UNCHANGED overlap
  BY DEF Stop, timerVars
<1> DEFINE p == [key |-> Null, status |-> "ok", by |-> None]
<1>2. p \in Packets /\ port' = Append(port, p)
  BY <1>1, PostTypes DEF Types
<1>3. /\ DOMAIN port = 1..Len(port) /\ DOMAIN port' = 1..Len(port) + 1 /\ Len(port) \in Nat
      /\ \A k \in 1..Len(port) : port'[k] = port[k]
  BY <1>2, Posted DEF Types
<1> SUFFICES ASSUME ~overlap, NEW j \in DOMAIN port', NEW k \in DOMAIN port',
                    port'[j].key = Null, port'[k].key = Null
             PROVE  j = k
  BY <1>1 DEF StopsAsked
<1>4. \A i \in DOMAIN port : port[i].key # Null
  BY <1>1 DEF StopsAsked
<1>5. j = Len(port) + 1 /\ k = Len(port) + 1
  BY <1>3, <1>4
<1> QED BY <1>5

(* The loop takes the packet of a stop() and ends for it. *)
LEMMA DequeueStops ==
  ASSUME Types, Waiting, StopsAsked, ReturnsOnlyWhenAsked, Dequeue
  PROVE  StopsAsked' /\ ReturnsOnlyWhenAsked'
<1>1. /\ port # <<>> /\ port' = Tail(port)
      /\ ended' = "not asked" => ended = "not asked" \/ (Head(port).key = Null /\ ~(asked > 0))
      /\ asked' # asked => Head(port).key = Null
      /\ UNCHANGED overlap
  BY DequeueEffect DEF timerVars
<1>2. /\ Len(port) \in Nat \ {0} /\ Head(port) = port[1]
      /\ DOMAIN port = 1..Len(port) /\ DOMAIN port' = 1..Len(port) - 1
      /\ \A k \in 1..Len(port) - 1 : port'[k] = port[k + 1]
  BY <1>1, Dequeued DEF Types
<1>3. 1 \in DOMAIN port /\ \A k \in DOMAIN port' : k + 1 \in DOMAIN port /\ k + 1 # 1 /\ port'[k] = port[k + 1]
  BY <1>2
<1>4. ReturnsOnlyWhenAsked'
  <2>1. ASSUME ~overlap, port[1].key = Null
        PROVE  asked > 0
    <3>1. asked = 1
      BY <1>3, <2>1 DEF StopsAsked
    <3> QED BY <3>1
  <2> QED BY <1>1, <1>2, <2>1 DEF ReturnsOnlyWhenAsked
<1>5. StopsAsked'
  <2> SUFFICES ASSUME ~overlap, NEW j \in DOMAIN port', NEW k \in DOMAIN port',
                      port'[j].key = Null, port'[k].key = Null
               PROVE  j = k /\ asked' = 1
    BY <1>1 DEF StopsAsked
  <2>1. /\ port[j + 1].key = Null /\ port[k + 1].key = Null
        /\ j + 1 \in DOMAIN port /\ k + 1 \in DOMAIN port
    BY <1>3
  <2>2. j + 1 = k + 1 /\ asked = 1
    BY <2>1 DEF StopsAsked
  <2>3. port[1].key # Null
    BY <1>3, <2>1 DEF StopsAsked
  <2>4. asked' = 1
    BY <1>1, <1>2, <2>2, <2>3
  <2>5. j \in Nat /\ k \in Nat
    BY <1>2
  <2> QED BY <2>2, <2>4, <2>5
<1> QED BY <1>4, <1>5

(* Steps that leave the port alone. *)
LEMMA StopsStay ==
  ASSUME StopsAsked, ReturnsOnlyWhenAsked, UNCHANGED <<port, asked>>, overlap => overlap',
         ended' = "not asked" => ended = "not asked"
  PROVE  StopsAsked' /\ ReturnsOnlyWhenAsked'
BY DEF StopsAsked, ReturnsOnlyWhenAsked

-----------------------------------------------------------------------------
(* What reports a setting stays. *)
LEMMA ReportsStay ==
  ASSUME Reports, TimersStay, UNCHANGED <<queue, overlap, reused, stale>>,
         \A t \in Timers : /\ timer'[t].early = timer[t].early
                           /\ timer[t].reported => timer'[t].reported,
         UNCHANGED timerCb \/ timerCb = None,
         InPort \subseteq InPort',
         loop = "find" => loop' = "find" /\ packet' = packet,
         \A t \in Timers : Setting(t) # None
  PROVE  Reports'
<1>1. \A t \in Timers : Setting(t)' = Setting(t)
  BY DEF TimersStay, Setting
<1> SUFFICES ASSUME ~overlap, ~reused, NEW t \in Timers, timer[t].hEvent # Null, ~timer[t].early
             PROVE  NotLost(t)'
  BY DEF Reports, TimersStay
<1>2. NotLost(t)
  BY DEF Reports
<1>3. CASE queue[timer[t].hEvent] = Setting(t)
  BY <1>1, <1>3 DEF NotLost, TimersStay
<1>4. CASE /\ timer[t].at = "idle"
           /\ \/ timerCb = Setting(t) \/ timer[t].reported
              \/ \E p \in InPort : p.by = Setting(t)
              \/ loop = "find" /\ packet.by = Setting(t)
  <2>1. timer'[t].at = "idle"
    BY <1>4 DEF TimersStay
  <2>2. CASE timerCb = Setting(t)
    BY <1>1, <2>1, <2>2 DEF NotLost
  <2>3. CASE timer[t].reported
    BY <2>1, <2>3 DEF NotLost
  <2>4. ASSUME NEW p \in InPort, p.by = Setting(t)
        PROVE  NotLost(t)'
    BY <1>1, <2>1, <2>4 DEF NotLost
  <2>5. CASE loop = "find" /\ packet.by = Setting(t)
    BY <1>1, <2>1, <2>5 DEF NotLost
  <2> QED BY <1>4, <2>2, <2>3, <2>4, <2>5
<1> QED BY <1>2, <1>3, <1>4 DEF NotLost
(* timerCb hands its setting over to the port, *)
LEMMA TimerCbReports ==
  ASSUME Types, Reports, TimerCb
  PROVE  Reports'
<1> DEFINE p == [key |-> timer[timerCb.timer].hEvent, status |-> "ok", by |-> timerCb]
<1>1. /\ timerCb # None /\ Post(timer[timerCb.timer].hEvent, "ok", timerCb)
      /\ UNCHANGED <<loop, packet, timer, queue, overlap, reused, stale>>
  BY DEF TimerCb, loopVars
<1>2. timerCb \in Settings /\ timer[timerCb.timer].hEvent \in Keys \cup {Null}
  BY <1>1, SettingTypes DEF Types, Settings, Keys
<1>3. p \in Packets /\ port' = Append(port, p)
  BY <1>1, <1>2, PostTypes DEF Types
<1>4. InPort' = InPort \cup {p}
  BY <1>3, Posted DEF Types
<1>5. \A t \in Timers : Setting(t)' = Setting(t)
  BY <1>1 DEF Setting
<1> SUFFICES ASSUME ~overlap, ~reused, NEW t \in Timers, timer[t].hEvent # Null, ~timer[t].early
             PROVE  NotLost(t)'
  BY <1>1 DEF Reports
<1>6. NotLost(t)
  BY DEF Reports
<1>7. p \in InPort' /\ p.by = timerCb
  BY <1>4
<1> HIDE DEF p
<1>8. CASE timer[t].at = "idle" /\ timerCb = Setting(t)
  BY <1>1, <1>5, <1>7, <1>8 DEF NotLost
<1>9. CASE ~(timer[t].at = "idle" /\ timerCb = Setting(t))
  BY <1>1, <1>4, <1>5, <1>6, <1>9 DEF NotLost
<1> QED BY <1>8, <1>9

(* the port to the loop, *)
LEMMA DequeueReports ==
  ASSUME Types, Travels, Reports, Dequeue
  PROVE  Reports'
<1> DEFINE p == Head(port)
<1>1. /\ port # <<>> /\ port' = Tail(port) /\ loop = "wait"
      /\ loop' = "find" <=> p.status = "ok" /\ p.key # Null
      /\ packet' = IF loop' \in {"find", "once"} THEN p ELSE NoPacket
      /\ UNCHANGED <<timer, queue, timerCb, overlap, reused, stale>>
  BY DequeueEffect DEF timerVars
<1>2. p \in Packets /\ InPort = InPort' \cup {p}
  BY <1>1, Dequeued DEF Types
<1>3. \A t \in Timers : Setting(t)' = Setting(t) /\ Setting(t) # None
  BY <1>1, SettingTypes DEF Setting
<1> SUFFICES ASSUME ~overlap, ~reused, NEW t \in Timers, timer[t].hEvent # Null, ~timer[t].early
             PROVE  NotLost(t)'
  BY <1>1 DEF Reports
<1>4. NotLost(t)
  BY DEF Reports
<1>5. CASE timer[t].at = "idle" /\ p.by = Setting(t)
  <2>1. WellFormed(p)
    BY <1>2 DEF Travels, Waiting
  <2>2. p.key \in Handles /\ Null \notin Handles /\ Socket \notin Handles
    BY <1>3, <1>5, <2>1, WindowsAssumption DEF WellFormed
  <2>3. p.status = "ok" /\ p.key # Null
    BY <2>1, <2>2 DEF WellFormed
  <2>4. loop' = "find" /\ packet' = p
    BY <1>1, <2>3
  <2> HIDE DEF p
  <2> QED BY <1>1, <1>3, <1>5, <2>4 DEF NotLost
<1>6. CASE ~(timer[t].at = "idle" /\ p.by = Setting(t))
  <2> HIDE DEF p
  <2> QED BY <1>1, <1>2, <1>3, <1>4, <1>6 DEF NotLost
<1> QED BY <1>5, <1>6

(* the loop to the callback of the timer, *)
LEMMA CallHandlerReports ==
  ASSUME Types, Owners, Travels, Reports, CallHandler
  PROVE  Reports'
<1> DEFINE owner == infos[packet.key]
<1>1. /\ loop \in {"find", "once"}
      /\ loop' \in {"call", "call once"}
      /\ \A u \in Timers :
           /\ timer'[u].hEvent = timer[u].hEvent /\ timer'[u].at = timer[u].at
           /\ timer'[u].setting = timer[u].setting /\ timer'[u].early = timer[u].early
           /\ timer[u].reported => timer'[u].reported
           /\ u = owner => timer'[u].reported
      /\ stale' = (stale \/ (owner \in Timers /\ packet.by # Setting(owner)))
      /\ UNCHANGED <<port, queue, timerCb, overlap, reused>>
  BY CallHandlerEffect DEF portVars
<1>2. packet.key \in Keys
  BY <1>1 DEF Travels, Taken
<1>3. \A t \in Timers : Setting(t)' = Setting(t) /\ Setting(t) # None
  BY <1>1, SettingTypes DEF Setting
<1>4. InPort' = InPort
  BY <1>1 DEF InPort
<1>5. ASSUME ~overlap, ~reused, owner \in Timers
      PROVE  packet.by = Setting(owner)
  <2>1. packet.key \in Handles
    BY <1>2, <1>5, WindowsAssumption DEF Owners, InfosOfTimers, Keys
  <2>2. timer[owner].hEvent = packet.key /\ packet.key # Null
    BY <1>5, <2>1, WindowsAssumption DEF Owners, InfosOfTimers
  <2>3. loop = "find"
    BY <1>1, <2>1, WindowsAssumption DEF Travels, Taken
  <2> QED BY <1>5, <2>2, <2>3 DEF Travels, Taken, OfOwner
<1>6. ASSUME ~overlap, ~reused, NEW t \in Timers, timer[t].hEvent # Null, ~timer[t].early
      PROVE  NotLost(t)'
  <2>1. NotLost(t)
    BY <1>6 DEF Reports
  <2>2. CASE timer[t].at = "idle" /\ loop = "find" /\ packet.by = Setting(t)
    <3>1. packet.key = timer[t].hEvent
      BY <1>6, <2>2 DEF Travels, Taken, WellFormed
    <3>2. owner = t
      BY <1>6, <2>2, <3>1 DEF Owners, InfosOfTimers
    <3> QED BY <1>1, <2>2, <3>2 DEF NotLost
  <2>3. CASE ~(timer[t].at = "idle" /\ loop = "find" /\ packet.by = Setting(t))
    <3> HIDE DEF owner
    <3> QED BY <1>1, <1>3, <1>4, <2>1, <2>3 DEF NotLost
  <2> QED BY <2>2, <2>3
<1> HIDE DEF owner
<1>7. ~overlap /\ ~reused => ~stale'
  BY <1>1, <1>5 DEF Reports
<1> QED BY <1>1, <1>6, <1>7 DEF Reports

(* which the loop does not miss. *)
LEMMA LoopReports ==
  ASSUME Types, Owners, Travels, Reports, Execute \/ NoHandler \/ HandlerReturns \/ HandlerThrows
  PROVE  Reports'
<1>1. /\ UNCHANGED <<port, infos, timer, queue, timerCb, overlap, reused, stale>>
      /\ loop = "find" => infos[packet.key] = Nobody
  BY LoopTypes DEF portVars, timerVars
<1>2. \A t \in Timers : Setting(t)' = Setting(t) /\ InPort' = InPort
  BY <1>1 DEF Setting, InPort
<1> SUFFICES ASSUME ~overlap, ~reused, NEW t \in Timers, timer[t].hEvent # Null, ~timer[t].early
             PROVE  NotLost(t)'
  BY <1>1 DEF Reports
<1>3. NotLost(t)
  BY DEF Reports
<1>4. ASSUME timer[t].at = "idle", loop = "find", packet.by = Setting(t)
      PROVE  FALSE
  <2>1. packet.key = timer[t].hEvent
    BY <1>4 DEF Travels, Taken, WellFormed
  <2>2. infos[packet.key] = t
    BY <1>4, <2>1 DEF Owners, InfosOfTimers
  <2> QED BY <1>1, <1>4, <2>2, WindowsAssumption
<1> QED BY <1>1, <1>2, <1>3, <1>4 DEF NotLost

(* An expiration is in the hands of timerCb. *)
LEMMA ExpireReports ==
  ASSUME Types, Owners, Reports, NEW h \in Handles, NEW repeated \in BOOLEAN, Expire(h, repeated)
  PROVE  Reports'
<1> DEFINE owner == queue[h].timer
<1>1. /\ owner \in Timers /\ timerCb = None /\ timerCb' = queue[h]
      /\ queue'[h] \in {queue[h], Expired}
      /\ \A k \in Handles \ {h} : queue'[k] = queue[k]
      /\ \A u \in Timers :
           /\ timer'[u].hEvent = timer[u].hEvent /\ timer'[u].at = timer[u].at
           /\ timer'[u].setting = timer[u].setting /\ timer'[u].reported = timer[u].reported
           /\ timer[u].early => timer'[u].early
           /\ u = owner /\ timer[u].at = "created" => timer'[u].early
      /\ UNCHANGED <<port, loop, packet, overlap, reused, stale>>
  BY ExpireEffect DEF portVars, loopVars
<1>2. \A t \in Timers : Setting(t)' = Setting(t) /\ Setting(t) # None
  BY <1>1, SettingTypes DEF Setting
<1>3. queue[h] = Setting(owner) /\ timer[owner].hEvent = h
  BY <1>1 DEF Owners, OneOwner
<1>4. InPort' = InPort
  BY <1>1 DEF InPort
<1>5. \A u \in Timers : timer[u].hEvent \in Handles \cup {Null} /\ timer[u].at \in {"idle", "erased", "created"}
  BY DEF Types, TimerStates
<1> SUFFICES ASSUME ~overlap, ~reused, NEW t \in Timers, timer'[t].hEvent # Null, ~timer'[t].early
             PROVE  NotLost(t)'
  BY <1>1 DEF Reports
<1>6. NotLost(t) /\ timer[t].hEvent # Null
  BY <1>1 DEF Reports
<1>7. CASE t = owner
  <2>1. timer[t].at = "idle"
    BY <1>1, <1>5, <1>6, <1>7 DEF Owners, InfosOfTimers
  <2> HIDE DEF owner
  <2> QED BY <1>1, <1>2, <1>3, <1>7, <2>1 DEF NotLost
<1>8. CASE t # owner
  <2>1. timer[t].hEvent # h
    BY <1>1, <1>3, <1>6, <1>8 DEF Owners, OneOwner
  <2>2. queue'[timer[t].hEvent] = queue[timer[t].hEvent]
    BY <1>1, <1>5, <1>6, <2>1
  <2> HIDE DEF owner
  <2> QED BY <1>1, <1>2, <1>4, <1>6, <2>2 DEF NotLost
<1> QED BY <1>7, <1>8

(* The end of a setting, and a new one. *)
LEMMA EndSettingReports ==
  ASSUME Types, Owners, Reports, NEW t \in Timers, timer[t].at = "idle",
         NEW then \in TimerStates, then.hEvent = Null, EndSetting(t, then)
  PROVE  Reports'
<1>1. /\ timer'[t].hEvent = Null
      /\ \A u \in Timers \ {t} : timer'[u] = timer[u]
      /\ \A h \in Handles : queue'[h] = IF h = timer[t].hEvent THEN None ELSE queue[h]
      /\ ~overlap' => ~overlap
      /\ UNCHANGED <<port, loop, packet, timerCb, reused, stale>>
  BY EndSettingEffect
<1>2. \A u \in Timers : timer[u].hEvent \in Handles \cup {Null}
  BY SettingTypes
<1> SUFFICES ASSUME ~overlap', ~reused, NEW u \in Timers, timer'[u].hEvent # Null, ~timer'[u].early
             PROVE  NotLost(u)'
  BY <1>1 DEF Reports
<1>3. u # t /\ timer'[u] = timer[u] /\ Setting(u)' = Setting(u) /\ InPort' = InPort
  BY <1>1 DEF Setting, InPort
<1>4. queue'[timer[u].hEvent] = queue[timer[u].hEvent]
  BY <1>1, <1>2, <1>3 DEF Owners, OneOwner
<1>5. NotLost(u)
  BY <1>1, <1>3 DEF Reports
<1> QED BY <1>1, <1>3, <1>4, <1>5 DEF NotLost

LEMMA SetCreateReports ==
  ASSUME Types, Owners, Reports, NEW t \in Timers, NEW h \in Handles, SetCreate(t, h)
  PROVE  Reports'
<1>1. /\ queue[h] = None /\ timer'[t].hEvent = h /\ timer'[t].setting = timer[t].setting
      /\ \A u \in Timers \ {t} : timer'[u] = timer[u]
      /\ queue'[h] = Setting(t)
      /\ \A k \in Handles \ {h} : queue'[k] = queue[k]
      /\ ~reused' => ~reused
      /\ UNCHANGED <<port, loop, packet, timerCb, overlap, stale>>
  BY SetCreateEffect DEF portVars, loopVars
<1>2. \A u \in Timers : Setting(u)' = Setting(u) /\ Setting(u) # None /\ timer[u].hEvent \in Handles \cup {Null}
  BY <1>1, SettingTypes DEF Setting
<1> SUFFICES ASSUME ~overlap, ~reused', NEW u \in Timers, timer'[u].hEvent # Null, ~timer'[u].early
             PROVE  NotLost(u)'
  BY <1>1 DEF Reports
<1>3. CASE u = t
  BY <1>1, <1>2, <1>3 DEF NotLost
<1>4. CASE u # t
  <2>1. timer'[u] = timer[u] /\ NotLost(u) /\ InPort' = InPort
    BY <1>1, <1>4 DEF Reports, InPort
  <2>2. timer[u].hEvent # h
    BY <1>1, <1>2, <2>1, StateTypes DEF Owners, OneOwner
  <2>3. queue'[timer[u].hEvent] = queue[timer[u].hEvent]
    BY <1>1, <1>2, <2>1, <2>2
  <2> QED BY <1>1, <1>2, <2>1, <2>3 DEF NotLost
<1> QED BY <1>3, <1>4

LEMMA SetEndsReports ==
  ASSUME Types, Owners, Reports, NEW t \in Timers, SetAdd(t) \/ SetFails(t)
  PROVE  Reports'
<1>1. /\ timer'[t].at = "idle" /\ timer'[t].hEvent = timer[t].hEvent
      /\ timer'[t].setting = timer[t].setting /\ timer'[t].early = timer[t].early
      /\ \A u \in Timers \ {t} : timer'[u] = timer[u]
      /\ UNCHANGED <<port, loop, packet, queue, timerCb, overlap, reused, stale>>
  BY SetEndsEffect DEF loopVars
<1>2. timer[t].at # "idle"
  BY DEF SetAdd, SetFails
<1>3. \A u \in Timers : Setting(u)' = Setting(u) /\ InPort' = InPort
  BY <1>1 DEF Setting, InPort
<1> SUFFICES ASSUME ~overlap, ~reused, NEW u \in Timers, timer'[u].hEvent # Null, ~timer'[u].early
             PROVE  NotLost(u)'
  BY <1>1 DEF Reports
<1>4. NotLost(u)
  BY <1>1 DEF Reports
<1>5. CASE u = t
  BY <1>1, <1>2, <1>3, <1>4, <1>5 DEF NotLost
<1>6. CASE u # t
  BY <1>1, <1>3, <1>4, <1>6 DEF NotLost
<1> QED BY <1>5, <1>6
-----------------------------------------------------------------------------
(* The inductive invariant. *)
WindowsInv == Types /\ Owners /\ Travels /\ StopsAsked /\ ReturnsOnlyWhenAsked /\ Reports

(* addEvent and eraseEvent of a socket, and the end of the notifier. *)
LEMMA InfosStep ==
  ASSUME WindowsInv, AddEvent \/ EraseEvent \/ CloseNotifier
  PROVE  Owners' /\ Travels' /\ StopsAsked' /\ ReturnsOnlyWhenAsked' /\ Reports'
<1>1. UNCHANGED <<port, asked, loop, packet, ended, timer, queue, timerCb, overlap, reused, stale>>
  BY DEF AddEvent, EraseEvent, CloseNotifier, loopVars, timerVars
<1>2. /\ \A h \in Handles : infos'[h] = infos[h]
      /\ infos'[Socket] \in {Socket, Nobody} /\ infos'[Notifier] \in {Notifier, Nobody}
  <2>1. infos \in [Keys -> Timers \cup {Nobody, Notifier, Socket}]
        /\ infos[Socket] \in {Socket, Nobody} /\ infos[Notifier] \in {Notifier, Nobody}
    BY DEF WindowsInv, Types, Owners, InfosOfTimers
  <2> QED BY <2>1, WindowsAssumption DEF AddEvent, EraseEvent, CloseNotifier, Keys
<1>3. TimersStay
  BY <1>1 DEF TimersStay
<1>4. Owners'
  BY <1>1, <1>2, <1>3, OwnersStay DEF WindowsInv
<1>5. Travels'
  BY <1>1, TravelsStay DEF WindowsInv, Travels
<1>6. StopsAsked' /\ ReturnsOnlyWhenAsked'
  BY <1>1, StopsStay DEF WindowsInv
<1>7. Reports'
  BY <1>1, <1>3, ReportsStay, SettingTypes DEF WindowsInv, InPort
<1> QED BY <1>4, <1>5, <1>6, <1>7

(* What is posted by others than the timer queue. *)
LEMMA PostStep ==
  ASSUME WindowsInv, NEW key \in {Null, Socket, Notifier},
         NEW status \in {"ok", "deleted", "aborted", "error"}, status # "ok" => key = Socket,
         Post(key, status, None), key # Null => UNCHANGED asked,
         UNCHANGED <<infos, loopVars, timerVars>>
  PROVE  /\ Owners' /\ Travels' /\ ReturnsOnlyWhenAsked' /\ Reports'
         /\ key # Null => StopsAsked'
<1>1. UNCHANGED <<loop, packet, ended, timer, queue, timerCb, overlap, reused, stale>>
  BY DEF loopVars, timerVars
<1>2. TimersStay
  BY <1>1 DEF TimersStay
<1>3. Owners'
  BY <1>1, <1>2, OwnersStay DEF WindowsInv, Owners, InfosOfTimers
<1>4. Travels'
  BY <1>1, PostTravels DEF WindowsInv
<1>5. ReturnsOnlyWhenAsked'
  BY <1>1 DEF WindowsInv, ReturnsOnlyWhenAsked
<1> DEFINE p == [key |-> key, status |-> status, by |-> None]
<1>6. p \in Packets /\ port' = Append(port, p)
  BY PostTypes DEF WindowsInv, Types, Keys
<1>7. key # Null => StopsAsked'
  BY <1>1, <1>6, PostStops DEF WindowsInv
<1>8. InPort \subseteq InPort'
  BY <1>6, Posted DEF WindowsInv, Types
<1>9. Reports'
  BY <1>1, <1>2, <1>8, ReportsStay, SettingTypes DEF WindowsInv
<1> QED BY <1>3, <1>4, <1>5, <1>7, <1>9

LEMMA TimerCbStep ==
  ASSUME WindowsInv, TimerCb
  PROVE  Owners' /\ Travels' /\ StopsAsked' /\ ReturnsOnlyWhenAsked' /\ Reports'
<1>1. /\ UNCHANGED <<infos, asked, ended, timer, queue, overlap>>
      /\ timerCb # None /\ Post(timer[timerCb.timer].hEvent, "ok", timerCb)
  BY DEF TimerCb, loopVars
<1>2. TimersStay
  BY <1>1 DEF TimersStay
<1>3. Owners'
  BY <1>1, <1>2, OwnersStay DEF WindowsInv, Owners, InfosOfTimers
<1>4. Travels' /\ Reports'
  BY TimerCbTravels, TimerCbReports DEF WindowsInv
<1>5. ReturnsOnlyWhenAsked'
  BY <1>1 DEF WindowsInv, ReturnsOnlyWhenAsked
<1> DEFINE p == [key |-> timer[timerCb.timer].hEvent, status |-> "ok", by |-> timerCb]
<1>6. timerCb \in Settings /\ timer[timerCb.timer].hEvent \in Keys \cup {Null}
  BY <1>1, SettingTypes DEF WindowsInv, Types, Settings, Keys
<1>7. p \in Packets /\ port' = Append(port, p)
  BY <1>1, <1>6, PostTypes DEF WindowsInv, Types
<1>8. ~overlap => p.key # Null
  BY <1>1 DEF WindowsInv, Travels, CallbackFits
<1>9. \A q \in Packets : port' = Append(port, q) /\ (~overlap => q.key # Null) => StopsAsked'
  BY <1>1, PostStops DEF WindowsInv
<1> HIDE DEF p
<1>10. StopsAsked'
  BY <1>7, <1>8, <1>9
<1> QED BY <1>3, <1>4, <1>5, <1>10

LEMMA LoopStepKeeps ==
  ASSUME WindowsInv, LoopStep
  PROVE  Owners' /\ Travels' /\ StopsAsked' /\ ReturnsOnlyWhenAsked' /\ Reports'
<1>1. CASE Execute \/ NoHandler \/ HandlerReturns \/ HandlerThrows
  <2>1. /\ UNCHANGED <<port, infos, asked, timer, queue, overlap>>
        /\ ended' = "not asked" => ended = "not asked"
    BY <1>1, LoopTypes DEF WindowsInv, portVars, timerVars
  <2>2. TimersStay
    BY <2>1 DEF TimersStay
  <2>3. Owners'
    BY <2>1, <2>2, OwnersStay DEF WindowsInv, Owners, InfosOfTimers
  <2>4. StopsAsked' /\ ReturnsOnlyWhenAsked'
    BY <2>1, StopsStay DEF WindowsInv
  <2>5. Travels' /\ Reports'
    BY <1>1, LoopTravels, LoopReports DEF WindowsInv
  <2> QED BY <2>3, <2>4, <2>5
<1>2. CASE Dequeue
  <2>1. UNCHANGED <<infos, timer, queue>>
    BY <1>2, DequeueEffect DEF WindowsInv, timerVars
  <2>2. TimersStay
    BY <2>1 DEF TimersStay
  <2>3. Owners'
    BY <2>1, <2>2, OwnersStay DEF WindowsInv, Owners, InfosOfTimers
  <2>4. StopsAsked' /\ ReturnsOnlyWhenAsked' /\ Travels' /\ Reports'
    BY <1>2, DequeueStops, DequeueTravels, DequeueReports DEF WindowsInv, Travels
  <2> QED BY <2>3, <2>4
<1>3. CASE CallHandler
  <2>1. UNCHANGED <<port, infos, asked, ended, queue, overlap>>
    BY <1>3, CallHandlerEffect DEF WindowsInv, portVars
  <2>2. Travels' /\ TimersStay /\ Reports'
    BY <1>3, CallHandlerTravels, CallHandlerReports DEF WindowsInv
  <2>3. Owners'
    BY <2>1, <2>2, OwnersStay DEF WindowsInv, Owners, InfosOfTimers
  <2>4. StopsAsked' /\ ReturnsOnlyWhenAsked'
    BY <2>1, StopsStay DEF WindowsInv
  <2> QED BY <2>2, <2>3, <2>4
<1> QED BY <1>1, <1>2, <1>3 DEF LoopStep

LEMMA TimerStep ==
  ASSUME WindowsInv, NEW t \in Timers, SetStep(t)
  PROVE  Owners' /\ Travels' /\ StopsAsked' /\ ReturnsOnlyWhenAsked' /\ Reports'
<1>1. ASSUME NEW h \in Handles, SetCreate(t, h)
      PROVE  Owners' /\ Travels' /\ StopsAsked' /\ ReturnsOnlyWhenAsked' /\ Reports'
  <2>1. UNCHANGED <<port, asked, ended, overlap>>
    BY <1>1, SetCreateEffect DEF WindowsInv, portVars, loopVars
  <2>2. StopsAsked' /\ ReturnsOnlyWhenAsked'
    BY <2>1, StopsStay DEF WindowsInv
  <2> QED BY <1>1, <2>2, SetCreateOwners, SetCreateTravels, SetCreateReports DEF WindowsInv
<1>2. CASE SetAdd(t) \/ SetFails(t)
  <2>1. UNCHANGED <<port, asked, ended, overlap>>
    BY <1>2, SetEndsEffect DEF WindowsInv, loopVars
  <2>2. StopsAsked' /\ ReturnsOnlyWhenAsked'
    BY <2>1, StopsStay DEF WindowsInv
  <2> QED BY <1>2, <2>2, SetEndsOwners, SetEndsTravels, SetEndsReports DEF WindowsInv
<1>3. CASE Cancel(t) \/ \E inLoop \in BOOLEAN : SetErase(t, inLoop)
  <2>1. PICK then \in TimerStates :
          /\ then.hEvent = Null /\ then.at \in {"idle", "erased"}
          /\ then.setting = timer[t].setting + 1
          /\ EndSetting(t, then)
    BY <1>3, SettingEnds DEF WindowsInv
  <2>2. timer[t].at = "idle"
    BY <1>3, SettingEnds DEF WindowsInv
  <2>3. UNCHANGED <<port, asked, ended>> /\ (overlap => overlap')
    BY <2>1, <2>2, EndSettingEffect DEF WindowsInv
  <2>4. StopsAsked' /\ ReturnsOnlyWhenAsked'
    BY <2>3, StopsStay DEF WindowsInv
  <2> QED BY <2>1, <2>2, <2>4, EndSettingOwners, EndSettingTravels, EndSettingReports DEF WindowsInv
<1> QED BY <1>1, <1>2, <1>3 DEF SetStep

LEMMA InvStep ==
  ASSUME WindowsInv, [Next]_vars
  PROVE  WindowsInv'
<1> DEFINE Kept == Owners' /\ Travels' /\ StopsAsked' /\ ReturnsOnlyWhenAsked' /\ Reports'
<1> SUFFICES Kept
  BY TypesStep DEF WindowsInv
<1>1. CASE Stop
  BY <1>1, PostStep, StopStops DEF Stop, WindowsInv
<1>2. CASE Notify
  BY <1>2, PostStep, WindowsAssumption DEF Notify
<1>3. ASSUME NEW status \in {"ok", "deleted", "aborted", "error"}, OperationEnds(status)
      PROVE  Kept
  BY <1>3, PostStep, WindowsAssumption DEF OperationEnds
<1>4. ASSUME NEW h \in Handles, NEW repeated \in BOOLEAN, Expire(h, repeated)
      PROVE  Kept
  <2>1. UNCHANGED <<port, asked, ended, overlap>>
    BY <1>4, ExpireEffect DEF WindowsInv, portVars, loopVars
  <2>2. StopsAsked' /\ ReturnsOnlyWhenAsked'
    BY <2>1, StopsStay DEF WindowsInv
  <2> QED BY <1>4, <2>2, ExpireOwners, ExpireTravels, ExpireReports DEF WindowsInv
<1>5. CASE UNCHANGED vars
  <2>1. UNCHANGED <<port, infos, asked, loop, packet, ended, timer, queue, timerCb, overlap, reused, stale>>
    BY <1>5 DEF vars, portVars, loopVars, timerVars
  <2>2. TimersStay
    BY <2>1 DEF TimersStay
  <2>3. Owners'
    BY <2>1, <2>2, OwnersStay DEF WindowsInv, Owners, InfosOfTimers
  <2>4. Travels'
    BY <2>1, TravelsStay DEF WindowsInv, Travels
  <2>5. StopsAsked' /\ ReturnsOnlyWhenAsked'
    BY <2>1, StopsStay DEF WindowsInv
  <2>6. Reports'
    BY <2>1, <2>2, ReportsStay, SettingTypes DEF WindowsInv, InPort
  <2> QED BY <2>3, <2>4, <2>5, <2>6
<1>6. CASE AddEvent \/ EraseEvent \/ CloseNotifier
  BY <1>6, InfosStep
<1>7. CASE LoopStep
  BY <1>7, LoopStepKeeps
<1>8. CASE TimerCb
  BY <1>8, TimerCbStep
<1>9. ASSUME NEW t \in Timers, SetStep(t)
      PROVE  Kept
  BY <1>9, TimerStep
<1> QED BY <1>1, <1>2, <1>3, <1>4, <1>5, <1>6, <1>7, <1>8, <1>9 DEF Next

LEMMA InvStart == Init => WindowsInv
<1> SUFFICES ASSUME Init
             PROVE  WindowsInv
  OBVIOUS
<1>1. timer = [t \in Timers |-> Fresh("idle", FALSE, 0)]
  BY DEF Init
<1>2. \A t \in Timers : /\ timer[t].hEvent = Null /\ timer[t].at = "idle"
                        /\ timer[t] \in TimerStates
  BY <1>1, StateTypes DEF Fresh
<1>3. Types
  <2>1. timer \in [Timers -> TimerStates]
    BY <1>1, <1>2
  <2>2. infos \in [Keys -> Timers \cup {Nobody, Notifier, Socket}]
    BY DEF Init
  <2>3. port \in Seq(Packets) /\ packet \in Packets
    BY StateTypes DEF Init
  <2> QED BY <2>1, <2>2, <2>3 DEF Init, Types
<1>4. Owners
  <2>1. \A h \in Handles : queue[h] = None
    BY DEF Init
  <2>2. OneOwner
    BY <1>2, <2>1, StateTypes DEF OneOwner
  <2>3. /\ \A h \in Handles : infos[h] = Nobody
        /\ infos[Socket] = Nobody /\ infos[Notifier] = Notifier
    BY WindowsAssumption DEF Init, Keys
  <2>4. InfosOfTimers
    BY <1>2, <2>3, WindowsAssumption DEF InfosOfTimers
  <2> QED BY <2>2, <2>4 DEF Owners
<1>5. Travels
  <2>1. InPort = {}
    BY DEF Init, InPort
  <2>2. \A t \in Timers : Setting(t) # None
    BY <1>3, SettingTypes
  <2>3. CallbackFits
    BY DEF Init, CallbackFits, Made
  <2>4. Taken
    BY <2>2 DEF Init, Taken, WellFormed, NoPacket, Made
  <2> QED BY <2>1, <2>3, <2>4 DEF Travels, Waiting
<1>6. StopsAsked /\ ReturnsOnlyWhenAsked /\ Reports
  <2>1. StopsAsked
    BY DEF Init, StopsAsked
  <2>2. ReturnsOnlyWhenAsked
    BY Zenon DEF Init, ReturnsOnlyWhenAsked
  <2>3. Reports
    BY <1>2 DEF Init, Reports
  <2> QED BY <2>1, <2>2, <2>3
<1> QED BY <1>3, <1>4, <1>5, <1>6 DEF WindowsInv

(* execute() ends on its own only if timerCb overlaps with set() or cancel() *)
(* (see ReturnsOnlyWhenAsked).                                               *)
THEOREM LoopReturnsWhenAsked == Spec => []ReturnsOnlyWhenAsked
<1>1. WindowsInv /\ [Next]_vars => WindowsInv'
  BY InvStep
<1>2. WindowsInv => ReturnsOnlyWhenAsked
  BY DEF WindowsInv
<1> QED BY InvStart, <1>1, <1>2, PTL DEF Spec

(* A timer reports its present setting, and does so (see                     *)
(* TimerReportsItsSetting), for any number of timers that take handles from  *)
(* each other.                                                               *)
THEOREM TimerReports == Spec => []TimerReportsItsSetting
<1>1. WindowsInv /\ [Next]_vars => WindowsInv'
  BY InvStep
<1>2. WindowsInv => TimerReportsItsSetting
  <2> SUFFICES ASSUME WindowsInv, ~overlap, ~reused
               PROVE  /\ ~stale
                      /\ \A t \in Timers :
                           timer[t].at = "idle" /\ timer[t].hEvent # Null /\ ~timer[t].early
                             => \/ queue[timer[t].hEvent] = Setting(t)
                                \/ timerCb = Setting(t)
                                \/ timer[t].reported
                                \/ \E k \in DOMAIN port : port[k].by = Setting(t)
                                \/ loop = "find" /\ packet.by = Setting(t)
    BY DEF TimerReportsItsSetting
  <2> QED BY DEF WindowsInv, Reports, NotLost, InPort
<1> QED BY InvStart, <1>1, <1>2, PTL DEF Spec
-----------------------------------------------------------------------------
(* The packets of the notifier, *)
Marks == {k \in DOMAIN port : port[k].key = Notifier}

(* and the one the loop has taken and not called back for. *)
InHand == IF loop = "find" /\ packet.key = Notifier THEN 1 ELSE 0

LEMMA MarksFinite ==
  ASSUME port \in Seq(Packets)
  PROVE  IsFiniteSet(Marks) /\ Cardinality(Marks) \in Nat
<1>1. Len(port) \in Nat /\ DOMAIN port = 1..Len(port)
  BY LenProperties
<1>2. IsFiniteSet(1..Len(port))
  BY <1>1, FS_Interval
<1>3. Marks \in SUBSET (1..Len(port))
  BY <1>1 DEF Marks
<1> QED BY <1>2, <1>3, FS_Subset, FS_CardinalityType

LEMMA MarksPosted ==
  ASSUME port \in Seq(Packets), NEW p \in Packets, port' = Append(port, p)
  PROVE  Cardinality(Marks') = Cardinality(Marks) + (IF p.key = Notifier THEN 1 ELSE 0)
<1>1. /\ DOMAIN port = 1..Len(port) /\ DOMAIN port' = 1..Len(port) + 1 /\ Len(port) \in Nat
      /\ \A k \in 1..Len(port) : port'[k] = port[k]
      /\ port'[Len(port) + 1] = p
  BY Posted
<1>2. IsFiniteSet(Marks) /\ Cardinality(Marks) \in Nat /\ Len(port) + 1 \notin Marks
  BY <1>1, MarksFinite DEF Marks
<1>3. CASE p.key = Notifier
  <2>1. Marks' = Marks \cup {Len(port) + 1}
    BY <1>1, <1>3 DEF Marks
  <2> QED BY <1>2, <1>3, <2>1, FS_AddElement
<1>4. CASE p.key # Notifier
  <2>1. Marks' = Marks
    BY <1>1, <1>4 DEF Marks
  <2> QED BY <1>2, <1>4, <2>1
<1> QED BY <1>3, <1>4

LEMMA MarksDequeued ==
  ASSUME port \in Seq(Packets), port # <<>>, port' = Tail(port)
  PROVE  Cardinality(Marks) = Cardinality(Marks') + (IF Head(port).key = Notifier THEN 1 ELSE 0)
<1>1. /\ port' \in Seq(Packets) /\ Len(port) \in Nat \ {0} /\ Head(port) = port[1]
      /\ DOMAIN port = 1..Len(port) /\ DOMAIN port' = 1..Len(port) - 1
      /\ \A k \in 1..Len(port) - 1 : port'[k] = port[k + 1]
  BY Dequeued
<1>2. IsFiniteSet(Marks) /\ Cardinality(Marks) \in Nat
  BY MarksFinite
<1>3. IsFiniteSet(Marks') /\ Cardinality(Marks') \in Nat
  <2>1. Len(port) - 1 \in Int /\ IsFiniteSet(1..Len(port) - 1)
    BY <1>1, FS_Interval
  <2>2. Marks' \in SUBSET (1..Len(port) - 1)
    BY <1>1 DEF Marks
  <2> QED BY <2>1, <2>2, FS_Subset, FS_CardinalityType
<1> DEFINE next == [k \in Marks' |-> k + 1]
<1>4. next \in Bijection(Marks', Marks \ {1})
  <2>1. \A k \in Marks' : k \in Nat /\ k + 1 \in Marks \ {1}
    BY <1>1 DEF Marks
  <2>2. \A k \in Marks \ {1} : k - 1 \in Marks' /\ (k - 1) + 1 = k
    <3> SUFFICES ASSUME NEW k \in Marks \ {1}
                 PROVE  k - 1 \in Marks' /\ (k - 1) + 1 = k
      OBVIOUS
    <3>1. k \in 2..Len(port) /\ port[k].key = Notifier
      BY <1>1 DEF Marks
    <3>2. k - 1 \in 1..Len(port) - 1 /\ (k - 1) + 1 = k
      BY <1>1, <3>1
    <3>3. port'[k - 1] = port[k]
      BY <1>1, <3>2
    <3> QED BY <1>1, <3>1, <3>2, <3>3 DEF Marks
  <2>3. next \in Injection(Marks', Marks \ {1})
    BY <2>1 DEF Injection, IsInjective
  <2>4. next \in Surjection(Marks', Marks \ {1})
    <3>1. \A k \in Marks \ {1} : \E j \in Marks' : next[j] = k
      BY <2>2
    <3>2. next \in [Marks' -> Marks \ {1}]
      BY <2>1
    <3> HIDE DEF next
    <3> QED BY <3>1, <3>2 DEF Surjection
  <2> QED BY <2>3, <2>4 DEF Bijection
<1> HIDE DEF next
<1>5. Cardinality(Marks \ {1}) = Cardinality(Marks')
  BY <1>3, <1>4, FS_Bijection DEF ExistsBijection
<1>6. Cardinality(Marks \ {1}) = IF 1 \in Marks THEN Cardinality(Marks) - 1 ELSE Cardinality(Marks)
  BY <1>2, FS_RemoveElement
<1>7. 1 \in Marks <=> Head(port).key = Notifier
  BY <1>1 DEF Marks
<1> QED BY <1>2, <1>3, <1>5, <1>6, <1>7

(* What the notification sees of the port. *)
LEMMA PendingIs ==
  ASSUME port \in Seq(Packets)
  PROVE  /\ Pending = IF infos[Notifier] = Nobody THEN 0 ELSE Cardinality(Marks) + InHand
         /\ Cardinality(Marks) \in Nat
         /\ InHand \in {0, 1}
<1>1. Pending = IF infos[Notifier] = Nobody THEN 0 ELSE Cardinality(Marks) + InHand
  BY DEF Pending, Marks, InHand
<1>2. Cardinality(Marks) \in Nat /\ InHand \in {0, 1}
  BY MarksFinite DEF InHand
<1> QED BY <1>1, <1>2

LEMMA PendingBecomes ==
  Pending' = IF infos'[Notifier] = Nobody THEN 0 ELSE Cardinality(Marks') + InHand'
BY DEF Pending, Marks, InHand

(* A step that moves no packet of the notifier is not seen, *)
LEMMA Unseen ==
  ASSUME Types, infos'[Notifier] = infos[Notifier], UNCHANGED <<notified, called>>,
         infos[Notifier] # Nobody => Cardinality(Marks') + InHand' = Cardinality(Marks) + InHand
  PROVE  [Abstract!Next]_(Abstract!vars)
<1>1. Pending' = Pending
  BY PendingIs, PendingBecomes DEF Types
<1> QED BY <1>1 DEF Abstract!vars

(* such as one that leaves the port and the loop alone, *)
LEMMA UnseenElsewhere ==
  ASSUME Types, infos'[Notifier] = infos[Notifier], UNCHANGED <<port, loop, packet, notified, called>>
  PROVE  [Abstract!Next]_(Abstract!vars)
<1>1. Marks' = Marks /\ InHand' = InHand
  BY DEF Marks, InHand
<1> QED BY <1>1, Unseen

(* or one that posts for somebody else. *)
LEMMA UnseenPost ==
  ASSUME Types, NEW p \in Packets, port' = Append(port, p), p.key # Notifier,
         UNCHANGED <<infos, loop, packet, notified, called>>
  PROVE  [Abstract!Next]_(Abstract!vars)
<1>1. Cardinality(Marks') = Cardinality(Marks)
  <2>1. Cardinality(Marks') = Cardinality(Marks) + 0 /\ Cardinality(Marks) \in Nat
    BY MarksPosted, MarksFinite DEF Types
  <2> QED BY <2>1
<1>2. InHand' = InHand
  BY DEF InHand
<1> QED BY <1>1, <1>2, Unseen

(* A packet that the loop takes stays pending until its callback is called. *)
LEMMA DequeueUnseen ==
  ASSUME WindowsInv, Dequeue
  PROVE  [Abstract!Next]_(Abstract!vars)
<1>1. /\ loop = "wait" /\ port # <<>> /\ port' = Tail(port)
      /\ loop' = "find" <=> Head(port).status = "ok" /\ Head(port).key # Null
      /\ packet' = IF loop' \in {"find", "once"} THEN Head(port) ELSE NoPacket
      /\ UNCHANGED <<infos, notified, called>>
  BY DequeueEffect DEF WindowsInv, notifierVars
<1>2. port \in Seq(Packets) /\ Head(port) \in InPort
  BY <1>1, Dequeued DEF WindowsInv, Types
<1>3. Head(port).key = Notifier => Head(port).status = "ok"
  BY <1>2, WindowsAssumption DEF WindowsInv, Travels, Waiting, WellFormed
<1>4. InHand = 0 /\ InHand' = IF Head(port).key = Notifier THEN 1 ELSE 0
  BY <1>1, <1>3, WindowsAssumption DEF InHand
<1>5. Cardinality(Marks) = Cardinality(Marks') + (IF Head(port).key = Notifier THEN 1 ELSE 0)
  BY <1>1, <1>2, MarksDequeued
<1>6. Cardinality(Marks') \in Nat
  <2>1. Cardinality(Marks) \in Nat /\ IsFiniteSet(Marks')
    <3>1. Len(port) \in Nat \ {0} /\ DOMAIN port' = 1..Len(port) - 1
      BY <1>1, <1>2, Dequeued
    <3>2. Len(port) - 1 \in Int /\ IsFiniteSet(1..Len(port) - 1)
      BY <3>1, FS_Interval
    <3>3. Marks' \in SUBSET (1..Len(port) - 1)
      BY <3>1 DEF Marks
    <3> QED BY <1>2, <3>2, <3>3, FS_Subset, MarksFinite
  <2> QED BY <2>1, FS_CardinalityType
<1>7. Cardinality(Marks') + InHand' = Cardinality(Marks) + InHand
  BY <1>4, <1>5, <1>6
<1> QED BY <1>1, <1>7, Unseen DEF WindowsInv

(* The callback of the notifier is called for the packet in hand. *)
LEMMA CallHandlerSeen ==
  ASSUME WindowsInv, CallHandler
  PROVE  [Abstract!Next]_(Abstract!vars)
<1>1. /\ loop \in {"find", "once"} /\ infos[packet.key] # Nobody
      /\ loop' \in {"call", "call once"}
      /\ called' = IF infos[packet.key] = Notifier THEN called + 1 ELSE called
      /\ UNCHANGED <<port, infos, notified, packet>>
  BY CallHandlerEffect DEF WindowsInv, portVars
<1>2. packet.key \in Keys /\ (loop = "once" => packet.key = Socket)
  BY <1>1 DEF WindowsInv, Travels, Taken
<1>3. Marks' = Marks /\ InHand' = 0
  BY <1>1 DEF Marks, InHand
<1>4. CASE packet.key = Notifier
  <2>1. loop = "find" /\ infos[Notifier] = Notifier
    BY <1>1, <1>2, <1>4, WindowsAssumption DEF WindowsInv, Owners, InfosOfTimers
  <2>2. InHand = 1 /\ called' = called + 1
    BY <1>1, <1>4, <2>1 DEF InHand
  <2>3. Pending = Cardinality(Marks) + 1 /\ Pending' = Cardinality(Marks) + 0 /\ Cardinality(Marks) \in Nat
    BY <1>1, <1>3, <1>4, <2>1, <2>2, PendingIs, PendingBecomes DEF WindowsInv, Types
  <2>4. Pending > 0 /\ Pending' = Pending - 1
    BY <2>3
  <2>5. (infos[Notifier] # Nobody) /\ (infos'[Notifier] # Nobody) = (infos[Notifier] # Nobody)
    BY <1>1, <1>4
  <2>6. Abstract!Call
    BY <1>1, <2>2, <2>4, <2>5 DEF Abstract!Call
  <2> QED BY <2>6 DEF Abstract!Next
<1>5. CASE packet.key # Notifier
  <2>1. infos[packet.key] # Notifier
    BY <1>2, <1>5, WindowsAssumption DEF WindowsInv, Owners, InfosOfTimers, Keys
  <2>2. InHand = 0 /\ called' = called
    BY <1>1, <1>5, <2>1 DEF InHand
  <2> QED BY <1>1, <1>3, <2>2, Unseen DEF WindowsInv
<1> QED BY <1>4, <1>5

(* The loop gives up no packet of the notifier but those without a callback. *)
LEMMA LoopUnseen ==
  ASSUME WindowsInv, Execute \/ NoHandler \/ HandlerReturns \/ HandlerThrows
  PROVE  [Abstract!Next]_(Abstract!vars)
<1>1. /\ UNCHANGED <<port, infos, notified, called>>
      /\ loop' = "find" => packet' = packet /\ (loop = "find" \/ packet.key = Socket)
      /\ loop = "find" => infos[packet.key] = Nobody
  BY LoopTypes DEF WindowsInv, portVars, notifierVars
<1>2. Marks' = Marks
  BY <1>1 DEF Marks
<1>3. infos[Notifier] # Nobody => InHand = 0 /\ InHand' = 0
  BY <1>1, WindowsAssumption DEF InHand
<1> QED BY <1>1, <1>2, <1>3, Unseen DEF WindowsInv

(* notify() posts one packet. *)
LEMMA NotifySeen ==
  ASSUME WindowsInv, Notify
  PROVE  Abstract!Notify
<1> DEFINE p == [key |-> Notifier, status |-> "ok", by |-> None]
<1>1. /\ infos[Notifier] # Nobody /\ Post(Notifier, "ok", None)
      /\ notified' = notified + 1
      /\ UNCHANGED <<infos, loop, packet, called>>
  BY DEF Notify, loopVars
<1>2. p \in Packets /\ port' = Append(port, p) /\ p.key = Notifier
  BY <1>1, PostTypes DEF WindowsInv, Types, Keys
<1> HIDE DEF p
<1>3. Cardinality(Marks') = Cardinality(Marks) + 1
  BY <1>2, MarksPosted DEF WindowsInv, Types
<1>4. InHand' = InHand
  BY <1>1 DEF InHand
<1>5. /\ Pending = Cardinality(Marks) + InHand /\ Pending' = Cardinality(Marks') + InHand'
      /\ Cardinality(Marks) \in Nat /\ InHand \in {0, 1}
  BY <1>1, PendingIs, PendingBecomes DEF WindowsInv, Types
<1>6. Pending' = Pending + 1
  BY <1>3, <1>4, <1>5
<1>7. (infos'[Notifier] # Nobody) = (infos[Notifier] # Nobody)
  BY <1>1
<1> QED BY <1>1, <1>6, <1>7 DEF Abstract!Notify

(* The destructor gives up what is pending. *)
LEMMA CloseSeen ==
  ASSUME WindowsInv, CloseNotifier
  PROVE  [Abstract!Next]_(Abstract!vars)
<1>1. infos'[Notifier] = Nobody /\ UNCHANGED <<notified, called>>
  BY DEF CloseNotifier, WindowsInv, Types, Keys, notifierVars
<1>2. Pending' = 0
  BY <1>1, PendingBecomes
<1>3. CASE infos[Notifier] = Nobody
  <2>1. Pending = 0
    BY <1>3 DEF Pending
  <2>2. (infos'[Notifier] # Nobody) = (infos[Notifier] # Nobody)
    BY <1>1, <1>3
  <2> QED BY <1>1, <1>2, <2>1, <2>2 DEF Abstract!vars
<1>4. CASE infos[Notifier] # Nobody
  <2>1. (infos'[Notifier] # Nobody) = FALSE
    BY <1>1
  <2>2. Abstract!Close
    BY <1>1, <1>2, <1>4, <2>1 DEF Abstract!Close
  <2> QED BY <2>2 DEF Abstract!Next
<1> QED BY <1>3, <1>4

(* set() and cancel() touch the callbacks of timers only. *)
LEMMA TimerUnseen ==
  ASSUME WindowsInv, NEW t \in Timers, SetStep(t)
  PROVE  [Abstract!Next]_(Abstract!vars)
<1>1. timer[t].hEvent \in Handles \cup {Null} /\ Notifier \notin Handles \cup {Null}
      /\ infos \in [Keys -> Timers \cup {Nobody, Notifier, Socket}] /\ Notifier \in Keys
  BY WindowsAssumption DEF WindowsInv, Types, TimerStates, Keys
<1>2. ASSUME NEW h \in Handles, SetCreate(t, h)
      PROVE  [Abstract!Next]_(Abstract!vars)
  <2>1. UNCHANGED <<port, infos, loop, packet, notified, called>>
    BY <1>2, SetCreateEffect DEF WindowsInv, portVars, loopVars, notifierVars
  <2> QED BY <2>1, UnseenElsewhere DEF WindowsInv
<1>3. CASE SetFails(t)
  <2>1. UNCHANGED <<port, infos, loop, packet, notified, called>>
    BY <1>3 DEF SetFails, portVars, loopVars, notifierVars
  <2> QED BY <2>1, UnseenElsewhere DEF WindowsInv
<1>4. CASE SetAdd(t)
  <2>1. UNCHANGED <<port, loop, packet, notified, called>>
    BY <1>4 DEF SetAdd, loopVars, notifierVars
  <2>2. infos'[Notifier] = infos[Notifier]
    BY <1>1, <1>4 DEF SetAdd
  <2> QED BY <2>1, <2>2, UnseenElsewhere DEF WindowsInv
<1>5. CASE Cancel(t) \/ \E inLoop \in BOOLEAN : SetErase(t, inLoop)
  <2>1. PICK then \in TimerStates :
          /\ then.hEvent = Null /\ then.at \in {"idle", "erased"}
          /\ then.setting = timer[t].setting + 1
          /\ EndSetting(t, then)
    BY <1>5, SettingEnds DEF WindowsInv
  <2>2. timer[t].at = "idle"
    BY <1>5, SettingEnds DEF WindowsInv
  <2>3. /\ UNCHANGED <<port, loop, packet, notified, called>>
        /\ \A k \in Keys : infos'[k] = IF k = timer[t].hEvent THEN Nobody ELSE infos[k]
    BY <2>1, <2>2, EndSettingEffect DEF WindowsInv
  <2>4. infos'[Notifier] = infos[Notifier]
    BY <1>1, <2>3
  <2> QED BY <2>3, <2>4, UnseenElsewhere DEF WindowsInv
<1> QED BY <1>2, <1>3, <1>4, <1>5 DEF SetStep

LEMMA WindowsStepSimulates ==
  ASSUME WindowsInv, [Next]_vars
  PROVE  [Abstract!Next]_(Abstract!vars)
<1>1. CASE AddEvent \/ EraseEvent
  <2>1. UNCHANGED <<port, loop, packet, notified, called>>
    BY <1>1 DEF AddEvent, EraseEvent, loopVars, notifierVars
  <2>2. infos'[Notifier] = infos[Notifier]
    BY <1>1, WindowsAssumption DEF AddEvent, EraseEvent, WindowsInv, Types, Keys
  <2> QED BY <2>1, <2>2, UnseenElsewhere DEF WindowsInv
<1>2. CASE Stop
  <2> DEFINE p == [key |-> Null, status |-> "ok", by |-> None]
  <2>1. p \in Packets /\ port' = Append(port, p) /\ p.key # Notifier
    BY <1>2, PostTypes, WindowsAssumption DEF Stop, WindowsInv, Types
  <2>2. UNCHANGED <<infos, loop, packet, notified, called>>
    BY <1>2 DEF Stop, loopVars, notifierVars
  <2> HIDE DEF p
  <2> QED BY <2>1, <2>2, UnseenPost DEF WindowsInv
<1>3. ASSUME NEW status \in {"ok", "deleted", "aborted", "error"}, OperationEnds(status)
      PROVE  [Abstract!Next]_(Abstract!vars)
  <2> DEFINE p == [key |-> Socket, status |-> status, by |-> None]
  <2>1. p \in Packets /\ port' = Append(port, p) /\ p.key # Notifier
    BY <1>3, PostTypes, WindowsAssumption, ZenonT(60) DEF OperationEnds, WindowsInv, Types, Keys
  <2>2. UNCHANGED <<infos, loop, packet, notified, called>>
    BY <1>3 DEF OperationEnds, loopVars, notifierVars
  <2> HIDE DEF p
  <2> QED BY <2>1, <2>2, UnseenPost DEF WindowsInv
<1>4. CASE TimerCb
  <2> DEFINE p == [key |-> timer[timerCb.timer].hEvent, status |-> "ok", by |-> timerCb]
  <2>1. timerCb # None /\ Post(timer[timerCb.timer].hEvent, "ok", timerCb)
        /\ UNCHANGED <<infos, loop, packet, notified, called>>
    BY <1>4 DEF TimerCb, loopVars, notifierVars
  <2>2. timerCb \in Settings /\ timer[timerCb.timer].hEvent \in Handles \cup {Null}
    BY <2>1, SettingTypes DEF WindowsInv, Types, Settings
  <2>3. p \in Packets /\ port' = Append(port, p)
    BY <2>1, <2>2, PostTypes DEF WindowsInv, Types, Keys
  <2>4. p.key # Notifier
    BY <2>2, WindowsAssumption
  <2> HIDE DEF p
  <2> QED BY <2>1, <2>3, <2>4, UnseenPost DEF WindowsInv
<1>5. ASSUME NEW h \in Handles, NEW repeated \in BOOLEAN, Expire(h, repeated)
      PROVE  [Abstract!Next]_(Abstract!vars)
  <2>1. UNCHANGED <<port, infos, loop, packet, notified, called>>
    BY <1>5, ExpireEffect DEF WindowsInv, portVars, loopVars, notifierVars
  <2> QED BY <2>1, UnseenElsewhere DEF WindowsInv
<1>6. CASE Notify
  BY <1>6, NotifySeen DEF Abstract!Next
<1>7. CASE CloseNotifier
  BY <1>7, CloseSeen
<1>8. CASE LoopStep
  BY <1>8, DequeueUnseen, CallHandlerSeen, LoopUnseen DEF LoopStep
<1>9. ASSUME NEW t \in Timers, SetStep(t)
      PROVE  [Abstract!Next]_(Abstract!vars)
  BY <1>9, TimerUnseen
<1>10. CASE UNCHANGED vars
  <2>1. UNCHANGED <<port, infos, loop, packet, notified, called>>
    BY <1>10 DEF vars, portVars, loopVars, notifierVars
  <2> QED BY <2>1, UnseenElsewhere DEF WindowsInv
<1> QED BY <1>1, <1>2, <1>3, <1>4, <1>5, <1>6, <1>7, <1>8, <1>9, <1>10 DEF Next

(* The notifier of Windows implements Notification too: one call per         *)
(* notify(), whatever timers, sockets and stop() put into the port and       *)
(* however often execute() returns in between (see NotifiesOneByOne).        *)
THEOREM WindowsNotifies == Spec => NotifiesOneByOne
<1>1. Init => Abstract!Init
  <2> SUFFICES ASSUME Init PROVE Abstract!Init
    OBVIOUS
  <2>1. infos[Notifier] # Nobody /\ port = <<>> /\ loop # "find" /\ notified = 0 /\ called = 0
    BY WindowsAssumption DEF Init, Keys
  <2>2. Marks = {} /\ InHand = 0
    BY <2>1 DEF Marks, InHand
  <2>3. Pending = Cardinality({}) + 0
    BY <2>1, <2>2 DEF Pending, Marks, InHand
  <2>4. Pending = 0
    BY <2>3, FS_EmptySet
  <2> QED BY <2>1, <2>4 DEF Abstract!Init
<1>2. WindowsInv /\ [Next]_vars => WindowsInv'
  BY InvStep
<1>3. WindowsInv /\ [Next]_vars => [Abstract!Next]_(Abstract!vars)
  BY WindowsStepSimulates
<1> QED BY InvStart, <1>1, <1>2, <1>3, PTL DEF Spec, NotifiesOneByOne, Abstract!Spec
=============================================================================
