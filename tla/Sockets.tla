------------------------------- MODULE Sockets -------------------------------
(***************************************************************************)
(* The life cycle of SocketNonblocking objects that share an event loop    *)
(* (lib/communication/linux/socketnonblocking.cpp): construction for a     *)
(* client or for an accepted connection, connect(), disconnect(), the      *)
(* setters of the callbacks and the destructor.                            *)
(*                                                                         *)
(* Calls on different objects overlap, each system call and each call of   *)
(* the event loop being a step; calls on one object do not, except that    *)
(* addEvent calls the callback, which may disconnect() its own socket in   *)
(* the middle of connect() or setDataCb().  calls[s] is the call stack of  *)
(* object s.                                                               *)
(*                                                                         *)
(* The event loop is reduced to its registry (EventLoop has the rest): the *)
(* object each callback in m_eventInfos is bound to, and the directions    *)
(* epoll watches.  The kernel hands out the lowest free descriptor.        *)
(***************************************************************************)
EXTENDS Integers, Sequences

CONSTANTS
  Objects,   \* SocketNonblocking objects
  Fds,       \* descriptor numbers: 0..n
  None,      \* no object
  Other,     \* the owner of descriptors that belong to none of the objects
  Calls      \* per object: the calls its user makes besides disconnect()

ASSUME FdsAssumption == Fds \subseteq Nat
ASSUME NoneAssumption == None \notin Objects /\ Other \notin Objects \cup {None}

Dir == {"in", "out"}
NoFd == -1

VARIABLES
  owner,     \* per descriptor: the object it was opened for; None if it is free
  bound,     \* m_eventInfos: per descriptor and direction the object of the callback
  watched,   \* per descriptor: the directions in epoll's interest list
  alive,     \* objects that exist
  event,     \* m_event
  handler,   \* per object: m_inDataHandler and m_outDataHandler that are set
  calls,     \* per object: the calls it is in
  want,      \* per object: the directions its user wants callbacks for, unless unclear
  lost,      \* descriptors that no object knows any more
  robbed,    \* objects that got a descriptor its former owner was still erasing
  unclear    \* (object, direction) whose setter did something else than it says

descriptors == <<owner, bound, watched>>
objects == <<alive, event, handler, want>>
ghosts == <<lost, robbed, unclear>>
socketVars == <<descriptors, objects, calls, ghosts>>

SocketsInit ==
  /\ owner = [fd \in Fds |-> None]
  /\ bound = [fd \in Fds |-> [d \in Dir |-> None]]
  /\ watched = [fd \in Fds |-> {}]
  /\ alive = {}
  /\ event = [s \in Objects |-> NoFd]
  /\ handler = [s \in Objects |-> {}]
  /\ calls = [s \in Objects |-> <<>>]
  /\ want = [s \in Objects |-> {}]
  /\ lost = {}
  /\ robbed = {}
  /\ unclear = {}

-----------------------------------------------------------------------------
(* The call stack of an object *)

Idle(s) == calls[s] = <<>>

(* Calls from outside do not overlap. *)
MayCall(s, call) == s \in alive /\ Idle(s) /\ call \in Calls[s]

(* s is in step, the innermost of its calls. *)
At(s, step) == ~Idle(s) /\ Head(calls[s]) = step

(* The innermost call goes on with the given steps. *)
Continue(s, steps) == calls' = [calls EXCEPT ![s] = steps \o Tail(@)]
Return(s) == Continue(s, <<>>)

-----------------------------------------------------------------------------
(* EventLoop, reduced to m_eventInfos and the interest list *)

Registered(fd) == {d \in Dir : bound[fd][d] # None}

(* addEvent, addOutEvent: EPOLL_CTL_ADD without an entry for the descriptor *)
(* in m_eventInfos, EPOLL_CTL_MOD with one; MOD fails on a descriptor that  *)
(* epoll does not know, because it was closed and opened again.             *)
Added(fd) == watched[fd] # {} <=> Registered(fd) # {}

AddTo(fd, d, s) ==
  /\ bound' = [bound EXCEPT ![fd][d] = s]
  /\ watched' = IF Added(fd) THEN [watched EXCEPT ![fd] = Registered(fd) \cup {d}] ELSE watched

(* eraseEvent, eraseOutEvent *)
EraseFrom(fd, d) ==
  /\ bound' = [bound EXCEPT ![fd][d] = None]
  /\ watched' = IF bound[fd][d] # None /\ watched[fd] # {}
                  THEN [watched EXCEPT ![fd] = Registered(fd) \ {d}]
                  ELSE watched

-----------------------------------------------------------------------------
(* External: descriptors *)

(* The object still has to erase fd after it has closed it. *)
Erasing(s, fd) == event[s] = fd /\ (At(s, "eraseIn") \/ At(s, "eraseOut"))

(* socket() or accept() for object s. *)
Open(s, fd) ==
  /\ owner[fd] = None
  /\ \A other \in Fds : other < fd => owner[other] # None
  /\ owner' = [owner EXCEPT ![fd] = s]
  /\ robbed' = IF \E other \in Objects \ {s} : Erasing(other, fd) THEN robbed \cup {s} ELSE robbed

(* close() takes the descriptor out of the interest list. *)
Close(fd) ==
  /\ owner' = [owner EXCEPT ![fd] = None]
  /\ watched' = [watched EXCEPT ![fd] = {}]

-----------------------------------------------------------------------------
(* Construction; TcpServer has the server that accepts *)

Construct(s) ==
  /\ s \notin alive
  /\ "connect" \in Calls[s]
  /\ alive' = alive \cup {s}
  /\ UNCHANGED <<descriptors, event, handler, want, calls, ghosts>>

(* TcpServer::process: accept() and the constructor for the new descriptor. *)
Accept(s) ==
  /\ s \notin alive
  /\ \E fd \in Fds : Open(s, fd) /\ event' = [event EXCEPT ![s] = fd]
  /\ alive' = alive \cup {s}
  /\ UNCHANGED <<bound, watched, handler, want, calls, lost, unclear>>

(* The constructor throws: its destructor is not run, nobody closes. *)
AcceptThrows(s) ==
  /\ s \notin alive
  /\ \E fd \in Fds : Open(s, fd) /\ lost' = lost \cup {fd}
  /\ UNCHANGED <<bound, watched, objects, calls, unclear>>

-----------------------------------------------------------------------------
(* connect *)

(* A descriptor the object had before is forgotten. *)
ConnectSocket(s) ==
  /\ MayCall(s, "connect")
  /\ \E fd \in Fds : Open(s, fd) /\ event' = [event EXCEPT ![s] = fd]
  /\ lost' = lost \cup ({event[s]} \ {NoFd})
  /\ calls' = [calls EXCEPT ![s] = <<"connectIn">>]
  /\ UNCHANGED <<bound, watched, alive, handler, want, unclear>>

(* socket() fails: no descriptor is left. *)
ConnectNoSocket(s) ==
  /\ MayCall(s, "connect")
  /\ \A fd \in Fds : owner[fd] # None
  /\ event' = [event EXCEPT ![s] = NoFd]
  /\ lost' = lost \cup ({event[s]} \ {NoFd})
  /\ UNCHANGED <<descriptors, alive, handler, calls, want, robbed, unclear>>

(* addEvent with a callback for direction d, then the rest of the caller.   *)
(* It calls the callback unless epoll_ctl failed or there is no descriptor. *)
AddAndCall(s, d, rest) ==
  IF event[s] = NoFd
    THEN Continue(s, rest) /\ UNCHANGED <<bound, watched>>
    ELSE /\ AddTo(event[s], d, s)
         /\ Continue(s, IF Added(event[s]) THEN <<"callback">> \o rest ELSE rest)

(* Mutant: both directions are registered, whatever callbacks are set. *)
ConnectInAlways(s) ==
  /\ At(s, "connectIn")
  /\ AddAndCall(s, "in", <<"connectOut">>)
  /\ UNCHANGED <<owner, objects, ghosts>>

ConnectIn(s) ==
  /\ At(s, "connectIn")
  /\ IF "in" \in handler[s]
       THEN AddAndCall(s, "in", <<"connectOut">>)
       ELSE Continue(s, <<"connectOut">>) /\ UNCHANGED <<bound, watched>>
  /\ UNCHANGED <<owner, objects, ghosts>>

ConnectOut(s) ==
  /\ At(s, "connectOut")
  /\ IF "out" \in handler[s]
       THEN AddAndCall(s, "out", <<"connectOptions">>)
       ELSE Continue(s, <<"connectOptions">>) /\ UNCHANGED <<bound, watched>>
  /\ UNCHANGED <<owner, objects, ghosts>>

(* setSocketOptions(): connect() returns -1 if it fails, as it does without *)
(* a descriptor.                                                            *)
ConnectOptions(s) ==
  /\ At(s, "connectOptions")
  /\ \/ Return(s)
     \/ event[s] # NoFd /\ Continue(s, <<"connectEnd">>)
  /\ UNCHANGED <<descriptors, objects, ghosts>>

(* connect() and the wait for the connection: whether they fail or not,     *)
(* descriptor and registrations stay.                                       *)
ConnectEnd(s) ==
  /\ At(s, "connectEnd")
  /\ Return(s)
  /\ UNCHANGED <<descriptors, objects, ghosts>>

-----------------------------------------------------------------------------
(* disconnect, the destructor *)

(* A call from outside, or from the callback of the socket. *)
MayDisconnect(s) == s \in alive /\ (Idle(s) \/ At(s, "callback"))

Disconnect(s) ==
  /\ MayDisconnect(s)
  /\ event[s] # NoFd
  /\ Close(event[s])
  /\ calls' = [calls EXCEPT ![s] = <<"eraseIn">> \o @]
  /\ UNCHANGED <<bound, objects, ghosts>>

EraseIn(s) ==
  /\ At(s, "eraseIn")
  /\ EraseFrom(event[s], "in")
  /\ Continue(s, <<"eraseOut">>)
  /\ UNCHANGED <<owner, objects, ghosts>>

(* Mutant: eraseOutEvent is forgotten. *)
EraseOutForgotten(s) ==
  /\ At(s, "eraseOut")
  /\ event' = [event EXCEPT ![s] = NoFd]
  /\ robbed' = robbed \ {s}
  /\ Return(s)
  /\ UNCHANGED <<descriptors, alive, handler, want, lost, unclear>>

(* Mutant: the number of the closed descriptor is kept. *)
EraseOutKeepsEvent(s) ==
  /\ At(s, "eraseOut")
  /\ EraseFrom(event[s], "out")
  /\ robbed' = robbed \ {s}
  /\ Return(s)
  /\ UNCHANGED <<owner, objects, lost, unclear>>

(* eraseOutEvent, and m_event is reset. *)
EraseOut(s) ==
  /\ At(s, "eraseOut")
  /\ EraseFrom(event[s], "out")
  /\ event' = [event EXCEPT ![s] = NoFd]
  /\ robbed' = robbed \ {s}
  /\ Return(s)
  /\ UNCHANGED <<owner, alive, handler, want, lost, unclear>>

(* The callback that addEvent called returns. *)
CallbackReturn(s) ==
  /\ At(s, "callback")
  /\ Return(s)
  /\ UNCHANGED <<descriptors, objects, ghosts>>

(* Mutant: the destructor does not disconnect. *)
DestroyOnly(s) ==
  /\ s \in alive
  /\ Idle(s)
  /\ alive' = alive \ {s}
  /\ event' = [event EXCEPT ![s] = NoFd]
  /\ handler' = [handler EXCEPT ![s] = {}]
  /\ want' = [want EXCEPT ![s] = {}]
  /\ unclear' = {u \in unclear : u[1] # s}
  /\ UNCHANGED <<descriptors, calls, lost, robbed>>

(* The destructor after its disconnect(), which starts with Disconnect.     *)
Destroy(s) ==
  /\ s \in alive
  /\ Idle(s)
  /\ event[s] = NoFd
  /\ alive' = alive \ {s}
  /\ handler' = [handler EXCEPT ![s] = {}]
  /\ want' = [want EXCEPT ![s] = {}]
  /\ unclear' = {u \in unclear : u[1] # s}
  /\ UNCHANGED <<descriptors, event, calls, lost, robbed>>

-----------------------------------------------------------------------------
(* The setters *)

(* setDataCb, setOutDataCb with a callback. *)
SetCb(s, d) ==
  /\ MayCall(s, IF d = "in" THEN "setDataCb" ELSE "setOutDataCb")
  /\ handler' = [handler EXCEPT ![s] = @ \cup {d}]
  /\ want' = [want EXCEPT ![s] = @ \cup {d}]
  /\ unclear' = unclear \ {<<s, d>>}
  /\ IF event[s] = NoFd
       THEN UNCHANGED <<bound, watched, calls>>
       ELSE /\ AddTo(event[s], d, s)
            /\ calls' = IF Added(event[s]) THEN [calls EXCEPT ![s] = <<"callback">>] ELSE calls
  /\ UNCHANGED <<owner, alive, event, lost, robbed>>

(* The same with an empty callback: std::bind makes a callable of it that  *)
(* is registered like any other and throws when addEvent calls it.          *)
SetEmptyCb(s, d) ==
  /\ MayCall(s, "setEmptyCb")
  /\ handler' = [handler EXCEPT ![s] = @ \ {d}]
  /\ want' = [want EXCEPT ![s] = @ \ {d}]
  /\ unclear' = unclear \cup {<<s, d>>}
  /\ IF event[s] = NoFd THEN UNCHANGED <<bound, watched>> ELSE AddTo(event[s], d, s)
  /\ UNCHANGED <<owner, alive, event, calls, lost, robbed>>

(* eraseEvent with m_event: -1 is never registered. *)
EraseCb(s, d) ==
  IF event[s] = NoFd THEN UNCHANGED <<bound, watched>> ELSE EraseFrom(event[s], d)

ClearDataCb(s) ==
  /\ MayCall(s, "clearDataCb")
  /\ handler' = [handler EXCEPT ![s] = @ \ {"in"}]
  /\ want' = [want EXCEPT ![s] = @ \ {"in"}]
  /\ unclear' = unclear \ {<<s, "in">>}
  /\ EraseCb(s, "in")
  /\ UNCHANGED <<owner, alive, event, calls, lost, robbed>>

(* m_inDataHandler is cleared, not m_outDataHandler: both are unclear then. *)
ClearOutDataCb(s) ==
  /\ MayCall(s, "clearOutDataCb")
  /\ handler' = [handler EXCEPT ![s] = @ \ {"in"}]
  /\ want' = [want EXCEPT ![s] = {}]
  /\ unclear' = unclear \cup {<<s, "in">>, <<s, "out">>}
  /\ EraseCb(s, "out")
  /\ UNCHANGED <<owner, alive, event, calls, lost, robbed>>

-----------------------------------------------------------------------------
SocketStep(s) ==
  \/ Construct(s) \/ ConnectSocket(s) \/ ConnectNoSocket(s)
  \/ ConnectIn(s) \/ ConnectOut(s) \/ ConnectOptions(s) \/ ConnectEnd(s)
  \/ Disconnect(s) \/ EraseIn(s) \/ EraseOut(s) \/ CallbackReturn(s) \/ Destroy(s)
  \/ \E d \in Dir : SetCb(s, d) \/ SetEmptyCb(s, d)
  \/ ClearDataCb(s) \/ ClearOutDataCb(s)

-----------------------------------------------------------------------------
(* Every variable has its type, and what disconnect() erases is a           *)
(* descriptor.                                                               *)
TypeOK ==
  /\ owner \in [Fds -> Objects \cup {None, Other}]
  /\ bound \in [Fds -> [Dir -> Objects \cup {None, Other}]]
  /\ watched \in [Fds -> SUBSET Dir]
  /\ alive \subseteq Objects
  /\ event \in [Objects -> Fds \cup {NoFd}]
  /\ handler \in [Objects -> SUBSET Dir]
  /\ calls \in [Objects -> Seq({"connectIn", "connectOut", "connectOptions", "connectEnd",
                                "callback", "eraseIn", "eraseOut"})]
  /\ want \in [Objects -> SUBSET Dir]
  /\ lost \subseteq Fds
  /\ robbed \subseteq Objects \cup {Other}
  /\ unclear \subseteq Objects \X Dir
  /\ \A s \in Objects : At(s, "eraseIn") \/ At(s, "eraseOut") => event[s] \in Fds

(* No object ever closes or uses the descriptor of another one: m_event is   *)
(* its own open descriptor except between close() and the reset of m_event,  *)
(* also if a callback disconnects in the middle of connect().                *)
UsesOwnDescriptor ==
  \A s \in Objects : event[s] # NoFd =>
    s \in alive /\ (Erasing(s, event[s]) \/ owner[event[s]] = s)

(* Every callback in m_eventInfos is bound to an object that exists and      *)
(* whose m_event is the descriptor: the event loop never calls a destroyed   *)
(* socket.  Descriptors that connect() on a connected object or a throwing   *)
(* constructor lost are the exception.                                       *)
NoDanglingCallback ==
  \A fd \in Fds \ lost : \A d \in Dir :
    bound[fd][d] \in Objects => bound[fd][d] \in alive /\ event[bound[fd][d]] = fd

(* Every open descriptor that was not lost can still be closed by its        *)
(* object.                                                                   *)
NoLeak ==
  \A fd \in Fds \ lost : owner[fd] \in Objects => owner[fd] \in alive /\ event[owner[fd]] = fd

(* What epoll watches of a socket between calls is what its user asked for   *)
(* with the last calls of the setters, before or after connect() and over    *)
(* any number of connections (socketnonblocking.h:88-99).                    *)
AskedIsWatched(s, d) ==
  LET registered == bound[event[s]][d] = s /\ d \in watched[event[s]] IN
  s \in alive /\ Idle(s) /\ event[s] # NoFd => (d \in want[s] <=> registered)

(* That holds unless the descriptor was closed and erased in the wrong order *)
(* by its former owner, or a setter was called that does something else      *)
(* than it says: clearOutDataCb(), and setDataCb() with an empty callback.   *)
WatchedAsAsked ==
  \A s \in Objects \ robbed : \A d \in Dir : <<s, d>> \notin unclear => AskedIsWatched(s, d)
=============================================================================
