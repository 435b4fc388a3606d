------------------------------ MODULE TcpServer ------------------------------
(***************************************************************************)
(* TcpServer (lib/communication/linux/tcpserver.cpp) next to the sockets   *)
(* of Sockets: the listening socket through start(), stop() and the        *)
(* destructor, and process(), which makes a SocketNonblocking of each      *)
(* client.  process() is called until it returns -1 by the event loop, for *)
(* an edge, and by the thread of start(), in addEvent() and without the    *)
(* mutex: two threads may be accepting.                                    *)
(***************************************************************************)
EXTENDS Sockets

CONSTANT Backlog   \* clients that wait to be accepted, at most

ASSUME BacklogAssumption == Backlog \in Nat

VARIABLES
  listening,   \* m_listeningEvent
  started,     \* start() has succeeded, stop() was not called since
  waiting,     \* clients in the backlog
  edge,        \* epoll has an edge to report
  accepting,   \* the threads, of the event loop and of start(), that call process()
  cut,         \* calling process() ended before the backlog was empty
  stopped,     \* stop() was called since start()
  hit          \* stop() has closed the descriptor of somebody else

server == <<listening, started, waiting, edge, accepting, cut, stopped, hit>>
vars == <<socketVars, server>>

Callers == {"loop", "start"}

Init ==
  /\ SocketsInit
  /\ listening = NoFd
  /\ started = FALSE
  /\ waiting = 0
  /\ edge = FALSE
  /\ accepting = {}
  /\ cut = FALSE
  /\ stopped = FALSE
  /\ hit = FALSE

-----------------------------------------------------------------------------
(* Mutant: a start() that fails closes the socket and keeps its number. *)
StartCloses ==
  /\ \E fd \in Fds :
       /\ owner[fd] = None
       /\ \A other \in Fds : other < fd => owner[other] # None
       /\ listening' = fd
  /\ started' = FALSE
  /\ stopped' = FALSE
  /\ UNCHANGED <<socketVars, waiting, edge, accepting, cut, hit>>

(* A listening socket of a start() without stop() is forgotten by the next.  *)
Forgotten == IF listening = NoFd \/ stopped THEN {} ELSE {listening}

(* start(), for a port or a path: the listening socket is opened; if one of  *)
(* the calls that follow fails, it stays open in m_listeningEvent.  Clients  *)
(* may connect from listen() on, before addEvent() registers the socket.     *)
(* addEvent() goes on calling process() when it has told epoll.              *)
Start ==
  /\ "start" \notin accepting
  /\ \E fd \in Fds, ok \in BOOLEAN :
       /\ Open(Other, fd)
       /\ listening' = fd
       /\ started' = ok
       /\ waiting' \in IF ok THEN 0..Backlog ELSE {0}
       /\ IF ok THEN AddTo(fd, "in", Other) ELSE UNCHANGED <<bound, watched>>
       /\ edge' = (waiting' > 0 /\ Added(fd))
       /\ accepting' = IF ok /\ Added(fd) THEN accepting \cup {"start"} ELSE accepting
  /\ lost' = lost \cup Forgotten
  /\ cut' = FALSE
  /\ stopped' = FALSE
  /\ UNCHANGED <<objects, calls, unclear, hit>>

(* socket() fails: m_listeningEvent is -1, for which stop() does nothing.    *)
StartFails ==
  /\ "start" \notin accepting
  /\ listening' = NoFd
  /\ started' = FALSE
  /\ waiting' = 0
  /\ edge' = FALSE
  /\ lost' = lost \cup Forgotten
  /\ cut' = FALSE
  /\ stopped' = FALSE
  /\ UNCHANGED <<descriptors, objects, calls, robbed, unclear, accepting, hit>>

(* eraseEvent() waits for the loop's process() to return or, called from its *)
(* accept callback, masks the event so that it is not called again; a        *)
(* start() that still calls process() is told by accept() only.  Then        *)
(* close(): m_listeningEvent keeps its number.                               *)
Stop ==
  /\ listening # NoFd
  /\ owner[listening] = Other
  /\ Close(listening)
  /\ bound' = [bound EXCEPT ![listening]["in"] = None]
  /\ robbed' = robbed \ {Other}
  /\ stopped' = TRUE
  /\ started' = FALSE
  /\ edge' = FALSE
  /\ accepting' = accepting \ {"loop"}
  /\ cut' = FALSE
  /\ waiting' = 0
  /\ UNCHANGED <<objects, calls, lost, unclear, listening, hit>>

(* stop() or the destructor once more.  The number may be in use again: the  *)
(* registration of its new owner is erased and its descriptor is closed.     *)
(* The model ends there.                                                     *)
StopAgain ==
  /\ listening # NoFd
  /\ owner[listening] \in Objects
  /\ hit' = TRUE
  /\ UNCHANGED <<socketVars, listening, started, waiting, edge, accepting, cut, stopped>>

-----------------------------------------------------------------------------
(* External: a client connects. *)
ClientArrives ==
  /\ started
  /\ waiting < Backlog
  /\ waiting' = waiting + 1
  /\ edge' = (edge \/ "in" \in watched[listening])
  /\ UNCHANGED <<socketVars, listening, started, accepting, cut, stopped, hit>>

(* execute(): epoll_wait reports the edge, process() is called ... *)
Wake ==
  /\ edge
  /\ "loop" \notin accepting
  /\ edge' = FALSE
  /\ accepting' = accepting \cup {"loop"}
  /\ cut' = FALSE
  /\ UNCHANGED <<socketVars, listening, started, waiting, stopped, hit>>

(* ... unless the stop event of the loop comes before it in the same batch:  *)
(* the edge is gone when execute() is called again.                          *)
WakeStopped ==
  /\ edge
  /\ edge' = FALSE
  /\ cut' = (waiting > 0)
  /\ UNCHANGED <<socketVars, listening, started, waiting, accepting, stopped, hit>>

(* process(): accept() succeeds, the accept callback gets the new socket. *)
Accepted(t, s) ==
  /\ t \in accepting
  /\ waiting > 0
  /\ Accept(s)
  /\ waiting' = waiting - 1
  /\ UNCHANGED <<listening, started, edge, stopped, hit>>

(* Mutant: process() returns 0. *)
AcceptClientOnce(t, s) == Accepted(t, s) /\ accepting' = accepting \ {t} /\ UNCHANGED cut

(* 1 is returned, process() is called again. *)
AcceptClient(t, s) == Accepted(t, s) /\ UNCHANGED <<accepting, cut>>

(* The callback throws, or calling it does because start() for a path was    *)
(* given an empty one: the event loop leaves the event until the next edge,  *)
(* start() is left.  The socket is destroyed (which its user may do at any   *)
(* time) unless the callback has kept it.                                    *)
AcceptCbThrows(t, s) == Accepted(t, s) /\ accepting' = accepting \ {t} /\ cut' = (waiting' > 0)

(* The constructor throws, with the same effect. *)
AcceptClientThrows(t, s) ==
  /\ t \in accepting
  /\ waiting > 0
  /\ AcceptThrows(s)
  /\ waiting' = waiting - 1
  /\ accepting' = accepting \ {t}
  /\ cut' = (waiting' > 0)
  /\ UNCHANGED <<listening, started, edge, stopped, hit>>

(* accept() fails: nobody waits, there is no descriptor left, the connection *)
(* was aborted (and has left the backlog), or another error.  process()      *)
(* returns -1 and is not called again.                                       *)
AcceptFails(t) ==
  /\ t \in accepting
  /\ waiting' \in {waiting} \cup IF waiting > 0 THEN {waiting - 1} ELSE {}
  /\ accepting' = accepting \ {t}
  /\ cut' = (waiting' > 0)
  /\ UNCHANGED <<socketVars, listening, started, edge, stopped, hit>>

ServerStep ==
  \/ Start \/ StartFails \/ Stop \/ StopAgain \/ ClientArrives \/ Wake \/ WakeStopped
  \/ \E t \in Callers :
       \/ AcceptFails(t)
       \/ \E s \in Objects : AcceptClient(t, s) \/ AcceptCbThrows(t, s) \/ AcceptClientThrows(t, s)

Next ==
  \/ ~hit /\ (ServerStep \/ \E s \in Objects : SocketStep(s) /\ UNCHANGED server)
  \/ hit /\ UNCHANGED vars

Spec == Init /\ [][Next]_vars

-----------------------------------------------------------------------------
(* No client waits in the backlog without an edge or a thread that will      *)
(* fetch it, whichever of the two threads accepts whom; unless the calling   *)
(* of process() was cut short: accept() failed with clients left, the        *)
(* constructor or the accept callback threw, or stop() of the event loop     *)
(* came first (then it waits until another client connects); or the          *)
(* registration fell to the disconnect() of the socket that had the number   *)
(* before.                                                                   *)
NoClientStranded == started /\ waiting > 0 /\ ~cut /\ Other \notin robbed => edge \/ accepting # {}

(* The server closes the descriptor of somebody else only by a stop() after  *)
(* a stop(), never after a start() that failed or a socket that reused its   *)
(* number otherwise.                                                         *)
OnlySecondStopHits == hit => stopped
=============================================================================
