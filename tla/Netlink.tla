------------------------------- MODULE Netlink -------------------------------
(***************************************************************************)
(* Netlink (lib/communication/linux/netlink.cpp): the kernel reports every *)
(* change of the interfaces to a netlink socket; process(), called by the  *)
(* event loop until it returns nothing more, updates the list of adapters  *)
(* and tells the user's callback what happened.  addEvent() calls it too,  *)
(* in the thread of start() and without the mutex of the event loop, so    *)
(* that two threads may be in process() at the same time.                  *)
(*                                                                         *)
(* start() is called once.  That the number of a closed socket is given    *)
(* out again while process() of start() still reads it is left out.        *)
(*                                                                         *)
(* The user follows the reports: with COMPLETE it takes what the list      *)
(* shows, afterwards it adds and removes what the callback says.           *)
(***************************************************************************)
EXTENDS NetadapterList

CONSTANTS
  Loop,         \* the thread of the event loop
  MaxChanges,   \* bound on the changes of the kernel
  MaxQueue      \* receive buffer of the netlink socket, in messages

ASSUME LoopAssumption == Loop \in Threads

VARIABLES
  up,           \* interfaces that are up
  socket,       \* the netlink socket: "none", "bound", "started", "stopped" (closed or not watched)
  queue,        \* messages in its receive buffer
  overrun,      \* the socket has ENOBUFS to report
  ready,        \* epoll has an edge to report
  stage,        \* per thread, process(): "idle", "receive", "update", "callback"
  message,      \* per thread: the message it handles
  links,        \* interfaces the user knows to be up
  known,        \* (interface, address) pairs the user knows
  missed        \* a change was not reported, or after a later one

kernelVars == <<kernel, version, up>>
user == <<links, known, missed>>
netlinkVars == <<socket, queue, overrun, ready, stage, message, user>>
vars == <<kernelVars, listVars, netlinkVars>>

NoMessage == [type |-> "none"]
Draining(t) == stage[t] # "idle"              \* t is in process()
Pairs == {p \in Ifs \X Addrs : Exists(p[1]) /\ Contains(kernel[p[1]], p[2])}

Init ==
  /\ ListInit
  /\ up = {}
  /\ socket = "none"
  /\ queue = <<>>
  /\ overrun = FALSE
  /\ ready = FALSE
  /\ stage = [t \in Threads |-> "idle"]
  /\ message = [t \in Threads |-> NoMessage]
  /\ links = {}
  /\ known = {}
  /\ missed = FALSE

-----------------------------------------------------------------------------
(* External: the kernel changes its interfaces and multicasts a message.    *)
(* An interface is down and without addresses before it goes.  The loopback *)
(* stays as it is.                                                          *)

(* rtnetlink to a bound socket; a full buffer loses the message. *)
Report(m) ==
  LET bound == socket \in {"bound", "started"}
      fits == Len(queue) < MaxQueue IN
  /\ version < MaxChanges
  /\ socket # "stopped"
  /\ version' = version + 1
  /\ queue' = IF bound /\ fits THEN Append(queue, m) ELSE queue
  /\ overrun' = (overrun \/ (bound /\ ~fits))
  /\ ready' = (ready \/ socket = "started")
  /\ excused' = (excused \/ ~(bound /\ fits))
  /\ missed' = (missed \/ (bound /\ ~fits))
  /\ UNCHANGED <<adapters, job, shown, socket, stage, message, links, known>>

CreateLink(i) ==
  /\ ~Exists(i)
  /\ kernel' = [kernel EXCEPT ![i] = <<>>]
  /\ Report([type |-> "RTM_NEWLINK", up |-> FALSE, index |-> i, at |-> version + 1])
  /\ UNCHANGED up

RemoveLink(i) ==
  /\ kernel[i] = <<>>
  /\ i \notin up
  /\ kernel' = [kernel EXCEPT ![i] = Gone]
  /\ Report([type |-> "RTM_DELLINK", up |-> FALSE, index |-> i, at |-> version + 1])
  /\ UNCHANGED up

SwitchLink(i) ==
  /\ Exists(i)
  /\ up' = IF i \in up THEN up \ {i} ELSE up \cup {i}
  /\ Report([type |-> "RTM_NEWLINK", up |-> i \in up', index |-> i, at |-> version + 1])
  /\ UNCHANGED kernel

AddAddress(i, a) ==
  /\ Exists(i)
  /\ ~Contains(kernel[i], a)
  /\ kernel' = [kernel EXCEPT ![i] = Append(@, a)]
  /\ Report([type |-> "RTM_NEWADDR", index |-> i, address |-> a, at |-> version + 1])
  /\ UNCHANGED up

RemoveAddress(i, a) ==
  /\ Exists(i)
  /\ \E n \in DOMAIN kernel[i] :
       kernel[i][n] = a /\ kernel' = [kernel EXCEPT ![i] = RemoveAt(@, n)]
  /\ Report([type |-> "RTM_DELADDR", index |-> i, address |-> a, at |-> version + 1])
  /\ UNCHANGED up

(* A message about something else: a route, or a link with ifi_change = 0. *)
OtherChange ==
  /\ Report([type |-> "other", at |-> version + 1])
  /\ UNCHANGED <<kernel, up>>

KernelStep ==
  \/ \E i \in Hardware : CreateLink(i) \/ RemoveLink(i) \/ SwitchLink(i)
  \/ \E i \in Hardware, a \in Addrs : AddAddress(i, a) \/ RemoveAddress(i, a)
  \/ OtherChange

-----------------------------------------------------------------------------
(* The constructor opens and binds the socket. *)
Construct ==
  /\ socket = "none"
  /\ socket' = "bound"
  /\ UNCHANGED <<kernelVars, listVars, queue, overrun, ready, stage, message, user>>

(* The callback gets COMPLETE.  The user asks the kernel which links are up, *)
(* which the list does not tell, and ignores an adapter with index 0.       *)
Complete ==
  /\ socket = "bound"
  /\ links' = up
  /\ known' = {p \in (DOMAIN adapters \cap Ifs) \X Addrs : Contains(adapters[p[1]].v4, p[2])}
  /\ UNCHANGED <<kernelVars, adapters, job, shown, message>>

(* addEvent() registers the socket, which is an edge if there is something  *)
(* to read, and calls process() in the thread t of start() until nothing is *)
(* left, while the event loop may do the same.                              *)
Start(t) ==
  /\ ~Draining(t) /\ At(t, "idle")
  /\ Complete
  /\ socket' = "started"
  /\ ready' = (queue # <<>>)
  /\ stage' = [stage EXCEPT ![t] = "receive"]
  /\ missed' = (missed \/ excused)
  /\ UNCHANGED <<excused, queue, overrun>>

(* Nothing is reported any more. *)
Deaf ==
  /\ socket' = "stopped"
  /\ queue' = <<>>
  /\ overrun' = FALSE
  /\ ready' = FALSE
  /\ missed' = TRUE
  /\ excused' = TRUE

(* epoll_ctl() fails: addEvent() returns before it calls process(), and     *)
(* start() does not look at the result.                                     *)
StartUnwatched == Complete /\ Deaf /\ UNCHANGED stage

(* eraseEvent waits for the mutex while the event loop is in process(),     *)
(* except when it is called from the callback; it does not wait for the     *)
(* process() of start().                                                    *)
Stop ==
  /\ socket = "started"
  /\ stage[Loop] \in {"idle", "callback"}
  /\ Deaf
  /\ UNCHANGED <<kernelVars, adapters, job, shown, stage, message, links, known>>

-----------------------------------------------------------------------------
(* process() in thread t: the event loop's, or the one of start() *)

Wake ==
  /\ ready
  /\ ~Draining(Loop)
  /\ ready' = FALSE
  /\ stage' = [stage EXCEPT ![Loop] = "receive"]
  /\ UNCHANGED <<kernelVars, listVars, socket, queue, overrun, message, user>>

(* The event loop finds its stop event in front of this one and returns:    *)
(* the edge is used up.                                                     *)
WakeStopped ==
  /\ ready
  /\ ~Draining(Loop)
  /\ ready' = FALSE
  /\ missed' = TRUE
  /\ excused' = TRUE
  /\ UNCHANGED <<kernelVars, adapters, job, shown, socket, queue, overrun, stage, message, links, known>>

(* recvmsg() returns the error of an overrun before any message: process()  *)
(* returns -1 and is called again with the next edge.                       *)
ReceiveNothing(t) ==
  /\ stage[t] = "receive"
  /\ overrun \/ queue = <<>> \/ socket = "stopped"
  /\ overrun' = FALSE
  /\ stage' = [stage EXCEPT ![t] = "idle"]
  /\ UNCHANGED <<kernelVars, listVars, socket, queue, ready, message, user>>

(* The next message is taken. *)
Take(t) ==
  /\ stage[t] = "receive"
  /\ ~overrun /\ queue # <<>> /\ socket = "started"
  /\ message' = [message EXCEPT ![t] = Head(queue)]
  /\ queue' = Tail(queue)
  /\ UNCHANGED <<kernelVars, adapters, shown, excused, socket, overrun, ready, user>>

(* Mutant: the list is updated for messages about addresses only. *)
ReceiveUpdatesForAddresses(t) ==
  /\ Take(t)
  /\ IF Head(queue).type \in {"RTM_NEWADDR", "RTM_DELADDR"}
       THEN stage' = [stage EXCEPT ![t] = "update"] /\ UpdateCall(t)
       ELSE stage' = [stage EXCEPT ![t] = "callback"] /\ UNCHANGED job

(* Mutant: the callback comes before the update. *)
ReceiveCallbackFirst(t) == Take(t) /\ stage' = [stage EXCEPT ![t] = "callback"] /\ UpdateCall(t)

(* processNetlinkTelegram: first the list is updated, whatever the message  *)
(* is.  A notification is one message.                                      *)
Receive(t) == Take(t) /\ stage' = [stage EXCEPT ![t] = "update"] /\ UpdateCall(t)

UpdateReturns(t) ==
  /\ stage[t] = "update"
  /\ At(t, "idle")
  /\ stage' = [stage EXCEPT ![t] = "callback"]
  /\ UNCHANGED <<kernelVars, listVars, socket, queue, overrun, ready, message, user>>

(* Mutant: RTM_NEWLINK is taken for a link that is up. *)
EventOfNewLinkIsUp(m) ==
  CASE m.type = "RTM_NEWLINK" -> "LINK_ADDED"
    [] m.type = "RTM_DELLINK" -> IF m.up THEN "NONE" ELSE "LINK_REMOVED"
    [] m.type = "RTM_NEWADDR" -> "ADDRESS_ADDED"
    [] m.type = "RTM_DELADDR" -> "ADDRESS_REMOVED"
    [] OTHER -> "NONE"

(* What the callback is told. *)
EventOf(m) ==
  CASE m.type = "RTM_NEWLINK" -> IF m.up THEN "LINK_ADDED" ELSE "LINK_REMOVED"
    [] m.type = "RTM_DELLINK" -> IF m.up THEN "NONE" ELSE "LINK_REMOVED"
    [] m.type = "RTM_NEWADDR" -> "ADDRESS_ADDED"
    [] m.type = "RTM_DELADDR" -> "ADDRESS_REMOVED"
    [] OTHER -> "NONE"

(* The user does what it is told.  The other thread in process() may still  *)
(* hold an earlier message, whose callback comes after this one.            *)
Callback(t) ==
  /\ stage[t] = "callback"
  /\ LET event == EventOf(message[t])
         index == message[t].index
         pair == <<index, message[t].address>>
         overtakes == \E u \in Threads : message[u] # NoMessage /\ message[u].at < message[t].at
     IN /\ links' = CASE event = "LINK_ADDED" -> links \cup {index}
                      [] event = "LINK_REMOVED" -> links \ {index}
                      [] OTHER -> links
        /\ known' = CASE event = "ADDRESS_ADDED" -> known \cup {pair}
                      [] event = "ADDRESS_REMOVED" -> known \ {pair}
                      [] OTHER -> known
        /\ missed' = (missed \/ overtakes)
  /\ message' = [message EXCEPT ![t] = NoMessage]
  /\ stage' = [stage EXCEPT ![t] = "receive"]
  /\ UNCHANGED <<kernelVars, listVars, socket, queue, overrun, ready>>

(* The callback throws: the exception ends the calls of process(), in the   *)
(* event loop and in addEvent(), and what is queued waits for an edge.      *)
CallbackThrows(t) ==
  /\ stage[t] = "callback"
  /\ message' = [message EXCEPT ![t] = NoMessage]
  /\ stage' = [stage EXCEPT ![t] = "idle"]
  /\ missed' = TRUE
  /\ excused' = (excused \/ queue # <<>>)
  /\ UNCHANGED <<kernelVars, adapters, job, shown, socket, queue, overrun, ready, links, known>>

(* Another thread calls update(). *)
UserUpdate(t) ==
  /\ t # Loop
  /\ socket # "stopped"
  /\ ~Draining(t) /\ At(t, "idle")
  /\ UpdateCall(t)
  /\ UNCHANGED <<kernelVars, adapters, shown, excused, netlinkVars>>

UpdateStep(t) == Update(t) /\ UNCHANGED <<kernelVars, netlinkVars>>

Next ==
  \/ KernelStep \/ Construct \/ StartUnwatched \/ Stop \/ Wake \/ WakeStopped
  \/ \E t \in Threads :
       \/ Start(t) \/ ReceiveNothing(t) \/ Receive(t) \/ UpdateReturns(t) \/ Callback(t) \/ CallbackThrows(t)
       \/ UserUpdate(t) \/ UpdateStep(t)

Spec == Init /\ [][Next]_vars

-----------------------------------------------------------------------------
Quiet == ~ready /\ socket = "started" /\ \A t \in Threads : ~Draining(t) /\ At(t, "idle")

TypeOK ==
  /\ kernel \in [Ifs -> {Gone} \cup Seq(Addrs)]
  /\ version \in 0..MaxChanges /\ shown \in 0..version
  /\ DOMAIN adapters \subseteq Hardware \cup {0}
  /\ \A t \in Threads : job[t].at \in {"idle", "getifaddrs", "entry", "index"}
  /\ up \subseteq Ifs /\ links \subseteq Ifs
  /\ known \subseteq Ifs \X Addrs
  /\ Len(queue) <= MaxQueue
  /\ socket \in {"none", "bound", "started", "stopped"}
  /\ stage \in [Threads -> {"idle", "receive", "update", "callback"}]
  /\ \A t \in Threads : (message[t] = NoMessage) <=> (stage[t] \in {"idle", "receive"})
  /\ {excused, missed, overrun, ready} \subseteq BOOLEAN

(* The addresses of an adapter: link local ones are at the end, in the      *)
(* order of the kernel, the others in the opposite order.                   *)
Ahead(s, a, b) == IF a \in Apipa THEN b \in Apipa /\ Before(s, a, b) ELSE b \in Apipa \/ Before(s, b, a)

ListsAddresses(v4, s) ==
  /\ ToSet(v4) = ToSet(s)
  /\ \A m, n \in DOMAIN v4 : m < n => Ahead(s, v4[m], v4[n])

(* Once the event loop has nothing to do, m_adapters shows the interfaces   *)
(* of the kernel, whatever changed while process() or another thread was in *)
(* update() (an interface that vanishes between getifaddrs() and            *)
(* if_nametoindex() is listed with index 0 for a while), unless a message   *)
(* was lost, a system call failed, a slower update() of another thread has  *)
(* overwritten a newer list, or messages were left in the socket without an *)
(* edge: by a callback that threw, or by a stop() of the event loop that    *)
(* took the edge away.                                                      *)
ShowsKernel(list) ==
  /\ DOMAIN list = {i \in Hardware : Exists(i)}
  /\ \A i \in DOMAIN list : list[i].name = i /\ ListsAddresses(list[i].v4, kernel[i])

AdaptersCurrent == Quiet /\ ~excused => ShowsKernel(adapters)

(* sendOverInterface() takes the first address of an adapter: it is link    *)
(* local only if the adapter has no other address.                          *)
ApipaLast ==
  \A i \in DOMAIN adapters : adapters[i].v4 # <<>> /\ Head(adapters[i].v4) \in Apipa =>
    \A n \in DOMAIN adapters[i].v4 : adapters[i].v4[n] \in Apipa

(* A callback that looks something up finds a list at least as new as the  *)
(* change it is told about.                                                 *)
ListBeforeEvent ==
  \A t \in Threads : stage[t] = "callback" /\ ~excused => shown >= message[t].at

(* A user that starts from COMPLETE and applies every event knows which     *)
(* links are up and which addresses there are, once nobody is in process(), *)
(* unless the list COMPLETE came with was wrong (see AdaptersCurrent), the  *)
(* kernel had to drop a message, the registration failed, a stop() of the   *)
(* event loop took the edge away, a callback threw, or a callback overtook  *)
(* that of an earlier message: the thread of start() and that of the event  *)
(* loop receive the messages in turn and call in any order.                 *)
EventsFollowKernel ==
  Quiet /\ ~missed => links = up /\ known = Pairs
=============================================================================
