--------------------------- MODULE MulticastServer ---------------------------
(***************************************************************************)
(* MulticastServer (lib/communication/linux/multicastserver.cpp): its two  *)
(* sockets through start() and stop(), the interfaces that are members of  *)
(* the multicast group, telegrams that are received and looked up in the   *)
(* list of adapters, and telegrams sent over one or over all adapters by   *)
(* several threads.                                                        *)
(*                                                                         *)
(* An object is used as a sender, without a data handler, or as a receiver *)
(* (multicastserver.h:73); the two share nothing but start() and stop().   *)
(* The list of adapters (see Netlink) follows the interfaces of the kernel *)
(* with a delay.  Interfaces are known by index; the overloads that take   *)
(* an address or a Netadapter come to the same (an address that has moved  *)
(* to another interface is left out).                                      *)
(***************************************************************************)
EXTENDS Integers, Sequences, SequencesExt

CONSTANTS
  Ifs,        \* interfaces, named by their index
  Fds,        \* descriptor numbers
  Threads,    \* threads that send
  MaxInbox    \* receive buffer of the socket, in telegrams

ASSUME IfsAssumption == Ifs \subseteq Nat \ {0} /\ IsFiniteSet(Ifs)
ASSUME FdsAssumption == Fds \subseteq Nat

NoFd == -1
Idle == [at |-> "idle"]

VARIABLES
  role,         \* "sender" or "receiver"
  present,      \* interfaces of the kernel that have an address
  adapters,     \* the ones in the list of adapters
  open,         \* open descriptors
  sendEvent,    \* m_sendEvent
  receiveEvent, \* m_receiveEvent
  registered,   \* descriptors the event loop calls process() of this object for
  alive,        \* the object exists
  again,        \* start() was called on an object that had not been stopped
  joined,       \* interfaces m_receiveEvent is a member of the group with
  inbox,        \* interfaces the telegrams in its buffer came from
  ready,        \* epoll has an edge to report
  handling,     \* the event loop is in the data handler
  cut,          \* the handler ended or was skipped with telegrams left
  option,       \* IP_MULTICAST_IF and IP_MULTICAST_TTL of m_sendEvent
  job           \* per thread: the local variables of send()

(* A new socket sends over the interface of the default route, with ttl 1. *)
DefaultOption == [interface |-> 0, ttl |-> "default"]

network == <<present, adapters>>
sockets == <<open, sendEvent, receiveEvent, registered, alive, again>>
receiver == <<joined, inbox, ready, handling, cut>>
sender == <<option, job>>
vars == <<role, network, sockets, receiver, sender>>

Init ==
  /\ role \in {"sender", "receiver"}
  /\ present = Ifs
  /\ adapters = Ifs
  /\ open = {}
  /\ sendEvent = NoFd
  /\ receiveEvent = NoFd
  /\ registered = {}
  /\ alive = TRUE
  /\ again = FALSE
  /\ joined = {}
  /\ inbox = <<>>
  /\ ready = FALSE
  /\ handling = FALSE
  /\ cut = FALSE
  /\ option = DefaultOption
  /\ job = [t \in Threads |-> Idle]

-----------------------------------------------------------------------------
(* External: the interfaces and the list of adapters *)

InterfaceChange(i) ==
  /\ present' = IF i \in present THEN present \ {i} ELSE present \cup {i}
  /\ UNCHANGED <<role, adapters, sockets, receiver, sender>>

ListUpdate ==
  /\ adapters # present
  /\ adapters' = present
  /\ UNCHANGED <<role, present, sockets, receiver, sender>>

-----------------------------------------------------------------------------
(* start and stop *)

(* socket() takes the lowest free descriptor. *)
Lowest(fds) == IF fds = {} THEN NoFd ELSE CHOOSE fd \in fds : \A other \in fds : fd <= other

FirstFree == Lowest(Fds \ open)
SecondFree == Lowest(Fds \ (open \cup {FirstFree}))

(* Where start() may end: nothing is undone then. *)
Starts == {"no send socket", "bad group", "no receive socket", "no option", "addEvent"}

(* What m_sendEvent is after setupSendSocket(), and m_receiveEvent after     *)
(* setupReceiveSocket(), which is not called without a send socket.          *)
SetupSendSocket(end) == IF end = "no send socket" THEN NoFd ELSE FirstFree

SetupReceiveSocket(end) ==
  CASE end \in {"no send socket", "bad group"} -> receiveEvent
    [] end = "no receive socket" -> NoFd
    [] end \in {"no option", "addEvent"} -> SecondFree

(* Threads that have set an option and are about to send find it changed. *)
Mixed(others) ==
  [u \in Threads |->
     IF u \in others /\ job[u].at \in {"ttl", "sendto"} THEN [job[u] EXCEPT !.mixed = TRUE] ELSE job[u]]

(* A new m_sendEvent has none of the options the old one had. *)
NewSender(newSend) ==
  IF newSend = NoFd
    THEN UNCHANGED <<option, job>>
    ELSE option' = DefaultOption /\ job' = Mixed(Threads)

(* What the members held before start() is overwritten.  addEvent() calls    *)
(* process() at once, which finds nothing: no interface has joined yet.      *)
Start(end) ==
  LET newSend == SetupSendSocket(end)
      newReceive == SetupReceiveSocket(end)
  IN
  /\ alive
  /\ SecondFree # NoFd
  /\ sendEvent' = newSend
  /\ receiveEvent' = newReceive
  /\ open' = open \cup ({newSend, newReceive} \ {NoFd})
  /\ registered' = IF end = "addEvent" /\ role = "receiver" THEN registered \cup {newReceive} ELSE registered
  /\ again' = (again \/ {sendEvent, receiveEvent} # {NoFd})
  /\ joined' = IF newReceive = receiveEvent THEN joined ELSE {}
  /\ inbox' = IF newReceive = receiveEvent THEN inbox ELSE <<>>
  /\ NewSender(newSend)
  /\ UNCHANGED <<role, network, alive, ready, handling, cut>>

(* What is left of the sockets once the given ones are closed; closing the   *)
(* receiver ends every membership.                                           *)
AfterClosing(fds) ==
  /\ registered' = registered \ {receiveEvent}
  /\ open' = open \ fds
  /\ sendEvent' = NoFd
  /\ receiveEvent' = NoFd
  /\ joined' = {}
  /\ inbox' = <<>>
  /\ ready' = FALSE
  /\ UNCHANGED <<role, network, again, handling, cut, sender>>

(* Mutant: the sender is not closed. *)
ClosingReceiver == AfterClosing({receiveEvent})

(* stop(): eraseEvent, close the sender, leave the group on the interfaces   *)
(* in the list, close the receiver.                                          *)
Closing == AfterClosing({sendEvent, receiveEvent})

Stop == alive /\ Closing /\ UNCHANGED alive

(* The destructor: no other thread uses the object any more. *)
Destroy ==
  /\ alive
  /\ ~handling
  /\ \A t \in Threads : job[t] = Idle
  /\ Closing
  /\ alive' = FALSE

-----------------------------------------------------------------------------
(* Membership: setsockopt on m_receiveEvent.  1, 0 (was so already) or -1 is *)
(* returned; the membership is the same in the last two cases.               *)

CanJoin == alive /\ role = "receiver" /\ receiveEvent # NoFd

AddInterface(i) ==
  /\ CanJoin
  /\ i \in present \ joined
  /\ joined' = joined \cup {i}
  /\ UNCHANGED <<role, network, sockets, inbox, ready, handling, cut, sender>>

DropInterface(i) ==
  /\ CanJoin
  /\ i \in joined
  /\ joined' = joined \ {i}
  /\ UNCHANGED <<role, network, sockets, inbox, ready, handling, cut, sender>>

(* The two functions that go through the list of adapters. *)
AddAllInterfaces ==
  /\ CanJoin
  /\ joined' = joined \cup (adapters \cap present)
  /\ UNCHANGED <<role, network, sockets, inbox, ready, handling, cut, sender>>

DropAllInterfaces ==
  /\ CanJoin
  /\ joined' = joined \ adapters
  /\ UNCHANGED <<role, network, sockets, inbox, ready, handling, cut, sender>>

-----------------------------------------------------------------------------
(* Receiving *)

(* External: a telegram arrives over interface i; a full buffer drops it. *)
Arrive(i) ==
  /\ i \in joined \cap present
  /\ Len(inbox) < MaxInbox
  /\ inbox' = Append(inbox, i)
  /\ ready' = (receiveEvent \in registered)
  /\ UNCHANGED <<role, network, sockets, joined, handling, cut, sender>>

(* process() calls the data handler, which calls receiveTelegram() until it  *)
(* returns -1, as the tests do, and returns 0.                               *)
Process ==
  /\ ready
  /\ ~handling
  /\ ready' = FALSE
  /\ handling' = TRUE
  /\ cut' = FALSE
  /\ UNCHANGED <<role, network, sockets, joined, inbox, sender>>

(* A stop() of the event loop that is seen in the same batch: the edge is    *)
(* gone and process() was not called.  The loop may be executed again.       *)
ProcessStopped ==
  /\ ready
  /\ ~handling
  /\ ready' = FALSE
  /\ cut' = TRUE
  /\ UNCHANGED <<role, network, sockets, joined, inbox, handling, sender>>

(* The event loop catches what the data handler throws. *)
HandlerThrows ==
  /\ handling
  /\ handling' = FALSE
  /\ cut' = TRUE
  /\ UNCHANGED <<role, network, sockets, joined, inbox, ready, sender>>

(* Mutant: one telegram per call of the handler. *)
ReceiveOneTelegram ==
  /\ handling
  /\ inbox # <<>>
  /\ inbox' = Tail(inbox)
  /\ handling' = FALSE
  /\ UNCHANGED <<role, network, sockets, joined, ready, cut, sender>>

(* A telegram: the adapter it came from is looked up in the list as it is    *)
(* now.  The telegram of an adapter that is not listed is gone, and -1 is    *)
(* returned, as it is if there is no telegram.                               *)
ReceiveTelegram ==
  /\ handling
  /\ inbox # <<>>
  /\ inbox' = Tail(inbox)
  /\ handling' = (Head(inbox) \in adapters)
  /\ cut' = (Head(inbox) \notin adapters)
  /\ UNCHANGED <<role, network, sockets, joined, ready, sender>>

ReceiveNothing ==
  /\ handling
  /\ inbox = <<>>
  /\ handling' = FALSE
  /\ UNCHANGED <<role, network, sockets, joined, inbox, ready, cut, sender>>

-----------------------------------------------------------------------------
(* Sending: thread t works through the adapters in todo. *)

(* The order of a std::map. *)
InOrder(interfaces) ==
  {s \in SetToSeqs(interfaces) : \A j, k \in DOMAIN s : j < k => s[j] < s[k]}

SendOver(t, interfaces) ==
  /\ alive
  /\ role = "sender"
  /\ job[t] = Idle
  /\ \E todo \in InOrder(interfaces) :
       job' = [job EXCEPT ![t] = [at |-> "interface", todo |-> todo, goal |-> interfaces,
                                  done |-> {}, retVal |-> "success", mixed |-> FALSE]]
  /\ UNCHANGED <<role, network, sockets, receiver, option>>

(* send(): a copy of the list. *)
Send(t) == SendOver(t, adapters)

(* sendOverInterface(): without an adapter in the list ERR_INVALIDADAPTER is *)
(* returned and nothing happens.  sendOverInterfaceByIndex() does not look.  *)
SendOverInterface(t, i) == i \in adapters /\ SendOver(t, {i})

At(t, at) == job[t].at = at /\ job[t].todo # <<>>

(* The option is set. *)
Set(t, what, value, next) ==
  /\ sendEvent # NoFd
  /\ option' = [option EXCEPT ![what] = value]
  /\ job' = [Mixed(Threads \ {t}) EXCEPT ![t].at = next]
  /\ UNCHANGED <<role, network, sockets, receiver>>

(* Mutant: a failed setsockopt is not looked at. *)
SetInterfaceUnchecked(t) ==
  /\ At(t, "interface")
  /\ LET i == Head(job[t].todo)
     IN  Set(t, "interface", IF i \in present THEN i ELSE option.interface, "ttl")

(* sendOverInterfaceByAddress and -ByIndex: IP_MULTICAST_IF, *)
SetInterface(t) ==
  /\ At(t, "interface")
  /\ Head(job[t].todo) \in present
  /\ Set(t, "interface", Head(job[t].todo), "ttl")

(* IP_MULTICAST_TTL (each thread wants another one), *)
SetTtl(t) == At(t, "ttl") /\ Set(t, "ttl", t, "sendto")

(* The telegram leaves with the options as they are now; without            *)
(* IP_MULTICAST_IF the route decides.                                        *)
Leaves(t, retVal) ==
  /\ At(t, "sendto")
  /\ sendEvent # NoFd
  /\ \E i \in present :
       /\ option.interface \in {0, i}
       /\ job' = [job EXCEPT ![t].at = "interface", ![t].todo = Tail(@), ![t].retVal = retVal,
                             ![t].done = @ \cup {<<i, option.ttl>>}]
  /\ UNCHANGED <<role, network, sockets, receiver, option>>

(* Mutant: the result of the last adapter is the one that is returned. *)
SendToLastResult(t) == Leaves(t, "success")

(* and sendto(). *)
SendTo(t) == Leaves(t, job[t].retVal)

(* Each of the three calls may fail, for an interface without an address,    *)
(* a closed socket, a full buffer: send() goes on with the next adapter and  *)
(* returns an error in the end.                                              *)
SendFails(t) ==
  /\ job[t] # Idle
  /\ job[t].todo # <<>>
  /\ job' = [job EXCEPT ![t].at = "interface", ![t].todo = Tail(@), ![t].retVal = "error"]
  /\ UNCHANGED <<role, network, sockets, receiver, option>>

SendReturns(t) ==
  /\ job[t] # Idle
  /\ job[t].todo = <<>>
  /\ job' = [job EXCEPT ![t] = Idle]
  /\ UNCHANGED <<role, network, sockets, receiver, option>>

Next ==
  \/ \E i \in Ifs : InterfaceChange(i) \/ AddInterface(i) \/ DropInterface(i) \/ Arrive(i)
  \/ ListUpdate \/ Stop \/ Destroy \/ AddAllInterfaces \/ DropAllInterfaces
  \/ \E end \in Starts : Start(end)
  \/ Process \/ ProcessStopped \/ HandlerThrows \/ ReceiveTelegram \/ ReceiveNothing
  \/ \E t \in Threads : \/ Send(t) \/ SetInterface(t) \/ SetTtl(t) \/ SendTo(t) \/ SendFails(t) \/ SendReturns(t)
                        \/ \E i \in Ifs : SendOverInterface(t, i)

Spec == Init /\ [][Next]_vars

-----------------------------------------------------------------------------
(* An object that was stopped or destroyed leaves neither an open socket nor *)
(* a callback in the event loop, however start() ended, unless start() was   *)
(* called twice without a stop() in between (then the first sockets are      *)
(* never closed and the event loop may call a destroyed object).             *)
NothingLeftBehind ==
  /\ ~again => open \subseteq {sendEvent, receiveEvent} /\ registered \subseteq {receiveEvent}
  /\ ~again /\ ~alive => open = {} /\ registered = {}

(* Telegrams do not wait in the socket without an edge that will fetch them, *)
(* unless the list of adapters lagged behind (receiveTelegram() returns the  *)
(* same for an adapter that is not listed as for no telegram), the handler   *)
(* threw, or a stop() of the event loop took the edge away.                  *)
NoTelegramStranded ==
  receiveEvent \in registered /\ inbox # <<>> /\ ~cut => ready \/ handling

(* Telegrams of a thread leave over the interfaces and with the ttl it asked *)
(* for, although the options belong to the socket, as long as between the    *)
(* first option and sendto() no other thread sets one and no start()         *)
(* replaces the socket: then they may leave over another interface, after    *)
(* start() over that of the default route, with another ttl.                 *)
SentAsAsked ==
  \A t \in Threads : job[t] # Idle /\ ~job[t].mixed => job[t].done \subseteq job[t].goal \X {t}

(* send() reports success only if its telegram (which is not empty) has left *)
(* over every adapter of the list it started with, with the same exceptions: *)
(* sendto() succeeds over the wrong interface, too.                          *)
SuccessMeansSent ==
  \A t \in Threads : job[t] # Idle /\ job[t].todo = <<>> /\ job[t].retVal = "success" /\ ~job[t].mixed =>
    job[t].done = job[t].goal \X {t}
=============================================================================
