----------------------- MODULE MulticastServerProofs -----------------------
(***************************************************************************)
(* Proofs about MulticastServer for any number of interfaces, descriptors, *)
(* sending threads and telegrams in the receive buffer.                    *)
(***************************************************************************)
EXTENDS MulticastServer, FiniteSetTheorems, SequenceTheorems, WellFoundedInduction, TLAPS

(* The lowest free descriptor is a free one. *)
LEMMA LowestIsFree ==
  ASSUME NEW fds \in SUBSET Nat, fds # {}
  PROVE  Lowest(fds) \in fds
<1> DEFINE below == {ss \in Nat \X Nat : ss[1] < ss[2]}
<1>1. IsWellFoundedOn(below, Nat)
  BY NatLessThanWellFounded DEF OpToRel
<1>2. PICK fd \in fds : \A other \in fds : ~(<<other, fd>> \in below)
  BY <1>1, WFMin
<1>3. \A other \in fds : fd <= other
  <2> SUFFICES ASSUME NEW other \in fds, ~(fd <= other)
               PROVE  FALSE
    OBVIOUS
  <2>1. other \in Nat /\ fd \in Nat /\ other < fd
    OBVIOUS
  <2>2. <<other, fd>> \in below
    BY <2>1
  <2> QED BY <1>2, <2>2
<1> QED BY <1>2, <1>3 DEF Lowest

(* What start() gets from socket(). *)
LEMMA FreeDescriptors ==
  ASSUME open \subseteq Fds
  PROVE  /\ FirstFree \in (Fds \ open) \cup {NoFd}
         /\ SecondFree \in (Fds \ open) \cup {NoFd}
<1>1. FirstFree \in (Fds \ open) \cup {NoFd}
  BY LowestIsFree, FdsAssumption DEF FirstFree, Lowest
<1>2. SecondFree \in (Fds \ open) \cup {NoFd}
  BY LowestIsFree, FdsAssumption DEF SecondFree, Lowest
<1> QED BY <1>1, <1>2

(* The interfaces send() works through are those it was called for. *)
LEMMA OrderedElements ==
  ASSUME NEW interfaces \in SUBSET Ifs, NEW todo \in InOrder(interfaces)
  PROVE  /\ todo \in Seq(Ifs)
         /\ ToSet(todo) = interfaces
<1> DEFINE n == Cardinality(interfaces)
<1>1. IsFiniteSet(interfaces) /\ n \in Nat
  BY IfsAssumption, FS_Subset, FS_CardinalityType
<1>2. todo \in [1..n -> interfaces] /\ \A i, j \in 1..n : i # j => todo[i] # todo[j]
  BY DEF InOrder, SetToSeqs
<1>3. IsFiniteSet(1..n) /\ Cardinality(1..n) = n
  BY <1>1, FS_Interval
<1>4. todo \in Surjection(1..n, interfaces)
  <2>1. todo \in Injection(1..n, interfaces)
    BY <1>2 DEF Injection, IsInjective
  <2> QED BY <2>1, <1>1, <1>3, FS_Injection
<1>5. ToSet(todo) = interfaces
  BY <1>2, <1>4 DEF Surjection, ToSet
<1>6. todo \in Seq(Ifs)
  BY <1>1, <1>2
<1> QED BY <1>5, <1>6

(* Taking the first interface off. *)
LEMMA Takes ==
  ASSUME NEW todo \in Seq(Ifs), todo # <<>>
  PROVE  /\ Head(todo) \in Ifs
         /\ Tail(todo) \in Seq(Ifs)
         /\ ToSet(todo) = {Head(todo)} \cup ToSet(Tail(todo))
<1>1. Head(todo) = todo[1] /\ Tail(todo) \in Seq(Ifs) /\ Len(Tail(todo)) = Len(todo) - 1
      /\ \A i \in 1..Len(Tail(todo)) : Tail(todo)[i] = todo[i + 1]
  BY HeadTailProperties
<1>2. Len(todo) \in Nat /\ Len(todo) > 0 /\ DOMAIN todo = 1..Len(todo)
      /\ DOMAIN Tail(todo) = 1..Len(Tail(todo))
  BY <1>1, EmptySeq, LenProperties
<1>3. \A i \in 2..Len(todo) : i - 1 \in 1..Len(Tail(todo)) /\ Tail(todo)[i - 1] = todo[i]
  BY <1>1, <1>2
<1>4. ToSet(todo) \subseteq {Head(todo)} \cup ToSet(Tail(todo))
  <2> SUFFICES ASSUME NEW i \in 1..Len(todo)
               PROVE  todo[i] \in {Head(todo)} \cup ToSet(Tail(todo))
    BY <1>2 DEF ToSet
  <2>1. CASE i = 1
    BY <2>1, <1>1
  <2>2. CASE i \in 2..Len(todo)
    BY <2>2, <1>2, <1>3 DEF ToSet
  <2> QED BY <2>1, <2>2, <1>2
<1>5. {Head(todo)} \cup ToSet(Tail(todo)) \subseteq ToSet(todo)
  <2>1. Head(todo) \in ToSet(todo)
    BY <1>1, <1>2 DEF ToSet
  <2>2. \A i \in 1..Len(Tail(todo)) : Tail(todo)[i] \in ToSet(todo)
    BY <1>1, <1>2 DEF ToSet
  <2> QED BY <1>2, <2>1, <2>2 DEF ToSet
<1> QED BY <1>1, <1>2, <1>4, <1>5

-----------------------------------------------------------------------------
(* Sockets and memberships have their types; the member that holds the       *)
(* receive socket names an open one, the one of a destroyed object none.     *)
SocketTypes ==
  /\ open \subseteq Fds
  /\ sendEvent \in Fds \cup {NoFd}
  /\ receiveEvent \in Fds \cup {NoFd}
  /\ registered \subseteq Fds

SocketInv ==
  /\ SocketTypes
  /\ receiveEvent # NoFd => receiveEvent \in open
  /\ ~alive => sendEvent = NoFd /\ receiveEvent = NoFd
  /\ ~again => open \subseteq {sendEvent, receiveEvent} /\ registered \subseteq {receiveEvent}

(* What a thread in send() relies on: the options it has set are still those *)
(* of the socket, unless it is mixed.                                        *)
Jobs ==
  [at : {"interface", "ttl", "sendto"}, todo : Seq(Ifs), goal : SUBSET Ifs,
   done : SUBSET (Ifs \X (Threads \cup {"default"})), retVal : {"success", "error"}, mixed : BOOLEAN]

JobTypes ==
  /\ present \subseteq Ifs
  /\ adapters \subseteq Ifs
  /\ option \in [interface : Ifs \cup {0}, ttl : Threads \cup {"default"}]
  /\ job \in [Threads -> {Idle} \cup Jobs]

OptionSet(t) ==
  /\ job[t].at \in {"ttl", "sendto"} => option.interface = Head(job[t].todo)
  /\ job[t].at = "sendto" => option.ttl = t

JobInv(t) ==
  job[t] # Idle =>
    /\ job[t].at # "interface" => job[t].todo # <<>>
    /\ ToSet(job[t].todo) \subseteq job[t].goal
    /\ ~job[t].mixed =>
         /\ OptionSet(t)
         /\ job[t].done \subseteq job[t].goal \X {t}
         /\ job[t].retVal = "success" =>
              job[t].goal \X {t} \subseteq job[t].done \cup (ToSet(job[t].todo) \X {t})

SendInv == JobTypes /\ \A t \in Threads : JobInv(t)

-----------------------------------------------------------------------------
(* What start() leaves behind, however it ends. *)
LEMMA StartSockets ==
  ASSUME SocketInv, NEW end \in Starts, Start(end)
  PROVE  SocketInv'
<1> DEFINE newSend == SetupSendSocket(end)
           newReceive == SetupReceiveSocket(end)
<1>1. /\ sendEvent' = newSend
      /\ receiveEvent' = newReceive
      /\ open' = open \cup ({newSend, newReceive} \ {NoFd})
      /\ registered' = IF end = "addEvent" /\ role = "receiver" THEN registered \cup {newReceive} ELSE registered
      /\ again' = (again \/ {sendEvent, receiveEvent} # {NoFd})
      /\ alive' = alive /\ alive
      /\ SecondFree # NoFd
  BY DEF Start
<1>2. newSend \in Fds \cup {NoFd} /\ newReceive \in Fds \cup {NoFd}
  BY FreeDescriptors DEF SocketInv, SocketTypes, SetupSendSocket, SetupReceiveSocket, Starts
<1>3. end = "addEvent" => newReceive \in Fds
  BY <1>1, FreeDescriptors DEF SocketInv, SocketTypes, SetupReceiveSocket
<1> HIDE DEF newSend, newReceive
<1>4. SocketTypes'
  BY <1>1, <1>2, <1>3 DEF SocketInv, SocketTypes
<1>5. NoFd \notin Fds
  BY FdsAssumption DEF NoFd
<1>6. (~again => open \subseteq {sendEvent, receiveEvent} /\ registered \subseteq {receiveEvent})'
  <2> SUFFICES ASSUME ~again, sendEvent = NoFd, receiveEvent = NoFd
               PROVE  open' \subseteq {newSend, newReceive} /\ registered' \subseteq {newReceive}
    BY <1>1
  <2>1. open = {} /\ registered = {}
    BY <1>5 DEF SocketInv, SocketTypes
  <2> QED BY <1>1, <2>1
<1>7. (receiveEvent # NoFd => receiveEvent \in open)'
  BY <1>1
<1>8. (~alive => sendEvent = NoFd /\ receiveEvent = NoFd)'
  BY <1>1
<1> QED BY <1>4, <1>6, <1>7, <1>8 DEF SocketInv

(* stop() leaves nothing, unless start() had been called twice. *)
LEMMA ClosingSockets ==
  ASSUME SocketInv, Closing, alive' \in BOOLEAN
  PROVE  SocketInv'
<1>1. /\ registered' = registered \ {receiveEvent}
      /\ open' = open \ {sendEvent, receiveEvent}
      /\ sendEvent' = NoFd
      /\ receiveEvent' = NoFd
      /\ again' = again
  BY DEF Closing, AfterClosing
<1> QED BY <1>1 DEF SocketInv, SocketTypes

LEMMA SocketStep ==
  ASSUME SocketInv, alive \in BOOLEAN, [Next]_vars
  PROVE  SocketInv' /\ alive' \in BOOLEAN
<1>1. ASSUME UNCHANGED sockets
      PROVE  SocketInv' /\ alive' \in BOOLEAN
  BY <1>1 DEF sockets, SocketInv, SocketTypes
<1>2. ASSUME NEW end \in Starts, Start(end)
      PROVE  SocketInv' /\ alive' \in BOOLEAN
  BY <1>2, StartSockets DEF Start
<1>3. CASE Stop
  BY <1>3, ClosingSockets DEF Stop
<1>4. CASE Destroy
  BY <1>4, ClosingSockets DEF Destroy
<1>5. CASE UNCHANGED vars
  BY <1>5, <1>1 DEF vars
<1>6. ASSUME NEW i \in Ifs, InterfaceChange(i) \/ AddInterface(i) \/ DropInterface(i) \/ Arrive(i)
      PROVE  UNCHANGED sockets
  BY <1>6 DEF InterfaceChange, AddInterface, DropInterface, Arrive
<1>7. ASSUME \/ ListUpdate \/ AddAllInterfaces \/ DropAllInterfaces
             \/ Process \/ ProcessStopped \/ HandlerThrows \/ ReceiveTelegram \/ ReceiveNothing
      PROVE  UNCHANGED sockets
  BY <1>7 DEF ListUpdate, AddAllInterfaces, DropAllInterfaces, Process, ProcessStopped, HandlerThrows,
              ReceiveTelegram, ReceiveNothing
<1>8. ASSUME NEW t \in Threads,
             \/ Send(t) \/ SetInterface(t) \/ SetTtl(t) \/ SendTo(t) \/ SendFails(t) \/ SendReturns(t)
             \/ \E i \in Ifs : SendOverInterface(t, i)
      PROVE  UNCHANGED sockets
  BY <1>8 DEF Send, SetInterface, SetTtl, SendTo, SendFails, SendReturns, SendOverInterface, SendOver, Set, Leaves
<1> QED BY <1>1, <1>2, <1>3, <1>4, <1>5, <1>6, <1>7, <1>8 DEF Next

(* A stopped or destroyed object leaves neither a socket nor a callback (see *)
(* NothingLeftBehind), wherever start() gave up.                             *)
THEOREM LeavesNothing == Spec => []NothingLeftBehind
<1> DEFINE Inv == SocketInv /\ alive \in BOOLEAN
<1>1. Init => Inv
  BY DEF Init, SocketInv, SocketTypes
<1>2. Inv /\ [Next]_vars => Inv'
  BY SocketStep
<1>3. Inv => NothingLeftBehind
  <2> SUFFICES ASSUME SocketInv
               PROVE  NothingLeftBehind
    OBVIOUS
  <2>1. NoFd \notin Fds
    BY FdsAssumption DEF NoFd
  <2> QED BY <2>1 DEF SocketInv, SocketTypes, NothingLeftBehind
<1> QED BY <1>1, <1>2, <1>3, PTL DEF Spec

-----------------------------------------------------------------------------
ReceiveInv == SocketInv /\ alive \in BOOLEAN /\ NoTelegramStranded

(* Every step keeps an edge or a running handler for what is in the socket.  *)
LEMMA ReceiveStep ==
  ASSUME ReceiveInv, [Next]_vars
  PROVE  NoTelegramStranded'
<1>1. ASSUME UNCHANGED <<receiveEvent, registered, inbox, ready, handling, cut>>
      PROVE  NoTelegramStranded'
  BY <1>1 DEF ReceiveInv, NoTelegramStranded
<1>2. ASSUME NEW end \in Starts, Start(end)
      PROVE  NoTelegramStranded'
  <2> DEFINE newReceive == SetupReceiveSocket(end)
  <2>1. /\ receiveEvent' = newReceive
        /\ registered' = IF end = "addEvent" /\ role = "receiver" THEN registered \cup {newReceive} ELSE registered
        /\ inbox' = IF newReceive = receiveEvent THEN inbox ELSE <<>>
        /\ UNCHANGED <<ready, handling, cut>>
        /\ SecondFree # NoFd
    BY <1>2 DEF Start
  <2>2. end = "addEvent" => newReceive # receiveEvent
    BY <2>1, FreeDescriptors DEF ReceiveInv, SocketInv, SocketTypes, SetupReceiveSocket
  <2> HIDE DEF newReceive
  <2> QED BY <2>1, <2>2 DEF ReceiveInv, NoTelegramStranded
<1>3. CASE Stop \/ Destroy
  BY <1>3 DEF Stop, Destroy, Closing, AfterClosing, NoTelegramStranded
<1>4. CASE UNCHANGED vars
  BY <1>4, <1>1 DEF vars, sockets, receiver
<1>5. ASSUME NEW i \in Ifs, Arrive(i)
      PROVE  NoTelegramStranded'
  BY <1>5 DEF Arrive, NoTelegramStranded, sockets
<1>6. ASSUME NEW i \in Ifs, InterfaceChange(i) \/ AddInterface(i) \/ DropInterface(i)
      PROVE  NoTelegramStranded'
  BY <1>6, <1>1 DEF InterfaceChange, AddInterface, DropInterface, sockets, receiver
<1>7. CASE Process \/ ProcessStopped \/ HandlerThrows \/ ReceiveTelegram \/ ReceiveNothing
  BY <1>7 DEF Process, ProcessStopped, HandlerThrows, ReceiveTelegram, ReceiveNothing, NoTelegramStranded, sockets
<1>8. CASE ListUpdate \/ AddAllInterfaces \/ DropAllInterfaces
  BY <1>8, <1>1 DEF ListUpdate, AddAllInterfaces, DropAllInterfaces, sockets, receiver
<1>9. ASSUME NEW t \in Threads,
             \/ Send(t) \/ SetInterface(t) \/ SetTtl(t) \/ SendTo(t) \/ SendFails(t) \/ SendReturns(t)
             \/ \E i \in Ifs : SendOverInterface(t, i)
      PROVE  NoTelegramStranded'
  <2>1. UNCHANGED <<sockets, receiver>>
    BY <1>9 DEF Send, SetInterface, SetTtl, SendTo, SendFails, SendReturns, SendOverInterface, SendOver, Set, Leaves
  <2> QED BY <2>1, <1>1 DEF sockets, receiver
<1> QED BY <1>2, <1>3, <1>4, <1>5, <1>6, <1>7, <1>8, <1>9 DEF Next

(* Telegrams do not wait in the socket with nothing to fetch them (see       *)
(* NoTelegramStranded), through any number of restarts and lookups.          *)
THEOREM TelegramsFetched == Spec => []NoTelegramStranded
<1>1. Init => ReceiveInv
  BY DEF Init, ReceiveInv, SocketInv, SocketTypes, NoTelegramStranded
<1>2. ReceiveInv /\ [Next]_vars => ReceiveInv'
  BY SocketStep, ReceiveStep DEF ReceiveInv
<1>3. ReceiveInv => NoTelegramStranded
  BY DEF ReceiveInv
<1> QED BY <1>1, <1>2, <1>3, PTL DEF Spec
-----------------------------------------------------------------------------
(* send() begins. *)
LEMMA SendOverStep ==
  ASSUME SendInv, NEW t \in Threads, NEW interfaces \in SUBSET Ifs, SendOver(t, interfaces)
  PROVE  SendInv'
<1>1. PICK todo \in InOrder(interfaces) :
        job' = [job EXCEPT ![t] = [at |-> "interface", todo |-> todo, goal |-> interfaces,
                                   done |-> {}, retVal |-> "success", mixed |-> FALSE]]
  BY DEF SendOver
<1> DEFINE new == [at |-> "interface", todo |-> todo, goal |-> interfaces,
                   done |-> {}, retVal |-> "success", mixed |-> FALSE]
<1>2. todo \in Seq(Ifs) /\ ToSet(todo) = interfaces
  BY OrderedElements
<1>3. new \in Jobs
  BY <1>2 DEF Jobs
<1>4. job'[t] = new /\ \A u \in Threads \ {t} : job'[u] = job[u]
  BY <1>1 DEF SendInv, JobTypes
<1>5. UNCHANGED <<present, adapters, option>>
  BY DEF SendOver, network
<1>6. JobTypes'
  <2>1. job' \in [Threads -> {Idle} \cup Jobs]
    BY <1>1, <1>3 DEF SendInv, JobTypes
  <2> QED BY <2>1, <1>5 DEF SendInv, JobTypes
<1>7. JobInv(t)'
  BY <1>2, <1>4 DEF JobInv, OptionSet
<1>8. \A u \in Threads \ {t} : JobInv(u)'
  BY <1>4, <1>5 DEF SendInv, JobInv, OptionSet
<1> QED BY <1>6, <1>7, <1>8 DEF SendInv

(* A marked thread keeps what is said of it, whatever the options are now.   *)
LEMMA MixedJobs ==
  ASSUME JobTypes, NEW others \in SUBSET Threads, NEW u \in others, JobInv(u)
  PROVE  /\ Mixed(others)[u] \in {Idle} \cup Jobs
         /\ job'[u] = Mixed(others)[u] => JobInv(u)'
<1>1. CASE job[u].at \in {"ttl", "sendto"}
  <2>1. job[u] # Idle
    BY <1>1 DEF Idle
  <2>2. job[u] \in Jobs
    BY <2>1 DEF JobTypes
  <2>3. Mixed(others)[u] = [job[u] EXCEPT !.mixed = TRUE]
    BY <1>1 DEF Mixed
  <2>4. Mixed(others)[u] \in Jobs
    BY <2>2, <2>3 DEF Jobs
  <2>5. ASSUME job'[u] = Mixed(others)[u]
        PROVE  JobInv(u)'
    <3>1. /\ job'[u].mixed /\ job'[u].todo = job[u].todo /\ job'[u].goal = job[u].goal
          /\ job'[u].at = job[u].at
      BY <2>2, <2>3, <2>5 DEF Jobs
    <3> QED BY <2>1, <3>1 DEF JobInv
  <2> QED BY <2>4, <2>5
<1>2. CASE ~(job[u].at \in {"ttl", "sendto"})
  <2>1. Mixed(others)[u] = job[u]
    BY <1>2 DEF Mixed
  <2>2. job[u] \in {Idle} \cup Jobs
    BY DEF JobTypes
  <2>3. job'[u] = job[u] => JobInv(u)'
    BY <1>2 DEF JobInv, OptionSet
  <2> QED BY <2>1, <2>2, <2>3
<1> QED BY <1>1, <1>2

(* A thread sets an option of the socket: the other threads that are about   *)
(* to send are marked, the thread itself finds it as it set it.              *)
LEMMA SetStep ==
  ASSUME SendInv, NEW t \in Threads,
         \/ SetInterface(t)
         \/ SetTtl(t)
  PROVE  SendInv'
<1>1. job[t] \in Jobs /\ job[t].todo # <<>> /\ job[t].at \in {"interface", "ttl"}
  <2>1. job[t].at \in {"interface", "ttl"} /\ job[t].todo # <<>>
    BY DEF SetInterface, SetTtl, At
  <2>2. job[t] # Idle
    BY <2>1 DEF Idle
  <2> QED BY <2>1, <2>2 DEF SendInv, JobTypes
<1>2. Head(job[t].todo) \in Ifs
  BY <1>1, Takes DEF Jobs
<1>3. PICK next \in {"ttl", "sendto"} :
        /\ job' = [Mixed(Threads \ {t}) EXCEPT ![t].at = next]
        /\ \/ /\ next = "ttl" /\ job[t].at = "interface"
              /\ option' = [option EXCEPT !["interface"] = Head(job[t].todo)]
           \/ /\ next = "sendto" /\ job[t].at = "ttl"
              /\ option' = [option EXCEPT !["ttl"] = t]
  <2>1. CASE SetInterface(t)
    BY <2>1 DEF SetInterface, Set, At
  <2>2. CASE SetTtl(t)
    BY <2>2 DEF SetTtl, Set, At
  <2> QED BY <2>1, <2>2
<1>4. UNCHANGED <<present, adapters>>
  BY DEF SetInterface, SetTtl, Set, network
<1>5. /\ job'[t] = [job[t] EXCEPT !.at = next]
      /\ \A u \in Threads \ {t} : job'[u] = Mixed(Threads \ {t})[u]
      /\ DOMAIN job' = Threads
  BY <1>3 DEF Mixed
<1>6. /\ job'[t].at = next /\ job'[t].todo = job[t].todo /\ job'[t].goal = job[t].goal
      /\ job'[t].done = job[t].done /\ job'[t].retVal = job[t].retVal /\ job'[t].mixed = job[t].mixed
  BY <1>1, <1>5 DEF Jobs
<1>7. option' \in [interface : Ifs \cup {0}, ttl : Threads \cup {"default"}]
  BY <1>2, <1>3 DEF SendInv, JobTypes
<1>8. \/ /\ next = "ttl" /\ job[t].at = "interface" /\ option'.interface = Head(job[t].todo)
      \/ /\ next = "sendto" /\ job[t].at = "ttl" /\ option'.ttl = t /\ option'.interface = option.interface
  BY <1>3 DEF SendInv, JobTypes
<1>9. \A u \in Threads : job'[u] \in {Idle} \cup Jobs
  <2>1. job'[t] \in Jobs
    BY <1>1, <1>5 DEF Jobs
  <2>2. \A u \in Threads \ {t} : job'[u] \in {Idle} \cup Jobs
    BY <1>5, MixedJobs DEF SendInv
  <2> QED BY <2>1, <2>2
<1>10. JobTypes'
  <2>1. job' \in [Threads -> {Idle} \cup Jobs]
    <3>1. job' = [u \in Threads |-> job'[u]]
      BY <1>3 DEF Mixed
    <3> QED BY <3>1, <1>9
  <2> QED BY <2>1, <1>4, <1>7 DEF SendInv, JobTypes
<1>11. JobInv(t)'
  <2>1. JobInv(t) /\ job[t] # Idle
    BY <1>1 DEF SendInv, Idle
  <2>2. ~job[t].mixed => OptionSet(t)'
    BY <1>6, <1>8, <2>1 DEF JobInv, OptionSet
  <2> QED BY <1>1, <1>6, <2>1, <2>2 DEF JobInv
<1>12. \A u \in Threads \ {t} : JobInv(u)'
  BY <1>5, MixedJobs DEF SendInv
<1> QED BY <1>10, <1>11, <1>12 DEF SendInv

(* sendto(), or one of the three calls fails: the next adapter is due. *)
LEMMA NextAdapter ==
  ASSUME SendInv, NEW t \in Threads, SendTo(t) \/ SendFails(t)
  PROVE  SendInv'
<1> DEFINE first == Head(job[t].todo)
           rest == Tail(job[t].todo)
<1>1. job[t] \in Jobs /\ job[t].todo # <<>> /\ job[t] # Idle
  <2>1. job[t].todo # <<>>
    BY DEF SendTo, Leaves, SendFails, At
  <2>2. job[t] # Idle
    BY DEF SendTo, Leaves, SendFails, At, Idle
  <2> QED BY <2>1, <2>2 DEF SendInv, JobTypes
<1>2. first \in Ifs /\ rest \in Seq(Ifs) /\ ToSet(job[t].todo) = {first} \cup ToSet(rest)
  BY <1>1, Takes DEF Jobs
<1>3. UNCHANGED <<present, adapters, option>>
  BY DEF SendTo, SendFails, Leaves, network
<1>4. \A u \in Threads \ {t} : job'[u] = job[u]
  BY DEF SendTo, SendFails, Leaves, SendInv, JobTypes
<1>5. \A u \in Threads \ {t} : JobInv(u)'
  BY <1>3, <1>4 DEF SendInv, JobInv, OptionSet
<1>6. CASE SendTo(t)
  <2>0. PICK i \in present :
          /\ option.interface \in {0, i}
          /\ job' = [job EXCEPT ![t].at = "interface", ![t].todo = Tail(@), ![t].retVal = job[t].retVal,
                                ![t].done = @ \cup {<<i, option.ttl>>}]
    BY <1>6 DEF SendTo, Leaves
  <2> DEFINE telegram == <<i, option.ttl>>
  <2>1. /\ job' = [job EXCEPT ![t].at = "interface", ![t].todo = Tail(@), ![t].retVal = job[t].retVal,
                              ![t].done = @ \cup {telegram}]
        /\ job[t].at = "sendto"
    BY <1>6, <2>0 DEF SendTo, Leaves, At
  <2>2. /\ job'[t].at = "interface" /\ job'[t].todo = rest /\ job'[t].goal = job[t].goal
        /\ job'[t].done = job[t].done \cup {telegram}
        /\ job'[t].retVal = job[t].retVal /\ job'[t].mixed = job[t].mixed
    BY <1>1, <2>1 DEF Jobs, SendInv, JobTypes
  <2>3. telegram \in Ifs \X (Threads \cup {"default"})
    BY DEF SendInv, JobTypes
  <2>4. job'[t] \in Jobs
    BY <1>1, <1>2, <2>1, <2>3 DEF Jobs, SendInv, JobTypes
  <2>5. JobTypes'
    <3>1. job' \in [Threads -> {Idle} \cup Jobs]
      BY <2>1, <2>4, <1>4 DEF SendInv, JobTypes
    <3> QED BY <3>1, <1>3 DEF SendInv, JobTypes
  <2>6. JobInv(t)
    BY DEF SendInv
  <2>7. ~job[t].mixed => telegram = <<first, t>>
    <3>1. ~job[t].mixed => option.interface = first /\ option.ttl = t
      BY <1>1, <2>1, <2>6 DEF JobInv, OptionSet
    <3>2. first # 0
      BY <1>2, IfsAssumption
    <3> QED BY <2>0, <3>1, <3>2
  <2>8. ~job[t].mixed => job'[t].done \subseteq job[t].goal \X {t}
    BY <1>1, <1>2, <2>2, <2>6, <2>7 DEF JobInv
  <2>9. ~job[t].mixed /\ job[t].retVal = "success"
          => job[t].goal \X {t} \subseteq job'[t].done \cup (ToSet(rest) \X {t})
    BY <1>1, <1>2, <2>2, <2>6, <2>7 DEF JobInv
  <2>10. JobInv(t)'
    BY <1>1, <1>2, <2>2, <2>6, <2>8, <2>9 DEF JobInv, OptionSet
  <2> QED BY <2>5, <2>10, <1>5 DEF SendInv
<1>7. CASE SendFails(t)
  <2>1. job' = [job EXCEPT ![t].at = "interface", ![t].todo = Tail(@), ![t].retVal = "error"]
    BY <1>7 DEF SendFails
  <2>2. /\ job'[t].at = "interface" /\ job'[t].todo = rest /\ job'[t].goal = job[t].goal
        /\ job'[t].done = job[t].done
        /\ job'[t].retVal = "error" /\ job'[t].mixed = job[t].mixed
    BY <1>1, <2>1 DEF Jobs, SendInv, JobTypes
  <2>3. job'[t] \in Jobs
    BY <1>1, <1>2, <2>1 DEF Jobs, SendInv, JobTypes
  <2>4. JobTypes'
    <3>1. job' \in [Threads -> {Idle} \cup Jobs]
      BY <2>1, <2>3, <1>4 DEF SendInv, JobTypes
    <3> QED BY <3>1, <1>3 DEF SendInv, JobTypes
  <2>5. JobInv(t)
    BY DEF SendInv
  <2>6. JobInv(t)'
    BY <1>1, <1>2, <2>2, <2>5 DEF JobInv, OptionSet
  <2> QED BY <2>4, <2>6, <1>5 DEF SendInv
<1> QED BY <1>6, <1>7

LEMMA SendReturnsStep ==
  ASSUME SendInv, NEW t \in Threads, SendReturns(t)
  PROVE  SendInv'
<1>1. job' = [job EXCEPT ![t] = Idle] /\ UNCHANGED <<present, adapters, option>>
  BY DEF SendReturns, network
<1> QED BY <1>1 DEF SendInv, JobTypes, JobInv, OptionSet

(* start() gives the socket new options under the feet of the sending threads. *)
LEMMA StartKeepsJobs ==
  ASSUME SendInv, NEW end \in Starts, Start(end)
  PROVE  SendInv'
<1>1. NewSender(SetupSendSocket(end)) /\ UNCHANGED <<present, adapters>>
  BY DEF Start, network
<1>2. CASE UNCHANGED <<option, job>>
  BY <1>1, <1>2 DEF SendInv, JobTypes, JobInv, OptionSet
<1>3. CASE option' = DefaultOption /\ job' = Mixed(Threads)
  <2>1. job' \in [Threads -> {Idle} \cup Jobs]
    <3>1. job' = [u \in Threads |-> job'[u]]
      BY <1>3 DEF Mixed
    <3>2. \A u \in Threads : job'[u] \in {Idle} \cup Jobs
      BY <1>3, MixedJobs DEF SendInv
    <3> QED BY <3>1, <3>2
  <2>2. JobTypes'
    BY <1>1, <1>3, <2>1 DEF SendInv, JobTypes, DefaultOption
  <2>3. \A u \in Threads : JobInv(u)'
    BY <1>3, MixedJobs DEF SendInv
  <2> QED BY <2>2, <2>3 DEF SendInv
<1> QED BY <1>1, <1>2, <1>3 DEF NewSender

LEMMA SendStep ==
  ASSUME SendInv, [Next]_vars
  PROVE  SendInv'
<1>1. ASSUME present' \subseteq Ifs, adapters' \subseteq Ifs, UNCHANGED sender
      PROVE  SendInv'
  BY <1>1 DEF sender, SendInv, JobTypes, JobInv, OptionSet
<1>2. ASSUME NEW end \in Starts, Start(end)
      PROVE  SendInv'
  BY <1>2, StartKeepsJobs
<1>3. ASSUME UNCHANGED <<network, sender>>
      PROVE  SendInv'
  BY <1>1, <1>3 DEF network, SendInv, JobTypes
<1>4. CASE Stop \/ Destroy
  BY <1>3, <1>4 DEF Stop, Destroy, Closing, AfterClosing
<1>5. CASE UNCHANGED vars
  BY <1>3, <1>5 DEF vars
<1>6. ASSUME NEW i \in Ifs, InterfaceChange(i)
      PROVE  SendInv'
  BY <1>1, <1>6 DEF InterfaceChange, SendInv, JobTypes
<1>7. ASSUME NEW i \in Ifs, AddInterface(i) \/ DropInterface(i) \/ Arrive(i)
      PROVE  SendInv'
  BY <1>3, <1>7 DEF AddInterface, DropInterface, Arrive
<1>8. CASE ListUpdate
  BY <1>1, <1>8 DEF ListUpdate, SendInv, JobTypes
<1>9. CASE \/ AddAllInterfaces \/ DropAllInterfaces
           \/ Process \/ ProcessStopped \/ HandlerThrows \/ ReceiveTelegram \/ ReceiveNothing
  BY <1>3, <1>9 DEF AddAllInterfaces, DropAllInterfaces, Process, ProcessStopped, HandlerThrows,
                    ReceiveTelegram, ReceiveNothing
<1>10. ASSUME NEW t \in Threads, Send(t) \/ \E i \in Ifs : SendOverInterface(t, i)
       PROVE  SendInv'
  <2>1. PICK interfaces \in SUBSET Ifs : SendOver(t, interfaces)
    BY <1>10 DEF Send, SendOverInterface, SendInv, JobTypes
  <2> QED BY <2>1, SendOverStep
<1>11. ASSUME NEW t \in Threads,
              SetInterface(t) \/ SetTtl(t) \/ SendTo(t) \/ SendFails(t) \/ SendReturns(t)
       PROVE  SendInv'
  BY <1>11, SetStep, NextAdapter, SendReturnsStep
<1> QED BY <1>2, <1>4, <1>5, <1>6, <1>7, <1>8, <1>9, <1>10, <1>11 DEF Next

LEMMA SendInvariant == Spec => []SendInv
<1>1. Init => SendInv
  BY DEF Init, SendInv, JobTypes, JobInv, DefaultOption
<1>2. SendInv /\ [Next]_vars => SendInv'
  BY SendStep
<1> QED BY <1>1, <1>2, PTL DEF Spec

(* Telegrams leave as their thread asked for (see SentAsAsked), although all *)
(* threads share the options of one socket and start() may replace it.       *)
THEOREM SendsAsAsked == Spec => []SentAsAsked
<1>1. SendInv => SentAsAsked
  BY DEF SendInv, JobInv, SentAsAsked
<1> QED BY <1>1, SendInvariant, PTL

(* send() does not report success for a telegram that has not left over      *)
(* every adapter (see SuccessMeansSent).                                     *)
THEOREM SuccessIsTrue == Spec => []SuccessMeansSent
<1>1. SendInv => SuccessMeansSent
  <2> SUFFICES ASSUME SendInv, NEW t \in Threads,
                      job[t] # Idle, job[t].todo = <<>>, job[t].retVal = "success", ~job[t].mixed
               PROVE  job[t].done = job[t].goal \X {t}
    BY DEF SuccessMeansSent
  <2>1. ToSet(job[t].todo) = {}
    BY DEF ToSet
  <2> QED BY <2>1 DEF SendInv, JobInv
<1> QED BY <1>1, SendInvariant, PTL
=============================================================================
