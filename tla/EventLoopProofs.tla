-------------------------- MODULE EventLoopProofs --------------------------
(***************************************************************************)
(* Proofs about EventLoop for any number of descriptors, threads, pending  *)
(* events and slots of m_events.                                           *)
(***************************************************************************)
EXTENDS EventLoop, TLAPS

(* Which descriptor owns the element a pointer of the batch names: if there *)
(* is one with a callback in direction d, it is what the loop calls.        *)
LEMMA CalleeType ==
  ASSUME NEW ptr, NEW d
  PROVE  /\ Callee(ptr, d) \in Fds \cup {None}
         /\ (\E fd \in Fds : infos[fd] = ptr /\ d \in handlers[ptr]) => Callee(ptr, d) \in Fds
  BY DEF Callee

(* Masking keeps the shape of m_events: pointers stay, flags only shrink.   *)
LEMMA MaskShape ==
  ASSUME NEW evs \in [Slots -> EventRecord], NEW count, NEW node, NEW removed,
         SizesAssumption
  PROVE  /\ Mask(evs, count, node, removed) \in [Slots -> EventRecord]
         /\ \A i \in Slots : /\ Mask(evs, count, node, removed)[i].ptr = evs[i].ptr
                             /\ Mask(evs, count, node, removed)[i].flags \subseteq evs[i].flags
  BY DEF Mask, EventRecord, Slots, SizesAssumption

(* epoll_ctl keeps the interest list and the ready list well formed. *)
LEMMA EpollSetType ==
  ASSUME epoll \in [Fds -> [mask : SUBSET Dir, ptr : Nodes \cup {None}]],
         rdl \subseteq Fds \cup {StopFd},
         NEW fd \in Fds, NEW mask \in SUBSET Dir, NEW ptr \in Nodes,
         EpollSet(fd, mask, ptr)
  PROVE  /\ epoll' \in [Fds -> [mask : SUBSET Dir, ptr : Nodes \cup {None}]]
         /\ rdl' \subseteq Fds \cup {StopFd}
<1> DEFINE entry == [mask |-> mask, ptr |-> ptr]
<1>1. entry \in [mask : SUBSET Dir, ptr : Nodes \cup {None}]
  OBVIOUS
<1>2. epoll' = [epoll EXCEPT ![fd] = entry]
  BY DEF EpollSet
<1> HIDE DEF entry
<1>3. epoll' \in [Fds -> [mask : SUBSET Dir, ptr : Nodes \cup {None}]]
  BY <1>1, <1>2
<1> QED BY <1>3 DEF EpollSet

(* The same for removing a descriptor. *)
LEMMA EpollDeleteType ==
  ASSUME epoll \in [Fds -> [mask : SUBSET Dir, ptr : Nodes \cup {None}]],
         rdl \subseteq Fds \cup {StopFd},
         NEW fd \in Fds,
         EpollDelete(fd)
  PROVE  /\ epoll' \in [Fds -> [mask : SUBSET Dir, ptr : Nodes \cup {None}]]
         /\ rdl' \subseteq Fds \cup {StopFd}
<1>1. Unregistered \in [mask : SUBSET Dir, ptr : Nodes \cup {None}]
  BY DEF Unregistered
<1> QED BY <1>1 DEF EpollDelete

TypeInv == TypeOK /\ CallbackInBatch

(* Every step keeps every variable in its type, n within the batch. *)
LEMMA TypeStep ==
  ASSUME TypeInv, [Next]_vars
  PROVE  TypeInv'
<1> USE SizesAssumption, SetsAssumption, IdentitiesAssumption
<1> USE DEF TypeInv, TypeOK, CallbackInBatch, registry, batch, world, control
<1>1. CASE ExecuteStart
  BY <1>1 DEF ExecuteStart
<1>2. CASE EpollWait
  <2>1. PICK k \in Slots : \E got \in [1..k -> Ready] :
          /\ events' = [i \in Slots |-> IF i <= k THEN Item(got[i]) ELSE events[i]]
          /\ rdl' = {x \in Ready : \A i \in 1..k : got[i] # x}
          /\ ret' = k
    BY <1>2 DEF EpollWait
  <2>2. PICK got \in [1..k -> Ready] :
          /\ events' = [i \in Slots |-> IF i <= k THEN Item(got[i]) ELSE events[i]]
          /\ rdl' = {x \in Ready : \A i \in 1..k : got[i] # x}
          /\ ret' = k
    BY <2>1
  <2>3. \A x \in Ready : Item(x) \in EventRecord
    BY DEF Ready, Item, EventRecord, Signaled, Dir
  <2>4. events' \in [Slots -> EventRecord]
    BY <2>2, <2>3 DEF Slots
  <2>5. ret' \in -1..MAXEVENTS /\ rdl' \subseteq Fds \cup {StopFd}
    BY <2>2 DEF Slots, Ready
  <2> QED BY <2>4, <2>5, <1>2 DEF EpollWait
<1>3. CASE EpollInterrupted
  BY <1>3 DEF EpollInterrupted
<1>4. CASE StoreCount
  BY <1>4 DEF StoreCount
<1>5. CASE Lock
  BY <1>5 DEF Lock
<1>6. CASE Dispatch
  <2>1. cur' \in Fds \cup {None}
    BY <1>6, CalleeType DEF Dispatch
  <2> QED BY <1>6, <2>1 DEF Dispatch
<1>7. CASE Skip
  BY <1>7 DEF Skip, Advance, Dir
<1>8. CASE StopSeen
  <2>1. n' \in 1..(MAXEVENTS + 1)
    BY <1>8 DEF StopSeen
  <2>2. dir' \in Dir
    BY <1>8 DEF StopSeen, Dir
  <2>3. again' \in BOOLEAN
    BY <1>8 DEF StopSeen
  <2> QED BY <1>8, <2>1, <2>2, <2>3 DEF StopSeen
<1>9. CASE RoundEnd
  <2>1. n' \in 1..(MAXEVENTS + 1)
    BY <1>9 DEF RoundEnd
  <2>2. dir' \in Dir
    BY <1>9 DEF RoundEnd, Dir
  <2>3. again' \in BOOLEAN
    BY <1>9 DEF RoundEnd
  <2> QED BY <1>9, <2>1, <2>2, <2>3 DEF RoundEnd
<1>10. CASE CallbackRead
  <2>0. cur \in Fds /\ dir \in Dir /\ pend[cur][dir] \in 0..MaxPend
    BY <1>10 DEF CallbackRead
  <2>1. pend' \in [Fds -> [Dir -> 0..MaxPend]]
    <3>1. CASE pend' = [pend EXCEPT ![cur][dir] = 0]
      BY <2>0, <3>1
    <3>2. CASE /\ pend[cur][dir] > 0
               /\ pend' = [pend EXCEPT ![cur][dir] = @ - 1]
      BY <2>0, <3>2
    <3> QED BY <1>10, <3>1, <3>2 DEF CallbackRead
  <2> QED BY <1>10, <2>1 DEF CallbackRead
<1>11. CASE CallbackReturn
  <2>1. events' \in [Slots -> EventRecord]
    BY <1>11 DEF CallbackReturn, EventRecord
  <2> QED BY <1>11, <2>1 DEF CallbackReturn, Advance, Dir
<1>12. CASE CallbackThrow
  BY <1>12 DEF CallbackThrow, Advance, Dir
<1>13. CASE KernelStep
  <2>1. PICK fd \in Fds : (\E d \in Dir : Arrive(fd, d)) \/ CloseFd(fd) \/ OpenFd(fd)
    BY <1>13 DEF KernelStep
  <2>2. CASE \E d \in Dir : Arrive(fd, d)
    BY <2>2 DEF Arrive
  <2>3. CASE CloseFd(fd)
    BY <2>3 DEF CloseFd, EpollDelete, Unregistered
  <2>4. CASE OpenFd(fd)
    BY <2>4 DEF OpenFd
  <2> QED BY <2>1, <2>2, <2>3, <2>4
<1>14. CASE Stop
  BY <1>14 DEF Stop
<1>15. CASE \E t \in Threads : ThreadStep(t)
  <2>1. PICK t \in Threads : ThreadStep(t)
    BY <1>15
  <2>2. ASSUME NEW fd \in Fds, NEW d \in Dir, Add(t, fd, d)
        PROVE  TypeInv'
    <3>1. PICK node \in Nodes :
            /\ infos' = [infos EXCEPT ![fd] = node]
            /\ handlers' = [handlers EXCEPT ![node] = @ \cup {d}]
            /\ \/ /\ EpollSet(fd, handlers[node] \cup {d}, node)
                  /\ drain' = [drain EXCEPT ![t] = [fd |-> fd, dir |-> d]]
               \/ UNCHANGED <<epoll, rdl, drain>>
      BY <2>2 DEF Add
    <3>2. /\ infos' \in [Fds -> Nodes \cup {None}]
          /\ handlers' \in [Nodes -> SUBSET Dir]
      BY <3>1
    <3>a. handlers[node] \cup {d} \in SUBSET Dir
      OBVIOUS
    <3>3. /\ epoll' \in [Fds -> [mask : SUBSET Dir, ptr : Nodes \cup {None}]]
          /\ rdl' \subseteq Fds \cup {StopFd}
          /\ drain' \in [Threads -> [fd : Fds, dir : Dir] \cup {None}]
      <4>1. CASE /\ EpollSet(fd, handlers[node] \cup {d}, node)
                 /\ drain' = [drain EXCEPT ![t] = [fd |-> fd, dir |-> d]]
        BY <4>1, <3>a, EpollSetType
      <4>2. CASE UNCHANGED <<epoll, rdl, drain>>
        BY <4>2
      <4> QED BY <3>1, <4>1, <4>2
    <3> QED BY <2>2, <3>2, <3>3 DEF Add
  <2>3. ASSUME NEW fd \in Fds, NEW d \in Dir, Erase(t, fd, d)
        PROVE  TypeInv'
    <3>1. infos[fd] \in Nodes
      BY <2>3 DEF Erase
    <3>2. ASSUME EraseOne(fd, d, infos[fd])
          PROVE  /\ UNCHANGED infos
                 /\ handlers' \in [Nodes -> SUBSET Dir]
                 /\ epoll' \in [Fds -> [mask : SUBSET Dir, ptr : Nodes \cup {None}]]
                 /\ rdl' \subseteq Fds \cup {StopFd}
                 /\ events' \in [Slots -> EventRecord]
      <4>1. handlers[infos[fd]] \ {d} \in SUBSET Dir
        BY <3>1
      <4>2. events' \in [Slots -> EventRecord]
        BY <3>2, MaskShape DEF EraseOne
      <4>3. handlers' \in [Nodes -> SUBSET Dir]
        BY <3>1, <3>2, <4>1 DEF EraseOne
      <4>4. UNCHANGED <<epoll, rdl>> \/ EpollSet(fd, handlers[infos[fd]] \ {d}, infos[fd])
        BY <3>2 DEF EraseOne
      <4> QED BY <3>1, <3>2, <4>1, <4>2, <4>3, <4>4, EpollSetType DEF EraseOne
    <3>3. ASSUME EraseLast(fd, d, infos[fd])
          PROVE  /\ infos' \in [Fds -> Nodes \cup {None}]
                 /\ handlers' \in [Nodes -> SUBSET Dir]
                 /\ epoll' \in [Fds -> [mask : SUBSET Dir, ptr : Nodes \cup {None}]]
                 /\ rdl' \subseteq Fds \cup {StopFd}
                 /\ events' \in [Slots -> EventRecord]
      <4>1. events' \in [Slots -> EventRecord]
        BY <3>3, MaskShape DEF EraseLast
      <4>2. handlers' \in [Nodes -> SUBSET Dir] /\ infos' \in [Fds -> Nodes \cup {None}]
        BY <3>3, <3>1 DEF EraseLast
      <4> QED BY <3>3, <4>1, <4>2, EpollDeleteType DEF EraseLast
    <3> QED BY <2>3, <3>2, <3>3 DEF Erase
  <2>4. CASE DrainMore(t)
    <3>1. drain[t] \in [fd : Fds, dir : Dir]
      BY <2>4 DEF DrainMore
    <3>2. pend' \in [Fds -> [Dir -> 0..MaxPend]]
      BY <2>4, <3>1 DEF DrainMore
    <3> QED BY <2>4, <3>2 DEF DrainMore
  <2>5. CASE DrainDone(t) \/ DrainThrow(t)
    BY <2>5 DEF DrainDone, DrainThrow
  <2> QED
    BY <2>1, <2>2, <2>3, <2>4, <2>5
    DEF ThreadStep, AddEvent, AddOutEvent, EraseEvent, EraseOutEvent, Dir
<1>16. CASE UNCHANGED vars
  BY <1>16 DEF vars
<1> QED
  BY <1>1, <1>2, <1>3, <1>4, <1>5, <1>6, <1>7, <1>8, <1>9, <1>10, <1>11, <1>12,
     <1>13, <1>14, <1>15, <1>16 DEF Next, LoopStep

(* Initially every variable has its type. *)
LEMMA TypeInit == Init => TypeInv
<1> SUFFICES ASSUME Init PROVE TypeInv
  OBVIOUS
<1> USE SizesAssumption DEF Init
<1>1. /\ infos \in [Fds -> Nodes \cup {None}]
      /\ handlers \in [Nodes -> SUBSET Dir]
      /\ drain \in [Threads -> [fd : Fds, dir : Dir] \cup {None}]
  OBVIOUS
<1>2. events \in [Slots -> EventRecord]
  BY DEF EventRecord
<1>3. epoll \in [Fds -> [mask : SUBSET Dir, ptr : Nodes \cup {None}]]
  BY DEF Unregistered
<1>4. pend \in [Fds -> [Dir -> 0..MaxPend]]
  OBVIOUS
<1>5. /\ eventCount \in -1..MAXEVENTS
      /\ ret \in -1..MAXEVENTS
      /\ n \in 1..(MAXEVENTS + 1)
      /\ execs \in 0..MaxExecutes
  OBVIOUS
<1>6. again \in BOOLEAN /\ dir \in Dir
  BY DEF Dir
<1> QED
  BY <1>1, <1>2, <1>3, <1>4, <1>5, <1>6 DEF TypeInv, TypeOK, CallbackInBatch

(* The loop never leaves its types: in particular m_eventCount and the       *)
(* index of the dispatch loop stay within m_events.                          *)
THEOREM TypeCorrect == Spec => []TypeOK
<1>1. TypeInv => TypeOK
  BY DEF TypeInv
<1> QED BY <1>1, TypeInit, TypeStep, PTL DEF Spec

-----------------------------------------------------------------------------
RegistryInv == TypeInv /\ KernelAgrees /\ NodesOwned

(* addEvent and addOutEvent keep m_eventInfos and the kernel in agreement,   *)
(* also when epoll_ctl fails and the new entry stays behind.                *)
LEMMA AddKeepsRegistry ==
  ASSUME RegistryInv, NEW t \in Threads, NEW fd \in Fds, NEW d \in Dir, Add(t, fd, d)
  PROVE  KernelAgrees' /\ NodesOwned'
<1> USE IdentitiesAssumption DEF RegistryInv, TypeInv, TypeOK
<1>1. PICK node \in Nodes :
        /\ NodeFor(fd, node)
        /\ infos' = [infos EXCEPT ![fd] = node]
        /\ handlers' = [handlers EXCEPT ![node] = @ \cup {d}]
        /\ IF CtlSucceeds(fd, CtlMode(fd))
             THEN EpollSet(fd, handlers[node] \cup {d}, node)
             ELSE UNCHANGED <<epoll, rdl>>
  BY DEF Add
<1>2. \A other \in Fds \ {fd} : infos[other] # node
  BY <1>1 DEF NodeFor, NodesOwned
<1>3. open' = open
  BY DEF Add
<1>4. /\ infos'[fd] = node
      /\ handlers'[node] = handlers[node] \cup {d}
      /\ \A other \in Fds \ {fd} : infos'[other] = infos[other]
      /\ \A m \in Nodes \ {node} : handlers'[m] = handlers[m]
  BY <1>1
<1>5. NodesOwned'
  <2>1. ASSUME NEW f \in Fds, NEW g \in Fds, infos'[f] = infos'[g], infos'[f] # None
        PROVE  f = g
    BY <1>2, <1>4, <2>1 DEF NodesOwned
  <2>2. ASSUME NEW m \in Nodes
        PROVE  handlers'[m] # {} <=> \E f \in Fds : infos'[f] = m
    <3>1. CASE m = node
      BY <1>4, <3>1
    <3>2. CASE m # node
      <4>1. infos[fd] # m
        BY <1>1, <3>2 DEF NodeFor
      <4>2. \A f \in Fds : infos'[f] = m <=> infos[f] = m
        BY <1>4, <3>2, <4>1
      <4>3. handlers'[m] = handlers[m]
        BY <1>4, <3>2
      <4>4. handlers[m] # {} <=> \E f \in Fds : infos[f] = m
        BY DEF NodesOwned
      <4> QED BY <4>2, <4>3, <4>4
    <3> QED BY <3>1, <3>2
  <2> QED BY <2>1, <2>2 DEF NodesOwned
<1>6. ASSUME NEW f \in Fds, f # fd, InKernel(f)'
      PROVE  /\ f \in open' /\ infos'[f] # None /\ epoll'[f].ptr = infos'[f]
             /\ epoll'[f].mask = handlers'[infos'[f]]
  <2>1. epoll'[f] = epoll[f]
    BY <1>1, <1>6 DEF EpollSet
  <2>2. infos[f] \in Nodes \ {node}
    BY <1>2, <1>6, <2>1 DEF InKernel, KernelAgrees
  <2> QED BY <1>3, <1>4, <1>6, <2>1, <2>2 DEF InKernel, KernelAgrees
<1>7. ASSUME InKernel(fd)'
      PROVE  /\ fd \in open' /\ infos'[fd] # None /\ epoll'[fd].ptr = infos'[fd]
             /\ epoll'[fd].mask = handlers'[infos'[fd]]
  <2>1. CASE CtlSucceeds(fd, CtlMode(fd))
    BY <1>1, <1>3, <1>4, <2>1 DEF EpollSet, CtlSucceeds
  <2>2. CASE ~CtlSucceeds(fd, CtlMode(fd))
    <3>1. InKernel(fd)
      BY <1>1, <1>7, <2>2 DEF InKernel
    <3>2. fd \in open /\ infos[fd] # None
      BY <3>1 DEF KernelAgrees
    <3> QED BY <2>2, <3>1, <3>2 DEF CtlSucceeds, CtlMode
  <2> QED BY <2>1, <2>2
<1> QED BY <1>5, <1>6, <1>7 DEF KernelAgrees

(* eraseEvent and eraseOutEvent free an element only after the kernel        *)
(* forgot it, whether or not the descriptor was closed before.              *)
LEMMA EraseKeepsRegistry ==
  ASSUME RegistryInv, NEW t \in Threads, NEW fd \in Fds, NEW d \in Dir, Erase(t, fd, d)
  PROVE  KernelAgrees' /\ NodesOwned'
<1> USE IdentitiesAssumption DEF RegistryInv, TypeInv, TypeOK
<1> DEFINE node == infos[fd]
<1>0. node \in Nodes /\ d \in handlers[node] /\ open' = open
  BY DEF Erase
<1>1. \A other \in Fds \ {fd} : infos[other] # node
  BY <1>0 DEF NodesOwned
<1>2. CASE EraseOne(fd, d, node)
  <2>1. /\ infos' = infos
        /\ handlers'[node] = handlers[node] \ {d}
        /\ handlers'[node] # {}
        /\ \A m \in Nodes \ {node} : handlers'[m] = handlers[m]
    BY <1>0, <1>2 DEF EraseOne
  <2>2. NodesOwned'
    BY <1>0, <2>1 DEF NodesOwned
  <2>3. ASSUME NEW f \in Fds, f # fd
        PROVE  epoll'[f] = epoll[f]
    BY <1>2, <2>3 DEF EraseOne, EpollSet
  <2>4. InKernel(fd) => epoll'[fd].mask = handlers'[node] /\ epoll'[fd].ptr = node
    <3> SUFFICES ASSUME InKernel(fd) PROVE epoll'[fd].mask = handlers'[node] /\ epoll'[fd].ptr = node
      OBVIOUS
    <3>1. CtlSucceeds(fd, "MOD")
      BY DEF KernelAgrees, CtlSucceeds
    <3>2. epoll' = [epoll EXCEPT ![fd] = [mask |-> handlers[node] \ {d}, ptr |-> node]]
      BY <1>2, <3>1 DEF EraseOne, EpollSet
    <3> HIDE DEF node
    <3> QED BY <2>1, <3>2
  <2>5. ~InKernel(fd) => epoll'[fd] = epoll[fd]
    BY <1>2 DEF EraseOne, CtlSucceeds
  <2>6. ASSUME NEW f \in Fds, InKernel(f)'
        PROVE  /\ f \in open' /\ infos'[f] # None /\ epoll'[f].ptr = infos'[f]
               /\ epoll'[f].mask = handlers'[infos'[f]]
    <3>1. CASE f = fd
      BY <1>0, <2>1, <2>4, <2>5, <2>6, <3>1 DEF InKernel, KernelAgrees
    <3>2. CASE f # fd
      <4>1. infos[f] \in Nodes \ {node}
        BY <1>1, <2>3, <2>6, <3>2 DEF InKernel, KernelAgrees
      <4> QED BY <1>0, <2>1, <2>3, <2>6, <3>2, <4>1 DEF InKernel, KernelAgrees
    <3> QED BY <3>1, <3>2
  <2> QED BY <2>2, <2>6 DEF KernelAgrees
<1>3. CASE EraseLast(fd, d, node)
  <2>1. /\ infos'[fd] = None
        /\ \A other \in Fds \ {fd} : infos'[other] = infos[other]
        /\ handlers'[node] = {}
        /\ \A m \in Nodes \ {node} : handlers'[m] = handlers[m]
    BY <1>0, <1>3 DEF EraseLast
  <2>2. NodesOwned'
    <3>1. ASSUME NEW f \in Fds, NEW g \in Fds, infos'[f] = infos'[g], infos'[f] # None
          PROVE  f = g
      BY <2>1, <3>1 DEF NodesOwned
    <3>2. ASSUME NEW m \in Nodes
          PROVE  handlers'[m] # {} <=> \E f \in Fds : infos'[f] = m
      <4>1. CASE m = node
        BY <1>0, <1>1, <2>1, <4>1
      <4>2. CASE m # node
        <5>1. \A f \in Fds : infos'[f] = m <=> infos[f] = m
          BY <1>0, <2>1, <4>2
        <5>2. handlers'[m] = handlers[m]
          BY <2>1, <4>2
        <5>3. handlers[m] # {} <=> \E f \in Fds : infos[f] = m
          BY DEF NodesOwned
        <5> QED BY <5>1, <5>2, <5>3
      <4> QED BY <4>1, <4>2
    <3> QED BY <3>1, <3>2 DEF NodesOwned
  <2>3. ASSUME NEW f \in Fds, f # fd
        PROVE  epoll'[f] = epoll[f]
    BY <1>3, <2>3 DEF EraseLast, EpollDelete
  <2>4. epoll'[fd].mask = {}
    <3>1. CASE InKernel(fd)
      <4>1. CtlSucceeds(fd, "DEL")
        BY <3>1 DEF KernelAgrees, CtlSucceeds
      <4> QED BY <1>3, <4>1 DEF EraseLast, EpollDelete, Unregistered
    <3>2. CASE ~InKernel(fd)
      BY <1>3, <3>2 DEF EraseLast, CtlSucceeds, InKernel
    <3> QED BY <3>1, <3>2
  <2>5. ASSUME NEW f \in Fds, InKernel(f)'
        PROVE  /\ f \in open' /\ infos'[f] # None /\ epoll'[f].ptr = infos'[f]
               /\ epoll'[f].mask = handlers'[infos'[f]]
    <3>1. f # fd
      BY <2>4, <2>5 DEF InKernel
    <3>2. infos[f] \in Nodes \ {node}
      BY <1>1, <2>3, <2>5, <3>1 DEF InKernel, KernelAgrees
    <3> QED BY <1>0, <2>1, <2>3, <2>5, <3>1, <3>2 DEF InKernel, KernelAgrees
  <2> QED BY <2>2, <2>5 DEF KernelAgrees
<1> QED BY <1>2, <1>3 DEF Erase

(* Every step keeps the registry and the kernel in agreement. *)
LEMMA RegistryStep ==
  ASSUME RegistryInv, [Next]_vars
  PROVE  RegistryInv'
<1>1. TypeInv'
  BY TypeStep DEF RegistryInv
<1>2. ASSUME UNCHANGED <<infos, handlers, epoll, open>>
      PROVE  KernelAgrees' /\ NodesOwned'
  BY <1>2 DEF RegistryInv, KernelAgrees, NodesOwned, InKernel
<1>3. CASE LoopStep \/ Stop \/ UNCHANGED vars
  <2>1. UNCHANGED <<infos, handlers, epoll, open>>
    BY <1>3
    DEF LoopStep, ExecuteStart, EpollWait, EpollInterrupted, StoreCount, Lock, Dispatch,
        Skip, StopSeen, RoundEnd, CallbackRead, CallbackReturn, CallbackThrow, Stop,
        vars, registry, world
  <2> QED BY <1>1, <1>2, <2>1 DEF RegistryInv
<1>4. CASE KernelStep
  <2>1. PICK fd \in Fds : (\E d \in Dir : Arrive(fd, d)) \/ CloseFd(fd) \/ OpenFd(fd)
    BY <1>4 DEF KernelStep
  <2>2. CASE \E d \in Dir : Arrive(fd, d)
    BY <1>1, <1>2, <2>2 DEF Arrive, registry, RegistryInv
  <2>3. CASE CloseFd(fd) \/ OpenFd(fd)
    <3>1. NodesOwned'
      BY <2>3 DEF CloseFd, OpenFd, registry, RegistryInv, NodesOwned
    <3>2. \A f \in Fds : InKernel(f)' => epoll'[f] = epoll[f] /\ InKernel(f) /\ (f \in open => f \in open')
      BY <2>3 DEF CloseFd, OpenFd, EpollDelete, Unregistered, InKernel, registry, RegistryInv, TypeInv, TypeOK
    <3>3. KernelAgrees'
      BY <2>3, <3>2 DEF CloseFd, OpenFd, registry, RegistryInv, KernelAgrees
    <3> QED BY <1>1, <3>1, <3>3 DEF RegistryInv
  <2> QED BY <2>1, <2>2, <2>3
<1>5. CASE \E t \in Threads : ThreadStep(t)
  <2>1. PICK t \in Threads : ThreadStep(t)
    BY <1>5
  <2>2. CASE DrainMore(t) \/ DrainDone(t) \/ DrainThrow(t)
    BY <1>1, <1>2, <2>2 DEF DrainMore, DrainDone, DrainThrow, registry, world, RegistryInv
  <2>3. CASE \E fd \in Fds, d \in Dir : Add(t, fd, d) \/ Erase(t, fd, d)
    BY <1>1, <2>3, AddKeepsRegistry, EraseKeepsRegistry DEF RegistryInv
  <2> QED
    BY <2>1, <2>2, <2>3 DEF ThreadStep, AddEvent, AddOutEvent, EraseEvent, EraseOutEvent, Dir
<1> QED BY <1>3, <1>4, <1>5 DEF Next

(* Nothing is registered initially. *)
LEMMA RegistryInit == Init => RegistryInv
<1> SUFFICES ASSUME Init PROVE RegistryInv
  OBVIOUS
<1>1. TypeInv
  BY TypeInit
<1>2. KernelAgrees
  BY DEF Init, KernelAgrees, InKernel, Unregistered
<1>3. NodesOwned
  BY IdentitiesAssumption DEF Init, NodesOwned
<1> QED BY <1>1, <1>2, <1>3 DEF RegistryInv

(* With any number of threads using the loop while it executes, failing      *)
(* epoll_ctl calls and descriptors closed behind its back, the kernel never  *)
(* holds a pointer to a freed element of m_eventInfos.                       *)
THEOREM KernelNeverDangles == Spec => [](KernelAgrees /\ NodesOwned)
<1>1. RegistryInv => KernelAgrees /\ NodesOwned
  BY DEF RegistryInv
<1> QED BY <1>1, RegistryInit, RegistryStep, PTL DEF Spec

-----------------------------------------------------------------------------
LiveInv == RegistryInv /\ (~raced => BatchLive /\ NoStaleCallback)

(* The batch stays live when its entries stay and callbacks are only added. *)
LEMMA BatchKept ==
  ASSUME TypeOK, BatchLive, events' = events, BatchSize' <= BatchSize, BatchSize' \in Int,
         \A m \in Nodes : handlers[m] \subseteq handlers'[m]
  PROVE  BatchLive'
<1>1. BatchSize \in -1..MAXEVENTS
  BY SizesAssumption DEF BatchSize, TypeOK
<1>2. \A i \in 1..BatchSize' : i \in 1..BatchSize /\ i \in Slots
  BY <1>1, SizesAssumption DEF Slots
<1>3. ASSUME NEW i \in 1..BatchSize', events[i].ptr # None
      PROVE  events[i].flags \subseteq handlers'[events[i].ptr]
  <2>1. events[i].ptr \in Nodes
    BY <1>2, <1>3 DEF TypeOK, EventRecord
  <2>2. events[i].flags \subseteq handlers[events[i].ptr]
    BY <1>2, <1>3 DEF BatchLive
  <2> QED BY <2>1, <2>2
<1>4. \A i, j \in 1..BatchSize' : events[i].ptr = events[j].ptr => i = j
  BY <1>2 DEF BatchLive
<1> QED BY <1>3, <1>4 DEF BatchLive

(* What epoll_wait reports names live elements, each at most once. *)
LEMMA EpollWaitLive ==
  ASSUME RegistryInv, EpollWait
  PROVE  BatchLive'
<1> USE SizesAssumption, IdentitiesAssumption DEF RegistryInv, TypeInv, TypeOK
<1>1. PICK k \in Slots : \E got \in [1..k -> Ready] :
        /\ \A i, j \in 1..k : got[i] = got[j] => i = j
        /\ k = MAXEVENTS \/ \A x \in Ready : \E i \in 1..k : got[i] = x
        /\ events' = [i \in Slots |-> IF i <= k THEN Item(got[i]) ELSE events[i]]
        /\ rdl' = {x \in Ready : \A i \in 1..k : got[i] # x}
        /\ ret' = k
  BY DEF EpollWait
<1>2. PICK got \in [1..k -> Ready] :
        /\ \A i, j \in 1..k : got[i] = got[j] => i = j
        /\ k = MAXEVENTS \/ \A x \in Ready : \E i \in 1..k : got[i] = x
        /\ events' = [i \in Slots |-> IF i <= k THEN Item(got[i]) ELSE events[i]]
        /\ rdl' = {x \in Ready : \A i \in 1..k : got[i] # x}
        /\ ret' = k
  BY <1>1
<1>3. handlers' = handlers
  BY DEF EpollWait, registry
<1>4. BatchSize' = k
  BY <1>2 DEF EpollWait, BatchSize
<1>5. \A i \in 1..k : i \in Slots /\ got[i] \in Ready /\ events'[i] = Item(got[i])
  BY <1>2 DEF Slots
<1>6. ASSUME NEW x \in Ready, x # StopFd
      PROVE  /\ x \in Fds
             /\ Item(x).ptr = infos[x]
             /\ infos[x] \in Nodes
             /\ Item(x).flags \subseteq handlers[infos[x]]
  <2>1. x \in Fds /\ InKernel(x)
    BY <1>6 DEF Ready, Item, Signaled, InKernel
  <2> QED BY <1>6, <2>1 DEF KernelAgrees, Item, Signaled
<1>7. Item(StopFd).ptr = None
  BY DEF Item
<1>8. ASSUME NEW i \in 1..k, events'[i].ptr # None
      PROVE  events'[i].flags \subseteq handlers'[events'[i].ptr]
  BY <1>3, <1>5, <1>6, <1>7, <1>8
<1>9. ASSUME NEW i \in 1..k, NEW j \in 1..k, events'[i].ptr = events'[j].ptr
      PROVE  i = j
  <2>1. got[i] = got[j]
    <3>1. CASE got[i] = StopFd
      BY <1>5, <1>6, <1>7, <1>9, <3>1
    <3>2. CASE got[j] = StopFd
      BY <1>5, <1>6, <1>7, <1>9, <3>2
    <3>3. CASE got[i] # StopFd /\ got[j] # StopFd
      BY <1>5, <1>6, <1>9, <3>3 DEF NodesOwned
    <3> QED BY <3>1, <3>2, <3>3
  <2> QED BY <1>2, <2>1
<1> QED BY <1>4, <1>8, <1>9 DEF BatchLive

(* eraseEvent turns off every pending event of what it removes: the one      *)
(* entry that names the element is found before the break.                   *)
LEMMA EraseKeepsBatchLive ==
  ASSUME RegistryInv, BatchLive, ~raced',
         NEW t \in Threads, NEW fd \in Fds, NEW d \in Dir, Erase(t, fd, d)
  PROVE  BatchLive'
<1> USE SizesAssumption, IdentitiesAssumption DEF RegistryInv, TypeInv, TypeOK
<1> DEFINE node == infos[fd]
<1>1. node \in Nodes
  BY DEF Erase
<1>2. BatchSize' = BatchSize
  BY DEF Erase, control, BatchSize
<1>3. CASE pc \in {"idle", "wait"}
  <2>1. BatchSize = 0
    BY <1>3 DEF BatchSize
  <2> QED BY <1>2, <2>1 DEF BatchLive
<1>4. CASE pc \in {"locking", "callback"}
  <2>1. BatchSize = eventCount
    BY <1>4 DEF BatchSize
  <2>2. PICK removed \in SUBSET Dir :
          /\ events' = Mask(events, eventCount, node, removed)
          /\ handlers' = [handlers EXCEPT ![node] = @ \ removed]
    <3>1. CASE EraseOne(fd, d, node)
      BY <3>1 DEF EraseOne
    <3>2. CASE EraseLast(fd, d, node)
      <4>1. handlers[node] \ Dir = {}
        BY <1>1
      <4> QED BY <3>2, <4>1 DEF EraseLast
    <3> QED BY <3>1, <3>2 DEF Erase
  <2>3. \A i \in 1..eventCount : i \in Slots /\ i \in 1..BatchSize
    BY <2>1 DEF Slots
  <2>4. \A i \in 1..eventCount : events'[i].ptr = events[i].ptr /\ events'[i].flags \subseteq events[i].flags
    BY <2>2, <2>3, MaskShape
  <2>5. ASSUME NEW i \in 1..eventCount, events'[i].ptr # None
        PROVE  events'[i].flags \subseteq handlers'[events'[i].ptr]
    <3>1. events[i].ptr \in Nodes
      BY <2>3, <2>4, <2>5 DEF EventRecord
    <3>2. events[i].flags \subseteq handlers[events[i].ptr]
      BY <2>3, <2>4, <2>5 DEF BatchLive
    <3>3. CASE events[i].ptr # node
      BY <2>2, <2>4, <3>1, <3>2, <3>3
    <3>4. CASE events[i].ptr = node
      <4>1. \A j \in 1..(i - 1) : events[j].ptr # node
        BY <2>1, <3>4 DEF BatchLive
      <4>2. events'[i].flags = events[i].flags \ removed
        BY <2>2, <2>3, <3>4, <4>1 DEF Mask
      <4> QED BY <1>1, <2>2, <2>4, <3>2, <3>4, <4>2
    <3> QED BY <3>3, <3>4
  <2>6. \A i, j \in 1..eventCount : events'[i].ptr = events'[j].ptr => i = j
    BY <2>1, <2>4 DEF BatchLive
  <2> QED BY <1>2, <2>1, <2>5, <2>6 DEF BatchLive
<1>5. pc \notin {"copied", "dispatch"}
  BY DEF Erase, MayLock, Locked
<1> QED BY <1>3, <1>4, <1>5

(* Every step keeps the batch live and calls only what exists. *)
LEMMA LiveStep ==
  ASSUME LiveInv, [Next]_vars
  PROVE  LiveInv'
<1> USE SizesAssumption, IdentitiesAssumption
<1>0. RegistryInv' /\ RegistryInv /\ TypeOK
  BY RegistryStep DEF LiveInv, RegistryInv, TypeInv
<1>s. SUFFICES ASSUME ~raced'
               PROVE  BatchLive' /\ NoStaleCallback'
  BY <1>0 DEF LiveInv
<1>7. CASE EpollWait
  <2>1. NoStaleCallback'
    BY <1>7 DEF EpollWait, NoStaleCallback
  <2> QED BY <1>0, <1>7, <2>1, EpollWaitLive
<1>n. SUFFICES ASSUME ~EpollWait
               PROVE  BatchLive' /\ NoStaleCallback'
  BY <1>7
<1>r. BatchLive /\ NoStaleCallback
  <2>1. ~raced
    BY <1>s, <1>n
    DEF Next, LoopStep, ThreadStep, KernelStep, AddEvent, AddOutEvent, EraseEvent, EraseOutEvent,
        Add, Erase, DrainMore, DrainDone, DrainThrow, Arrive, CloseFd, OpenFd, Stop,
        ExecuteStart, EpollInterrupted, StoreCount, Lock, Dispatch, Skip, StopSeen, RoundEnd,
        CallbackRead, CallbackReturn, CallbackThrow, batch, vars
  <2> QED BY <2>1 DEF LiveInv
<1>1. ASSUME NEW t \in Threads, NEW fd \in Fds, NEW d \in Dir, Add(t, fd, d)
      PROVE  BatchLive' /\ NoStaleCallback'
  <2>1. \A m \in Nodes : handlers[m] \subseteq handlers'[m]
    BY <1>0, <1>1 DEF Add, TypeOK
  <2>2. events' = events /\ BatchSize' = BatchSize
    BY <1>1 DEF Add, batch, control, BatchSize
  <2>3. BatchSize \in Int
    BY <1>0 DEF BatchSize, TypeOK
  <2>4. NoStaleCallback'
    BY <1>r, <1>1 DEF Add, control, NoStaleCallback
  <2> QED BY <1>0, <2>1, <2>2, <2>3, <2>4, BatchKept, <1>r
<1>2. ASSUME NEW t \in Threads, NEW fd \in Fds, NEW d \in Dir, Erase(t, fd, d)
      PROVE  BatchLive' /\ NoStaleCallback'
  <2>1. NoStaleCallback'
    BY <1>r, <1>2 DEF Erase, control, NoStaleCallback
  <2> QED BY <1>0, <1>r, <1>s, <1>2, <2>1, EraseKeepsBatchLive
<1>3. ASSUME events' = events, handlers' = handlers, BatchSize' <= BatchSize, BatchSize' \in Int
      PROVE  BatchLive'
  BY <1>0, <1>3, BatchKept, <1>r
<1>4. BatchSize \in -1..MAXEVENTS
  BY <1>0 DEF BatchSize, TypeOK
<1>5. CASE \E t \in Threads : DrainMore(t) \/ DrainDone(t) \/ DrainThrow(t)
  <2>1. events' = events /\ handlers' = handlers /\ UNCHANGED <<pc, cur>> /\ BatchSize' = BatchSize
    BY <1>5 DEF DrainMore, DrainDone, DrainThrow, registry, batch, control, BatchSize
  <2> QED BY <1>0, <1>3, <1>4, <2>1, <1>r DEF NoStaleCallback
<1>6. CASE KernelStep \/ Stop \/ UNCHANGED vars
  <2>1. events' = events /\ handlers' = handlers /\ UNCHANGED <<pc, cur>> /\ BatchSize' = BatchSize
    BY <1>6 DEF KernelStep, Arrive, CloseFd, OpenFd, Stop, vars, registry, batch, control, BatchSize
  <2> QED BY <1>0, <1>3, <1>4, <2>1, <1>r DEF NoStaleCallback
<1>8. CASE Dispatch
  <2>1. events' = events /\ handlers' = handlers /\ BatchSize' = BatchSize
    BY <1>8 DEF Dispatch, registry, batch, BatchSize
  <2>2. n \in 1..BatchSize /\ n \in Slots
    BY <1>0, <1>8 DEF Dispatch, BatchSize, TypeOK, Slots
  <2>3. events[n].ptr \in Nodes /\ dir \in handlers[events[n].ptr]
    BY <1>0, <1>8, <2>2, <1>r DEF Dispatch, BatchLive, TypeOK, EventRecord
  <2>4. \E fd \in Fds : infos[fd] = events[n].ptr
    BY <1>0, <2>3 DEF RegistryInv, NodesOwned
  <2>5. cur' \in Fds
    BY <1>8, <2>3, <2>4, CalleeType DEF Dispatch
  <2> QED BY <1>0, <1>3, <1>4, <2>1, <2>5 DEF NoStaleCallback
<1>9. CASE CallbackReturn
  <2>1. BatchSize' = BatchSize /\ BatchSize = eventCount /\ handlers' = handlers
    BY <1>9 DEF CallbackReturn, registry, BatchSize
  <2>2. \A i \in Slots : events'[i].ptr = events[i].ptr /\ events'[i].flags \subseteq events[i].flags
    BY <1>0, <1>9 DEF CallbackReturn, TypeOK, EventRecord
  <2>3. \A i \in 1..BatchSize : i \in Slots
    BY <1>4 DEF Slots
  <2>4. BatchLive'
    BY <1>r, <2>1, <2>2, <2>3 DEF BatchLive
  <2> QED BY <1>0, <1>9, <2>4 DEF CallbackReturn, NoStaleCallback
<1>10. CASE CallbackRead
  <2>1. events' = events /\ handlers' = handlers /\ UNCHANGED <<pc, cur>> /\ BatchSize' = BatchSize
    BY <1>10 DEF CallbackRead, registry, batch, BatchSize
  <2> QED BY <1>0, <1>3, <1>4, <2>1, <1>r DEF NoStaleCallback
<1>11. CASE \/ ExecuteStart \/ EpollInterrupted \/ StoreCount \/ Lock
            \/ Skip \/ StopSeen \/ RoundEnd \/ CallbackThrow
  <2>1. events' = events /\ handlers' = handlers /\ NoStaleCallback'
    BY <1>11
    DEF ExecuteStart, EpollInterrupted, StoreCount, Lock, Skip, StopSeen, RoundEnd,
        CallbackThrow, registry, batch, NoStaleCallback
  <2>2. BatchSize' \in {-1, 0, BatchSize}
    BY <1>11
    DEF ExecuteStart, EpollInterrupted, StoreCount, Lock, Skip, StopSeen, RoundEnd,
        CallbackThrow, batch, BatchSize
  <2>3. BatchSize' < 1 => BatchLive'
    BY <1>4, <2>2 DEF BatchLive
  <2>4. BatchSize' = BatchSize => BatchLive'
    BY <1>3, <1>4, <2>1
  <2> QED BY <2>1, <2>2, <2>3, <2>4
<1> QED
  BY <1>1, <1>2, <1>n, <1>5, <1>6, <1>8, <1>9, <1>10, <1>11
  DEF Next, LoopStep, ThreadStep, AddEvent, AddOutEvent, EraseEvent, EraseOutEvent, Dir

(* However threads and callbacks erase, add again and recycle elements of    *)
(* m_eventInfos, also in the middle of a batch, the loop never calls through *)
(* a pointer whose callback was erased, unless another thread erased in the  *)
(* window inside eventloop.cpp:243.                                          *)
THEOREM ErasedIsNeverCalled == Spec => []StaleCallOnlyFromWindow
<1>1. Init => LiveInv
  <2> SUFFICES ASSUME Init PROVE LiveInv
    OBVIOUS
  <2>1. RegistryInv
    BY RegistryInit
  <2>2. BatchSize = 0
    BY DEF Init, BatchSize
  <2> QED BY <2>1, <2>2 DEF Init, LiveInv, BatchLive, NoStaleCallback
<1>2. LiveInv /\ [Next]_vars => LiveInv'
  BY LiveStep
<1>3. LiveInv => StaleCallOnlyFromWindow
  BY DEF LiveInv, StaleCallOnlyFromWindow
<1> QED BY <1>1, <1>2, <1>3, PTL DEF Spec
-----------------------------------------------------------------------------
(* Why no wakeup is lost.  Work that a watched descriptor has: *)
Demand(fd, d) == d \in epoll[fd].mask /\ pend[fd][d] > 0

(* it is seen without the present batch, *)
Elsewhere(fd, d) == fd \in rdl \/ \E t \in Threads : drain[t] = [fd |-> fd, dir |-> d]

(* or by an entry of it that is still to come, in this round or the next. *)
Passed(i, d) == i < n \/ (i = n /\ dir = "out" /\ d = "in")

InBatch(fd, d) ==
  \E i \in 1..BatchSize :
    events[i].ptr = epoll[fd].ptr /\ d \in events[i].flags /\ (Passed(i, d) => again)

(* The entry whose callback is called is for the owner of its element, which *)
(* has not said that nothing is left.                                        *)
InCall(fd, d) ==
  pc = "callback" /\ d = dir /\ events[n].ptr = epoll[fd].ptr => cur = fd /\ result # "done"

Started == execs <= 1 /\ (execs = 1 => pc # "idle")

Seen(fd, d) == Demand(fd, d) => Elsewhere(fd, d) \/ (InBatch(fd, d) /\ InCall(fd, d))

Attended == Started => \A fd \in Fds \ Throwers, d \in Dir : Seen(fd, d)

(* A batch begins with its first entry, and callbacks return one by one. *)
Orderly ==
  /\ pc \notin {"dispatch", "callback"} => n = 1 /\ dir = "in"
  /\ pc # "callback" => result = "none"
  /\ execs = 0 => pc = "idle"

WakeupInv == RegistryInv /\ Orderly /\ Attended

(* The owner of a watched descriptor's element is the descriptor. *)
LEMMA Watched ==
  ASSUME RegistryInv, NEW fd \in Fds, NEW d \in Dir, Demand(fd, d)
  PROVE  /\ epoll[fd].ptr = infos[fd] /\ infos[fd] \in Nodes
         /\ d \in handlers[infos[fd]]
         /\ \A other \in Fds \ {fd} : infos[other] # infos[fd]
         /\ fd \in open /\ InKernel(fd)
<1>1. InKernel(fd)
  BY DEF Demand, InKernel
<1> QED BY <1>1 DEF Demand, RegistryInv, KernelAgrees, NodesOwned, TypeInv, TypeOK

(* A step that takes nothing away from a descriptor is safe for it. *)
LEMMA SeenStays ==
  ASSUME NEW fd, NEW d, Seen(fd, d), Demand(fd, d)' => Demand(fd, d), epoll'[fd] = epoll[fd],
         fd \in rdl => fd \in rdl',
         \A t \in Threads : drain[t] = [fd |-> fd, dir |-> d] => drain'[t] = drain[t],
         UNCHANGED <<events, eventCount, ret, control>>
  PROVE  Seen(fd, d)'
<1>1. UNCHANGED <<pc, n, dir, again, cur, result>>
  BY DEF control
<1>2. Elsewhere(fd, d) => Elsewhere(fd, d)'
  BY DEF Elsewhere
<1>3. BatchSize' = BatchSize
  BY <1>1 DEF BatchSize
<1>4. InBatch(fd, d) => InBatch(fd, d)'
  BY <1>1, <1>3 DEF InBatch, Passed
<1>5. InCall(fd, d) => InCall(fd, d)'
  BY <1>1 DEF InCall
<1> QED BY <1>2, <1>4, <1>5 DEF Seen

(* epoll_ctl polls the descriptor, so that its work goes to the ready list. *)
LEMMA SeenAfterCtl ==
  ASSUME TypeOK, NEW fd \in Fds, NEW d \in Dir, NEW mask, NEW ptr, EpollSet(fd, mask, ptr), pend' = pend
  PROVE  Seen(fd, d)'
<1> SUFFICES ASSUME Demand(fd, d)' PROVE fd \in rdl'
  BY DEF Seen, Elsewhere
<1>1. epoll'[fd].mask = mask
  BY DEF EpollSet, TypeOK
<1>2. d \in Signaled(fd, mask)
  BY <1>1 DEF Demand, Signaled
<1> QED BY <1>2 DEF EpollSet

LEMMA AddSeen ==
  ASSUME RegistryInv, NEW t \in Threads, NEW f \in Fds, NEW e \in Dir, Add(t, f, e),
         NEW fd \in Fds, NEW d \in Dir, Seen(fd, d)
  PROVE  Seen(fd, d)'
<1>1. PICK node \in Nodes :
        IF CtlSucceeds(f, CtlMode(f))
          THEN /\ EpollSet(f, handlers[node] \cup {e}, node)
               /\ drain' = [drain EXCEPT ![t] = [fd |-> f, dir |-> e]]
          ELSE UNCHANGED <<epoll, rdl, drain>>
  BY DEF Add
<1>2. drain[t] = None /\ UNCHANGED <<events, eventCount, ret, control, pend>>
  BY DEF Add, batch
<1>3. TypeOK
  BY DEF RegistryInv, TypeInv
<1>4. CASE fd = f /\ CtlSucceeds(f, CtlMode(f))
  BY <1>1, <1>2, <1>3, <1>4, SeenAfterCtl
<1>5. CASE fd # f \/ ~CtlSucceeds(f, CtlMode(f))
  <2>1. epoll'[fd] = epoll[fd] /\ (fd \in rdl => fd \in rdl')
    BY <1>1, <1>3, <1>5 DEF EpollSet, TypeOK
  <2>2. ASSUME NEW u \in Threads, drain[u] = [fd |-> fd, dir |-> d]
        PROVE  drain'[u] = drain[u]
    <3>1. CASE drain' = [drain EXCEPT ![t] = [fd |-> f, dir |-> e]] /\ fd # f
      <4>1. drain'[u] = drain[u] \/ u = t
        BY <1>3, <3>1 DEF TypeOK
      <4>2. CASE u = t
        <5>1. None = [fd |-> fd, dir |-> d]
          BY <1>2, <2>2, <4>2
        <5> QED BY <5>1, IdentitiesAssumption
      <4> QED BY <4>1, <4>2
    <3>2. CASE drain' = drain
      BY <3>2
    <3> QED BY <1>1, <1>5, <3>1, <3>2
  <2>3. Demand(fd, d)' => Demand(fd, d)
    BY <1>2, <2>1 DEF Demand
  <2> QED BY <1>2, <2>1, <2>2, <2>3, SeenStays
<1> QED BY <1>4, <1>5

LEMMA EraseSeen ==
  ASSUME RegistryInv, NEW t \in Threads, NEW f \in Fds, NEW e \in Dir, Erase(t, f, e),
         NEW fd \in Fds, NEW d \in Dir, Seen(fd, d)
  PROVE  Seen(fd, d)'
<1> DEFINE node == infos[f]
<1>1. TypeOK /\ node \in Nodes /\ UNCHANGED <<eventCount, ret, control, drain, pend>>
  BY DEF RegistryInv, TypeInv, TypeOK, Erase
<1>2. PICK removed \in SUBSET Dir : events' = Mask(events, eventCount, node, removed)
  BY DEF Erase, EraseOne, EraseLast
<1>3. CASE fd = f
  <2>1. CASE InKernel(f)
    <3>1. CtlSucceeds(f, "MOD") /\ CtlSucceeds(f, "DEL")
      BY <2>1 DEF RegistryInv, KernelAgrees, CtlSucceeds
    <3>2. CASE EraseOne(f, e, node)
      BY <1>1, <1>3, <3>1, <3>2, SeenAfterCtl DEF EraseOne
    <3>3. CASE EraseLast(f, e, node)
      <4>1. epoll'[f].mask = {}
        BY <1>1, <3>1, <3>3 DEF EraseLast, EpollDelete, Unregistered, TypeOK
      <4> QED BY <1>3, <4>1 DEF Seen, Demand
    <3> QED BY <3>2, <3>3 DEF Erase
  <2>2. CASE ~InKernel(f)
    <3>1. ~CtlSucceeds(f, "MOD") /\ ~CtlSucceeds(f, "DEL")
      BY <2>2 DEF CtlSucceeds
    <3>2. epoll'[f].mask = {}
      BY <2>2, <3>1 DEF Erase, EraseOne, EraseLast, InKernel
    <3> QED BY <1>3, <3>2 DEF Seen, Demand
  <2> QED BY <2>1, <2>2
<1>4. CASE fd # f
  <2> SUFFICES ASSUME Demand(fd, d)'
               PROVE  Elsewhere(fd, d)' \/ (InBatch(fd, d)' /\ InCall(fd, d)')
    BY DEF Seen
  <2>1. epoll'[fd] = epoll[fd] /\ (fd \in rdl => fd \in rdl')
    BY <1>1, <1>4 DEF Erase, EraseOne, EraseLast, EpollSet, EpollDelete, TypeOK
  <2>2. Demand(fd, d)
    BY <1>1, <2>1 DEF Demand
  <2>3. epoll[fd].ptr # node
    BY <1>1, <1>4, <2>2, Watched
  <2>4. Elsewhere(fd, d) => Elsewhere(fd, d)'
    BY <1>1, <2>1 DEF Elsewhere
  <2>5. BatchSize' = BatchSize /\ UNCHANGED <<pc, n, dir, again, cur, result>> /\ BatchSize \in -1..MAXEVENTS
    BY <1>1, SizesAssumption DEF control, BatchSize, TypeOK
  <2>6. \A i \in Slots : events'[i].ptr = events[i].ptr
    BY <1>1, <1>2, MaskShape, SizesAssumption DEF TypeOK
  <2>7. \A i \in Slots : events[i].ptr # node => events'[i] = events[i]
    BY <1>2 DEF Mask
  <2>8. InBatch(fd, d) => InBatch(fd, d)'
    <3> SUFFICES ASSUME InBatch(fd, d) PROVE InBatch(fd, d)'
      OBVIOUS
    <3>1. PICK i \in 1..BatchSize :
            events[i].ptr = epoll[fd].ptr /\ d \in events[i].flags /\ (Passed(i, d) => again)
      BY DEF InBatch
    <3>2. i \in Slots /\ events'[i] = events[i]
      BY <2>3, <2>5, <2>7, <3>1, SizesAssumption DEF Slots
    <3>3. Passed(i, d)' = Passed(i, d)
      BY <2>5 DEF Passed
    <3> QED BY <2>1, <2>5, <3>1, <3>2, <3>3 DEF InBatch
  <2>9. InCall(fd, d) => InCall(fd, d)'
    <3>1. pc = "callback" => n \in Slots
      BY SizesAssumption DEF RegistryInv, TypeInv, TypeOK, CallbackInBatch, Slots
    <3> QED BY <2>1, <2>5, <2>6, <3>1 DEF InCall
  <2> QED BY <2>2, <2>4, <2>8, <2>9 DEF Seen
<1> QED BY <1>3, <1>4

(* The thread that registered drains until nothing is left. *)
LEMMA DrainSeen ==
  ASSUME RegistryInv, NEW t \in Threads, DrainMore(t) \/ DrainDone(t) \/ DrainThrow(t),
         NEW fd \in Fds \ Throwers, NEW d \in Dir, Seen(fd, d)
  PROVE  Seen(fd, d)'
<1>1. TypeOK /\ UNCHANGED <<epoll, rdl, events, eventCount, ret, control>>
  BY DEF RegistryInv, TypeInv, DrainMore, DrainDone, DrainThrow, registry, batch, world
<1>2. drain[t] \in [fd : Fds, dir : Dir]
  BY <1>1 DEF DrainMore, DrainDone, DrainThrow, TypeOK
<1>3. Demand(fd, d)' => Demand(fd, d)
  <2>1. pend'[fd][d] > 0 => pend[fd][d] > 0
    <3>1. CASE DrainMore(t)
      BY <1>1, <1>2, <3>1 DEF DrainMore, TypeOK
    <3>2. CASE DrainDone(t) \/ DrainThrow(t)
      BY <3>2 DEF DrainDone, DrainThrow, world
    <3> QED BY <3>1, <3>2
  <2> QED BY <1>1, <2>1 DEF Demand
<1>4. CASE drain[t] = [fd |-> fd, dir |-> d] /\ drain' # drain
  <2>1. DrainDone(t)
    BY <1>4 DEF DrainMore, DrainThrow
  <2>2. pend'[fd][d] = 0
    BY <1>4, <2>1 DEF DrainDone, world
  <2> QED BY <2>2 DEF Seen, Demand
<1>5. CASE drain[t] # [fd |-> fd, dir |-> d] \/ drain' = drain
  <2>1. \A u \in Threads : drain[u] = [fd |-> fd, dir |-> d] => drain'[u] = drain[u]
    BY <1>1, <1>5 DEF DrainMore, DrainDone, DrainThrow, TypeOK
  <2> QED BY <1>1, <1>3, <2>1, SeenStays
<1> QED BY <1>4, <1>5

(* New work is an edge; a closed descriptor is not watched any more. *)
LEMMA KernelSeen ==
  ASSUME RegistryInv, KernelStep \/ Stop, NEW fd \in Fds, NEW d \in Dir, Seen(fd, d)
  PROVE  Seen(fd, d)'
<1>1. TypeOK /\ UNCHANGED <<events, eventCount, ret, control, drain>>
  BY DEF RegistryInv, TypeInv, KernelStep, Arrive, CloseFd, OpenFd, Stop, batch
<1>2. ASSUME NEW f \in Fds, NEW e \in Dir, Arrive(f, e)
      PROVE  Seen(fd, d)'
  <2>1. /\ epoll' = epoll
        /\ rdl' = IF e \in epoll[f].mask THEN rdl \cup {f} ELSE rdl
        /\ pend' = [pend EXCEPT ![f][e] = @ + 1]
    BY <1>2 DEF Arrive, registry
  <2>2. CASE fd = f /\ d = e
    BY <2>1, <2>2 DEF Seen, Demand, Elsewhere
  <2>3. CASE fd # f \/ d # e
    <3>1. pend'[fd][d] = pend[fd][d]
      BY <1>1, <2>1, <2>3 DEF TypeOK
    <3>2. Demand(fd, d)' => Demand(fd, d)
      BY <2>1, <3>1 DEF Demand
    <3> QED BY <1>1, <2>1, <3>2, SeenStays
  <2> QED BY <2>2, <2>3
<1>3. ASSUME NEW f \in Fds, CloseFd(f)
      PROVE  Seen(fd, d)'
  <2>1. CASE fd = f
    <3>1. epoll'[fd].mask = {}
      BY <1>1, <1>3, <2>1 DEF CloseFd, EpollDelete, Unregistered, TypeOK
    <3> QED BY <3>1 DEF Seen, Demand
  <2>2. CASE fd # f
    <3>1. epoll'[fd] = epoll[fd] /\ pend'[fd] = pend[fd] /\ (fd \in rdl => fd \in rdl')
      BY <1>1, <1>3, <2>2 DEF CloseFd, EpollDelete, TypeOK
    <3>2. Demand(fd, d)' => Demand(fd, d)
      BY <3>1 DEF Demand
    <3> QED BY <1>1, <3>1, <3>2, SeenStays
  <2> QED BY <2>1, <2>2
<1>4. CASE Stop \/ \E f \in Fds : OpenFd(f)
  <2>1. epoll' = epoll /\ pend' = pend /\ (fd \in rdl => fd \in rdl')
    BY <1>4 DEF Stop, OpenFd, registry
  <2>2. Demand(fd, d)' => Demand(fd, d)
    BY <2>1 DEF Demand
  <2> QED BY <1>1, <2>1, <2>2, SeenStays
<1> QED BY <1>2, <1>3, <1>4 DEF KernelStep

(* epoll_wait takes off the ready list what it reports, or what has nothing. *)
LEMMA EpollWaitSeen ==
  ASSUME RegistryInv, Orderly, EpollWait, NEW fd \in Fds, NEW d \in Dir, Seen(fd, d)
  PROVE  Seen(fd, d)'
<1>1. /\ TypeOK /\ pc = "wait" /\ pc' = "copied"
      /\ UNCHANGED <<epoll, pend, drain, n, dir, again>>
      /\ n = 1 /\ dir = "in"
  BY DEF RegistryInv, TypeInv, EpollWait, registry, Orderly
<1> SUFFICES ASSUME Demand(fd, d)'
             PROVE  Elsewhere(fd, d)' \/ InBatch(fd, d)'
  BY <1>1 DEF Seen, InCall
<1>2. Demand(fd, d)
  BY <1>1 DEF Demand
<1>3. BatchSize = 0 /\ BatchSize' = ret'
  BY <1>1 DEF BatchSize
<1>4. Elsewhere(fd, d)
  BY <1>2, <1>3 DEF Seen, InBatch
<1>5. CASE fd \notin rdl
  BY <1>1, <1>4, <1>5 DEF Elsewhere
<1>6. CASE fd \in rdl
  <2>1. Item(fd).ptr = epoll[fd].ptr /\ d \in Item(fd).flags
    BY <1>2, IdentitiesAssumption DEF Item, Signaled, Demand
  <2>2. fd \in Ready
    BY <1>6, <2>1 DEF Ready
  <2>3. PICK k \in Slots : \E got \in [1..k -> Ready] :
          /\ events' = [i \in Slots |-> IF i <= k THEN Item(got[i]) ELSE events[i]]
          /\ rdl' = {x \in Ready : \A i \in 1..k : got[i] # x}
          /\ ret' = k
    BY DEF EpollWait
  <2>4. PICK got \in [1..k -> Ready] :
          /\ events' = [i \in Slots |-> IF i <= k THEN Item(got[i]) ELSE events[i]]
          /\ rdl' = {x \in Ready : \A i \in 1..k : got[i] # x}
          /\ ret' = k
    BY <2>3
  <2>5. CASE \A i \in 1..k : got[i] # fd
    BY <2>2, <2>4, <2>5 DEF Elsewhere
  <2>6. ASSUME NEW i \in 1..k, got[i] = fd
        PROVE  InBatch(fd, d)'
    <3>1. i \in Slots /\ i \in 1..BatchSize'
      BY <1>3, <2>4, SizesAssumption DEF Slots
    <3>2. events'[i] = Item(fd)
      BY <2>4, <2>6, <3>1
    <3>3. ~Passed(i, d)'
      BY <1>1 DEF Passed
    <3> QED BY <1>1, <2>1, <3>1, <3>2, <3>3 DEF InBatch
  <2> QED BY <2>5, <2>6
<1> QED BY <1>5, <1>6

(* What a step of the loop passes is the entry and direction it is at. *)
LEMMA AdvancePasses ==
  ASSUME TypeOK, Advance, NEW i \in Nat, NEW d \in Dir, Passed(i, d)'
  PROVE  Passed(i, d) \/ (i = n /\ d = dir)
<1>1. n \in Nat /\ dir \in {"in", "out"} /\ d \in {"in", "out"}
  BY SizesAssumption DEF TypeOK, Dir
<1>2. CASE dir = "in"
  BY <1>1, <1>2 DEF Advance, Passed
<1>3. CASE dir = "out"
  BY <1>1, <1>3 DEF Advance, Passed
<1> QED BY <1>1, <1>2, <1>3

(* The loop goes past an entry. *)
LEMMA AdvanceSeen ==
  ASSUME RegistryInv, Skip \/ CallbackReturn \/ CallbackThrow,
         NEW fd \in Fds \ Throwers, NEW d \in Dir, Seen(fd, d)
  PROVE  Seen(fd, d)'
<1>1. /\ TypeOK /\ Advance /\ pc' = "dispatch" /\ pc \in {"dispatch", "callback"}
      /\ UNCHANGED <<epoll, pend, rdl, drain, eventCount>>
      /\ again => again'
  <2>1. CASE Skip
    BY <2>1 DEF RegistryInv, TypeInv, Skip, registry, world, batch
  <2>2. CASE CallbackReturn
    <3>1. again => again'
      BY <2>2, Zenon DEF CallbackReturn
    <3> QED BY <2>2, <3>1 DEF RegistryInv, TypeInv, CallbackReturn, registry, world
  <2>3. CASE CallbackThrow
    BY <2>3 DEF RegistryInv, TypeInv, CallbackThrow, registry, world, batch
  <2> QED BY <2>1, <2>2, <2>3
<1> SUFFICES ASSUME Demand(fd, d)'
             PROVE  Elsewhere(fd, d)' \/ InBatch(fd, d)'
  BY <1>1 DEF Seen, InCall
<1>2. Demand(fd, d)
  BY <1>1 DEF Demand
<1>3. Elsewhere(fd, d) => Elsewhere(fd, d)'
  BY <1>1 DEF Elsewhere
<1>4. ASSUME InBatch(fd, d), InCall(fd, d)
      PROVE  InBatch(fd, d)'
  <2>1. PICK i \in 1..BatchSize :
          events[i].ptr = epoll[fd].ptr /\ d \in events[i].flags /\ (Passed(i, d) => again)
    BY <1>4 DEF InBatch
  <2>2. BatchSize = eventCount /\ BatchSize' = BatchSize /\ eventCount \in -1..MAXEVENTS
    BY <1>1 DEF BatchSize, TypeOK
  <2>3. i \in Slots /\ i \in Nat
    BY <2>2, SizesAssumption DEF Slots
  <2>4. CASE i = n /\ d = dir
    <3>1. CallbackReturn
      <4>1. ~Skip
        BY <2>1, <2>4 DEF Skip
      <4>2. ~CallbackThrow
        BY <1>4, <2>1, <2>4, IdentitiesAssumption DEF CallbackThrow, InCall
      <4> QED BY <4>1, <4>2
    <3>2. result # "none" /\ result # "done" /\ result \in {"none", "more", "done"}
      BY <1>1, <1>4, <2>1, <2>4, <3>1 DEF CallbackReturn, InCall, TypeOK
    <3>3. events' = events /\ again'
      BY <3>1, <3>2 DEF CallbackReturn
    <3> QED BY <1>1, <2>1, <2>2, <3>3 DEF InBatch
  <2>5. CASE ~(i = n /\ d = dir)
    <3>1. events'[i].ptr = events[i].ptr /\ d \in events'[i].flags
      <4>1. CASE events' = events
        BY <2>1, <4>1
      <4>2. CASE /\ events' = [events EXCEPT ![n] = [ptr |-> @.ptr, flags |-> @.flags \ {dir}]]
        <5>1. CASE i = n
          BY <1>1, <2>1, <2>3, <2>5, <4>2, <5>1 DEF TypeOK
        <5>2. CASE i # n
          BY <1>1, <2>1, <2>3, <4>2, <5>2 DEF TypeOK
        <5> QED BY <5>1, <5>2
      <4> QED BY <4>1, <4>2 DEF Skip, CallbackReturn, CallbackThrow, batch
    <3>2. Passed(i, d)' => Passed(i, d)
      BY <1>1, <2>3, <2>5, AdvancePasses
    <3>3. Passed(i, d)' => again'
      BY <1>1, <2>1, <3>2
    <3> QED BY <1>1, <2>1, <2>2, <3>1, <3>3 DEF InBatch
  <2> QED BY <2>4, <2>5
<1> QED BY <1>2, <1>3, <1>4 DEF Seen

(* The callback that is called is the one of the descriptor. *)
LEMMA DispatchSeen ==
  ASSUME RegistryInv, Orderly, Dispatch, NEW fd \in Fds, NEW d \in Dir, Seen(fd, d)
  PROVE  Seen(fd, d)'
<1>1. /\ pc = "dispatch" /\ pc' = "callback" /\ cur' = Callee(events[n].ptr, dir)
      /\ UNCHANGED <<epoll, pend, rdl, drain, events, eventCount, n, dir, again, result>>
      /\ result = "none"
  BY DEF Dispatch, registry, world, batch, Orderly
<1> SUFFICES ASSUME Demand(fd, d)'
             PROVE  Elsewhere(fd, d)' \/ (InBatch(fd, d)' /\ InCall(fd, d)')
  BY DEF Seen
<1>2. Demand(fd, d)
  BY <1>1 DEF Demand
<1>3. Elsewhere(fd, d) => Elsewhere(fd, d)'
  BY <1>1 DEF Elsewhere
<1>4. InBatch(fd, d) => InBatch(fd, d)'
  <2>1. BatchSize' = BatchSize
    BY <1>1 DEF BatchSize
  <2> QED BY <1>1, <2>1 DEF InBatch, Passed
<1>5. InCall(fd, d)'
  <2> SUFFICES ASSUME d = dir, events[n].ptr = epoll[fd].ptr
               PROVE  cur' = fd
    BY <1>1 DEF InCall
  <2>1. /\ infos[fd] = events[n].ptr /\ dir \in handlers[events[n].ptr]
        /\ \A other \in Fds : infos[other] = events[n].ptr => other = fd
    BY <1>2, Watched
  <2> QED BY <1>1, <2>1 DEF Callee
<1> QED BY <1>2, <1>3, <1>4, <1>5 DEF Seen

(* It says that nothing is left only if that is so. *)
LEMMA ReadSeen ==
  ASSUME RegistryInv, CallbackRead, NEW fd \in Fds, NEW d \in Dir, Seen(fd, d)
  PROVE  Seen(fd, d)'
<1>1. /\ TypeOK /\ pc = "callback" /\ cur \in Fds
      /\ UNCHANGED <<epoll, rdl, drain, events, eventCount, pc, n, dir, again, cur>>
  BY DEF RegistryInv, TypeInv, TypeOK, CallbackRead, registry, batch
<1> SUFFICES ASSUME Demand(fd, d)'
             PROVE  Elsewhere(fd, d)' \/ (InBatch(fd, d)' /\ InCall(fd, d)')
  BY DEF Seen
<1>2. /\ pend'[fd][d] > 0 => pend[fd][d] > 0
      /\ cur = fd /\ dir = d /\ pend'[fd][d] > 0 => result' = "more"
  <2>1. CASE /\ pend[cur][dir] > 0
             /\ pend' = [pend EXCEPT ![cur][dir] = @ - 1]
             /\ result' = "more"
    BY <1>1, <2>1 DEF TypeOK
  <2>2. CASE /\ pend' = [pend EXCEPT ![cur][dir] = 0]
             /\ result' = "done"
    BY <1>1, <2>2 DEF TypeOK
  <2> QED BY <2>1, <2>2 DEF CallbackRead
<1>3. Demand(fd, d)
  BY <1>1, <1>2 DEF Demand
<1>4. Elsewhere(fd, d) => Elsewhere(fd, d)'
  BY <1>1 DEF Elsewhere
<1>5. InBatch(fd, d) => InBatch(fd, d)'
  <2>1. BatchSize' = BatchSize
    BY <1>1 DEF BatchSize
  <2> QED BY <1>1, <2>1 DEF InBatch, Passed
<1>6. InCall(fd, d) => InCall(fd, d)'
  BY <1>1, <1>2 DEF InCall, Demand
<1> QED BY <1>3, <1>4, <1>5, <1>6 DEF Seen

(* A round ends the batch only if every entry of it is done with. *)
LEMMA RoundSeen ==
  ASSUME RegistryInv, RoundEnd, NEW fd \in Fds, NEW d \in Dir, Seen(fd, d)
  PROVE  Seen(fd, d)'
<1>1. /\ TypeOK /\ pc = "dispatch" /\ n > eventCount /\ n' = 1 /\ dir' = "in"
      /\ pc' = IF again THEN "dispatch" ELSE "wait"
      /\ UNCHANGED <<epoll, pend, rdl, drain, events, eventCount>>
  BY DEF RegistryInv, TypeInv, RoundEnd, registry, world, batch
<1> SUFFICES ASSUME Demand(fd, d)'
             PROVE  Elsewhere(fd, d)' \/ InBatch(fd, d)'
  BY <1>1 DEF Seen, InCall
<1>2. Demand(fd, d)
  BY <1>1 DEF Demand
<1>3. Elsewhere(fd, d) => Elsewhere(fd, d)'
  BY <1>1 DEF Elsewhere
<1>4. ASSUME InBatch(fd, d)
      PROVE  InBatch(fd, d)'
  <2>1. BatchSize = eventCount /\ eventCount \in -1..MAXEVENTS /\ n \in Nat
    BY <1>1, SizesAssumption DEF BatchSize, TypeOK
  <2>2. PICK i \in 1..BatchSize :
          events[i].ptr = epoll[fd].ptr /\ d \in events[i].flags /\ (Passed(i, d) => again)
    BY <1>4 DEF InBatch
  <2>3. i < n /\ i \in Nat
    BY <1>1, <2>1
  <2>4. Passed(i, d)
    BY <2>3 DEF Passed
  <2>5. pc' = "dispatch" /\ BatchSize' = BatchSize
    BY <1>1, <2>1, <2>2, <2>4 DEF BatchSize
  <2>6. ~Passed(i, d)'
    BY <1>1, <2>2 DEF Passed
  <2> QED BY <1>1, <2>2, <2>5, <2>6 DEF InBatch
<1> QED BY <1>2, <1>3, <1>4 DEF Seen

(* Before and after a batch, and while it is handed over. *)
LEMMA HandoverSeen ==
  ASSUME RegistryInv, ExecuteStart \/ EpollInterrupted \/ StoreCount \/ Lock,
         NEW fd \in Fds, NEW d \in Dir, Seen(fd, d)
  PROVE  Seen(fd, d)'
<1>1. /\ pc # "callback" /\ pc' # "callback"
      /\ UNCHANGED <<epoll, pend, rdl, drain, events, n, dir, again>>
  BY DEF ExecuteStart, EpollInterrupted, StoreCount, Lock, registry, world, batch
<1>2. BatchSize' = BatchSize \/ BatchSize = 0
  BY DEF ExecuteStart, EpollInterrupted, StoreCount, Lock, batch, BatchSize
<1>3. Demand(fd, d)' => Demand(fd, d)
  BY <1>1 DEF Demand
<1>4. Elsewhere(fd, d) => Elsewhere(fd, d)'
  BY <1>1 DEF Elsewhere
<1>5. InBatch(fd, d) => InBatch(fd, d)'
  BY <1>1, <1>2 DEF InBatch, Passed
<1>6. InCall(fd, d)'
  BY <1>1 DEF InCall
<1> QED BY <1>3, <1>4, <1>5, <1>6 DEF Seen

LEMMA OrderlyStep ==
  ASSUME TypeOK, Orderly, [Next]_vars
  PROVE  Orderly'
<1>1. execs \in Nat
  BY SizesAssumption DEF TypeOK
<1>2. CASE UNCHANGED control
  BY <1>2 DEF control, Orderly
<1>3. CASE LoopStep
  <2>1. CASE ExecuteStart
    BY <1>1, <2>1 DEF ExecuteStart, Orderly
  <2>2. CASE EpollWait \/ EpollInterrupted \/ StoreCount \/ Lock
    BY <2>2 DEF EpollWait, EpollInterrupted, StoreCount, Lock, Orderly
  <2>3. CASE Dispatch \/ Skip \/ CallbackRead \/ CallbackReturn \/ CallbackThrow
    BY <2>3 DEF Dispatch, Skip, CallbackRead, CallbackReturn, CallbackThrow, Orderly
  <2>4. CASE StopSeen \/ RoundEnd
    BY <2>4 DEF StopSeen, RoundEnd, Orderly
  <2> QED BY <1>3, <2>1, <2>2, <2>3, <2>4 DEF LoopStep
<1>4. CASE \/ KernelStep \/ Stop \/ UNCHANGED vars
           \/ \E t \in Threads : ThreadStep(t)
  <2>1. UNCHANGED control
    BY <1>4
    DEF KernelStep, Arrive, CloseFd, OpenFd, Stop, vars, ThreadStep, AddEvent, AddOutEvent, EraseEvent,
        EraseOutEvent, Add, Erase, DrainMore, DrainDone, DrainThrow
  <2> QED BY <1>2, <2>1
<1> QED BY <1>3, <1>4 DEF Next

(* Every step keeps the work of every descriptor in sight. *)
LEMMA WakeupStep ==
  ASSUME WakeupInv, [Next]_vars
  PROVE  WakeupInv'
<1>1. RegistryInv' /\ RegistryInv /\ TypeOK /\ Orderly /\ Orderly'
  BY RegistryStep, OrderlyStep DEF WakeupInv, RegistryInv, TypeInv
<1>2. SUFFICES ASSUME Started', NEW fd \in Fds \ Throwers, NEW d \in Dir
               PROVE  Seen(fd, d)'
  BY <1>1 DEF WakeupInv, Attended
<1>3. execs \in Nat
  BY <1>1, SizesAssumption DEF TypeOK
<1>4. Started /\ ~StopSeen
  <2>1. CASE ExecuteStart
    BY <1>2, <1>3, <2>1 DEF ExecuteStart, Started, StopSeen
  <2>2. CASE StopSeen
    BY <1>1, <1>2, <1>3, <2>2 DEF StopSeen, Started, Orderly
  <2>3. CASE ~ExecuteStart /\ ~StopSeen
    <3>1. execs' = execs /\ (pc = "idle" => pc' = "idle")
      BY <2>3
      DEF Next, LoopStep, KernelStep, Arrive, CloseFd, OpenFd, Stop, vars, ThreadStep, AddEvent,
          AddOutEvent, EraseEvent, EraseOutEvent, Add, Erase, DrainMore, DrainDone, DrainThrow, EpollWait,
          EpollInterrupted, StoreCount, Lock, Dispatch, Skip, RoundEnd, CallbackRead, CallbackReturn,
          CallbackThrow, control
    <3> QED BY <1>2, <2>3, <3>1 DEF Started
  <2> QED BY <2>1, <2>2, <2>3
<1>5. Seen(fd, d)
  BY <1>4 DEF WakeupInv, Attended
<1>6. CASE LoopStep
  <2>1. CASE ExecuteStart \/ EpollInterrupted \/ StoreCount \/ Lock
    BY <1>1, <1>5, <2>1, HandoverSeen
  <2>2. CASE EpollWait
    BY <1>1, <1>5, <2>2, EpollWaitSeen
  <2>3. CASE Dispatch
    BY <1>1, <1>5, <2>3, DispatchSeen
  <2>4. CASE Skip \/ CallbackReturn \/ CallbackThrow
    BY <1>1, <1>5, <2>4, AdvanceSeen
  <2>5. CASE RoundEnd
    BY <1>1, <1>5, <2>5, RoundSeen
  <2>6. CASE CallbackRead
    BY <1>1, <1>5, <2>6, ReadSeen
  <2> QED BY <1>4, <1>6, <2>1, <2>2, <2>3, <2>4, <2>5, <2>6 DEF LoopStep
<1>7. CASE KernelStep \/ Stop
  BY <1>1, <1>5, <1>7, KernelSeen
<1>8. ASSUME NEW t \in Threads, ThreadStep(t)
      PROVE  Seen(fd, d)'
  <2>1. CASE DrainMore(t) \/ DrainDone(t) \/ DrainThrow(t)
    BY <1>1, <1>5, <2>1, DrainSeen
  <2>2. CASE \E f \in Fds, e \in Dir : Add(t, f, e) \/ Erase(t, f, e)
    BY <1>1, <1>5, <2>2, AddSeen, EraseSeen
  <2> QED
    BY <1>8, <2>1, <2>2 DEF ThreadStep, AddEvent, AddOutEvent, EraseEvent, EraseOutEvent, Dir
<1>9. CASE UNCHANGED vars
  <2>1. UNCHANGED <<events, eventCount, ret, control, epoll, rdl, drain, pend>>
    BY <1>9 DEF vars, registry, batch, world
  <2>2. Demand(fd, d)' => Demand(fd, d)
    BY <2>1 DEF Demand
  <2> QED BY <1>5, <2>1, <2>2, SeenStays
<1> QED BY <1>6, <1>7, <1>8, <1>9 DEF Next

(* Edge triggered as it is, the loop loses no wakeup of a descriptor whose   *)
(* handler does not throw, from the first execute() until it returns (see    *)
(* NoLostWakeup): for any number of threads, descriptors and slots of        *)
(* m_events, also fewer slots than descriptors that are ready.               *)
THEOREM WakeupsKept == Spec => []NoLostWakeup
<1>1. Init => WakeupInv
  <2> SUFFICES ASSUME Init PROVE WakeupInv
    OBVIOUS
  <2>1. RegistryInv
    BY RegistryInit
  <2>2. Orderly
    BY DEF Init, Orderly
  <2>3. \A fd \in Fds, d \in Dir : ~Demand(fd, d)
    BY DEF Init, Demand, Unregistered
  <2> QED BY <2>1, <2>2, <2>3 DEF WakeupInv, Attended, Seen
<1>2. WakeupInv /\ [Next]_vars => WakeupInv'
  BY WakeupStep
<1>3. WakeupInv => NoLostWakeup
  <2> SUFFICES ASSUME WakeupInv, NEW fd \in Fds \ Throwers, NEW d \in Dir, Started, Demand(fd, d)
               PROVE  WillBeServed(fd, d)
    BY DEF NoLostWakeup, Started, Demand
  <2>1. Elsewhere(fd, d) \/ InBatch(fd, d)
    BY DEF WakeupInv, Attended, Seen
  <2> QED BY <2>1 DEF Elsewhere, InBatch, WillBeServed
<1> QED BY <1>1, <1>2, <1>3, PTL DEF Spec
=============================================================================
