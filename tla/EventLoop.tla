------------------------------ MODULE EventLoop ------------------------------
(***************************************************************************)
(* The epoll event loop of lib/sys/linux/eventloop.cpp.                     *)
(*                                                                         *)
(* One thread executes the loop (Loop); the threads in Clients register    *)
(* and remove handlers.  A callback of the loop may do so too, since       *)
(* m_eventInfosMtx is recursive.  The mutex is held by the loop exactly    *)
(* while it dispatches a batch of events (Locked); the critical sections   *)
(* of the clients are single steps.                                        *)
(*                                                                         *)
(* The kernel's half of epoll (interest list, ready list, edge triggering) *)
(* and the descriptors themselves are external and modelled from the way   *)
(* the loop uses them.  A descriptor counts the units of work its handler  *)
(* finds per direction: readable chunks for "in", free space for "out".    *)
(***************************************************************************)
EXTENDS Integers, FiniteSets

CONSTANTS
  Fds,               \* descriptor numbers that may be registered
  Nodes,             \* addresses an element of m_eventInfos may have
  Clients,           \* threads other than the one that calls execute()
  Loop,              \* the thread that calls execute()
  None,              \* no node (nullptr), no descriptor, no handler running
  StopFd,            \* m_stopFd
  MAXEVENTS,         \* size of m_events
  MaxPend,           \* bound: units of work pending per descriptor and direction
  MaxExecutes,       \* bound: calls of execute()
  Throwers,          \* descriptors whose handlers may throw
  Watch,             \* bound: the registrations (fd, direction) the threads use
  Closable,          \* bound: descriptors that are closed and opened again
  ConcurrentClients  \* whether Clients use the loop while it executes

Dir == {"in", "out"}
Slots == 1..MAXEVENTS
Threads == Clients \cup {Loop}

ASSUME SizesAssumption ==
  /\ MAXEVENTS \in Nat \ {0}
  /\ MaxPend \in Nat \ {0}
  /\ MaxExecutes \in Nat

ASSUME SetsAssumption ==
  /\ Throwers \subseteq Fds
  /\ Closable \subseteq Fds
  /\ Watch \subseteq Fds \X Dir
  /\ ConcurrentClients \in BOOLEAN

ASSUME IdentitiesAssumption ==
  /\ None \notin Nodes
  /\ None \notin Fds
  /\ None \notin [fd : Fds, dir : Dir]
  /\ StopFd \notin Fds
  /\ Loop \notin Clients

VARIABLES
  infos,       \* m_eventInfos: the node of each registered descriptor
  handlers,    \* per node: the directions with a callback; {} when freed
  events,      \* m_events
  eventCount,  \* m_eventCount
  epoll,       \* kernel interest list: event mask and data.ptr of each descriptor
  rdl,         \* kernel ready list
  open,        \* descriptors that are open
  pend,        \* work waiting at each descriptor
  pc,          \* where execute() is
  ret,         \* value epoll_wait returned, before it is stored
  raced,       \* an event was removed between this return and this store
  n,           \* index of the for loop
  dir,         \* which of its two if statements is next
  again,       \* eventsLeft > 0
  cur,         \* descriptor whose callback runs; None if the callback is gone
  result,      \* what that callback is going to return
  drain,       \* per thread: handler called by the end of addEvent/addOutEvent
  execs        \* calls of execute() so far

registry == <<infos, handlers, epoll>>
batch    == <<events, eventCount, ret, raced>>
world    == <<rdl, open, pend>>
control  == <<pc, n, dir, again, cur, result, execs>>
vars     == <<registry, batch, world, control, drain>>

-----------------------------------------------------------------------------
Unregistered == [mask |-> {}, ptr |-> None]

Init ==
  /\ infos = [fd \in Fds |-> None]
  /\ handlers = [node \in Nodes |-> {}]
  /\ events = [i \in Slots |-> [ptr |-> None, flags |-> {}]]
  /\ eventCount = 0
  /\ epoll = [fd \in Fds |-> Unregistered]
  /\ rdl = {}
  /\ open = Fds
  /\ pend = [fd \in Fds |-> [d \in Dir |-> 0]]
  /\ pc = "idle"
  /\ ret = 0
  /\ raced = FALSE
  /\ n = 1
  /\ dir = "in"
  /\ again = FALSE
  /\ cur = None
  /\ result = "none"
  /\ drain = [t \in Threads |-> None]
  /\ execs = 0

-----------------------------------------------------------------------------
(* m_eventInfosMtx *)

Locked == pc \in {"dispatch", "callback"}

(* Thread t enters a critical section of the registry: the loop thread from *)
(* inside a callback, a client while the loop does not hold the mutex.      *)
MayLock(t) ==
  IF t = Loop THEN pc = "callback"
              ELSE ~Locked /\ (ConcurrentClients \/ pc = "idle")

-----------------------------------------------------------------------------
(* External: epoll and the descriptors *)

InKernel(fd) == epoll[fd].mask # {}

(* Directions of fd that are watched with mask and have work. *)
Signaled(fd, mask) == {d \in mask : pend[fd][d] > 0}

(* epoll_ctl ADD fails on a known descriptor, MOD and DEL on an unknown one. *)
CtlSucceeds(fd, mode) == fd \in open /\ (InKernel(fd) <=> mode # "ADD")

(* A successful ADD or MOD polls the descriptor: it is put on the ready     *)
(* list at once if it has work.                                            *)
EpollSet(fd, mask, ptr) ==
  /\ epoll' = [epoll EXCEPT ![fd] = [mask |-> mask, ptr |-> ptr]]
  /\ rdl' = IF Signaled(fd, mask) # {} THEN rdl \cup {fd} ELSE rdl

EpollDelete(fd) ==
  /\ epoll' = [epoll EXCEPT ![fd] = Unregistered]
  /\ rdl' = rdl \ {fd}

(* New work is an edge: the descriptor goes to the ready list if watched.   *)
Arrive(fd, d) ==
  /\ fd \in open
  /\ pend[fd][d] < MaxPend
  /\ <<fd, d>> \in Watch
  /\ pend' = [pend EXCEPT ![fd][d] = @ + 1]
  /\ rdl' = IF d \in epoll[fd].mask THEN rdl \cup {fd} ELSE rdl
  /\ UNCHANGED <<registry, batch, open, control, drain>>

(* close() takes the descriptor out of the interest list. *)
CloseFd(fd) ==
  /\ fd \in open \cap Closable
  /\ open' = open \ {fd}
  /\ pend' = [pend EXCEPT ![fd] = [d \in Dir |-> 0]]
  /\ EpollDelete(fd)
  /\ UNCHANGED <<infos, handlers, batch, control, drain>>

OpenFd(fd) ==
  /\ fd \in Fds \ open
  /\ open' = open \cup {fd}
  /\ UNCHANGED <<registry, batch, rdl, pend, control, drain>>

-----------------------------------------------------------------------------
(* addEvent, addOutEvent *)

(* The node of fd in m_eventInfos: the one it has, or a newly allocated one. *)
NodeFor(fd, node) ==
  IF infos[fd] # None THEN node = infos[fd] ELSE handlers[node] = {}

CtlMode(fd) == IF infos[fd] = None THEN "ADD" ELSE "MOD"

(* When epoll_ctl fails, the new entry of m_eventInfos stays and the        *)
(* handler is not called.                                                  *)
Add(t, fd, d) ==
  /\ MayLock(t)
  /\ drain[t] = None
  /\ <<fd, d>> \in Watch
  /\ \E node \in Nodes :
       /\ NodeFor(fd, node)
       /\ infos' = [infos EXCEPT ![fd] = node]
       /\ handlers' = [handlers EXCEPT ![node] = @ \cup {d}]
       /\ IF CtlSucceeds(fd, CtlMode(fd))
            THEN /\ EpollSet(fd, handlers[node] \cup {d}, node)
                 /\ drain' = [drain EXCEPT ![t] = [fd |-> fd, dir |-> d]]
            ELSE UNCHANGED <<epoll, rdl, drain>>
  /\ UNCHANGED <<batch, open, pend, control>>

AddEvent(t, fd) == Add(t, fd, "in")
AddOutEvent(t, fd) == Add(t, fd, "out")

(* Mutant: a handler that consumes without checking that there is something. *)
DrainMoreUnchecked(t) ==
  /\ drain[t] # None
  /\ pend' = [pend EXCEPT ![drain[t].fd][drain[t].dir] = @ - 1]
  /\ UNCHANGED <<registry, batch, rdl, open, control, drain>>

(* The do/while after the critical section: the handler is called in the    *)
(* context of the caller, without the mutex, until it has nothing to do.    *)
DrainMore(t) ==
  /\ drain[t] # None
  /\ pend[drain[t].fd][drain[t].dir] > 0
  /\ pend' = [pend EXCEPT ![drain[t].fd][drain[t].dir] = @ - 1]
  /\ UNCHANGED <<registry, batch, rdl, open, control, drain>>

DrainDone(t) ==
  /\ drain[t] # None
  /\ pend[drain[t].fd][drain[t].dir] = 0
  /\ drain' = [drain EXCEPT ![t] = None]
  /\ UNCHANGED <<registry, batch, world, control>>

(* There is no try block here: the exception leaves addEvent.              *)
DrainThrow(t) ==
  /\ drain[t] # None
  /\ drain[t].fd \in Throwers
  /\ drain' = [drain EXCEPT ![t] = None]
  /\ UNCHANGED <<registry, batch, world, control>>

-----------------------------------------------------------------------------
(* eraseEvent, eraseOutEvent *)

(* Mutant: pending events are left alone. *)
MaskNothing(evs, count, node, removed) == evs

(* Turns the removed events of a node off in the first slot that names it.  *)
Mask(evs, count, node, removed) ==
  [i \in Slots |->
     IF /\ i <= count
        /\ evs[i].ptr = node
        /\ \A j \in 1..(i - 1) : evs[j].ptr # node
       THEN [ptr |-> evs[i].ptr, flags |-> evs[i].flags \ removed]
       ELSE evs[i]]

(* The other direction stays registered. *)
EraseOne(fd, d, node) ==
  LET kept == handlers[node] \ {d} IN
  /\ kept # {}
  /\ handlers' = [handlers EXCEPT ![node] = kept]
  /\ IF CtlSucceeds(fd, "MOD") THEN EpollSet(fd, kept, node)
                               ELSE UNCHANGED <<epoll, rdl>>
  /\ events' = Mask(events, eventCount, node, {d})
  /\ UNCHANGED infos

(* Mutant: the element is freed without telling the kernel. *)
EraseLastNoDelete(fd, d, node) ==
  /\ handlers[node] = {d}
  /\ handlers' = [handlers EXCEPT ![node] = {}]
  /\ infos' = [infos EXCEPT ![fd] = None]
  /\ events' = Mask(events, eventCount, node, Dir)
  /\ UNCHANGED <<epoll, rdl>>

(* The last direction: the element of m_eventInfos is freed. *)
EraseLast(fd, d, node) ==
  /\ handlers[node] = {d}
  /\ handlers' = [handlers EXCEPT ![node] = {}]
  /\ infos' = [infos EXCEPT ![fd] = None]
  /\ IF CtlSucceeds(fd, "DEL") THEN EpollDelete(fd)
                               ELSE UNCHANGED <<epoll, rdl>>
  /\ events' = Mask(events, eventCount, node, Dir)

Erase(t, fd, d) ==
  /\ MayLock(t)
  /\ infos[fd] # None
  /\ d \in handlers[infos[fd]]
  /\ \/ EraseOne(fd, d, infos[fd])
     \/ EraseLast(fd, d, infos[fd])
  /\ raced' = (raced \/ pc = "copied")
  /\ UNCHANGED <<eventCount, ret, open, pend, control, drain>>

EraseEvent(t, fd) == Erase(t, fd, "in")
EraseOutEvent(t, fd) == Erase(t, fd, "out")

-----------------------------------------------------------------------------
(* stop *)

(* The eventfd is never read; every write is an edge. *)
Stop ==
  /\ StopFd \notin rdl
  /\ rdl' = rdl \cup {StopFd}
  /\ UNCHANGED <<registry, batch, open, pend, control, drain>>

-----------------------------------------------------------------------------
(* execute *)

ExecuteStart ==
  /\ pc = "idle"
  /\ execs < MaxExecutes
  /\ ConcurrentClients \/ \A c \in Clients : drain[c] = None
  /\ pc' = "wait"
  /\ execs' = execs + 1
  /\ UNCHANGED <<registry, batch, world, n, dir, again, cur, result, drain>>

(* What epoll_wait reports for an entry of the ready list. *)
Item(x) ==
  IF x = StopFd THEN [ptr |-> None, flags |-> {"in"}]
                ELSE [ptr |-> epoll[x].ptr, flags |-> Signaled(x, epoll[x].mask)]

Ready == {x \in rdl : Item(x).flags # {}}

(* epoll_wait fills m_events, in any order, with everything that is ready,  *)
(* at most MAXEVENTS entries; what does not fit stays on the ready list.    *)
EpollWait ==
  /\ pc = "wait"
  /\ Ready # {}
  /\ \E k \in Slots : \E got \in [1..k -> Ready] :
       /\ \A i, j \in 1..k : got[i] = got[j] => i = j
       /\ k = MAXEVENTS \/ \A x \in Ready : \E i \in 1..k : got[i] = x
       /\ events' = [i \in Slots |-> IF i <= k THEN Item(got[i]) ELSE events[i]]
       /\ rdl' = {x \in Ready : \A i \in 1..k : got[i] # x}
       /\ ret' = k
  /\ raced' = FALSE
  /\ pc' = "copied"
  /\ UNCHANGED <<registry, eventCount, open, pend, n, dir, again, cur, result, execs, drain>>

(* epoll_wait is interrupted by a signal: EINTR is ignored. *)
EpollInterrupted ==
  /\ pc = "wait"
  /\ ret' = -1
  /\ pc' = "copied"
  /\ UNCHANGED <<registry, events, eventCount, raced, world, n, dir, again, cur, result, execs, drain>>

(* The assignment to m_eventCount, before the mutex is taken. *)
StoreCount ==
  /\ pc = "copied"
  /\ eventCount' = ret
  /\ ret' = 0
  /\ pc' = "locking"
  /\ UNCHANGED <<registry, events, raced, world, n, dir, again, cur, result, execs, drain>>

Lock ==
  /\ pc = "locking"
  /\ pc' = "dispatch"
  /\ UNCHANGED <<registry, batch, world, n, dir, again, cur, result, execs, drain>>

(* Mutant: an event is called until it has nothing left before the next one. *)
AdvanceGreedy ==
  /\ dir' = IF result # "more" /\ dir = "in" THEN "out" ELSE IF result = "more" THEN dir ELSE "in"
  /\ n' = IF result = "more" \/ dir = "in" THEN n ELSE n + 1

(* From the in handler to the out handler, then to the next event. *)
Advance ==
  /\ dir' = IF dir = "in" THEN "out" ELSE "in"
  /\ n' = IF dir = "in" THEN n ELSE n + 1

(* The descriptor whose callback the loop finds at ptr, if there is one. *)
Callee(ptr, d) ==
  IF \E fd \in Fds : infos[fd] = ptr /\ d \in handlers[ptr]
    THEN CHOOSE fd \in Fds : infos[fd] = ptr
    ELSE None

Dispatch ==
  /\ pc = "dispatch"
  /\ n <= eventCount
  /\ events[n].ptr # None
  /\ dir \in events[n].flags
  /\ pc' = "callback"
  /\ cur' = Callee(events[n].ptr, dir)
  /\ UNCHANGED <<registry, batch, world, n, dir, again, result, execs, drain>>

Skip ==
  /\ pc = "dispatch"
  /\ n <= eventCount
  /\ events[n].ptr # None
  /\ dir \notin events[n].flags
  /\ Advance
  /\ UNCHANGED <<registry, batch, world, pc, again, cur, result, execs, drain>>

(* The stop notification: execute() returns, whatever is left of the batch. *)
StopSeen ==
  /\ pc = "dispatch"
  /\ n <= eventCount
  /\ events[n].ptr = None
  /\ pc' = "idle"
  /\ n' = 1
  /\ dir' = "in"
  /\ again' = FALSE
  /\ UNCHANGED <<registry, batch, world, cur, result, execs, drain>>

(* Mutant: a single round over the batch. *)
RoundEndOnce ==
  /\ pc = "dispatch"
  /\ n > eventCount
  /\ n' = 1
  /\ dir' = "in"
  /\ again' = FALSE
  /\ pc' = "wait"
  /\ UNCHANGED <<registry, batch, world, cur, result, execs, drain>>

(* while (eventsLeft): another round over the batch, or epoll_wait again. *)
RoundEnd ==
  /\ pc = "dispatch"
  /\ n > eventCount
  /\ n' = 1
  /\ dir' = "in"
  /\ again' = FALSE
  /\ pc' = IF again THEN "dispatch" ELSE "wait"
  /\ UNCHANGED <<registry, batch, world, cur, result, execs, drain>>

(* The callback works: it takes one unit and will return a positive value,  *)
(* or takes everything and will return that nothing is left.                *)
CallbackRead ==
  /\ pc = "callback"
  /\ cur # None
  /\ result = "none"
  /\ drain[Loop] = None
  /\ \/ /\ pend[cur][dir] > 0
        /\ pend' = [pend EXCEPT ![cur][dir] = @ - 1]
        /\ result' = "more"
     \/ /\ pend' = [pend EXCEPT ![cur][dir] = 0]
        /\ result' = "done"
  /\ UNCHANGED <<registry, batch, rdl, open, pc, n, dir, again, cur, execs, drain>>

(* Mutant: result>=0 instead of result>0. *)
CallbackReturnZeroLeft ==
  /\ pc = "callback"
  /\ result # "none"
  /\ drain[Loop] = None
  /\ again' = TRUE
  /\ pc' = "dispatch"
  /\ cur' = None
  /\ result' = "none"
  /\ Advance
  /\ UNCHANGED <<registry, batch, world, execs, drain>>

(* A positive result counts in eventsLeft, any other one turns the event    *)
(* off.                                                                     *)
CallbackReturn ==
  /\ pc = "callback"
  /\ result # "none"
  /\ drain[Loop] = None
  /\ again' = (again \/ result = "more")
  /\ events' = IF result = "done"
                 THEN [events EXCEPT ![n] = [ptr |-> @.ptr, flags |-> @.flags \ {dir}]]
                 ELSE events
  /\ pc' = "dispatch"
  /\ cur' = None
  /\ result' = "none"
  /\ Advance
  /\ UNCHANGED <<registry, eventCount, ret, raced, world, execs, drain>>

(* An exception is logged and ignored: the event neither counts as left nor *)
(* is it turned off.  A callback that is gone ends this way at best.        *)
CallbackThrow ==
  /\ pc = "callback"
  /\ cur \in Throwers \cup {None}
  /\ drain[Loop] = None
  /\ pc' = "dispatch"
  /\ cur' = None
  /\ result' = "none"
  /\ Advance
  /\ UNCHANGED <<registry, batch, world, again, execs, drain>>

-----------------------------------------------------------------------------
ThreadStep(t) ==
  \/ \E fd \in Fds : \/ AddEvent(t, fd)
                     \/ AddOutEvent(t, fd)
                     \/ EraseEvent(t, fd)
                     \/ EraseOutEvent(t, fd)
  \/ DrainMore(t)
  \/ DrainDone(t)
  \/ DrainThrow(t)

LoopStep ==
  \/ ExecuteStart \/ EpollWait \/ EpollInterrupted \/ StoreCount \/ Lock
  \/ Dispatch \/ Skip \/ StopSeen \/ RoundEnd
  \/ CallbackRead \/ CallbackReturn \/ CallbackThrow

KernelStep ==
  \E fd \in Fds : \/ \E d \in Dir : Arrive(fd, d)
                  \/ CloseFd(fd)
                  \/ OpenFd(fd)

Next == LoopStep \/ KernelStep \/ Stop \/ \E t \in Threads : ThreadStep(t)

Spec == Init /\ [][Next]_vars
-----------------------------------------------------------------------------
(* Fairness: the executing thread and the threads inside addEvent are       *)
(* scheduled; a callback does not call the registry for ever before it      *)
(* reads and returns; a signal does not hit every single epoll_wait.        *)
LiveSpec ==
  /\ Spec
  /\ WF_vars(ExecuteStart) /\ WF_vars(StoreCount) /\ WF_vars(Lock)
  /\ WF_vars(Dispatch) /\ WF_vars(Skip) /\ WF_vars(StopSeen) /\ WF_vars(RoundEnd)
  /\ SF_vars(EpollWait)
  /\ SF_vars(CallbackRead) /\ SF_vars(CallbackReturn)
  /\ \A t \in Threads : SF_vars(DrainDone(t)) /\ WF_vars(DrainMore(t) \/ DrainDone(t))

-----------------------------------------------------------------------------
(* Properties *)

EventRecord == [ptr : Nodes \cup {None}, flags : SUBSET Dir]

(* Every variable has its type. *)
TypeOK ==
  /\ infos \in [Fds -> Nodes \cup {None}]
  /\ handlers \in [Nodes -> SUBSET Dir]
  /\ events \in [Slots -> EventRecord]
  /\ eventCount \in -1..MAXEVENTS
  /\ epoll \in [Fds -> [mask : SUBSET Dir, ptr : Nodes \cup {None}]]
  /\ rdl \subseteq Fds \cup {StopFd}
  /\ open \subseteq Fds
  /\ pend \in [Fds -> [Dir -> 0..MaxPend]]
  /\ pc \in {"idle", "wait", "copied", "locking", "dispatch", "callback"}
  /\ ret \in -1..MAXEVENTS
  /\ raced \in BOOLEAN
  /\ n \in 1..(MAXEVENTS + 1)
  /\ dir \in Dir
  /\ again \in BOOLEAN
  /\ cur \in Fds \cup {None}
  /\ result \in {"none", "more", "done"}
  /\ drain \in [Threads -> [fd : Fds, dir : Dir] \cup {None}]
  /\ execs \in 0..MaxExecutes

(* Whatever epoll_ctl calls failed and however descriptors were closed and  *)
(* opened again in between, the kernel watches exactly what m_eventInfos    *)
(* holds a callback for and its data.ptr is the live element of the         *)
(* descriptor: the interest list never keeps a pointer to freed memory.     *)
KernelAgrees ==
  \A fd \in Fds : InKernel(fd) =>
    /\ fd \in open
    /\ infos[fd] # None
    /\ epoll[fd].ptr = infos[fd]
    /\ epoll[fd].mask = handlers[infos[fd]]

(* Two descriptors never share an element of m_eventInfos, and an element   *)
(* is allocated exactly while some descriptor has a callback in it.         *)
NodesOwned ==
  /\ \A fd, other \in Fds : infos[fd] = infos[other] /\ infos[fd] # None => fd = other
  /\ \A node \in Nodes : handlers[node] # {} <=> \E fd \in Fds : infos[fd] = node

(* What eraseEvent promises (eventloop.cpp:179-183): no callback is called  *)
(* from a pending event after it was removed.  Every call the loop makes    *)
(* goes to a callback that exists at that moment.                           *)
NoStaleCallback == pc = "callback" => cur # None

(* The one way to break that promise: a removal by another thread after     *)
(* epoll_wait filled m_events and before m_eventCount is assigned           *)
(* (eventloop.cpp:243).  However callbacks and threads otherwise remove,    *)
(* add again and recycle elements of m_eventInfos, also in the middle of a  *)
(* batch, the loop calls what is registered.                                *)
StaleCallOnlyFromWindow == ~raced => NoStaleCallback

(* Number of valid entries of m_events the loop is going to use. *)
BatchSize == CASE pc = "copied" -> ret
               [] pc \in {"locking", "dispatch", "callback"} -> eventCount
               [] OTHER -> 0

(* The state NoStaleCallback rests on as long as nothing was removed in the  *)
(* window: what is flagged in the batch has a callback, and no two entries   *)
(* name the same element, so that the break at eventloop.cpp:185 leaves no   *)
(* second entry flagged.                                                     *)
BatchLive ==
  /\ \A i \in 1..BatchSize :
       events[i].ptr # None => events[i].flags \subseteq handlers[events[i].ptr]
  /\ \A i, j \in 1..BatchSize : events[i].ptr = events[j].ptr => i = j

(* The callback that runs belongs to an entry of the batch. *)
CallbackInBatch == pc = "callback" => n <= eventCount

(* fd has work in direction d that some thread is already going to see. *)
WillBeServed(fd, d) ==
  \/ fd \in rdl
  \/ \E i \in 1..BatchSize : events[i].ptr = epoll[fd].ptr /\ d \in events[i].flags
  \/ \E t \in Threads : drain[t] = [fd |-> fd, dir |-> d]

(* Edge triggering loses no wakeup: work at a watched descriptor is on the  *)
(* ready list, flagged in the batch being dispatched, or being drained by   *)
(* the thread that registered it.  Exceptions of other handlers, masking by *)
(* eraseEvent, recycled map elements and reused descriptors do not change   *)
(* that.  (The handler of the descriptor itself does not throw, and         *)
(* execution was not stopped before: both lose events.)                     *)
NoLostWakeup ==
  \A fd \in Fds \ Throwers : \A d \in Dir :
    (execs <= 1 /\ (execs = 1 => pc # "idle") /\ d \in epoll[fd].mask /\ pend[fd][d] > 0)
      => WillBeServed(fd, d)

(* Fairness among events (eventloop.cpp:254-256): an event signaled in a    *)
(* batch gets its callback, is removed, or execution ends, even while other *)
(* callbacks of the batch, or the one of the other direction, find more     *)
(* work every time they are called, or throw.                               *)
EverySignaledServed ==
  \A fd \in Fds \ Throwers : \A i \in Slots, d \in Dir :
    (Locked /\ i <= eventCount /\ d \in events[i].flags /\ events[i].ptr = infos[fd])
      ~> ((pc = "callback" /\ n = i /\ dir = d) \/ d \notin events[i].flags \/ pc = "idle")

StopPending == pc # "idle" /\ StopFd \in rdl

(* stop() ends execute() once no new work arrives: neither the rounds over  *)
(* the batch nor signals, exceptions or callbacks that change the registry  *)
(* keep the loop from the stop notification.                                *)
StopHonouredWhenQuiet ==
  (<>[][~ \E fd \in Fds, d \in Dir : Arrive(fd, d)]_vars) => (StopPending ~> pc = "idle")
=============================================================================
