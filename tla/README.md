# Verification of the hbm communication library

The library (`src/`) gives C++ programs an event loop and the things that are
driven by it: timers, notifiers, non-blocking sockets, a TCP server, multicast,
and the list of network adapters. There is one implementation for Linux (epoll,
timerfd, eventfd, netlink) and one for Windows (completion ports). This
directory models the Linux implementation and the Windows event loop in TLA+,
checks them with TLC and proves their safety properties with TLAPS, for any number
of descriptors, objects, threads and messages.

Conventions used throughout:

* Definitions carry the names of the source where TLA+ allows it; `PROJECT.json`
  ("map") names the lines of code behind every definition. Definitions of the
  operating system's side are marked external there.
* A step of the model is what the code does without another thread being able to
  interfere: the critical sections of `EventLoop` are single steps, everything
  that happens outside the mutex is split where threads can interleave.
* An operator introduced by a comment "Mutant:" is not part of the model. It is
  a plausible wrong version of the definition that follows it;
  `PROJECT.json` ("mutants") says which property fails when it takes that
  definition's place, which shows that the property depends on it.
* The code has defects that would end most properties of their component. The
  model keeps them, and a history variable records that one has struck; the
  property then says that everything else holds, and its comment names the
  exceptions with their lines. They are collected below under "Exceptions".

## Inventory

| Component | State | Operations | What is hard |
|---|---|---|---|
| `EventLoop` | `m_eventInfos` (descriptor to handlers), `m_events`, `m_eventCount`, epoll's interest and ready lists | `addEvent`, `addOutEvent`, `eraseEvent`, `eraseOutEvent`, `execute`, `stop` | callbacks that change the registry while a batch is dispatched, other threads that do so at any time, edge triggering, exceptions, recycled map elements and descriptor numbers |
| `Notifier` | callback, eventfd counter | `set`, `notify`, `process` | notifications of other threads while `process` runs, exceptions, limit of the counter |
| `Timer` | callback, timerfd | `set`, `cancel`, `process` | `set` and `cancel` from inside the timer's own callback and from other threads, without a lock; expirations that wait to be read |
| `BufferedReader` | buffer, fill level, read position | `recv` | short reads, `readv` that fills two buffers, reuse for a new connection |
| `SocketNonblocking` | descriptor, two handlers, a `BufferedReader` | `connect`, `disconnect`, `setDataCb`, `clearDataCb`, `setOutDataCb`, `clearOutDataCb`, `receive`, `receiveComplete`, `send`, `sendBlock`, `sendBlocks` | partial writes, timeouts with part of the data, descriptor reuse after `close`, failure half way through `connect` |
| `TcpServer` | listening descriptor, path, callback | `start`, `stop`, `process` | edge-triggered backlog when `process` ends early, `process` in two threads, repeated `stop` |
| `MulticastServer` | two sockets, memberships, callback | `start`, `stop`, `addInterface`, `dropInterface`, `addAllInterfaces`, `receiveTelegram`, `send...` | start twice, failure half way, options of a socket that threads share and that a new socket does not have, a list of adapters that lags behind |
| `Netlink`, `NetadapterList` | netlink socket; map of adapters under a mutex | `start`, `stop`, `process`; `update`, queries | changes of the kernel during `update`, lost messages, `update` and `process` in several threads |
| IPv4/IPv6, string helpers | none | pure functions, the loop of `replace` | prefixes 0 and 32, notations, empty and overlapping texts |
| `executeCommand` | a pipe, a child | with and without stdin | failure paths of pipe, fork, dup2, exec, waitpid; two threads at once |
| Windows event loop, timer, notifier | completion port, `m_eventInfos`, handles | as on Linux | the thread of the timer queue, packets that outlive their event |
| `PidFile`, exceptions | none kept | | |

Interaction: on Linux every component registers a handler with `addEvent` (which
calls it at once, in the caller's thread, until it returns 0 or less) and takes
it out with `eraseEvent`. The loop thread calls handlers with `m_eventInfosMtx`
held; the mutex is recursive, so that handlers may register and remove handlers,
themselves included. `Notifier` and `EventLoop::stop` are the means of other
threads to reach the loop. `Netlink::process` updates the `NetadapterList`, which
`MulticastServer` reads.

`PROJECT.json` ("hazards") lists what a test would hardly reach, each at the line
where it bites, with the properties that cover it.

## Modules

| Module | Models | Run by | Proved in |
|---|---|---|---|
| `EventLoop` | `lib/sys/linux/eventloop.cpp` over an external epoll | `MCEventLoop` | `EventLoopProofs` |
| `Notification` | abstract: what `include/hbm/sys/notifier.h` promises | implemented by `Notifier` and `WindowsLoop` | |
| `Notifier` | `lib/sys/linux/notifier.cpp` over an external eventfd | `MCNotifier` | `SysStringProofs` |
| `Timer` | `lib/sys/linux/timer.cpp` over an external timerfd | `MCTimer` | `TimerProofs` |
| `BufferedReader` | `lib/communication/linux/bufferedreader.cpp`, `receive` and `receiveComplete` of `socketnonblocking.cpp` | `MCBufferedReader` | `StreamProofs` |
| `SendBlocks` | `sendBlock`, `sendBlocks` and `waitForWritable` of `socketnonblocking.cpp` | `MCSendBlocks` | `StreamProofs` |
| `Sockets` | constructors, `connect`, `disconnect`, setters and destructor of `socketnonblocking.cpp`, several objects over one registry | through `TcpServer` | `TcpServerProofs` |
| `TcpServer` | `lib/communication/linux/tcpserver.cpp`, composed with `Sockets` | `MCTcpServer` | `TcpServerProofs` |
| `NetadapterList` | `lib/communication/linux/netadapterlist.cpp` | through `Netlink` | `NetlinkProofs` |
| `Netlink` | `lib/communication/linux/netlink.cpp`, composed with `NetadapterList` | `MCNetlink` | `NetlinkProofs` |
| `MulticastServer` | `lib/communication/linux/multicastserver.cpp` | `MCMulticastServer` | `MulticastServerProofs` |
| `Strings`, `Addresses` | `lib/string`, `ipv4address.cpp` and `ipv6address.cpp` | `MCHelpers` | `SysStringProofs` |
| `ExecuteCommand` | `lib/sys/linux/executecommand.cpp` | `MCHelpers` | `SysStringProofs` |
| `WindowsLoop` | `eventloop.cpp`, `timer.cpp`, `notifier.cpp` of `lib/sys/windows` | `MCWindowsLoop` | `WindowsLoopProofs` |

Every `TypeOK` documents the ranges of its module's variables. That of
`EventLoop` is checked and proved, those of `Notifier` and `Timer` are parts of the
proofs; the other proof modules state the types they need themselves.

### EventLoop

`infos` and `handlers` are `m_eventInfos`: which element (`Nodes`, the addresses)
a descriptor has, and which of `inEvent` and `outEvent` are set in it. An address
is free again when its element is erased and may then be given to another
descriptor. `events`, `eventCount` are `m_events` and `m_eventCount`; `ret` is
the value of `epoll_wait` before it is stored. `pc`, `n`, `dir`, `again` are the
control state of `execute`; `cur` is the descriptor whose callback runs, or
`None` when the loop calls through a pointer to an element that is gone. `drain`
holds, per thread, the handler that the do/while at the end of
`addEvent`/`addOutEvent` is calling.

`Add` and `Erase` stand for the two nearly identical functions each.
`EraseOne`/`EraseLast` are the two branches, `Mask` the loop over `m_events`,
including its `break`. `EpollWait` and `StoreCount` are line 243 in two steps, as
another thread can run in between; `Lock` takes the mutex. `Dispatch`,
`CallbackRead`, `CallbackReturn`, `CallbackThrow` and `Skip` are the body of the
for loop for one direction, `RoundEnd` the end of the do/while, `StopSeen` the
return.

External: `epoll` (interest list), `rdl` (ready list), `open`, `pend` (units of
work per descriptor and direction). An arrival is an edge; `epoll_ctl` fails the
way Linux documents it (ADD of a known, MOD and DEL of an unknown descriptor, or
one that is closed), which happens because descriptors are closed and opened
again (`Closable`) without the loop being told: `SocketNonblocking::disconnect`
closes before it erases. `raced` remembers that an event was removed between the
return of `epoll_wait` and the store to `m_eventCount`, until the next
`epoll_wait`. A handler takes one unit and returns a positive value,
or takes everything and returns 0.

Not modelled: the destructor; `epoll_wait` failing with anything but EINTR;
EPOLLERR and EPOLLHUP, which the loop does not look at; a call of
`addEvent` from inside the handler that another `addEvent` of the same thread is
draining; the C++ data race on `m_eventCount` beyond the order of the two
accesses; `addEvent` with an empty function or with -1, which returns without effect.

### Notification, Notifier, Timer

`Notification` is the promise: a number of pending calls, each made once, except
when a callback throws or the notifier ends. The event loop is allowed to let pending
calls wait for the next notification (`Stall`, after `stop`). `Notifier` implements
the promise with `pending <- counter + left`: the eventfd's counter and the iterations
`process` still has to do. The loop's part is `Wakeup`, an edge, taken once, and
`WakeupStopped`, where the loop finds its stop event in the same batch and drops the
edge (`stalled`). `lost` counts the calls that were given up.

`Timer` runs `process` in the loop's thread and `set` and `cancel` in any thread
(`Users` are the other ones), as the tests of the timer do, and from callbacks. The
class has no lock, so the three functions are modelled statement by statement:
`call[t]` is where thread t is in one of them and what it holds in local variables,
`stack[t]` the callbacks of the timer it is in, since `cancel` calls the callback
synchronously. The calls of `set` are numbered. `live` is the setting that should be
pending, `lost` that it was given up in one of the two ways below. `astray` are the
callbacks that were called for another setting, `shared` those that two `cancel` got
hold of; both take two threads inside the timer at once (`overlap`). What a torn
`std::function` does is not modelled, nor a `stop` of the loop, which would drop an
expiration of the same batch.

### BufferedReader, SendBlocks

A byte is its connection and its position, so that loss, duplication and
reordering are visible. `got` is what was stored in the blocks of the callers,
`reported` what the return values told them, `stale` the number of bytes `m_buffer`
still held when the current connection was made, and `failed` that a
`receiveComplete` returned -1, after which the caller cannot know how much he got.
`SendBlocks` starts with every list of at most `MaxBlocks` blocks, empty ones
included (a run of numbered bytes, cut into blocks in every way), and lets the
socket take as much as it has room for. `poll` failing with
an error other than EINTR and a list longer than IOV_MAX are left out.

### Sockets, TcpServer

`owner` says for which object a descriptor is open (the kernel hands out the
lowest free number), `bound` is `m_eventInfos` reduced to the object each callback
is bound to, `watched` the interest list, with `epoll_ctl` failing as in
`EventLoop`. `calls` is the call stack of an object: `connect` and `disconnect`
are split at their system calls and calls of the loop, and the callback that
`addEvent` calls may disconnect its own socket in the middle of `connect` or of a
setter. Calls on different objects interleave freely, as in programs that connect
in one thread and accept in the loop's. `want` is what the user asked for; `lost`,
`robbed` and `unclear` record the exceptions.

`TcpServer` adds the listening socket (owner `Other`) to the same descriptors: its
backlog with an edge-triggered event, `start` with every failure, `stop` from
outside or from the accept callback, clients that become objects of `Sockets`, and
descriptors that run out. `process` is called by the loop and, while the event is
registered, by `start` itself in the caller's thread: `accepting` says who is in it.
It ends when the backlog is empty and in three ways before: `accept` fails for
another reason (`AcceptFails`), the constructor throws (`AcceptClientThrows`), the
callback throws or is empty (`AcceptCbThrows`); and `WakeStopped` is the loop that
finds its stop event in the batch and drops the edge. Clients left behind then are
`cut`. After a `stop` that closes a foreign descriptor the model stands still.
Callbacks that call anything but `disconnect`, and the failed name resolution of two
overloads of `connect`, are left out.

### NetadapterList, Netlink

The kernel's interfaces and addresses change between any two steps. `update` is
split at `getifaddrs`, the ioctl for the hardware address and `if_nametoindex` of
every entry, and the assignment under the mutex; the loop thread and a user's thread
may be in it at once. `Entries` is what `getifaddrs` returns: the link layer entries
in the order of the interfaces, then the addresses in the order in which they were
added. `Netlink` receives a message per change from a buffer of bounded length whose
overrun drops messages, updates the list, and tells the callback. `process` runs in
the loop's thread and, while `start` registers the event, in the thread of `start`,
outside the mutex of the loop: `stage` and `message` say for each of the two how far
it is and what it holds. The callback may throw, the registration may fail
(`StartUnwatched`), and a stopping loop may drop the edge (`WakeStopped`). An object
is started once; that its descriptor is closed and reused while `start` is still in
`process` is left out. The user of the model does what the interface is made for: it
takes the state with COMPLETE and applies the events. `excused` and `missed` record
what may keep list and user from following: `excused` that something the list does
not show will not be repaired by a message that is still to come, `missed` that the
user was not told of a change made after the socket was bound, or was given a list
that was excused.

### MulticastServer

An object is a sender or a receiver, with both sockets in either case. The
receiver's handler drains the socket as the tests do. Sending is split at
IP_MULTICAST_IF, IP_MULTICAST_TTL and `sendto`, which other threads may interleave
with theirs. A new socket sends over the interface of the default route with the
default ttl, so that a `start` in between does not make `sendto` fail: in both cases
the thread is marked in `mixed`. The receiver's handler may throw and the loop may be
stopped with its edge in the batch (`HandlerThrows`, `ProcessStopped`); the telegrams
that wait then are `cut`, too. That an address moves to another interface is left
out. `adapters` is the list, which lags behind the interfaces
`present`. The memberships of the kernel are those of the receive socket.

### Strings, Addresses, ExecuteCommand

Texts are sequences over a small alphabet; `split`, `trim` and the address functions
are operators that are evaluated for all inputs of the initial states, `replace` is
a state machine because its loop need not end. An address in text is the sequence of
its parts with the values that `inet_aton` and `std::stoul` see in them; `ToUInt` is
the conversion of the latter to `unsigned int`, which drops what is beyond its range
(`UIntRange`, 2^32 in the code). `ExecuteCommand` has two callers in one process; a
fork copies all descriptors that are open, which is how one child gets the pipe of
the other. SIGPIPE is taken to be ignored.

### WindowsLoop

The completion port is a queue of packets with a key; `m_eventInfos` maps keys to
callbacks. The thread of the timer queue runs `timerCb`, which reads the handle of
its timer when it posts. `set` is split in `SetErase`, `SetCreate` and `SetAdd`,
which other threads can see between. The number of the setting tells for which
call of `set` an expiration was. The notifier implements `Notification` with
`pending` being its packets in the port.

## Runs

All bounds are CONSTANTS of the modules and named there.

| Run | Result | Shows |
|---|---|---|
| `eventloop_threads` | pass | callbacks and a client thread register and remove two handlers at any time; one throws, and its descriptor is closed and opened again; a batch of 2 with 3 possible entries (the stop event is one), so that MAXEVENTS is reached; 2 units of work, so that a handler can leave work behind. The kernel never keeps a freed element, nothing removed is called but through the window, no wakeup is lost. |
| `eventloop_live` | pass | one descriptor with in and out handler in one map element, two calls of `execute`: signaled events are served, `stop` ends `execute` once no new work arrives. |
| `eventloop_stale` | violation | `eraseEvent` of another thread in the window inside line 243 (the finding in `PROJECT.json`). |
| `notifier_count` | pass | exact number of callbacks, with callbacks that throw and a loop that is stopped and executed again; `Notifier` implements `Notification` with its liveness. |
| `timer_use` | pass | with the loop's thread and another one in the timer at any points: a timer that is set is pending and fires, with two named ways to lose it; it reports at most once unless the two were inside at the same time; it is silent after `cancel`. |
| `reader_stream` | pass | two connections one after the other: stream in order behind the leftovers, all bytes reported, `receiveComplete` ends. |
| `send_partial` | pass | all bytes in order; the blocks always describe what is left to send; the call ends. |
| `tcpserver_shared` | pass | server, client and accepted socket over two descriptors: own descriptors only, no dangling callback, no leak, watched as asked, no client stranded with `process` in two threads, foreign descriptors closed by a second `stop` only. |
| `netlink_follow` | pass | with `process` in the loop's and in `start`'s thread: list and events follow the kernel; the list is as new as the event; link local addresses are last. |
| `multicast_use` | pass | nothing left behind, no telegram stranded, sent as asked, success means sent, with restarts under sending threads. |
| `helpers_exact` | pass | string and address functions against their reference definitions, with what `isValidNetmask` really accepts; `replace` ends, `executeCommand` is sound. |
| `windows_loop` | pass | `execute` ends only when asked, timers report their own setting, the notifier implements `Notification`. |

### Exceptions

What the properties exclude by name, since the code does not do it:

* eventloop.cpp:243: the window of `eventloop_stale` (`raced`). eventloop.cpp:273:
  the remaining work of a handler that throws waits for the next edge (`Throwers`).
  eventloop.cpp:303: `stop` waits as long as some handler finds work in every
  round. eventloop.cpp:300: the rest of a batch is dropped by `stop`, so that
  `NoLostWakeup` speaks of the time up to the first return of `execute`. The
  components over the loop lose an edge that way, too, when it is executed again:
  notifier (`stalled`), server and multicast receiver (`cut`), netlink (`missed`,
  `excused`).
* timer.cpp:97: a `set` made in the callback of a `cancel`, or by another thread
  meanwhile, is disarmed when the `cancel` goes on (`lost` is "undone").
  timer.cpp:67: after a `set` with an empty callback the next callback is dropped
  (`lost` is "dropped"). timer.cpp:107 and :109, :68 to :72, :81 to :97: between the
  lines of one thread another one changes callback or setting, so that a callback is
  called for the expiration of another setting (`astray`) or by two `cancel`
  (`shared`), and a single-shot timer may report twice (`overlap`).
* socketnonblocking.cpp:230: `m_buffer` survives `connect`, the bytes of the old
  connection are received first (`stale`). socketnonblocking.cpp:297: after a failed
  `receiveComplete` the caller cannot know what he got (`failed`).
  socketnonblocking.cpp:487: `disconnect` closes before it erases; who gets the
  number in between loses his registration (`robbed`). socketnonblocking.cpp:253 and
  tcpserver.cpp:127: descriptors nobody knows any more (`lost`).
  socketnonblocking.cpp:113 and :130: an empty callback is registered, and
  `clearOutDataCb` clears the in handler (`unclear`).
* tcpserver.cpp:110: `stop` keeps the number it closed (`stopped`, `hit`).
  tcpserver.cpp:121 to :127: when `accept` fails with clients in the backlog, or the
  constructor of the client's socket or the accept callback throws, the backlog waits
  for another client (`cut`). `start` for a path does not refuse an empty callback,
  which throws with every client.
* netadapterlist.cpp:214: a slow `update` overwrites a newer list; :65: without a
  descriptor interfaces are missing; netlink.cpp:224: messages the kernel dropped;
  eventloop.cpp:80: the registration failed; eventloop.cpp:90: `process` of `start`
  and of the loop call back in another order than they received; eventloop.cpp:273:
  a callback that throws leaves the messages behind it (`excused`, `missed`).
* multicastserver.cpp:527: options another thread sets before `sendto`, or that are
  gone with the socket (:129), so that the telegram leaves over another interface, or
  with another ttl, and `send` reports success (`mixed`); :352: a telegram of an
  unlisted adapter looks like an empty socket, and a handler that throws leaves the
  telegrams behind it (`cut`); :616: `start` on a started object (`again`).
* replace.cpp:25: the length of the search text is skipped, not that of the
  substitute. ipv4address.cpp: octal notation is read as decimal by `getSubnet`, and
  :152 and :153 take numbers modulo 2^32. ipv4address.cpp:128 to :136:
  `isValidNetmask` accepts netmasks with gaps, which are no valid netmasks by
  ipv4address.h:28 and :32, and refuses 255.255.255.255, which
  ipv4address.cpp:194 calls valid; `NetmasksAccepted` states what it accepts.
  executecommand.cpp:118, :82, :72, :69: see `CommandSound`.
* windows/timer.cpp:20: `timerCb` may post NULL, which stops the loop (`overlap`);
  :67: handles that are given out again, expirations before `addEvent` (`reused`,
  `early`). windows/eventloop.cpp:148: the loop over a callback goes on forever if
  the event is erased after a positive result (`NoHandler`).

### Bounds

In `EventLoop` two descriptors and two addresses are enough for an address to move
from one descriptor to the other and for one callback to remove the other's
registration; one client next to the loop thread exhibits every pair of concurrent
operations. With two units of work a handler returns "more" with and without work
left. Symmetry over `Nodes` is used where only invariants are checked. In `Notifier`
the counter's maximum is 3 where the kernel's is 2^64 - 2. `Timer` has the loop's
thread, one other and two calls of `set`, so that every pair of calls can overlap at
every point and a callback is replaced under a waiting expiration; the nesting of
callbacks has no bound of its own. The reader's buffer has 2 bytes and requests 0 to
3, the stream 6, so that `readv` returns less than, exactly, and more than what was
asked for, up to both buffers full. Two descriptors for a server and two sockets
make them reuse each other's numbers and run out. `Netlink` has two changes of the
kernel, a receive buffer of one message and two threads in `process` or `update`: a
change during `update`, an overrun and an overtaken `update` happen; three changes
pass as well and take minutes. `MulticastServer` has two interfaces, two sending
threads (symmetric) and a buffer of two telegrams. Texts have up to 5 characters
over two, search texts and substitutes up to 2; addresses are all combinations of up
to four critical numbers, prefix lengths all from 0 to 128. `UIntRange` is 512 and
one of the parts 513, which counts as 1. `ExecuteCommand` has two callers, a pipe of
one unit and up to two units of stdin, so that a write blocks. `WindowsLoop` has one
timer with two settings, two handles and a port of two packets, so that a handle is
given out again while a packet of it is waiting.

Deadlock is not an error where everything may be over: notifier or timer destroyed,
changes of the kernel used up, the multicast server destroyed, functions returned,
a port that is full of packets while nobody calls `execute`.

### Fairness

The thread that executes the loop, threads inside `addEvent`, `receiveComplete`,
`sendBlocks` or `replace` are scheduled (weak fairness of their steps). Strong
fairness is used where a step is enabled again and again without the scheduler
being at fault: `EpollWait` competes with signals that interrupt it; a callback may
change the registry any number of times but finally reads and returns; a thread
that drains a handler sees it empty at some time; `SendMsg` competes with EINTR; the
callbacks of the timer return, and a waiting expiration is read although `set` and
`cancel` of other threads take it away and bring it back. A stopped loop is executed
again in `Notifier`. `PeerReads` is weakly fair in `SendBlocks`, because
a peer that neither reads nor closes blocks the call by design (no timeout).

## Proofs

TLAPS checks the following for all values of the constants that satisfy the
assumptions in the modules. These say that limits are natural numbers (and not 0
where the code has room for one thing at least), that descriptors are natural
numbers, that there are finitely many interfaces, whose indices start at 1, and
finitely many addresses, that a text of an address is a sequence of parts and a
netmask four octets, and that `None`, `Null`, `Nobody`, `Gone` and the like are
different from the things they are not. In particular the number of threads,
objects, descriptors, timers, handles and interfaces, the lengths of streams,
queues, buffers and texts and the depth of nested callbacks are arbitrary, where the
runs have two or three.

The argument is the same everywhere: an inductive invariant that implies the
property, a lemma for each action (or group of similar ones) that keeps it, and
lemmas for the operators that several actions use. Where a recursion or a fold is
part of a property, the provers cannot use induction. The proofs write down a
solution of the recursion instead, show that it is one, and show that any two
solutions agree: otherwise there were a least argument at which they differ, by
`LeastNatural`, and the recursion has them agree there.

### EventLoopProofs

* `TypeCorrect`: `Spec => []TypeOK`. The strengthening `TypeInv`
  bounds the index: `n <= eventCount` while a callback runs.
* `KernelNeverDangles`: `Spec => [](KernelAgrees /\ NodesOwned)`. The two are
  inductive only together (`RegistryInv`): that an entry of the interest list points
  to the descriptor's own element needs that no other descriptor can own it, and that
  an erased element is out of the kernel needs that the kernel's entry exists only
  for open descriptors.
* `ErasedIsNeverCalled`: `Spec => []StaleCallOnlyFromWindow`. `LiveInv` says of the
  batch, as long as `raced` is not set, that what is flagged has a callback and that
  no two entries name the same element, which is why the `break` in the masking loop
  is harmless. The exception is necessary: see run `eventloop_stale`.
* `WakeupsKept`: `Spec => []NoLostWakeup`. The property accepts any flagged entry of
  the batch, which is not inductive: the loop may have gone past it. `Attended` asks
  for an entry that the dispatcher has still to reach, in this round or, when `again`
  is set, in the next, and, while the entry's callback runs, that it runs for the
  owner of the element and has not returned "nothing left". `Orderly` says that every
  round starts with the first entry. A close and a new registration of the same
  number in the middle of a batch, and a map element that moves to another descriptor,
  are the cases where `RegistryInv` is needed: only the owner of an element has an
  entry of the interest list that points to it.

### TimerProofs

* `ReportsOnce`: `Spec => []SingleShotReportsOnce`; `CanceledStaysSilent`:
  `Spec => SilentAfterCancel`, an action property; for any number of threads, calls
  of `set` and nested callbacks. Both rest on `TimerInv`. `OnlySetIsUsed` and
  `BringsItsOwn` say that a callback is known to nobody before its `set` and that
  every `set` brings its own; `InstalledOnce` and `TakenOut` that a callback is in at
  most one place (on its way in, installed, in the hands of `cancel`) and has not
  been told of a cancellation as long as it can be called; `RunsAsAsked` and
  `FiredIsOver` that the timerfd runs in the mode of the setting it has, and that a
  single-shot setting that is still to elapse has not fired. That an expiration is
  reported to the setting it belongs to when the threads do not overlap is
  `ProgrammedOnce`, `OnlyLoopReads` and `AloneInside`.
* `StaysPending`: `Spec => []SetTimerIsPending`, inductive together with `TimerInv`.

### StreamProofs

* `StreamInOrder`: `Spec => [](StreamAfterLeftovers /\ BufferContinues)`, for every
  size of the buffer and of the requests and any number of connections.
  `BufferContinues` is the strengthening: it says where in the stream the bytes in
  `m_buffer` are from.
* `BytesReported`: `Spec => []EveryByteReported`. `CountInv` adds that between calls
  nothing is on its way, so that a failed request adds nothing.
* `RestIsDescribed`: `SendSpec => []BlocksDescribeRest`; `SendsAllInOrder`:
  `SendSpec => []SentInOrder`, for any number and size of blocks and any sequence of
  partial writes. In `SendInv`, `Contiguous` says that the blocks from `pBlockPos` on
  lie one behind the other up to the last byte, `CursorAtRest` that the first of them
  begins where the bytes on the wire end (but for `remainingOffset` while the
  reorganization runs) and that the array is not left while bytes remain,
  `WireInOrder` that sent and remaining bytes make the total, and `CallResult` what is
  returned. What `sendmsg` is offered is a concatenation of the blocks; `IovIs`
  computes it.

### TcpServerProofs

Objects can be in the finite set `Stacks` of call stacks; that no action leaves it is
part of `Types`.

* `DescriptorsKept`: `Spec => []UsesOwnDescriptor`; `CallbacksAlive`:
  `Spec => []NoDanglingCallback`; `DescriptorsClosable`: `Spec => []NoLeak`.
  `DescriptorInv` adds that an object in a call exists (`BusyIsAlive`) and, for the
  dangerous order close, erase, reset of `disconnect`, that the descriptor is not the
  object's any more while it erases and that the first erased registration stays
  erased (`ErasesClosed`), although the number may have a new owner.
* `ServerServes`: `Spec => []NoClientStranded`; `StopHitsOwn`:
  `Spec => []OnlySecondStopHits`. `SharingInv`
  says how server and sockets share the numbers: who has a number that its former
  owner is still erasing counts as robbed, nobody closes a lost descriptor, epoll
  watches no closed one, and the server's callback is registered for its own only.
* `WatchesWhatWasAsked`: `Spec => []WatchedAsAsked`. The property speaks of the time
  between calls; `AskedInv` says for every point of every call which registrations
  `connect` has made already and which it has still to make.

### NetlinkProofs

* `ListIsNewEnough`: `Spec => []ListBeforeEvent`. `Flow` follows the messages: the
  `update` of `process`, in either thread, asks the kernel after the message was
  received (`UpdatesFirst`); a change the list does not show is in the queue or in the
  hand of a `process` (`ChangesCome`); after an overrun the queue is full and the list
  is excused or current (`OverrunFull`); and the loop waits for an edge only if
  nothing is left to be told (`Awake`).
* `ApipaAtTheEnd`: `Spec => []ApipaLast`. `ApipaInv` says it of the maps that calls of
  `update` are still building, too, and of all positions, not only the first.
* `AdaptersFollow`: `Spec => []AdaptersCurrent`. `JobsExact` compares the map of an
  `update` whose kernel has not changed since `getifaddrs` with the entries already
  handled, down to the order of the addresses; `ListExact` is what is left of it when
  the map is stored. That the list is of the present version once the loop is idle
  comes from `Flow`.
* `UserKnowsKernel`: `Spec => []EventsFollowKernel`. The property holds when
  everything was told; in between, `UserFollows` says that the user is right about
  everything no message is to come about, and `LastIsTrue` that the last message about
  a link or an address tells how it is now. The messages to come are those in the
  queue and in the hand of either thread (`Told`); `Dated` puts the queue behind those
  that are being handled, so that only two callbacks can change places. At `start` the
  user begins with the list, which may be older than the socket's first message or
  already contain what a message is still to say: `Fresh` says for list and running
  updates that they are right about every address without a newer message, which makes
  both harmless.

### MulticastServerProofs

* `LeavesNothing`: `Spec => []NothingLeftBehind`. `SocketInv` adds that the receive
  member names an open socket, so that the socket of a new `start` is a different one.
* `TelegramsFetched`: `Spec => []NoTelegramStranded`, inductive with `SocketInv`.
* `SendsAsAsked` and `SuccessIsTrue`: `Spec => []SentAsAsked`,
  `Spec => []SuccessMeansSent`. `SendInv` follows a thread through its list of
  adapters; `OptionSet` says that a thread which is not marked finds the options it has
  set. A `start` under a sending thread gives it a new socket without them; it marks the
  threads between the options and `sendto`, and `MixedJobs` shows that a marked thread
  keeps what the rest of the invariant says of it.

### SysStringProofs

Four parts that share no state.

* `NotifierExact`: `Spec => [](NotifiedEqualsCalled /\ NoNotifyStuck)`.
  `NotifierInv` adds that calls are left only while `process` is in its loop, and that
  an edge dropped by a stopping loop leaves notifications in the counter.
* `NotifierImplements`: `Spec => Abstract!Spec`, the safety part of
  the refinement. Every step of `Notifier` is a step of `Notification` or leaves
  `counter + left` and the two counts alone; `NotifierInv` is needed for
  `ProcessRead`, which moves the counter to `left` and must find `left` at 0.
* `CommandIsSound`: `CommandSpec => []CommandSound`, for `ExecuteCommand` alone (the
  run composes it with the string functions). `CommandInv` says which process has
  closed which end of the pipe at each point of the call and that, unless a fork of
  another thread came in between, nobody else has an end.
* `SplitsAndTrims`: `StringsSpec => []SplitAndTrimExact`. `CutAt(p, c, t, s)` says of
  the pieces `p` at which positions `c` of the text they begin; it follows from the
  recursion of `split`, and the reference definition, which puts the pieces together
  again and looks for separators in them, is computed from it.
* `ReplacesAll`: `StringsSpec => []ReplaceExact`. While the loop runs, the text is a
  mixture of `original` and of what is to be returned. `ReplaceInv` says which, for
  the cases of the property: with a substitute of the same length (`Even`) the first
  pieces are joined by the substitute, the rest still by the search text, and
  `position` is where a piece begins, since what is skipped and what is inserted are
  equally long; with one occurrence and a shorter substitute (`Once`) there is one step
  at most, after which `position` lies behind the begin of the last piece, which has no
  occurrence. With an empty search text the call never returns.
* `AddressesAreExact`: `AddressesInit => AddressesExact`; the functions are pure, and
  any text, length and netmask is an input. `NetmaskIs` is the central lemma: of the
  count `Ones` that the loop over the bits makes, the check for gaps leaves only words
  of n ones and then zeros. `isValidNetmask` does without that check: by
  `NetmasksAreAccepted` it accepts the netmasks of 1 to 31 bits and every word with a
  gap, `NoGap` says that there is no third kind. What is said of subnets and of reserved
  addresses holds for texts of four plain decimal numbers, which `ToUInt` does not
  change (`SmallUInt`). `NetmaskOfPrefix` follows the 32 shifts of
  `getNetmaskFromPrefix`, `BitsCounted` the octets of an IPv6 netmask.
  `SameMasked` reduces equality of subnets to the bits under the netmask, and
  `BitsOfOctet` and `OctetOfBits` connect octets with bits.

### WindowsLoopProofs

* `LoopReturnsWhenAsked`: `Spec => []ReturnsOnlyWhenAsked`; `TimerReports`: `Spec =>
  []TimerReportsItsSetting`. `WindowsInv` says that a handle belongs to one timer from
  its creation to its deletion (`Owners`), which packets may be in the port and in the
  hand of the loop and how they relate to the timers' present settings (`Travels`),
  that without an overlap the port holds no packet with key NULL but that of a `stop`
  (`StopsAsked`), and where the expiration of a set timer is (`Reports`).
* `WindowsNotifies`: `Spec => NotifiesOneByOne`, the refinement of `Notification`.
  The calls pending are the packets of the notifier in the port and the one the loop
  has taken; the steps of sockets and timers, which append and remove packets of
  theirs, leave that number alone.

### Only model-checked

The liveness properties `EverySignaledServed`, `StopHonouredWhenQuiet`,
`SetTimerFires`, `CompleteEnds`, `SendEnds`, `ReplaceEnds` and the liveness part of
`ImplementsNotification`: fairness and ENABLED are out of the prover's reach. Every
other property of the passing runs is stated by a theorem.

## Not modelled

* `PidFile`, the exception classes, the stack printer: no state that changes.
* `wmi.cpp`, the getters of `Netadapter` and `NetadapterList`, the bytes of netlink
  messages, `checkSockAddr`, `isFirewire`, `isLinkLocalAddress` and `equal` of
  `Ipv6Address`: queries of the operating system or comparisons of what it returns.
* `executeCommand` on `popen`: it reads a file to its end.
* `setMulticastLoop`: sets one option.
* Windows communication: overlapped I/O, whose behaviour between a call and its
  completion is that of the operating system; the sources show too little of it to
  state more than `WindowsLoop` does for a socket's packets.

## Plan

1. Done: the modules above and their runs.
2. Done: the proofs above.
3. An abstract dispatcher (a level-triggered set of pending events and
   registrations) that `EventLoop` implements.
