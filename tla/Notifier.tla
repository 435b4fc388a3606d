------------------------------ MODULE Notifier ------------------------------
(***************************************************************************)
(* The notifier of lib/sys/linux/notifier.cpp: an eventfd whose counter    *)
(* says how often the callback has to be called.  Any thread notifies; the *)
(* event loop calls process().  The eventfd is external.                   *)
(***************************************************************************)
EXTENDS Naturals

CONSTANTS
  Handlers,   \* callbacks the user sets
  Nop,        \* the default callback
  MaxCount,   \* largest value an eventfd counter takes (2^64 - 2)
  MaxNotify   \* bound: successful calls of notify()

ASSUME CountAssumption == MaxCount \in Nat \ {0} /\ MaxNotify \in Nat

VARIABLES
  handler,   \* m_eventHandler
  counter,   \* value of the eventfd
  edge,      \* the eventfd is on the ready list of the loop
  pc,        \* where process() is
  left,      \* iterations its loop still has to do
  notified,  \* successful calls of notify()
  called,    \* callbacks called
  lost,      \* calls given up because a callback threw or the notifier ended
  stalled    \* stop() of the loop used up the edge of what the counter holds

vars == <<handler, counter, edge, pc, left, notified, called, lost, stalled>>

(* The constructor registers process() in the event loop, and addEvent      *)
(* calls it once before anybody else knows the notifier.                    *)
Init ==
  /\ handler = Nop
  /\ counter = 0
  /\ edge = FALSE
  /\ pc = "constructing"
  /\ left = 0
  /\ notified = 0
  /\ called = 0
  /\ lost = 0
  /\ stalled = FALSE

Usable == pc \notin {"constructing", "destroyed"}

(* An empty callback is replaced by nop. *)
Set(h) ==
  /\ Usable
  /\ h \in Handlers \cup {Nop}
  /\ handler' = h
  /\ UNCHANGED <<counter, edge, pc, left, notified, called, lost, stalled>>

(* At MaxCount the write fails with EAGAIN and notify() returns -1. *)
Notify ==
  /\ Usable
  /\ notified < MaxNotify
  /\ counter < MaxCount
  /\ counter' = counter + 1
  /\ edge' = TRUE
  /\ notified' = notified + 1
  /\ stalled' = FALSE
  /\ UNCHANGED <<handler, pc, left, called, lost>>

(* execute(): epoll_wait reports the edge of an eventfd that can be read, *)
(* process() is called ...                                                *)
Wakeup ==
  /\ pc = "idle"
  /\ edge
  /\ edge' = FALSE
  /\ pc' = IF counter > 0 THEN "process" ELSE "idle"
  /\ UNCHANGED <<handler, counter, left, notified, called, lost, stalled>>

(* ... unless the stop event of the loop comes before it in the same batch: *)
(* execute() returns, and the edge is gone when it is called again.         *)
WakeupStopped ==
  /\ pc = "idle"
  /\ edge
  /\ edge' = FALSE
  /\ stalled' = (counter > 0)
  /\ UNCHANGED <<handler, counter, pc, left, notified, called, lost>>

(* The read fails: nothing to do. *)
ProcessNothing ==
  /\ pc \in {"constructing", "process"}
  /\ counter = 0
  /\ pc' = "idle"
  /\ UNCHANGED <<handler, counter, edge, left, notified, called, lost, stalled>>

(* The read takes the whole counter and resets it. *)
ProcessRead ==
  /\ pc = "process"
  /\ counter > 0
  /\ left' = counter
  /\ counter' = 0
  /\ pc' = "calling"
  /\ UNCHANGED <<handler, edge, notified, called, lost, stalled>>

(* Mutant: one callback per wakeup. *)
ProcessCallOnce ==
  /\ pc = "calling"
  /\ left > 0
  /\ called' = called + 1
  /\ left' = 0
  /\ UNCHANGED <<handler, counter, edge, pc, notified, lost, stalled>>

(* One iteration of the loop over eventCount. *)
ProcessCall ==
  /\ pc = "calling"
  /\ left > 0
  /\ called' = called + 1
  /\ left' = left - 1
  /\ UNCHANGED <<handler, counter, edge, pc, notified, lost, stalled>>

(* The exception leaves process(); the event loop catches it, and calls      *)
(* process() again if other events of its batch have more to do.             *)
ProcessThrow ==
  /\ pc = "calling"
  /\ left > 0
  /\ handler # Nop
  /\ called' = called + 1
  /\ left' = 0
  /\ lost' = lost + left - 1
  /\ pc' \in {"idle", "process"}
  /\ UNCHANGED <<handler, counter, edge, notified, stalled>>

(* Mutant: process() drops what arrived while it was calling. *)
ProcessReturnClears ==
  /\ pc = "calling"
  /\ left = 0
  /\ pc' = "idle"
  /\ edge' = FALSE
  /\ UNCHANGED <<handler, counter, left, notified, called, lost, stalled>>

ProcessReturn ==
  /\ pc = "calling"
  /\ left = 0
  /\ pc' = "idle"
  /\ UNCHANGED <<handler, counter, edge, left, notified, called, lost, stalled>>

(* The destructor.  eraseEvent waits for process(), and the pending event is *)
(* turned off: what the counter holds is given up.                           *)
Destroy ==
  /\ pc = "idle"
  /\ pc' = "destroyed"
  /\ counter' = 0
  /\ edge' = FALSE
  /\ lost' = lost + counter
  /\ stalled' = FALSE
  /\ UNCHANGED <<handler, left, notified, called>>

Process == ProcessNothing \/ ProcessRead \/ ProcessCall \/ ProcessThrow \/ ProcessReturn

Next == Notify \/ Wakeup \/ WakeupStopped \/ Process \/ Destroy \/ \E h \in Handlers \cup {Nop} : Set(h)

Spec == Init /\ [][Next]_vars

(* The loop is executed, after a stop() once more, and every callback returns. *)
LiveSpec == Spec /\ WF_vars(Wakeup) /\ WF_vars(Process)

-----------------------------------------------------------------------------
(* Every variable has its type. *)
TypeOK ==
  /\ handler \in Handlers \cup {Nop}
  /\ counter \in 0..MaxCount
  /\ edge \in BOOLEAN
  /\ pc \in {"constructing", "idle", "process", "calling", "destroyed"}
  /\ left \in 0..MaxCount
  /\ notified \in 0..MaxNotify
  /\ called \in Nat
  /\ lost \in Nat
  /\ stalled \in BOOLEAN

(* What notifier.h:17 says: notified n times until it is processed, the      *)
(* callback is executed n times.  Every successful notify() is a call made,  *)
(* a call the running loop of process() still makes, or in the counter; the  *)
(* only exception are the calls that are given up when a callback throws or  *)
(* the notifier ends, none of which is made up for later.                    *)
NotifiedEqualsCalled == notified = called + left + counter + lost

(* Calls left to do are only ever known to a process() that does them. *)
LeftOnlyWhileCalling == left > 0 => pc = "calling"

(* Notifications from other threads while process() reads or calls back do   *)
(* not get stuck in the counter: the loop is going to call process(), unless *)
(* its stop() took the edge; then the next notification brings them.         *)
NoNotifyStuck == counter > 0 => edge \/ pc = "process" \/ stalled

Abstract == INSTANCE Notification WITH pending <- counter + left, open <- pc # "destroyed"

(* The eventfd with its counter and the loop of process() implement the      *)
(* promise of notifier.h:17: each step is one notify(), one call or not seen *)
(* from outside, and as long as the loop is executed every call is made,     *)
(* also for a notify() between the read of the counter and the return of     *)
(* process(), which only a new edge brings back.  What a stop() of the loop  *)
(* leaves in the counter is called with the next notification.               *)
ImplementsNotification == Abstract!LiveSpec
=============================================================================
