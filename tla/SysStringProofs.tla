-------------------------- MODULE SysStringProofs ---------------------------
(***************************************************************************)
(* Proofs about four parts that share no state: Notifier, for any limit of *)
(* the eventfd counter; ExecuteCommand, for any number of calling threads, *)
(* any size of the pipe and any stdin; the helpers of lib/string, for any  *)
(* set of characters and texts of any length; and the functions on         *)
(* addresses, for any texts and netmasks.                                  *)
(***************************************************************************)
EXTENDS Notifier, ExecuteCommand, Strings, Addresses, SequenceTheorems, WellFoundedInduction, TLAPS

-----------------------------------------------------------------------------
(***************************************************************************)
(* Notifier                                                                *)
(***************************************************************************)

(* LeftOnlyWhileCalling keeps a read from overwriting calls still to be made. *)
NotifierInv ==
  /\ TypeOK /\ NotifiedEqualsCalled /\ LeftOnlyWhileCalling /\ NoNotifyStuck
  /\ stalled => counter > 0 /\ ~edge /\ pc = "idle"

(* Every step of notify(), set(), the loop and process() keeps it. *)
LEMMA NotifierStep ==
  ASSUME NotifierInv, [Next]_vars
  PROVE  NotifierInv'
<1> USE CountAssumption
<1> USE DEF NotifierInv, TypeOK, NotifiedEqualsCalled, LeftOnlyWhileCalling, NoNotifyStuck
<1>1. CASE Notify
  <2>1. edge' \in BOOLEAN /\ stalled' \in BOOLEAN
    BY <1>1 DEF Notify
  <2>2. NoNotifyStuck' /\ ~stalled'
    BY <1>1 DEF Notify
  <2> QED BY <1>1, <2>1, <2>2 DEF Notify
<1>2. CASE Wakeup
  <2>1. edge' \in BOOLEAN
    BY <1>2 DEF Wakeup
  <2>2. NoNotifyStuck'
    BY <1>2 DEF Wakeup
  <2> QED BY <1>2, <2>1, <2>2 DEF Wakeup
<1>11. CASE WakeupStopped
  <2>1. edge' \in BOOLEAN
    BY <1>11 DEF WakeupStopped
  <2>2. CASE counter > 0
    <3>1. stalled' = TRUE
      BY <1>11, <2>2 DEF WakeupStopped
    <3> QED BY <1>11, <2>1, <2>2, <3>1 DEF WakeupStopped
  <2>3. CASE ~(counter > 0)
    <3>1. stalled' = FALSE
      BY <1>11, <2>3 DEF WakeupStopped
    <3>2. stalled' \in BOOLEAN /\ ~stalled'
      BY <3>1
    <3> QED BY <1>11, <2>1, <2>3, <3>2 DEF WakeupStopped
  <2> QED BY <2>2, <2>3
<1>3. CASE ProcessNothing
  BY <1>3 DEF ProcessNothing
<1>4. CASE ProcessRead
  BY <1>4 DEF ProcessRead
<1>5. CASE ProcessCall
  BY <1>5 DEF ProcessCall
<1>6. CASE ProcessThrow
  BY <1>6 DEF ProcessThrow
<1>7. CASE ProcessReturn
  BY <1>7 DEF ProcessReturn
<1>8. CASE \E h \in Handlers \cup {Nop} : Set(h)
  BY <1>8 DEF Set
<1>9. CASE Destroy
  <2>1. edge' \in BOOLEAN /\ stalled' \in BOOLEAN
    BY <1>9 DEF Destroy
  <2>2. ~stalled'
    BY <1>9 DEF Destroy
  <2> QED BY <1>9, <2>1, <2>2 DEF Destroy
<1>10. CASE UNCHANGED vars
  BY <1>10 DEF vars
<1> QED
  BY <1>1, <1>2, <1>3, <1>4, <1>5, <1>6, <1>7, <1>8, <1>9, <1>10, <1>11 DEF Next, Process

(* It holds in the beginning. *)
LEMMA NotifierStart == Init => NotifierInv
<1> SUFFICES ASSUME Init PROVE NotifierInv
  OBVIOUS
<1>1. edge \in BOOLEAN /\ stalled \in BOOLEAN
  BY DEF Init
<1>2. ~stalled
  BY DEF Init
<1> QED
  BY <1>1, <1>2, CountAssumption
  DEF Init, NotifierInv, TypeOK, NotifiedEqualsCalled, LeftOnlyWhileCalling, NoNotifyStuck

(* Exactly n callbacks are made for n notifications, except for those given  *)
(* up when one throws, and none gets stuck, whatever the limit of the        *)
(* counter and however notify() interleaves with the read and the calls of   *)
(* process().                                                                *)
THEOREM NotifierExact == Spec => [](NotifiedEqualsCalled /\ NoNotifyStuck)
<1>1. NotifierInv /\ [Next]_vars => NotifierInv'
  BY NotifierStep
<1>2. NotifierInv => NotifiedEqualsCalled /\ NoNotifyStuck
  BY DEF NotifierInv
<1> QED BY NotifierStart, <1>1, <1>2, PTL DEF Spec

(* Seen through counter + left, every step of the notifier is a step of      *)
(* Notification or none: a read of the counter, an edge and set() are not    *)
(* seen.                                                                     *)
LEMMA NotifierStepSimulates ==
  ASSUME NotifierInv, [Next]_vars
  PROVE  [Abstract!Next]_(Abstract!vars)
<1> USE CountAssumption DEF NotifierInv, TypeOK, LeftOnlyWhileCalling, Abstract!Next, Abstract!vars
<1>1. CASE Notify
  BY <1>1 DEF Notify, Usable, Abstract!Notify
<1>2. CASE Wakeup
  BY <1>2 DEF Wakeup
<1>11. CASE WakeupStopped
  <2>1. CASE counter > 0
    <3>1. (pc # "destroyed") = TRUE /\ stalled' = TRUE
      BY <1>11, <2>1 DEF WakeupStopped
    <3> QED BY <1>11, <2>1, <3>1 DEF WakeupStopped, Abstract!Stall
  <2>2. CASE ~(counter > 0)
    BY <1>11, <2>2 DEF WakeupStopped
  <2> QED BY <2>1, <2>2
<1>3. CASE ProcessNothing
  BY <1>3 DEF ProcessNothing
<1>4. CASE ProcessRead
  BY <1>4 DEF ProcessRead
<1>5. CASE ProcessCall
  BY <1>5 DEF ProcessCall, Abstract!Call
<1>6. CASE ProcessThrow
  <2>1. counter' + left' \in 0..(counter + left) - 1
    BY <1>6 DEF ProcessThrow
  <2> QED BY <1>6, <2>1 DEF ProcessThrow, Abstract!CallThrows
<1>7. CASE ProcessReturn
  BY <1>7 DEF ProcessReturn
<1>8. CASE \E h \in Handlers \cup {Nop} : Set(h)
  BY <1>8 DEF Set
<1>9. CASE Destroy
  <2>1. counter' + left' = 0 /\ (pc # "destroyed") = TRUE /\ (pc' # "destroyed") = FALSE
    BY <1>9 DEF Destroy
  <2> QED BY <1>9, <2>1 DEF Destroy, Abstract!Close
<1>10. CASE UNCHANGED vars
  BY <1>10 DEF vars
<1> QED
  BY <1>1, <1>2, <1>3, <1>4, <1>5, <1>6, <1>7, <1>8, <1>9, <1>10, <1>11 DEF Next, Process

(* The notifier implements the safety part of Notification for every limit   *)
(* of the counter: what a user sees of notify(), process() and the callbacks *)
(* is one call per notification.                                             *)
THEOREM NotifierImplements == Spec => Abstract!Spec
<1>1. Init => Abstract!Init
  BY DEF Init, Abstract!Init
<1>2. NotifierInv /\ [Next]_vars => NotifierInv'
  BY NotifierStep
<1>3. NotifierInv /\ [Next]_vars => [Abstract!Next]_(Abstract!vars)
  BY NotifierStepSimulates
<1> QED BY NotifierStart, <1>1, <1>2, <1>3, PTL DEF Spec, Abstract!Spec

-----------------------------------------------------------------------------
(***************************************************************************)
(* ExecuteCommand                                                          *)
(***************************************************************************)

CallerStates == {"pipe", "fork", "parent", "write", "wait", "returned"}
ChildStates == {"none", "forked", "exec", "running", "astray"} \cup Ended
Processes == Callers \cup {Caller}

(* Every variable has its type. *)
CommandTypes ==
  /\ parent \in [Callers -> CallerStates]
  /\ child \in [Callers -> ChildStates]
  /\ readers \in [Callers -> SUBSET Processes]
  /\ writers \in [Callers -> SUBSET Processes]
  /\ result \in [Callers -> {0, -1}]
  /\ interrupted \subseteq Callers
  /\ astray \subseteq Callers
  /\ overlapped \in BOOLEAN

(* There is a child once fork() has returned well. *)
ChildIsForked(t) ==
  /\ parent[t] \in {"pipe", "fork"} => child[t] = "none"
  /\ parent[t] \in {"parent", "write", "wait"} => child[t] # "none"

(* Who has closed which end of the pipe: the caller the read end before it   *)
(* writes and the write end before it waits, the child the write end before  *)
(* it executes the command.                                                  *)
EndsClosed(t) ==
  /\ child[t] # "none" /\ parent[t] \in {"write", "wait", "returned"} => Caller \notin readers[t]
  /\ child[t] # "none" /\ parent[t] \in {"wait", "returned"} => Caller \notin writers[t]
  /\ child[t] \notin {"none", "forked"} => t \notin writers[t]

(* As long as no child inherits the pipe of another call, nobody but caller  *)
(* and child can write to it.                                                *)
OwnWriters(t) == ~overlapped => writers[t] \subseteq {Caller, t}

(* The result of a call that was not disturbed is that of its child. *)
ResultTrue(t) ==
  parent[t] = "returned" /\ result[t] = 0 /\ t \notin interrupted \cup astray => child[t] = "success"

CallInv(t) == ChildIsForked(t) /\ EndsClosed(t) /\ OwnWriters(t) /\ ResultTrue(t)

CommandInv == CommandTypes /\ \A t \in Callers : CallInv(t)

(* Only the states of thread t and its child and who holds which pipe        *)
(* matter to the invariant of t.                                             *)
CallView(t) ==
  <<parent[t], child[t], readers[t], writers[t], result[t], t \in interrupted, t \in astray, overlapped>>

LEMMA CallInvStays ==
  ASSUME NEW t \in Callers, CallInv(t), UNCHANGED CallView(t)
  PROVE  CallInv(t)'
BY DEF CallView, CallInv, ChildIsForked, EndsClosed, OwnWriters, ResultTrue

(* The steps of a caller. *)
LEMMA CallerStep ==
  ASSUME CommandInv, NEW t \in Callers,
         Pipe(t) \/ CloseRead(t) \/ Write(t) \/ Close(t) \/ Wait(t) \/ WaitInterrupted(t)
  PROVE  CommandInv'
<1>1. CommandTypes'
  BY DEF CommandInv, CommandTypes, CallerStates, ChildStates, Processes, Pipe, CloseRead, Write, Close, Written,
         Wait, WaitInterrupted, Goes, Returns, At, callVars, pipeVars
<1>2. ASSUME NEW u \in Callers \ {t}
      PROVE  CallInv(u)'
  <2>1. UNCHANGED CallView(u)
    BY DEF CallView, CommandInv, CommandTypes, Pipe, CloseRead, Write, Close, Written,
           Wait, WaitInterrupted, Goes, Returns, At, callVars, pipeVars
  <2> QED BY <2>1, CallInvStays DEF CommandInv
<1>3. CallInv(t)
  BY DEF CommandInv
<1>4. CallInv(t)'
  <2>1. CASE Pipe(t)
    BY <2>1, <1>3 DEF CommandInv, CommandTypes, CallInv, ChildIsForked, EndsClosed, OwnWriters, ResultTrue,
                      Pipe, Goes, Returns, At
  <2>2. CASE CloseRead(t)
    BY <2>2, <1>3 DEF CommandInv, CommandTypes, CallInv, ChildIsForked, EndsClosed, OwnWriters, ResultTrue,
                      CloseRead, Goes, At, callVars
  <2>3. CASE Write(t)
    BY <2>3, <1>3 DEF CommandInv, CommandTypes, CallInv, ChildIsForked, EndsClosed, OwnWriters, ResultTrue,
                      Write, At, callVars
  <2>4. CASE Close(t)
    BY <2>4, <1>3 DEF CommandInv, CommandTypes, CallInv, ChildIsForked, EndsClosed, OwnWriters, ResultTrue,
                      Close, Written, Goes, At, callVars
  <2>5. CASE Wait(t)
    BY <2>5, <1>3 DEF CommandInv, CommandTypes, CallInv, ChildIsForked, EndsClosed, OwnWriters, ResultTrue,
                      Wait, Goes, Returns, At, pipeVars
  <2>6. CASE WaitInterrupted(t)
    BY <2>6, <1>3 DEF CommandInv, CommandTypes, CallInv, ChildIsForked, EndsClosed, OwnWriters, ResultTrue,
                      WaitInterrupted, Goes, Returns, At, pipeVars
  <2> QED BY <2>1, <2>2, <2>3, <2>4, <2>5, <2>6
<1> QED BY <1>1, <1>2, <1>4 DEF CommandInv

(* fork(): the child of t gets the pipes of all calls. *)
LEMMA ForkStep ==
  ASSUME CommandInv, NEW t \in Callers, Fork(t)
  PROVE  CommandInv'
<1> DEFINE Inherited(holders) == [u \in Callers |-> IF Caller \in holders[u] THEN holders[u] \cup {t} ELSE holders[u]]
<1>1. CASE /\ Goes(t, "parent")
           /\ child' = [child EXCEPT ![t] = "forked"]
           /\ readers' = Inherited(readers)
           /\ writers' = Inherited(writers)
           /\ overlapped' = (overlapped \/ \E u \in Callers \ {t} : Caller \in writers[u])
           /\ UNCHANGED result
  <2>1. UNCHANGED <<interrupted, astray>> /\ parent[t] = "fork"
    BY DEF Fork, At
  <2>2. CommandTypes'
    <3>1. readers' \in [Callers -> SUBSET Processes] /\ writers' \in [Callers -> SUBSET Processes]
      BY <1>1 DEF CommandInv, CommandTypes, Processes
    <3> QED BY <1>1, <2>1, <3>1 DEF CommandInv, CommandTypes, Goes, CallerStates, ChildStates
  <2>3. ASSUME NEW u \in Callers \ {t}
        PROVE  CallInv(u)'
    <3>1. /\ parent'[u] = parent[u] /\ child'[u] = child[u] /\ result'[u] = result[u]
          /\ readers'[u] = IF Caller \in readers[u] THEN readers[u] \cup {t} ELSE readers[u]
          /\ writers'[u] = IF Caller \in writers[u] THEN writers[u] \cup {t} ELSE writers[u]
          /\ ~overlapped' => ~overlapped /\ writers'[u] = writers[u]
      BY <1>1 DEF CommandInv, CommandTypes, Goes
    <3>2. t # Caller /\ u # t
      BY CommandAssumption
    <3> QED BY <2>1, <3>1, <3>2 DEF CommandInv, CallInv, ChildIsForked, EndsClosed, OwnWriters, ResultTrue
  <2>4. CallInv(t)'
    <3>1. /\ parent'[t] = "parent" /\ child'[t] = "forked"
          /\ writers'[t] \subseteq writers[t] \cup {t}
          /\ ~overlapped' => ~overlapped
      BY <1>1 DEF CommandInv, CommandTypes, Goes
    <3> QED BY <3>1 DEF CommandInv, CallInv, ChildIsForked, EndsClosed, OwnWriters, ResultTrue
  <2> QED BY <2>2, <2>3, <2>4 DEF CommandInv
<1>2. CASE Returns(t, -1) /\ UNCHANGED <<child, readers, writers, overlapped>>
  <2>1. UNCHANGED <<interrupted, astray>> /\ parent[t] = "fork"
    BY DEF Fork, At
  <2>2. CommandTypes'
    BY <1>2, <2>1 DEF CommandInv, CommandTypes, Goes, Returns, CallerStates
  <2>3. ASSUME NEW u \in Callers \ {t}
        PROVE  CallInv(u)'
    <3>1. UNCHANGED CallView(u)
      BY <1>2, <2>1 DEF CallView, CommandInv, CommandTypes, Goes, Returns
    <3> QED BY <3>1, CallInvStays DEF CommandInv
  <2>4. CallInv(t)'
    BY <1>2, <2>1 DEF CommandInv, CommandTypes, Goes, Returns, CallInv, ChildIsForked, EndsClosed, OwnWriters, ResultTrue
  <2> QED BY <2>2, <2>3, <2>4 DEF CommandInv
<1> QED BY <1>1, <1>2 DEF Fork

(* The steps of a child before it ends. *)
LEMMA ChildStep ==
  ASSUME CommandInv, NEW t \in Callers, Redirect(t) \/ Exec(t) \/ Reads(t)
  PROVE  CommandInv'
<1>1. CommandTypes'
  BY DEF CommandInv, CommandTypes, ChildStates, Processes, Redirect, Exec, Reads, Becomes, callVars, pipeVars
<1>2. ASSUME NEW u \in Callers \ {t}
      PROVE  CallInv(u)'
  <2>1. UNCHANGED CallView(u)
    BY DEF CallView, CommandInv, CommandTypes, Redirect, Exec, Reads, Becomes, callVars, pipeVars
  <2> QED BY <2>1, CallInvStays DEF CommandInv
<1>3. CallInv(t)
  BY DEF CommandInv
<1>4. CallInv(t)'
  <2>1. CASE Redirect(t)
    BY <2>1, <1>3 DEF CommandInv, CommandTypes, CallInv, ChildIsForked, EndsClosed, OwnWriters, ResultTrue,
                      Redirect, Becomes
  <2>2. CASE Exec(t)
    BY <2>2, <1>3 DEF CommandInv, CommandTypes, CallInv, ChildIsForked, EndsClosed, OwnWriters, ResultTrue,
                      Exec, Becomes, callVars, pipeVars
  <2>3. CASE Reads(t)
    BY <2>3, <1>3 DEF CommandInv, CommandTypes, CallInv, ChildIsForked, EndsClosed, OwnWriters, ResultTrue,
                      Reads, callVars
  <2> QED BY <2>1, <2>2, <2>3
<1> QED BY <1>1, <1>2, <1>4 DEF CommandInv

(* The end of a child closes what it holds of all pipes. *)
LEMMA EndStep ==
  ASSUME CommandInv, NEW t \in Callers, NEW how \in Ended,
         child[t] \in {"exec", "running", "astray"}, Ends(t, how)
  PROVE  CommandInv'
<1>1. /\ child' = [child EXCEPT ![t] = how]
      /\ readers' = [u \in Callers |-> readers[u] \ {t}]
      /\ writers' = [u \in Callers |-> writers[u] \ {t}]
      /\ UNCHANGED <<parent, interrupted, astray, overlapped, result>>
  BY DEF Ends, Becomes, callVars
<1>2. CommandTypes'
  BY <1>1 DEF CommandInv, CommandTypes, ChildStates
<1>3. ASSUME NEW u \in Callers
      PROVE  CallInv(u)'
  <2>1. /\ child'[u] = IF u = t THEN how ELSE child[u]
        /\ readers'[u] = readers[u] \ {t} /\ writers'[u] = writers[u] \ {t}
    BY <1>1 DEF CommandInv, CommandTypes
  <2>2. how \notin {"none", "forked"}
    BY DEF Ended
  <2>3. CallInv(u) /\ ResultTrue(t) /\ child[t] \notin {"none", "forked", "success"}
    BY DEF CommandInv, CallInv
  <2> QED BY <1>1, <2>1, <2>2, <2>3 DEF CallInv, ChildIsForked, EndsClosed, OwnWriters, ResultTrue
<1> QED BY <1>2, <1>3 DEF CommandInv

(* 0 is returned only for a command that has ended well, no pipe is left     *)
(* open, and caller and command do not wait for each other (see              *)
(* CommandSound), whatever the other threads do.                             *)
THEOREM CommandIsSound == CommandSpec => []CommandSound
<1>1. CommandInit => CommandInv
  BY DEF CommandInit, CommandInv, CommandTypes, CallerStates, ChildStates, Processes,
         CallInv, ChildIsForked, EndsClosed, OwnWriters, ResultTrue
<1>2. CommandInv /\ [CommandStep]_commandVars => CommandInv'
  <2> SUFFICES ASSUME CommandInv, [CommandStep]_commandVars
               PROVE  CommandInv'
    OBVIOUS
  <2>1. CASE UNCHANGED commandVars
    <3>1. \A t \in Callers : UNCHANGED CallView(t)
      BY <2>1 DEF commandVars, pipeVars, callVars, CallView
    <3>2. \A t \in Callers : CallInv(t)'
      BY <3>1, CallInvStays DEF CommandInv
    <3> QED BY <2>1, <3>2 DEF CommandInv, CommandTypes, commandVars, pipeVars, callVars
  <2>2. ASSUME NEW t \in Callers, ExecFails(t) \/ \E how \in {"success", "failure", "signal"} : Exits(t, how)
        PROVE  CommandInv'
    BY <2>2, EndStep DEF ExecFails, Exits, Ended
  <2> QED BY <2>1, <2>2, CallerStep, ForkStep, ChildStep DEF CommandStep
<1>3. CommandInv => CommandSound
  BY DEF CommandInv, CommandTypes, CallInv, ChildIsForked, EndsClosed, OwnWriters, ResultTrue,
         CommandSound, SuccessMeansExecuted, PipeClosed, EndOfStdinSeen, At
<1> QED BY <1>1, <1>2, <1>3, PTL DEF CommandSpec

-----------------------------------------------------------------------------
(***************************************************************************)
(* The helpers of lib/string.  What a recursive definition computes is     *)
(* shown by a solution of its recursion and the least place where another  *)
(* one would differ from it.                                               *)
(***************************************************************************)

(* A nonempty set of natural numbers has a least element, and a greatest one *)
(* if it is bounded.                                                         *)
LEMMA LeastNatural ==
  ASSUME NEW S, S \subseteq Nat, S # {}
  PROVE  \E n \in S : \A m \in S : n <= m
<1>1. PICK n \in S : \A m \in S : ~ (<<m, n>> \in OpToRel(<, Nat))
  BY NatLessThanWellFounded, WFMin, Zenon
<1>2. \A m \in S : ~ (m < n)
  BY <1>1, Zenon DEF OpToRel
<1> QED BY <1>2

LEMMA GreatestNatural ==
  ASSUME NEW b \in Nat, NEW S, S \subseteq 0..b, S # {}
  PROVE  \E n \in S : \A m \in S : n >= m
<1> DEFINE T == {d \in 0..b : b - d \in S}
<1>1. T \subseteq Nat /\ T # {}
  <2>1. PICK m \in S : TRUE
    OBVIOUS
  <2>2. b - m \in T
    BY <2>1
  <2>3. T \subseteq Nat
    OBVIOUS
  <2> HIDE DEF T
  <2> QED BY <2>2, <2>3, Zenon
<1>2. PICK d \in T : \A e \in T : d <= e
  <2> HIDE DEF T
  <2> QED BY <1>1, LeastNatural
<1>3. b - d \in S
  BY <1>2
<1>4. \A m \in S : b - d >= m
  <2> SUFFICES ASSUME NEW m \in S PROVE b - d >= m
    OBVIOUS
  <2>1. b - m \in T /\ m \in 0..b
    OBVIOUS
  <2> QED BY <1>2, <2>1
<1> QED BY <1>3, <1>4

(* What the text between two positions is. *)
LEMMA CutIs ==
  ASSUME NEW t \in Seq(Chars), NEW a \in Nat, NEW b \in Nat, a <= b, b <= Len(t)
  PROVE  /\ SubSeq(t, a + 1, b) \in Seq(Chars)
         /\ Len(SubSeq(t, a + 1, b)) = b - a
         /\ \A i \in 1..(b - a) : SubSeq(t, a + 1, b)[i] = t[a + i]
<1>1. Len(t) \in Nat
  OBVIOUS
<1>2. \A i \in (a + 1)..b : t[i] \in Chars
  OBVIOUS
<1>3. SubSeq(t, a + 1, b) \in Seq(Chars)
  BY <1>1, <1>2, SubSeqProperties
<1>4. Len(SubSeq(t, a + 1, b)) = b - a
  BY <1>1
<1>5. \A i \in 1..(b - a) : SubSeq(t, a + 1, b)[i] = t[a + i]
  BY <1>1
<1> QED BY <1>3, <1>4, <1>5

(* What two texts put together are. *)
LEMMA JoinIs ==
  ASSUME NEW s \in Seq(Chars), NEW u \in Seq(Chars)
  PROVE  /\ s \o u \in Seq(Chars)
         /\ Len(s \o u) = Len(s) + Len(u)
         /\ \A i \in 1..Len(s) : (s \o u)[i] = s[i]
         /\ \A i \in 1..Len(u) : (s \o u)[Len(s) + i] = u[i]
<1>1. /\ s \o u \in Seq(Chars) /\ Len(s \o u) = Len(s) + Len(u)
      /\ \A i \in 1..Len(s) + Len(u) : (s \o u)[i] = IF i <= Len(s) THEN s[i] ELSE u[i - Len(s)]
  BY ConcatProperties
<1>2. Len(s) \in Nat /\ Len(u) \in Nat
  OBVIOUS
<1>3. ASSUME NEW i \in 1..Len(s) PROVE (s \o u)[i] = s[i]
  <2>1. i \in 1..Len(s) + Len(u) /\ i <= Len(s)
    BY <1>2
  <2> QED BY <1>1, <2>1, Zenon
<1>4. ASSUME NEW i \in 1..Len(u) PROVE (s \o u)[Len(s) + i] = u[i]
  <2>1. /\ Len(s) + i \in 1..Len(s) + Len(u) /\ ~ (Len(s) + i <= Len(s))
        /\ (Len(s) + i) - Len(s) = i
    BY <1>2
  <2> QED BY <1>1, <2>1, Zenon
<1> QED BY <1>1, <1>3, <1>4, Zenon

(* Two texts of the same length with the same characters are equal. *)
LEMMA SameText ==
  ASSUME NEW s \in Seq(Chars), NEW u \in Seq(Chars), Len(s) = Len(u),
         \A i \in 1..Len(s) : s[i] = u[i]
  PROVE  s = u
BY SeqEqual

(* A text that is cut can be put together again. *)
LEMMA CutsJoin ==
  ASSUME NEW t \in Seq(Chars), NEW a \in Nat, NEW b \in Nat, NEW c \in Nat,
         a <= b, b <= c, c <= Len(t)
  PROVE  SubSeq(t, a + 1, b) \o SubSeq(t, b + 1, c) = SubSeq(t, a + 1, c)
<1> DEFINE s == SubSeq(t, a + 1, b)
           u == SubSeq(t, b + 1, c)
           v == SubSeq(t, a + 1, c)
<1>0. b <= Len(t) /\ a <= c
  OBVIOUS
<1>1. s \in Seq(Chars) /\ Len(s) = b - a /\ \A i \in 1..(b - a) : s[i] = t[a + i]
  BY <1>0, CutIs
<1>2. u \in Seq(Chars) /\ Len(u) = c - b /\ \A i \in 1..(c - b) : u[i] = t[b + i]
  BY CutIs
<1>3. v \in Seq(Chars) /\ Len(v) = c - a /\ \A i \in 1..(c - a) : v[i] = t[a + i]
  BY <1>0, CutIs
<1> HIDE DEF s, u, v
<1>4. /\ s \o u \in Seq(Chars) /\ Len(s \o u) = Len(s) + Len(u)
      /\ \A i \in 1..Len(s) : (s \o u)[i] = s[i]
      /\ \A i \in 1..Len(u) : (s \o u)[Len(s) + i] = u[i]
  BY <1>1, <1>2, JoinIs
<1>5. ASSUME NEW i \in 1..(c - a) PROVE (s \o u)[i] = v[i]
  <2>1. CASE i <= b - a
    <3>1. i \in 1..(b - a)
      BY <2>1
    <3> QED BY <1>1, <1>3, <1>4, <3>1
  <2>2. CASE i > b - a
    <3>1. i - (b - a) \in 1..(c - b) /\ (b - a) + (i - (b - a)) = i /\ b + (i - (b - a)) = a + i
      BY <2>2
    <3>2. (s \o u)[(b - a) + (i - (b - a))] = u[i - (b - a)]
      BY <1>1, <1>2, <1>4, <3>1
    <3> QED BY <1>2, <1>3, <3>1, <3>2
  <2>3. i <= b - a \/ i > b - a
    OBVIOUS
  <2> QED BY <2>1, <2>2, <2>3, Zenon
<1>6. Len(s \o u) = Len(v) /\ Len(v) = c - a
  BY <1>1, <1>2, <1>3, <1>4, SMTT(30)
<1>7. s \o u = v
  BY <1>3, <1>4, <1>5, <1>6, SameText
<1> QED BY <1>7 DEF s, u, v

(* Where a text is found, character by character. *)
LEMMA OccursIs ==
  ASSUME NEW s \in Seq(Chars), NEW t \in Seq(Chars), NEW p \in 0..(Len(t) - Len(s))
  PROVE  Occurs(s, t, p) <=> \A i \in 1..Len(s) : t[p + i] = s[i]
<1>1. Len(s) \in Nat /\ Len(t) \in Nat /\ p \in Nat /\ p + Len(s) \in Nat
      /\ p <= p + Len(s) /\ p + Len(s) <= Len(t) /\ (p + Len(s)) - p = Len(s)
  OBVIOUS
<1> DEFINE u == SubSeq(t, p + 1, p + Len(s))
<1>2. u \in Seq(Chars) /\ Len(u) = Len(s) /\ \A i \in 1..Len(s) : u[i] = t[p + i]
  <2>1. u \in Seq(Chars) /\ Len(u) = (p + Len(s)) - p /\ \A i \in 1..((p + Len(s)) - p) : u[i] = t[p + i]
    BY <1>1, CutIs
  <2> HIDE DEF u
  <2> QED BY <1>1, <2>1
<1> HIDE DEF u
<1>3. u = s => \A i \in 1..Len(s) : t[p + i] = s[i]
  BY <1>2
<1>4. (\A i \in 1..Len(s) : t[p + i] = s[i]) => u = s
  <2> SUFFICES ASSUME \A i \in 1..Len(s) : t[p + i] = s[i] PROVE u = s
    OBVIOUS
  <2>1. \A i \in 1..Len(u) : u[i] = s[i]
    BY <1>2
  <2> QED BY <1>2, <2>1, SameText
<1> QED BY <1>3, <1>4 DEF Occurs, u

(* std::string::find returns the first occurrence, or npos if there is none. *)
LEMMA FindIs ==
  ASSUME NEW t \in Seq(Chars), NEW s \in Seq(Chars), NEW from \in Nat
  PROVE  \/ /\ Find(t, s, from) = Npos
            /\ \A p \in from..(Len(t) - Len(s)) : ~ Occurs(s, t, p)
         \/ /\ Find(t, s, from) \in from..(Len(t) - Len(s))
            /\ Find(t, s, from) # Npos
            /\ Occurs(s, t, Find(t, s, from))
            /\ \A p \in from..(Find(t, s, from) - 1) : ~ Occurs(s, t, p)
<1> DEFINE found == {p \in from..(Len(t) - Len(s)) : Occurs(s, t, p)}
<1>1. CASE found = {}
  <2>1. Find(t, s, from) = Npos
    BY <1>1, Zenon DEF Find
  <2> QED BY <1>1, <2>1
<1>2. CASE found # {}
  <2>1. Find(t, s, from) = Min(found)
    BY <1>2, Zenon DEF Find
  <2>2. found \subseteq Nat
    OBVIOUS
  <2>3. Min(found) \in found /\ \A m \in found : Min(found) <= m
    <3> HIDE DEF found
    <3>1. \E n \in found : \A m \in found : n <= m
      BY <1>2, <2>2, LeastNatural
    <3> QED BY <3>1, Zenon DEF Min
  <2> DEFINE f == Find(t, s, from)
  <2>4. f \in from..(Len(t) - Len(s)) /\ Occurs(s, t, f) /\ f # Npos
    <3>1. f \in found
      BY <2>1, <2>3, Zenon
    <3> HIDE DEF f
    <3> QED BY <3>1 DEF Npos
  <2>5. \A p \in from..(f - 1) : ~ Occurs(s, t, p)
    <3> SUFFICES ASSUME NEW p \in from..(f - 1), Occurs(s, t, p) PROVE FALSE
      OBVIOUS
    <3>1. \A m \in found : f <= m
      BY <2>1, <2>3, Zenon
    <3> HIDE DEF f
    <3>2. p \in found
      BY <2>4
    <3> QED BY <2>4, <3>1, <3>2
  <2> QED BY <2>4, <2>5
<1> QED BY <1>1, <1>2

-----------------------------------------------------------------------------
(* The pieces p of t begin at the positions c: each but the last ends where  *)
(* the separator is found first, and the next begins behind it.              *)
CutAt(p, c, t, separator) ==
  /\ p \in Seq(Seq(Chars)) /\ Len(p) >= 1
  /\ c \in [1..Len(p) -> 0..Len(t)]
  /\ \A k \in 1..(Len(p) - 1) :
       /\ Find(t, separator, c[k]) # Npos
       /\ c[k + 1] = Find(t, separator, c[k]) + Len(separator)
       /\ p[k] = SubSeq(t, c[k] + 1, Find(t, separator, c[k]))
  /\ Find(t, separator, c[Len(p)]) = Npos
  /\ p[Len(p)] = SubSeq(t, c[Len(p)] + 1, Len(t))

(* One round of the loop of split, with the pieces R[from] still to come. *)
Round(R, from, t, separator) ==
  IF Find(t, separator, from) = Npos
  THEN <<SubSeq(t, from + 1, Len(t))>>
  ELSE <<SubSeq(t, from + 1, Find(t, separator, from))>>
         \o R[Find(t, separator, from) + Len(separator)]

(* The loop goes on behind what it has found, and within the text. *)
LEMMA FindAdvances ==
  ASSUME NEW t \in Seq(Chars), NEW s \in Seq(Chars), s # <<>>, NEW from \in 0..Len(t),
         Find(t, s, from) # Npos
  PROVE  /\ Find(t, s, from) \in from..Len(t)
         /\ Find(t, s, from) + Len(s) \in (from + 1)..Len(t)
<1>1. Find(t, s, from) \in from..(Len(t) - Len(s))
  <2>1. from \in Nat
    OBVIOUS
  <2> QED BY <2>1, FindIs, Zenon
<1>2. Len(s) \in Nat /\ Len(s) > 0 /\ Len(t) \in Nat
  OBVIOUS
<1> HIDE DEF Find
<1> QED BY <1>1, <1>2

(* The recursion of Pieces has a solution: that is, the loop ends. *)
LEMMA RoundsExist ==
  ASSUME NEW t \in Seq(Chars), NEW s \in Seq(Chars), s # <<>>
  PROVE  \E R : R = [from \in 0..Len(t) |-> Round(R, from, t, s)]
<1> DEFINE n == Len(t)
           Good(d) == \E R : \A from \in (n - d)..n : R[from] = Round(R, from, t, s)
           S == {d \in 0..n : ~ Good(d)}
<1>0. n \in Nat
  OBVIOUS
<1>1. Good(n)
  <2> SUFFICES ASSUME ~ Good(n) PROVE FALSE
    OBVIOUS
  <2>1. PICK d \in S : \A e \in S : d <= e
    <3>1. S \subseteq Nat
      OBVIOUS
    <3>2. n \in S
      <4> HIDE DEF Good
      <4> QED BY <1>0
    <3> HIDE DEF S
    <3> QED BY <3>1, <3>2, LeastNatural
  <2>2. d \in 0..n /\ ~ Good(d)
    BY <2>1, Zenon
  <2>3. PICK R : \A from \in ((n - d) + 1)..n : R[from] = Round(R, from, t, s)
    <3>1. CASE d = 0
      <4>1. ((n - d) + 1)..n = {}
        BY <1>0, <3>1
      <4> QED BY <4>1, Zenon
    <3>2. CASE d # 0
      <4>1. d - 1 \in 0..n /\ ~ (d <= d - 1) /\ n - (d - 1) = (n - d) + 1
        BY <1>0, <2>2, <3>2
      <4>2. Good(d - 1)
        <5> HIDE DEF Good
        <5> QED BY <2>1, <4>1, Zenon
      <4> QED BY <4>1, <4>2, Zenon
    <3> QED BY <3>1, <3>2
  <2> DEFINE Q == [x \in (n - d)..n |-> IF x = n - d THEN Round(R, x, t, s) ELSE R[x]]
  <2>4. ASSUME NEW from \in (n - d)..n
        PROVE  Round(Q, from, t, s) = Round(R, from, t, s)
    <3>1. from \in 0..Len(t)
      BY <1>0, <2>2
    <3>2. CASE Find(t, s, from) = Npos
      BY <3>2, Zenon DEF Round
    <3>3. CASE Find(t, s, from) # Npos
      <4> DEFINE e == Find(t, s, from) + Len(s)
      <4>1. e \in (from + 1)..Len(t)
        BY <3>1, <3>3, FindAdvances
      <4> HIDE DEF e
      <4>2. e \in (n - d)..n /\ e # n - d
        BY <1>0, <2>2, <4>1, SMTT(30)
      <4>3. Q[e] = R[e]
        BY <4>2, Zenon
      <4> HIDE DEF Q
      <4> QED BY <3>3, <4>3, Zenon DEF Round, e
    <3> QED BY <3>2, <3>3
  <2>5. ASSUME NEW from \in (n - d)..n
        PROVE  Q[from] = Round(R, from, t, s)
    <3>1. CASE from = n - d
      BY <3>1, Zenon
    <3>2. CASE from # n - d
      <4>1. from \in ((n - d) + 1)..n
        BY <1>0, <2>2, <3>2, SMTT(30)
      <4>2. Q[from] = R[from]
        BY <3>2, Zenon
      <4> HIDE DEF Q
      <4> QED BY <2>3, <4>1, <4>2, Zenon
    <3> QED BY <3>1, <3>2
  <2>6. Good(d)
    <3> HIDE DEF Q
    <3> QED BY <2>4, <2>5, Zenon
  <2> QED BY <2>2, <2>6, Zenon
<1>2. PICK R : \A from \in 0..n : R[from] = Round(R, from, t, s)
  <2>1. n - n = 0
    BY <1>0
  <2> QED BY <1>1, <2>1, Zenon
<1> DEFINE Q == [from \in 0..n |-> R[from]]
<1>3. ASSUME NEW from \in 0..n PROVE Q[from] = Round(Q, from, t, s)
  <2>1. CASE Find(t, s, from) = Npos
    BY <1>2, <2>1, Zenon DEF Round
  <2>2. CASE Find(t, s, from) # Npos
    <3> DEFINE e == Find(t, s, from) + Len(s)
    <3>1. e \in (from + 1)..Len(t)
      BY <2>2, FindAdvances
    <3> HIDE DEF e
    <3>2. e \in 0..n
      BY <1>0, <3>1
    <3>3. Q[e] = R[e] /\ Q[from] = R[from]
      BY <3>2, Zenon
    <3> HIDE DEF Q
    <3> QED BY <1>2, <2>2, <3>3, Zenon DEF Round, e
  <2> QED BY <2>1, <2>2
<1>4. Q = [from \in 0..n |-> Q[from]]
  BY Zenon
<1>5. Q = [from \in 0..n |-> Round(Q, from, t, s)]
  <2> HIDE DEF Q
  <2> QED BY <1>3, <1>4, Zenon
<1> HIDE DEF Q
<1> QED BY <1>5, Zenon

(* A piece in front of pieces that are cut at c. *)
LEMMA CutInFront ==
  ASSUME NEW t \in Seq(Chars), NEW s \in Seq(Chars), s # <<>>, NEW from \in 0..Len(t),
         Find(t, s, from) # Npos, NEW q, NEW c,
         CutAt(q, c, t, s), c[1] = Find(t, s, from) + Len(s)
  PROVE  \E d : /\ CutAt(<<SubSeq(t, from + 1, Find(t, s, from))>> \o q, d, t, s)
                /\ d[1] = from
<1> DEFINE e == Find(t, s, from)
           x == SubSeq(t, from + 1, e)
           p == <<x>> \o q
           d == [k \in 1..(Len(q) + 1) |-> IF k = 1 THEN from ELSE c[k - 1]]
<1>0. /\ q \in Seq(Seq(Chars)) /\ Len(q) \in Nat /\ Len(q) >= 1
      /\ c \in [1..Len(q) -> 0..Len(t)] /\ Len(t) \in Nat
  BY DEF CutAt
<1>1. e \in from..Len(t) /\ x \in Seq(Chars)
  <2>1. e \in from..Len(t)
    BY FindAdvances
  <2> HIDE DEF e
  <2>2. from \in Nat /\ e \in Nat /\ from <= e /\ e <= Len(t)
    BY <1>0, <2>1
  <2> QED BY <2>1, <2>2, CutIs
<1> HIDE DEF x
<1>2. /\ p \in Seq(Seq(Chars)) /\ Len(p) = Len(q) + 1
      /\ p[1] = x /\ \A k \in 1..Len(q) : p[k + 1] = q[k]
  <2>1. <<x>> \in Seq(Seq(Chars)) /\ Len(<<x>>) = 1 /\ <<x>>[1] = x
    BY <1>1
  <2>2. /\ p \in Seq(Seq(Chars)) /\ Len(p) = Len(<<x>>) + Len(q)
        /\ \A k \in 1..Len(<<x>>) + Len(q) : p[k] = IF k <= Len(<<x>>) THEN <<x>>[k] ELSE q[k - Len(<<x>>)]
    BY <1>0, <2>1, ConcatProperties
  <2>3. /\ p \in Seq(Seq(Chars)) /\ Len(p) = 1 + Len(q)
        /\ \A k \in 1..(1 + Len(q)) : p[k] = IF k <= 1 THEN <<x>>[k] ELSE q[k - 1]
    BY <2>1, <2>2, Zenon
  <2> HIDE DEF p
  <2>4. p[1] = x
    <3>1. 1 \in 1..(1 + Len(q)) /\ 1 <= 1
      BY <1>0
    <3> QED BY <2>1, <2>3, <3>1, Zenon
  <2>5. ASSUME NEW k \in 1..Len(q) PROVE p[k + 1] = q[k]
    <3>1. k + 1 \in 1..(1 + Len(q)) /\ ~ (k + 1 <= 1) /\ (k + 1) - 1 = k
      BY <1>0
    <3> QED BY <2>3, <3>1, Zenon
  <2> QED BY <1>0, <2>3, <2>4, <2>5
<1>3. /\ d \in [1..(Len(q) + 1) -> 0..Len(t)]
      /\ d[1] = from /\ \A k \in 1..Len(q) : d[k + 1] = c[k]
  <2>1. ASSUME NEW k \in 1..(Len(q) + 1) PROVE (IF k = 1 THEN from ELSE c[k - 1]) \in 0..Len(t)
    <3>1. CASE k = 1
      BY <3>1
    <3>2. CASE k # 1
      <4>1. k - 1 \in 1..Len(q)
        BY <1>0, <3>2
      <4> QED BY <1>0, <3>2, <4>1, Zenon
    <3> QED BY <3>1, <3>2
  <2>2. d \in [1..(Len(q) + 1) -> 0..Len(t)]
    BY <2>1, Zenon
  <2>3. d[1] = from
    <3>1. 1 \in 1..(Len(q) + 1)
      BY <1>0
    <3> QED BY <3>1, Zenon
  <2>4. ASSUME NEW k \in 1..Len(q) PROVE d[k + 1] = c[k]
    <3>1. k + 1 \in 1..(Len(q) + 1) /\ k + 1 # 1 /\ (k + 1) - 1 = k
      BY <1>0
    <3> QED BY <3>1, Zenon
  <2> QED BY <2>2, <2>3, <2>4, Zenon
<1> HIDE DEF d, p
<1>4. ASSUME NEW k \in 1..(Len(p) - 1)
      PROVE  /\ Find(t, s, d[k]) # Npos
             /\ d[k + 1] = Find(t, s, d[k]) + Len(s)
             /\ p[k] = SubSeq(t, d[k] + 1, Find(t, s, d[k]))
  <2>1. k \in 1..Len(q)
    BY <1>0, <1>2
  <2>2. CASE k = 1
    <3>1. d[k + 1] = c[1] /\ d[k] = from /\ p[k] = x
      BY <1>2, <1>3, <2>1, <2>2, Zenon
    <3> QED BY <3>1, Zenon DEF x
  <2>3. CASE k # 1
    <3>1. k - 1 \in 1..(Len(q) - 1) /\ k - 1 \in 1..Len(q) /\ (k - 1) + 1 = k
      BY <1>0, <2>1, <2>3
    <3>2. d[k] = c[k - 1] /\ d[k + 1] = c[k] /\ p[k] = q[k - 1]
      BY <1>2, <1>3, <2>1, <3>1, Zenon
    <3>3. /\ Find(t, s, c[k - 1]) # Npos
          /\ c[(k - 1) + 1] = Find(t, s, c[k - 1]) + Len(s)
          /\ q[k - 1] = SubSeq(t, c[k - 1] + 1, Find(t, s, c[k - 1]))
      BY <3>1, Zenon DEF CutAt
    <3> QED BY <3>1, <3>2, <3>3, Zenon
  <2> QED BY <2>2, <2>3
<1>5. Find(t, s, d[Len(p)]) = Npos /\ p[Len(p)] = SubSeq(t, d[Len(p)] + 1, Len(t))
  <2>1. Len(q) \in 1..Len(q)
    BY <1>0
  <2>2. d[Len(p)] = c[Len(q)] /\ p[Len(p)] = q[Len(q)]
    BY <1>2, <1>3, <2>1, Zenon
  <2> QED BY <2>2, Zenon DEF CutAt
<1>6. Len(p) >= 1 /\ d \in [1..Len(p) -> 0..Len(t)]
  BY <1>0, <1>2, <1>3
<1>7. CutAt(p, d, t, s)
  BY <1>2, <1>4, <1>5, <1>6, Zenon DEF CutAt
<1> QED BY <1>3, <1>7, Zenon DEF p, x

(* split() cuts a text at every separator it finds from left to right. *)
LEMMA PiecesAre ==
  ASSUME NEW t \in Seq(Chars), NEW s \in Seq(Chars), s # <<>>
  PROVE  \E c : CutAt(Pieces(t, s), c, t, s) /\ c[1] = 0
<1> DEFINE R == CHOOSE Q : Q = [from \in 0..Len(t) |-> Round(Q, from, t, s)]
           n == Len(t)
           Cut(from) == \E c : CutAt(R[from], c, t, s) /\ c[1] = from
           S == {d \in 0..n : ~ Cut(n - d)}
<1>0. n \in Nat
  OBVIOUS
<1>1. Pieces(t, s) = R[0]
  BY Zenon DEF Pieces, Round
<1>2. R = [from \in 0..Len(t) |-> Round(R, from, t, s)]
  BY RoundsExist, Zenon
<1> HIDE DEF R
<1>3. \A from \in 0..n : R[from] = Round(R, from, t, s)
  BY <1>2, Zenon
<1>4. ASSUME NEW from \in 0..n, \A e \in (from + 1)..n : Cut(e)
      PROVE  Cut(from)
  <2>1. CASE Find(t, s, from) = Npos
    <3> DEFINE x == SubSeq(t, from + 1, Len(t))
               p == <<x>>
               c == [k \in 1..1 |-> from]
    <3>1. R[from] = p
      BY <1>3, <2>1, Zenon DEF Round
    <3>2. x \in Seq(Chars)
      BY <1>0, CutIs
    <3> HIDE DEF x
    <3>3. p \in Seq(Seq(Chars)) /\ Len(p) = 1 /\ p[1] = x
      BY <3>2
    <3>4. c \in [1..1 -> 0..Len(t)] /\ c[1] = from
      OBVIOUS
    <3> HIDE DEF p, c
    <3>5. 1..(Len(p) - 1) = {} /\ Len(p) >= 1
      BY <3>3
    <3>6. CutAt(p, c, t, s)
      BY <2>1, <3>3, <3>4, <3>5, Zenon DEF CutAt, x
    <3> QED BY <3>1, <3>4, <3>6, Zenon
  <2>2. CASE Find(t, s, from) # Npos
    <3> DEFINE e == Find(t, s, from) + Len(s)
    <3>1. e \in (from + 1)..n
      BY <2>2, FindAdvances
    <3>2. PICK c : CutAt(R[e], c, t, s) /\ c[1] = e
      <4> HIDE DEF e
      <4> QED BY <1>4, <3>1, Zenon
    <3>3. R[from] = <<SubSeq(t, from + 1, Find(t, s, from))>> \o R[e]
      BY <1>3, <2>2, Zenon DEF Round
    <3>4. \E d : CutAt(<<SubSeq(t, from + 1, Find(t, s, from))>> \o R[e], d, t, s) /\ d[1] = from
      BY <2>2, <3>2, CutInFront, SMTT(30)
    <3> QED BY <3>3, <3>4, Zenon
  <2> QED BY <2>1, <2>2
<1> HIDE DEF Cut
<1>5. \A from \in 0..n : Cut(from)
  <2> SUFFICES ASSUME NEW f \in 0..n, ~ Cut(f) PROVE FALSE
    BY Zenon
  <2>1. PICK d \in S : \A e \in S : d <= e
    <3>1. S \subseteq Nat
      OBVIOUS
    <3>2. n - f \in S
      <4>1. n - (n - f) = f /\ n - f \in 0..n
        BY <1>0
      <4> QED BY <4>1, Zenon
    <3> HIDE DEF S
    <3> QED BY <3>1, <3>2, LeastNatural
  <2>2. d \in 0..n /\ ~ Cut(n - d) /\ n - d \in 0..n
    BY <1>0, <2>1
  <2>3. ASSUME NEW e \in ((n - d) + 1)..n PROVE Cut(e)
    <3>1. n - e \in 0..n /\ ~ (d <= n - e) /\ n - (n - e) = e
      BY <1>0, <2>2
    <3> QED BY <2>1, <3>1, Zenon
  <2> QED BY <1>4, <2>2, <2>3, Zenon
<1>6. 0 \in 0..n
  BY <1>0
<1> QED BY <1>1, <1>5, <1>6, Zenon DEF Cut

(* The recursion of Joined: whatever it is solved by is what it computes. *)
Joins(u, p, glue) ==
  u = [k \in 1..Len(p) |-> IF k = Len(p) THEN p[k] ELSE p[k] \o glue \o u[k + 1]]

LEMMA JoinedIs ==
  ASSUME NEW p, NEW glue, Len(p) \in Nat, Len(p) >= 1, NEW u, Joins(u, p, glue)
  PROVE  Joined(p, glue) = u[1]
<1> DEFINE n == Len(p)
           Sol(f) == f = [k \in 1..n |-> IF k = n THEN p[k] ELSE p[k] \o glue \o f[k + 1]]
           From == CHOOSE f : Sol(f)
           S == {d \in 0..(n - 1) : From[n - d] # u[n - d]}
<1>1. Joined(p, glue) = From[1]
  BY Zenon DEF Joined
<1>2. Sol(From)
  <2>1. Sol(u)
    BY Zenon DEF Joins
  <2> QED BY <2>1, Zenon
<1> HIDE DEF From
<1>3. \A k \in 1..n : From[k] = IF k = n THEN p[k] ELSE p[k] \o glue \o From[k + 1]
  BY <1>2, Zenon
<1>4. \A k \in 1..n : u[k] = IF k = n THEN p[k] ELSE p[k] \o glue \o u[k + 1]
  BY Zenon DEF Joins
<1>5. From[1] = u[1]
  <2> SUFFICES ASSUME From[1] # u[1] PROVE FALSE
    OBVIOUS
  <2>1. PICK d \in S : \A e \in S : d <= e
    <3>1. S \subseteq Nat
      <4>1. 0..(n - 1) \subseteq Nat
        OBVIOUS
      <4>2. S \subseteq 0..(n - 1)
        BY Zenon
      <4> QED BY <4>1, <4>2, Zenon
    <3>2. n - 1 \in S
      <4>1. n - (n - 1) = 1 /\ n - 1 \in 0..(n - 1)
        OBVIOUS
      <4> QED BY <4>1, Zenon
    <3> HIDE DEF S
    <3> QED BY <3>1, <3>2, LeastNatural
  <2>2. d \in 0..(n - 1) /\ From[n - d] # u[n - d]
    BY <2>1, Zenon
  <2>3. n - d \in 1..n
    BY <2>2
  <2>4. CASE d = 0
    <3>1. n - d = n
      BY <2>4
    <3> QED BY <1>3, <1>4, <2>2, <2>3, <3>1, Zenon
  <2>5. CASE d # 0
    <3>1. n - d # n /\ d - 1 \in 0..(n - 1) /\ ~ (d <= d - 1) /\ n - (d - 1) = (n - d) + 1
      BY <2>2, <2>5
    <3>2. From[(n - d) + 1] = u[(n - d) + 1]
      BY <2>1, <3>1, Zenon
    <3> QED BY <1>3, <1>4, <2>2, <2>3, <3>1, <3>2, Zenon
  <2> QED BY <2>4, <2>5
<1> QED BY <1>1, <1>5, Zenon

(* What lies between two cuts: a piece, free of the separator, and the       *)
(* separator.                                                                *)
Within(k, p, c, t, s) ==
  /\ c[k] \in 0..Len(t) /\ c[k + 1] \in 0..Len(t)
  /\ Find(t, s, c[k]) \in c[k]..Len(t)
  /\ c[k + 1] = Find(t, s, c[k]) + Len(s)
  /\ SubSeq(t, Find(t, s, c[k]) + 1, c[k + 1]) = s
  /\ \A m \in c[k]..(Find(t, s, c[k]) - 1) : ~ Occurs(s, t, m)
  /\ p[k] = SubSeq(t, c[k] + 1, Find(t, s, c[k]))
  /\ Len(p[k]) = Find(t, s, c[k]) - c[k]

(* Between two cuts it is so. *)
LEMMA CutsWithin ==
  ASSUME NEW t \in Seq(Chars), NEW s \in Seq(Chars), s # <<>>, NEW p, NEW c, CutAt(p, c, t, s),
         NEW k \in 1..(Len(p) - 1)
  PROVE  Within(k, p, c, t, s)
<1>1. Len(p) \in Nat /\ c \in [1..Len(p) -> 0..Len(t)] /\ Len(t) \in Nat
  BY DEF CutAt
<1>2. k \in 1..Len(p) /\ k + 1 \in 1..Len(p)
  BY <1>1
<1>3. c[k] \in 0..Len(t) /\ c[k + 1] \in 0..Len(t)
  BY <1>1, <1>2, Zenon
<1>4. /\ Find(t, s, c[k]) # Npos
      /\ c[k + 1] = Find(t, s, c[k]) + Len(s)
      /\ p[k] = SubSeq(t, c[k] + 1, Find(t, s, c[k]))
  BY Zenon DEF CutAt
<1>5. Find(t, s, c[k]) \in c[k]..Len(t)
  BY <1>3, <1>4, FindAdvances
<1>6. Occurs(s, t, Find(t, s, c[k])) /\ \A m \in c[k]..(Find(t, s, c[k]) - 1) : ~ Occurs(s, t, m)
  <2>1. c[k] \in Nat
    BY <1>1, <1>3
  <2> QED BY <1>4, <2>1, FindIs, Zenon
<1>7. SubSeq(t, Find(t, s, c[k]) + 1, c[k + 1]) = s
  BY <1>4, <1>6, Zenon DEF Occurs
<1>8. Len(p[k]) = Find(t, s, c[k]) - c[k]
  <2> DEFINE a == c[k]
             b == Find(t, s, c[k])
  <2>1. a \in Nat /\ b \in Nat /\ a <= b /\ b <= Len(t)
    <3>1. a \in 0..Len(t) /\ b \in a..Len(t)
      BY <1>3, <1>5, Zenon
    <3> HIDE DEF a, b
    <3> QED BY <1>1, <3>1
  <2> HIDE DEF a, b
  <2>2. Len(SubSeq(t, a + 1, b)) = b - a
    BY <2>1, CutIs
  <2> QED BY <1>4, <2>2, Zenon DEF a, b
<1> QED BY <1>3, <1>4, <1>5, <1>6, <1>7, <1>8, Zenon DEF Within

(* The pieces joined are the text. *)
LEMMA PiecesJoin ==
  ASSUME NEW t \in Seq(Chars), NEW s \in Seq(Chars), s # <<>>, NEW p, NEW c,
         CutAt(p, c, t, s), c[1] = 0
  PROVE  Joined(p, s) = t
<1> DEFINE n == Len(p)
           u == [k \in 1..n |-> SubSeq(t, c[k] + 1, Len(t))]
<1>1. n \in Nat /\ n >= 1 /\ c \in [1..n -> 0..Len(t)] /\ Len(t) \in Nat
  BY DEF CutAt
<1>2. ASSUME NEW k \in 1..n
      PROVE  u[k] = IF k = n THEN p[k] ELSE p[k] \o s \o u[k + 1]
  <2>1. CASE k = n
    <3>1. u[n] = SubSeq(t, c[n] + 1, Len(t))
      BY <2>1, Zenon
    <3>2. p[n] = SubSeq(t, c[n] + 1, Len(t))
      BY Zenon DEF CutAt
    <3> HIDE DEF u
    <3> QED BY <2>1, <3>1, <3>2, Zenon
  <2>2. CASE k # n
    <3>1. k \in 1..(Len(p) - 1) /\ k + 1 \in 1..n
      BY <1>1, <2>2
    <3>2. u[k] = SubSeq(t, c[k] + 1, Len(t)) /\ u[k + 1] = SubSeq(t, c[k + 1] + 1, Len(t))
      BY <3>1, Zenon
    <3> HIDE DEF u
    <3> DEFINE a == c[k]
               b == Find(t, s, c[k])
               d == c[k + 1]
               e == Len(t)
    <3>3. /\ a \in 0..Len(t) /\ d \in 0..Len(t) /\ b \in a..Len(t) /\ d = b + Len(s)
          /\ SubSeq(t, b + 1, d) = s /\ p[k] = SubSeq(t, a + 1, b)
      <4>1. Within(k, p, c, t, s)
        BY <3>1, CutsWithin, Zenon
      <4> QED BY <4>1, Zenon DEF Within
    <3>4. u[k] = SubSeq(t, a + 1, e) /\ u[k + 1] = SubSeq(t, d + 1, e)
      BY <3>2, Zenon
    <3> HIDE DEF a, b, d
    <3>5. /\ a \in Nat /\ b \in Nat /\ d \in Nat /\ e \in Nat
          /\ a <= b /\ b <= d /\ a <= d /\ d <= e /\ e <= Len(t)
      BY <1>1, <3>3
    <3> HIDE DEF e
    <3>6. SubSeq(t, a + 1, b) \o SubSeq(t, b + 1, d) = SubSeq(t, a + 1, d)
      <4>1. d <= Len(t)
        BY <3>5 DEF e
      <4> QED BY <3>5, <4>1, CutsJoin
    <3>7. SubSeq(t, a + 1, d) \o SubSeq(t, d + 1, e) = SubSeq(t, a + 1, e)
      BY <3>5, CutsJoin
    <3>8. u[k] = p[k] \o s \o u[k + 1]
      BY <3>3, <3>4, <3>6, <3>7, Zenon
    <3> QED BY <2>2, <3>8, Zenon
  <2> QED BY <2>1, <2>2
<1>3. u = [k \in 1..n |-> u[k]]
  BY Zenon
<1>4. u[1] = t
  <2>1. 1 \in 1..n
    BY <1>1
  <2>2. u[1] = SubSeq(t, 0 + 1, Len(t))
    BY <2>1, Zenon
  <2>3. SubSeq(t, 0 + 1, Len(t)) = t
    OBVIOUS
  <2> QED BY <2>2, <2>3, Zenon
<1> HIDE DEF u
<1>5. u = [k \in 1..n |-> IF k = n THEN p[k] ELSE p[k] \o s \o u[k + 1]]
  BY <1>2, <1>3, Zenon
<1>6. Joined(p, s) = u[1]
  <2>1. Len(p) \in Nat /\ Len(p) >= 1 /\ Joins(u, p, s)
    BY <1>1, <1>5, Zenon DEF Joins
  <2> QED BY <2>1, JoinedIs, Zenon
<1> QED BY <1>4, <1>6, Zenon

(* The pieces and the separators behind them contain the separator nowhere   *)
(* but where the text was cut.                                               *)
LEMMA PiecesFree ==
  ASSUME NEW t \in Seq(Chars), NEW s \in Seq(Chars), s # <<>>, NEW p, NEW c,
         CutAt(p, c, t, s), NEW k \in 1..Len(p)
  PROVE  LET upTo == IF k < Len(p) THEN p[k] \o s ELSE p[k]
         IN  \A m \in 0..Len(upTo) - Len(s) :
               Occurs(s, upTo, m) => k < Len(p) /\ m = Len(p[k])
<1> DEFINE upTo == IF k < Len(p) THEN p[k] \o s ELSE p[k]
           a == c[k]
<1>1. Len(p) \in Nat /\ c \in [1..Len(p) -> 0..Len(t)] /\ Len(t) \in Nat /\ Len(s) \in Nat
  BY DEF CutAt
<1>2. a \in 0..Len(t)
  BY <1>1, Zenon
<1>3. ASSUME NEW b \in Nat, a <= b, b <= Len(t), upTo = SubSeq(t, a + 1, b),
             NEW m \in 0..Len(upTo) - Len(s), Occurs(s, upTo, m)
      PROVE  Occurs(s, t, a + m) /\ a + m \in a..(b - Len(s))
  <2> HIDE DEF a, upTo
  <2>1. upTo \in Seq(Chars) /\ Len(upTo) = b - a /\ \A i \in 1..(b - a) : upTo[i] = t[a + i]
    <3>1. a \in Nat
      BY <1>2
    <3> QED BY <1>3, <3>1, CutIs
  <2>2. \A i \in 1..Len(s) : upTo[m + i] = s[i]
    BY <1>3, <2>1, OccursIs
  <2>3. a + m \in 0..(Len(t) - Len(s)) /\ a + m \in a..(b - Len(s))
    BY <1>1, <1>2, <1>3, <2>1
  <2>4. ASSUME NEW i \in 1..Len(s) PROVE t[(a + m) + i] = s[i]
    <3>1. m + i \in 1..(b - a) /\ a + (m + i) = (a + m) + i
      BY <1>1, <1>2, <1>3, <2>1
    <3>2. upTo[m + i] = t[a + (m + i)]
      BY <2>1, <3>1, Zenon
    <3> QED BY <2>2, <3>1, <3>2, Zenon
  <2>5. Occurs(s, t, a + m)
    BY <2>3, <2>4, OccursIs
  <2> QED BY <2>3, <2>5
<1>4. CASE k < Len(p)
  <2> DEFINE b == Find(t, s, c[k])
             d == c[k + 1]
  <2>0. k \in 1..(Len(p) - 1)
    BY <1>1, <1>4
  <2>1. /\ d \in 0..Len(t) /\ b \in a..Len(t) /\ d = b + Len(s)
        /\ SubSeq(t, b + 1, d) = s /\ p[k] = SubSeq(t, a + 1, b)
        /\ Len(p[k]) = b - a
        /\ \A m \in a..(b - 1) : ~ Occurs(s, t, m)
    <3>1. Within(k, p, c, t, s)
      BY <2>0, CutsWithin, Zenon
    <3> QED BY <3>1, Zenon DEF Within
  <2>2. upTo = p[k] \o s
    BY <1>4, Zenon
  <2> HIDE DEF a, b, d, upTo
  <2>3. a \in Nat /\ b \in Nat /\ d \in Nat /\ a <= b /\ b <= d /\ d <= Len(t) /\ a <= d
    BY <1>1, <1>2, <2>1
  <2>6. d - Len(s) = b
    BY <1>1, <1>2, <2>1
  <2>4. upTo = SubSeq(t, a + 1, d)
    <3>1. SubSeq(t, a + 1, b) \o SubSeq(t, b + 1, d) = SubSeq(t, a + 1, d)
      BY <2>3, CutsJoin
    <3> QED BY <2>1, <2>2, <3>1, Zenon
  <2>5. ASSUME NEW m \in 0..Len(upTo) - Len(s), Occurs(s, upTo, m)
        PROVE  m = Len(p[k])
    <3>1. Occurs(s, t, a + m) /\ a + m \in a..b
      <4>1. Occurs(s, t, a + m) /\ a + m \in a..(d - Len(s))
        BY <1>3, <2>3, <2>4, <2>5
      <4> QED BY <2>6, <4>1, Zenon
    <3>2. a + m \notin a..(b - 1)
      BY <2>1, <3>1, Zenon
    <3>3. m \in Int
      OBVIOUS
    <3> QED BY <2>1, <2>3, <3>1, <3>2, <3>3
  <2> QED BY <1>4, <2>5, Zenon DEF upTo
<1>5. CASE ~ (k < Len(p))
  <2>1. k = Len(p)
    BY <1>1, <1>5
  <2>2. upTo = SubSeq(t, a + 1, Len(t)) /\ Find(t, s, a) = Npos
    BY <1>5, <2>1, Zenon DEF CutAt
  <2>3. \A m \in a..(Len(t) - Len(s)) : ~ Occurs(s, t, m)
    <3>1. a \in Nat
      BY <1>1, <1>2
    <3> QED BY <2>2, <3>1, FindIs, Zenon
  <2> HIDE DEF a, upTo
  <2>4. ASSUME NEW m \in 0..Len(upTo) - Len(s), Occurs(s, upTo, m)
        PROVE  FALSE
    <3>1. Occurs(s, t, a + m) /\ a + m \in a..(Len(t) - Len(s))
      <4>1. Len(t) \in Nat /\ a <= Len(t) /\ Len(t) <= Len(t)
        BY <1>1, <1>2
      <4> QED BY <1>3, <2>2, <2>4, <4>1, Zenon
    <3> QED BY <2>3, <3>1, Zenon
  <2> QED BY <2>4, Zenon DEF upTo
<1> QED BY <1>4, <1>5

(* split() against its reference definition, for every text and separator. *)
LEMMA SplitIsExact ==
  ASSUME NEW t \in Seq(Chars), NEW s \in Seq(Chars), s # <<>>
  PROVE  SplitCuts(Pieces(t, s), t, s)
<1> DEFINE p == Pieces(t, s)
<1>1. PICK c : CutAt(p, c, t, s) /\ c[1] = 0
  BY PiecesAre, Zenon
<1> HIDE DEF p
<1>2. Joined(p, s) = t
  BY <1>1, PiecesJoin, Zenon
<1>3. DOMAIN p = 1..Len(p)
  <2>1. p \in Seq(Seq(Chars))
    BY <1>1 DEF CutAt
  <2> QED BY <2>1
<1>4. ASSUME NEW k \in 1..Len(p)
      PROVE  LET upTo == IF k < Len(p) THEN p[k] \o s ELSE p[k]
             IN  \A m \in 0..Len(upTo) - Len(s) :
                   Occurs(s, upTo, m) => k < Len(p) /\ m = Len(p[k])
  BY <1>1, PiecesFree, Zenon
<1>5. SplitCuts(p, t, s)
  BY <1>2, <1>3, <1>4, Zenon DEF SplitCuts
<1> QED BY <1>5 DEF p

-----------------------------------------------------------------------------
(* find_first_not_of returns the first character that is not ch. *)
LEMMA FirstNotIs ==
  ASSUME NEW t \in Seq(Chars), NEW ch, NotOf(t, ch) # {}
  PROVE  /\ FindFirstNotOf(t, ch) \in 0..(Len(t) - 1)
         /\ FindFirstNotOf(t, ch) # Npos
         /\ t[FindFirstNotOf(t, ch) + 1] # ch
         /\ \A k \in 1..FindFirstNotOf(t, ch) : t[k] = ch
<1> DEFINE N == NotOf(t, ch)
           f == FindFirstNotOf(t, ch)
<1>0. Len(t) \in Nat
  OBVIOUS
<1>1. N \subseteq Nat
  BY <1>0 DEF NotOf
<1>2. f = Min(N)
  BY Zenon DEF FindFirstNotOf
<1>3. f \in N /\ \A m \in N : f <= m
  <2> HIDE DEF f, N
  <2>0. N # {}
    BY DEF N
  <2>1. \E n \in N : \A m \in N : n <= m
    BY <1>1, <2>0, LeastNatural
  <2>2. Min(N) \in N /\ \A m \in N : Min(N) <= m
    BY <2>1, Zenon DEF Min
  <2> QED BY <1>2, <2>2, Zenon
<1> HIDE DEF f
<1>4. f \in 0..(Len(t) - 1) /\ t[f + 1] # ch /\ f # Npos
  BY <1>3 DEF NotOf, Npos
<1>5. ASSUME NEW k \in 1..f PROVE t[k] = ch
  <2>1. k - 1 \in 0..(Len(t) - 1) /\ (k - 1) + 1 = k /\ ~ (f <= k - 1)
    BY <1>0, <1>4
  <2>2. k - 1 \notin N
    BY <1>3, <2>1, Zenon
  <2> QED BY <2>1, <2>2 DEF NotOf
<1> QED BY <1>4, <1>5 DEF f

(* find_last_not_of returns the last such character. *)
LEMMA LastNotIs ==
  ASSUME NEW t \in Seq(Chars), NEW ch, NotOf(t, ch) # {}
  PROVE  /\ FindLastNotOf(t, ch) \in 0..(Len(t) - 1)
         /\ FindLastNotOf(t, ch) # Npos
         /\ t[FindLastNotOf(t, ch) + 1] # ch
         /\ \A k \in (FindLastNotOf(t, ch) + 2)..Len(t) : t[k] = ch
<1> DEFINE N == NotOf(t, ch)
           f == FindLastNotOf(t, ch)
<1>0. Len(t) \in Nat
  OBVIOUS
<1>1. N \subseteq 0..Len(t)
  BY <1>0 DEF NotOf
<1>2. f = Max(N)
  BY Zenon DEF FindLastNotOf
<1>3. f \in N /\ \A m \in N : f >= m
  <2> HIDE DEF f, N
  <2>0. N # {}
    BY DEF N
  <2>1. \E n \in N : \A m \in N : n >= m
    BY <1>0, <1>1, <2>0, GreatestNatural
  <2>2. Max(N) \in N /\ \A m \in N : Max(N) >= m
    BY <2>1, Zenon DEF Max
  <2> QED BY <1>2, <2>2, Zenon
<1> HIDE DEF f
<1>4. f \in 0..(Len(t) - 1) /\ t[f + 1] # ch /\ f # Npos
  BY <1>3 DEF NotOf, Npos
<1>5. ASSUME NEW k \in (f + 2)..Len(t) PROVE t[k] = ch
  <2>1. k - 1 \in 0..(Len(t) - 1) /\ (k - 1) + 1 = k /\ ~ (f >= k - 1)
    BY <1>0, <1>4
  <2>2. k - 1 \notin N
    BY <1>3, <2>1, Zenon
  <2> QED BY <2>1, <2>2 DEF NotOf
<1> QED BY <1>4, <1>5 DEF f

(* Where both return npos, the text has nothing but ch. *)
LEMMA AllOfIt ==
  ASSUME NEW t \in Seq(Chars), NEW ch, NotOf(t, ch) = {}
  PROVE  \A k \in 1..Len(t) : t[k] = ch
<1> SUFFICES ASSUME NEW k \in 1..Len(t) PROVE t[k] = ch
  OBVIOUS
<1>1. k - 1 \in 0..(Len(t) - 1) /\ (k - 1) + 1 = k
  OBVIOUS
<1>2. k - 1 \notin NotOf(t, ch)
  BY Zenon
<1> QED BY <1>1, <1>2 DEF NotOf

(* trim_left_if takes away what it should at the left end, and nothing else. *)
LEMMA TrimLeftIsExact ==
  ASSUME NEW t \in Seq(Chars), NEW ch
  PROVE  /\ TrimLeftIf(t, ch) \in Seq(Chars)
         /\ Trimmed(TrimLeftIf(t, ch), t, ch, TRUE, FALSE)
<1> DEFINE r == TrimLeftIf(t, ch)
<1>0. Len(t) \in Nat
  OBVIOUS
<1>1. CASE NotOf(t, ch) = {}
  <2>1. r = <<>>
    BY <1>1, Zenon DEF TrimLeftIf, FindFirstNotOf
  <2>2. \A k \in 1..Len(t) : t[k] = ch
    BY <1>1, AllOfIt
  <2>3. SubSeq(t, Len(t) + 1, Len(t)) = <<>> /\ <<>> \in Seq(Chars) /\ Len(t) \in 0..Len(t)
        /\ \A k \in (Len(t) + 1)..Len(t) : FALSE
    BY <1>0
  <2> HIDE DEF r
  <2>4. Trimmed(r, t, ch, TRUE, FALSE)
    BY <2>1, <2>2, <2>3 DEF Trimmed
  <2> QED BY <2>1, <2>3, <2>4, Zenon DEF r
<1>2. CASE NotOf(t, ch) # {}
  <2> DEFINE f == FindFirstNotOf(t, ch)
  <2>1. /\ f \in 0..(Len(t) - 1) /\ f # Npos /\ t[f + 1] # ch
        /\ \A k \in 1..f : t[k] = ch
    BY <1>2, FirstNotIs
  <2>2. r = SubSeq(t, f + 1, Len(t))
    BY <2>1, Zenon DEF TrimLeftIf
  <2> HIDE DEF r, f
  <2>3. f \in Nat /\ f <= Len(t) /\ Len(t) <= Len(t) /\ Len(t) - f > 0 /\ f \in 0..Len(t) /\ Len(t) \in 0..Len(t)
        /\ \A k \in (Len(t) + 1)..Len(t) : FALSE
    BY <1>0, <2>1
  <2>4. r \in Seq(Chars) /\ Len(r) = Len(t) - f /\ \A i \in 1..(Len(t) - f) : r[i] = t[f + i]
    BY <1>0, <2>2, <2>3, CutIs
  <2>5. Head(r) # ch
    BY <1>0, <2>1, <2>3, <2>4
  <2>6. Trimmed(r, t, ch, TRUE, FALSE)
    BY <2>1, <2>2, <2>3, <2>5, Zenon DEF Trimmed
  <2> QED BY <2>4, <2>6 DEF r
<1> QED BY <1>1, <1>2

(* trim_right_if does so at the right end. *)
LEMMA TrimRightIsExact ==
  ASSUME NEW t \in Seq(Chars), NEW ch
  PROVE  /\ TrimRightIf(t, ch) \in Seq(Chars)
         /\ Trimmed(TrimRightIf(t, ch), t, ch, FALSE, TRUE)
<1> DEFINE r == TrimRightIf(t, ch)
<1>0. Len(t) \in Nat
  OBVIOUS
<1>1. CASE NotOf(t, ch) = {}
  <2>1. FindLastNotOf(t, ch) = Npos
    BY <1>1, Zenon DEF FindLastNotOf
  <2>2. \A k \in 1..Len(t) : t[k] = ch
    BY <1>1, AllOfIt
  <2>3. r = <<>>
    <3>1. CASE t = <<>>
      BY <2>1, <3>1, Zenon DEF TrimRightIf
    <3>2. CASE t # <<>>
      <4>1. t[1] = ch
        BY <2>2, <3>2
      <4> QED BY <2>1, <3>2, <4>1, Zenon DEF TrimRightIf
    <3> QED BY <3>1, <3>2
  <2>4. SubSeq(t, 0 + 1, 0) = <<>> /\ <<>> \in Seq(Chars) /\ 0 \in 0..Len(t)
        /\ (\A k \in 1..0 : FALSE) /\ 0 + 1 = 1
    BY <1>0
  <2> HIDE DEF r
  <2>5. Trimmed(r, t, ch, FALSE, TRUE)
    BY <2>2, <2>3, <2>4, Zenon DEF Trimmed
  <2> QED BY <2>3, <2>4, <2>5, Zenon DEF r
<1>2. CASE NotOf(t, ch) # {}
  <2> DEFINE f == FindLastNotOf(t, ch)
             b == f + 1
  <2>1. /\ f \in 0..(Len(t) - 1) /\ f # Npos /\ t[f + 1] # ch
        /\ \A k \in (f + 2)..Len(t) : t[k] = ch
    BY <1>2, LastNotIs
  <2>2. r = SubSeq(t, 1, b)
    BY <2>1, Zenon DEF TrimRightIf
  <2> HIDE DEF r, f
  <2>3. b \in Nat /\ 0 <= b /\ b <= Len(t) /\ b > 0 /\ b \in 0..Len(t) /\ 0 \in 0..Len(t) /\ b - 0 = b
        /\ b + 1 = f + 2 /\ (\A k \in 1..0 : FALSE) /\ 0 + 1 = 1 /\ 0 \in Nat
    BY <1>0, <2>1
  <2> HIDE DEF b
  <2>4. r \in Seq(Chars) /\ Len(r) = b /\ \A i \in 1..b : r[i] = t[i]
    <3>1. /\ SubSeq(t, 0 + 1, b) \in Seq(Chars) /\ Len(SubSeq(t, 0 + 1, b)) = b - 0
          /\ \A i \in 1..(b - 0) : SubSeq(t, 0 + 1, b)[i] = t[0 + i]
      BY <2>3, CutIs
    <3> QED BY <2>2, <2>3, <3>1
  <2>5. Last(r) # ch
    <3>1. Last(r) = t[b]
      BY <2>3, <2>4 DEF Last
    <3> QED BY <2>1, <3>1 DEF b
  <2>6. \A k \in (b + 1)..Len(t) : t[k] = ch
    BY <2>1, <2>3, Zenon
  <2>7. Trimmed(r, t, ch, FALSE, TRUE)
    BY <2>2, <2>3, <2>5, <2>6, Zenon DEF Trimmed
  <2> QED BY <2>4, <2>7 DEF r
<1> QED BY <1>1, <1>2

(* trim() and trim_copy() take away the blanks at both ends. *)
LEMMA TrimIs ==
  ASSUME NEW t \in Seq(Chars), NotOf(t, Blank) # {}
  PROVE  /\ FindFirstNotOf(t, Blank) <= FindLastNotOf(t, Blank)
         /\ Trim(t) = SubSeq(t, FindFirstNotOf(t, Blank) + 1, FindLastNotOf(t, Blank) + 1)
<1> DEFINE f == FindFirstNotOf(t, Blank)
           l == FindLastNotOf(t, Blank)
           e == l + 1
           s == TrimLeftIf(t, Blank)
           g == FindLastNotOf(s, Blank)
<1>0. Len(t) \in Nat
  OBVIOUS
<1>1. /\ f \in 0..(Len(t) - 1) /\ f # Npos /\ t[f + 1] # Blank
      /\ \A k \in 1..f : t[k] = Blank
  BY FirstNotIs
<1>2. /\ l \in 0..(Len(t) - 1) /\ t[l + 1] # Blank
      /\ \A k \in (l + 2)..Len(t) : t[k] = Blank
  BY LastNotIs
<1>3. s = SubSeq(t, f + 1, Len(t))
  BY <1>1, Zenon DEF TrimLeftIf
<1>4. Trim(t) = TrimRightIf(s, Blank)
  BY DEF Trim
<1> HIDE DEF f, l, s
<1>5. f <= l
  <2> SUFFICES ASSUME l < f PROVE FALSE
    BY <1>1, <1>2
  <2>1. l + 1 \in 1..f
    BY <1>0, <1>1, <1>2
  <2> QED BY <1>1, <1>2, <2>1, Zenon
<1>6. f \in Nat /\ e \in Nat /\ f <= e /\ e <= Len(t) /\ f <= Len(t) /\ Len(t) <= Len(t)
  BY <1>0, <1>1, <1>2, <1>5
<1>7. s \in Seq(Chars) /\ Len(s) = Len(t) - f /\ \A i \in 1..(Len(t) - f) : s[i] = t[f + i]
  BY <1>0, <1>3, <1>6, CutIs
<1>8. l - f \in 0..(Len(s) - 1) /\ (l - f) + 1 \in 1..(Len(t) - f) /\ f + ((l - f) + 1) = l + 1
  BY <1>0, <1>1, <1>2, <1>5, <1>7
<1>9. s[(l - f) + 1] # Blank
  BY <1>2, <1>7, <1>8
<1>10. NotOf(s, Blank) # {}
  <2>1. l - f \in NotOf(s, Blank)
    BY <1>8, <1>9 DEF NotOf
  <2> QED BY <2>1
<1>11. /\ g \in 0..(Len(s) - 1) /\ g # Npos /\ s[g + 1] # Blank
       /\ \A k \in (g + 2)..Len(s) : s[k] = Blank
  BY <1>7, <1>10, LastNotIs
<1>12. TrimRightIf(s, Blank) = SubSeq(s, 1, g + 1)
  BY <1>11, Zenon DEF TrimRightIf
<1> HIDE DEF g
<1>13. g = l - f
  <2>1. ~ (g > l - f)
    <3> SUFFICES ASSUME g > l - f PROVE FALSE
      OBVIOUS
    <3>1. g + 1 \in 1..(Len(t) - f) /\ f + (g + 1) \in (l + 2)..Len(t)
      BY <1>0, <1>1, <1>2, <1>7, <1>11
    <3> QED BY <1>2, <1>7, <1>11, <3>1, Zenon
  <2>2. ~ (g < l - f)
    <3> SUFFICES ASSUME g < l - f PROVE FALSE
      OBVIOUS
    <3>1. (l - f) + 1 \in (g + 2)..Len(s)
      BY <1>8, <1>11, <1>7, <1>0, <1>1, <1>2
    <3> QED BY <1>9, <1>11, <3>1, Zenon
  <2> QED BY <1>1, <1>2, <1>11, <2>1, <2>2
<1>14. SubSeq(s, 1, g + 1) = SubSeq(t, f + 1, e)
  <2> DEFINE x == SubSeq(s, 0 + 1, g + 1)
             y == SubSeq(t, f + 1, e)
  <2>1. /\ 0 \in Nat /\ g + 1 \in Nat /\ 0 <= g + 1 /\ g + 1 <= Len(s) /\ (g + 1) - 0 = g + 1
        /\ e - f = g + 1
    <3>1. Len(s) \in Nat /\ g \in 0..(Len(s) - 1)
      BY <1>7, <1>11
    <3>2. g + 1 \in Nat /\ 0 <= g + 1 /\ g + 1 <= Len(s) /\ (g + 1) - 0 = g + 1
      BY <3>1
    <3>3. e - f = g + 1
      BY <1>1, <1>2, <1>13
    <3> QED BY <3>2, <3>3
  <2>2. x \in Seq(Chars) /\ Len(x) = (g + 1) - 0 /\ \A i \in 1..((g + 1) - 0) : x[i] = s[0 + i]
    BY <1>7, <2>1, CutIs
  <2> HIDE DEF e
  <2>3. y \in Seq(Chars) /\ Len(y) = e - f /\ \A i \in 1..(e - f) : y[i] = t[f + i]
    BY <1>6, CutIs
  <2> HIDE DEF x, y
  <2>4. ASSUME NEW i \in 1..(g + 1) PROVE x[i] = y[i]
    <3>1. 0 + i = i /\ i \in 1..(Len(t) - f)
      BY <2>1, <1>7
    <3>2. x[i] = s[i] /\ y[i] = t[f + i]
      BY <2>1, <2>2, <2>3, <3>1
    <3> QED BY <1>7, <3>1, <3>2, Zenon
  <2>5. Len(x) = Len(y) /\ \A i \in 1..Len(x) : x[i] = y[i]
    BY <2>1, <2>2, <2>3, <2>4, Zenon
  <2>6. x = y
    BY <2>2, <2>3, <2>5, SameText, Zenon
  <2>7. 0 + 1 = 1
    OBVIOUS
  <2> QED BY <2>6, <2>7, Zenon DEF x, y
<1> QED BY <1>4, <1>5, <1>12, <1>14, Zenon DEF f, l

(* trim() and trim_copy() against their reference definition, for every text. *)
LEMMA TrimIsExact ==
  ASSUME NEW t \in Seq(Chars)
  PROVE  Trimmed(Trim(t), t, Blank, TRUE, TRUE) /\ TrimCopy(t) = Trim(t)
<1>0. Len(t) \in Nat
  OBVIOUS
<1>1. CASE NotOf(t, Blank) = {}
  <2>1. FindFirstNotOf(t, Blank) = Npos
    BY <1>1, Zenon DEF FindFirstNotOf
  <2>2. TrimLeftIf(t, Blank) = <<>> /\ TrimCopy(t) = <<>>
    BY <2>1, Zenon DEF TrimLeftIf, TrimCopy
  <2>3. NotOf(<<>>, Blank) = {}
    BY DEF NotOf
  <2>4. Trim(t) = <<>>
    BY <2>2, <2>3, Zenon DEF Trim, TrimRightIf, FindLastNotOf
  <2>5. \A k \in 1..Len(t) : t[k] = Blank
    BY <1>1, AllOfIt
  <2>6. SubSeq(t, Len(t) + 1, Len(t)) = <<>> /\ Len(t) \in 0..Len(t)
        /\ \A k \in (Len(t) + 1)..Len(t) : FALSE
    BY <1>0
  <2> HIDE DEF TrimCopy, Trim
  <2> QED BY <2>2, <2>4, <2>5, <2>6, Zenon DEF Trimmed
<1>2. CASE NotOf(t, Blank) # {}
  <2> DEFINE f == FindFirstNotOf(t, Blank)
             l == FindLastNotOf(t, Blank)
             e == l + 1
             r == SubSeq(t, f + 1, e)
  <2>1. /\ f \in 0..(Len(t) - 1) /\ f # Npos /\ t[f + 1] # Blank
        /\ \A k \in 1..f : t[k] = Blank
    BY <1>2, FirstNotIs
  <2>2. /\ l \in 0..(Len(t) - 1) /\ t[l + 1] # Blank
        /\ \A k \in (l + 2)..Len(t) : t[k] = Blank
    BY <1>2, LastNotIs
  <2>3. f <= l /\ Trim(t) = r
    BY <1>2, TrimIs
  <2>4. TrimCopy(t) = SubSeq(t, f + 1, f + ((l - f) + 1))
    <3>1. (l - f) + 1 = l - f + 1
      BY <2>1, <2>2
    <3> QED BY <2>1, <3>1, Zenon DEF TrimCopy
  <2> HIDE DEF f, l
  <2>5. f + ((l - f) + 1) = e
    BY <2>1, <2>2
  <2>6. /\ f \in Nat /\ e \in Nat /\ f <= e /\ e <= Len(t) /\ f \in 0..Len(t) /\ e \in 0..Len(t)
        /\ e - f >= 1 /\ e + 1 = l + 2 /\ f + (e - f) = l + 1
    BY <1>0, <2>1, <2>2, <2>3
  <2>7. \A k \in (e + 1)..Len(t) : t[k] = Blank
    BY <2>2, <2>6, Zenon
  <2> HIDE DEF e
  <2>8. r \in Seq(Chars) /\ Len(r) = e - f /\ \A i \in 1..(e - f) : r[i] = t[f + i]
    BY <2>6, CutIs
  <2>9. Head(r) # Blank
    <3> HIDE DEF r
    <3> QED BY <2>1, <2>6, <2>8
  <2>10. Last(r) # Blank
    <3> HIDE DEF r
    <3>1. Last(r) = t[f + (e - f)]
      BY <2>6, <2>8 DEF Last
    <3> QED BY <2>2, <2>6, <3>1
  <2>11. Trimmed(r, t, Blank, TRUE, TRUE)
    BY <2>1, <2>6, <2>7, <2>9, <2>10, Zenon DEF Trimmed
  <2> HIDE DEF r
  <2> QED BY <2>3, <2>4, <2>5, <2>11, Zenon DEF r
<1> QED BY <1>1, <1>2

(* The texts given to replace() stay what they were. *)
LEMMA TextsGiven == StringsSpec => [](original \in Seq(Chars) /\ search \in Seq(Chars))
<1> DEFINE I == original \in Seq(Chars) /\ search \in Seq(Chars)
<1>1. StringsInit => I
  <2>1. \A n : BoundedSeq(Chars, n) \subseteq Seq(Chars)
    BY DEF BoundedSeq, SeqOf
  <2> QED BY <2>1, Zenon DEF StringsInit
<1>2. I /\ [ReplaceStep]_stringVars => I'
  BY Zenon DEF ReplaceStep, ReplaceFound, ReplaceAndSkip, ReplaceReturns, stringVars
<1> QED BY <1>1, <1>2, PTL DEF StringsSpec

(* For every text, separator and character: split cuts where it should, trim *)
(* takes away what it should, and nothing else.                              *)
THEOREM SplitsAndTrims == StringsSpec => []SplitAndTrimExact
<1>1. ASSUME NEW ch \in Chars PROVE <<ch>> \in Seq(Chars) /\ <<ch>> # <<>>
  OBVIOUS
<1>2. original \in Seq(Chars) /\ search \in Seq(Chars) => SplitAndTrimExact
  <2> SUFFICES ASSUME original \in Seq(Chars), search \in Seq(Chars) PROVE SplitAndTrimExact
    OBVIOUS
  <2>1. search # <<>> => SplitCuts(Split(original, search), original, search)
    BY SplitIsExact, Zenon DEF Split
  <2>2. search = <<>> => Split(original, search) = <<original>>
    BY Zenon DEF Split
  <2>3. ASSUME NEW ch \in Chars
        PROVE  /\ SplitCuts(SplitAtChar(original, ch), original, <<ch>>)
               /\ Trimmed(TrimLeftIf(original, ch), original, ch, TRUE, FALSE)
               /\ Trimmed(TrimRightIf(original, ch), original, ch, FALSE, TRUE)
    BY <1>1, SplitIsExact, TrimLeftIsExact, TrimRightIsExact, Zenon DEF SplitAtChar
  <2>4. Trimmed(Trim(original), original, Blank, TRUE, TRUE) /\ TrimCopy(original) = Trim(original)
    BY TrimIsExact, Zenon
  <2> QED BY <2>1, <2>2, <2>3, <2>4, Zenon DEF SplitAndTrimExact
<1> QED BY <1>2, TextsGiven, PTL

-----------------------------------------------------------------------------
(* x with the text s at position a replaced by w, as std::string::replace    *)
(* leaves it.                                                                *)
Spliced(x, a, s, w) == SubSeq(x, 1, a) \o w \o SubSeq(x, a + Len(s) + 1, Len(x))

SplicedFrom(y, x, a, s, w) ==
  /\ y \in Seq(Chars) /\ Len(y) = (Len(x) - Len(s)) + Len(w)
  /\ \A i \in 1..a : y[i] = x[i]
  /\ \A i \in 1..Len(w) : y[a + i] = w[i]
  /\ \A i \in 1..((Len(x) - a) - Len(s)) : y[(a + Len(w)) + i] = x[(a + Len(s)) + i]

(* What the characters of the spliced text are. *)
LEMMA SpliceIs ==
  ASSUME NEW x \in Seq(Chars), NEW s \in Seq(Chars), NEW w \in Seq(Chars),
         NEW a \in Nat, a + Len(s) <= Len(x)
  PROVE  SplicedFrom(Spliced(x, a, s, w), x, a, s, w)
<1> DEFINE e == a + Len(s)
           l == SubSeq(x, 0 + 1, a)
           r == SubSeq(x, e + 1, Len(x))
           y == Spliced(x, a, s, w)
<1>0. /\ Len(x) \in Nat /\ Len(s) \in Nat /\ Len(w) \in Nat /\ 0 \in Nat /\ 0 <= a /\ a <= Len(x)
      /\ e \in Nat /\ e <= Len(x) /\ Len(x) <= Len(x) /\ a - 0 = a
  OBVIOUS
<1>1. y = (l \o w) \o r
  <2>1. 0 + 1 = 1
    OBVIOUS
  <2> QED BY <2>1, Zenon DEF Spliced
<1>2. l \in Seq(Chars) /\ Len(l) = a /\ \A i \in 1..a : l[i] = x[i]
  <2>1. l \in Seq(Chars) /\ Len(l) = a - 0 /\ \A i \in 1..(a - 0) : l[i] = x[0 + i]
    BY <1>0, CutIs
  <2> HIDE DEF l
  <2> QED BY <1>0, <2>1
<1>3. r \in Seq(Chars) /\ Len(r) = Len(x) - e /\ \A i \in 1..(Len(x) - e) : r[i] = x[e + i]
  <2> HIDE DEF e
  <2> QED BY <1>0, CutIs
<1> HIDE DEF l, r, y
<1>4. /\ l \o w \in Seq(Chars) /\ Len(l \o w) = a + Len(w)
      /\ \A i \in 1..a : (l \o w)[i] = l[i]
      /\ \A i \in 1..Len(w) : (l \o w)[a + i] = w[i]
  BY <1>2, JoinIs, ZenonT(60)
<1> DEFINE v == l \o w
<1> HIDE DEF v
<1>5. v \in Seq(Chars) /\ Len(v) = a + Len(w) /\ y = v \o r
  BY <1>1, <1>4 DEF v
<1>6. /\ y \in Seq(Chars) /\ Len(y) = Len(v) + Len(r)
      /\ \A i \in 1..Len(v) : y[i] = v[i]
      /\ \A i \in 1..Len(r) : y[Len(v) + i] = r[i]
  BY <1>3, <1>5, JoinIs, Zenon
<1>7. Len(y) = (Len(x) - Len(s)) + Len(w)
  BY <1>0, <1>3, <1>5, <1>6 DEF e
<1>8. ASSUME NEW i \in 1..a PROVE y[i] = x[i]
  <2>1. i \in 1..Len(v)
    BY <1>0, <1>5
  <2> QED BY <1>2, <1>4, <1>6, <2>1, Zenon DEF v
<1>9. ASSUME NEW i \in 1..Len(w) PROVE y[a + i] = w[i]
  <2>1. a + i \in 1..Len(v)
    BY <1>0, <1>5
  <2> QED BY <1>4, <1>6, <2>1, Zenon DEF v
<1>10. ASSUME NEW i \in 1..((Len(x) - a) - Len(s)) PROVE y[(a + Len(w)) + i] = x[(a + Len(s)) + i]
  <2>1. i \in 1..Len(r) /\ i \in 1..(Len(x) - e)
    BY <1>0, <1>3 DEF e
  <2> QED BY <1>3, <1>5, <1>6, <2>1, Zenon DEF e
<1>11. SplicedFrom(y, x, a, s, w)
  BY <1>6, <1>7, <1>8, <1>9, <1>10, Zenon DEF SplicedFrom
<1> QED BY <1>11 DEF y

(* A text found in what is left of one text is found at the same distance    *)
(* from the end in another that ends likewise.                               *)
LEMMA OccursLikewise ==
  ASSUME NEW x \in Seq(Chars), NEW y \in Seq(Chars), NEW s \in Seq(Chars),
         NEW m \in Nat, NEW d \in Nat, Len(y) = Len(x) + d,
         m <= Len(x) - Len(s), \A i \in (m + 1)..Len(x) : x[i] = y[i + d],
         Occurs(s, x, m)
  PROVE  m + d \in 0..(Len(y) - Len(s)) /\ Occurs(s, y, m + d)
<1>1. Len(x) \in Nat /\ Len(y) \in Nat /\ Len(s) \in Nat
  OBVIOUS
<1>2. m \in 0..(Len(x) - Len(s)) /\ m + d \in 0..(Len(y) - Len(s))
  BY <1>1
<1>3. \A i \in 1..Len(s) : x[m + i] = s[i]
  BY <1>2, OccursIs
<1>4. ASSUME NEW i \in 1..Len(s) PROVE y[(m + d) + i] = s[i]
  <2>1. m + i \in (m + 1)..Len(x) /\ (m + i) + d = (m + d) + i
    BY <1>1, <1>2
  <2>2. x[m + i] = y[(m + i) + d]
    BY <2>1, Zenon
  <2> QED BY <1>3, <2>1, <2>2, Zenon
<1>5. Occurs(s, y, m + d)
  BY <1>2, <1>4, OccursIs
<1> QED BY <1>2, <1>5, Zenon

(* find() does not look at what lies before the position it is given. *)
LEMMA FindLikewise ==
  ASSUME NEW x \in Seq(Chars), NEW y \in Seq(Chars), NEW s \in Seq(Chars), NEW from \in Nat,
         Len(x) = Len(y), \A i \in (from + 1)..Len(x) : x[i] = y[i]
  PROVE  Find(x, s, from) = Find(y, s, from)
<1> DEFINE In(t) == {at \in from..(Len(t) - Len(s)) : Occurs(s, t, at)}
<1>0. Len(x) \in Nat /\ Len(y) \in Nat /\ Len(s) \in Nat
  OBVIOUS
<1>1. ASSUME NEW at \in from..(Len(x) - Len(s)) PROVE Occurs(s, x, at) <=> Occurs(s, y, at)
  <2>1. at \in Nat /\ 0 \in Nat /\ Len(y) = Len(x) + 0 /\ Len(x) = Len(y) + 0 /\ at + 0 = at
        /\ at <= Len(x) - Len(s) /\ at <= Len(y) - Len(s)
    BY <1>0
  <2>2. (\A i \in (at + 1)..Len(x) : x[i] = y[i + 0]) /\ (\A i \in (at + 1)..Len(y) : y[i] = x[i + 0])
    BY <1>0, <2>1
  <2>3. Occurs(s, x, at) => Occurs(s, y, at + 0)
    BY <2>1, <2>2, OccursLikewise, Zenon
  <2>4. Occurs(s, y, at) => Occurs(s, x, at + 0)
    BY <2>1, <2>2, OccursLikewise, Zenon
  <2> QED BY <2>1, <2>3, <2>4, Zenon
<1>2. In(x) = In(y)
  BY <1>1, Zenon
<1> QED BY <1>2, Zenon DEF Find

(* replace() with a substitute as long as the search text, in front of the   *)
(* k-th piece: the pieces before it are followed by the substitute, and the  *)
(* rest is as it was.                                                        *)
Even(x, pos, k, p, c, t, s, w) ==
  /\ x \in Seq(Chars) /\ pos = c[k] /\ Len(x) = Len(t)
  /\ \A i \in (pos + 1)..Len(t) : x[i] = t[i]
  /\ \A j \in 1..(k - 1) : c[j + 1] <= pos /\ SubSeq(x, c[j] + 1, c[j + 1]) = p[j] \o w
  /\ Len(s) = 1 => \A i \in 1..pos : x[i] = IF t[i] = s[1] THEN w[1] ELSE t[i]

(* find() gives the next cut of the given text. *)
LEMMA EvenFind ==
  ASSUME NEW t \in Seq(Chars), NEW s \in Seq(Chars), s # <<>>, NEW w \in Seq(Chars), NEW p, NEW c,
         CutAt(p, c, t, s), NEW k \in 1..Len(p), NEW x, NEW pos, Even(x, pos, k, p, c, t, s, w)
  PROVE  pos \in 0..Len(t) /\ Find(x, s, pos) = Find(t, s, c[k])
<1>1. Len(p) \in Nat /\ c \in [1..Len(p) -> 0..Len(t)] /\ Len(t) \in Nat
  BY DEF CutAt
<1>2. pos = c[k] /\ x \in Seq(Chars) /\ Len(x) = Len(t) /\ \A i \in (pos + 1)..Len(x) : x[i] = t[i]
  BY Zenon DEF Even
<1>3. pos \in 0..Len(t)
  BY <1>1, <1>2, Zenon
<1>4. pos \in Nat
  BY <1>1, <1>3
<1>5. Find(x, s, pos) = Find(t, s, pos)
  BY <1>2, <1>4, FindLikewise, ZenonT(60)
<1> QED BY <1>2, <1>3, <1>5, Zenon

Replaced(x, p, t, s, w) ==
  /\ x = Joined(p, w)
  /\ Len(s) = 1 => x = ReplaceChar(t, s[1], w[1])

(* When there is none, the text is what it should be. *)
LEMMA EvenEnds ==
  ASSUME NEW t \in Seq(Chars), NEW s \in Seq(Chars), s # <<>>, NEW w \in Seq(Chars), Len(w) = Len(s),
         NEW p, NEW c, CutAt(p, c, t, s), c[1] = 0,
         NEW k \in 1..Len(p), NEW x, NEW pos, Even(x, pos, k, p, c, t, s, w),
         Find(x, s, pos) = Npos
  PROVE  Replaced(x, p, t, s, w)
<1> DEFINE n == Len(p)
           u == [j \in 1..n |-> SubSeq(x, c[j] + 1, Len(x))]
<1>1. n \in Nat /\ n >= 1 /\ c \in [1..n -> 0..Len(t)] /\ Len(t) \in Nat
  BY DEF CutAt
<1>2. pos \in 0..Len(t) /\ Find(t, s, c[k]) = Npos
  <2>1. pos \in 0..Len(t) /\ Find(x, s, pos) = Find(t, s, c[k])
    BY EvenFind
  <2> QED BY <2>1, Zenon
<1>3. k = n
  <2> SUFFICES ASSUME k # n PROVE FALSE
    OBVIOUS
  <2>1. k \in 1..(Len(p) - 1)
    BY <1>1
  <2> QED BY <1>2, <2>1, Zenon DEF CutAt
<1>4. /\ pos = c[n] /\ x \in Seq(Chars) /\ Len(x) = Len(t)
      /\ \A i \in (pos + 1)..Len(t) : x[i] = t[i]
      /\ \A j \in 1..(n - 1) : c[j + 1] <= pos /\ SubSeq(x, c[j] + 1, c[j + 1]) = p[j] \o w
      /\ Len(s) = 1 => \A i \in 1..pos : x[i] = IF t[i] = s[1] THEN w[1] ELSE t[i]
  BY <1>3, Zenon DEF Even
<1>5. p[n] = SubSeq(x, c[n] + 1, Len(x))
  <2>1. p[n] = SubSeq(t, pos + 1, Len(t))
    BY <1>4, Zenon DEF CutAt
  <2> DEFINE a == SubSeq(t, pos + 1, Len(t))
             b == SubSeq(x, pos + 1, Len(x))
  <2>2. pos \in Nat /\ pos <= Len(t) /\ Len(t) <= Len(t) /\ pos <= Len(x) /\ Len(x) <= Len(x) /\ Len(x) \in Nat
    BY <1>1, <1>2, <1>4
  <2>3. a \in Seq(Chars) /\ Len(a) = Len(t) - pos /\ \A i \in 1..(Len(t) - pos) : a[i] = t[pos + i]
    BY <1>1, <2>2, CutIs, Zenon
  <2>4. b \in Seq(Chars) /\ Len(b) = Len(x) - pos /\ \A i \in 1..(Len(x) - pos) : b[i] = x[pos + i]
    BY <1>4, <2>2, CutIs, ZenonT(60)
  <2> HIDE DEF a, b
  <2>5. ASSUME NEW i \in 1..Len(a) PROVE a[i] = b[i]
    <3>1. i \in 1..(Len(t) - pos) /\ i \in 1..(Len(x) - pos) /\ pos + i \in (pos + 1)..Len(t)
      BY <1>1, <1>4, <2>2, <2>3
    <3> QED BY <1>4, <2>3, <2>4, <3>1, Zenon
  <2>6. a = b
    <3>1. Len(a) = Len(b)
      BY <1>4, <2>3, <2>4, Zenon
    <3> QED BY <2>3, <2>4, <2>5, <3>1, SameText, Zenon
  <2> QED BY <1>4, <2>1, <2>6, Zenon DEF a, b
<1>6. ASSUME NEW j \in 1..n
      PROVE  u[j] = IF j = n THEN p[j] ELSE p[j] \o w \o u[j + 1]
  <2>1. CASE j = n
    <3>1. u[n] = SubSeq(x, c[n] + 1, Len(x))
      BY <2>1, Zenon
    <3> HIDE DEF u
    <3> QED BY <1>5, <2>1, <3>1, Zenon
  <2>2. CASE j # n
    <3>1. j \in 1..(n - 1) /\ j + 1 \in 1..n /\ j \in 1..(Len(p) - 1)
      BY <1>1, <2>2
    <3>2. u[j] = SubSeq(x, c[j] + 1, Len(x)) /\ u[j + 1] = SubSeq(x, c[j + 1] + 1, Len(x))
      BY <3>1, Zenon
    <3> HIDE DEF u
    <3> DEFINE a == c[j]
               d == c[j + 1]
               e == Len(x)
               b == Find(t, s, c[j])
    <3>3. SubSeq(x, a + 1, d) = p[j] \o w
      BY <1>4, <3>1, Zenon
    <3>4. a \in 0..Len(t) /\ d \in 0..Len(t) /\ b \in a..Len(t) /\ d = b + Len(s)
      <4>1. Within(j, p, c, t, s)
        BY <3>1, CutsWithin, Zenon
      <4> QED BY <4>1, Zenon DEF Within
    <3>5. u[j] = SubSeq(x, a + 1, e) /\ u[j + 1] = SubSeq(x, d + 1, e)
      BY <3>2, Zenon
    <3> HIDE DEF a, b, d
    <3>6. /\ a \in Nat /\ d \in Nat /\ e \in Nat /\ a <= d /\ d <= e /\ e <= Len(x)
      <4>1. Len(s) \in Nat
        OBVIOUS
      <4> QED BY <1>1, <1>4, <3>4, <4>1
    <3> HIDE DEF e
    <3>7. SubSeq(x, a + 1, d) \o SubSeq(x, d + 1, e) = SubSeq(x, a + 1, e)
      BY <1>4, <3>6, CutsJoin, Zenon
    <3>8. u[j] = p[j] \o w \o u[j + 1]
      BY <3>3, <3>5, <3>7, Zenon
    <3> QED BY <2>2, <3>8, Zenon
  <2> QED BY <2>1, <2>2
<1>7. u = [j \in 1..n |-> u[j]]
  BY Zenon
<1>8. u[1] = x
  <2>1. 1 \in 1..n
    BY <1>1
  <2>2. u[1] = SubSeq(x, 0 + 1, Len(x))
    BY <2>1, Zenon
  <2>3. SubSeq(x, 0 + 1, Len(x)) = x
    BY <1>4
  <2> QED BY <2>2, <2>3, Zenon
<1> HIDE DEF u
<1>9. Joined(p, w) = u[1]
  <2>1. u = [j \in 1..n |-> IF j = n THEN p[j] ELSE p[j] \o w \o u[j + 1]]
    BY <1>6, <1>7, Zenon
  <2>2. Len(p) \in Nat /\ Len(p) >= 1 /\ Joins(u, p, w)
    BY <1>1, <2>1, Zenon DEF Joins
  <2> QED BY <2>2, JoinedIs, Zenon
<1>10. ASSUME Len(s) = 1 PROVE x = ReplaceChar(t, s[1], w[1])
  <2>1. \A m \in pos..(Len(t) - Len(s)) : ~ Occurs(s, t, m)
    <3>1. pos \in Nat
      BY <1>2, <1>1
    <3> QED BY <1>2, <1>3, <1>4, <3>1, FindIs, Zenon
  <2>2. ASSUME NEW i \in 1..Len(t) PROVE x[i] = IF t[i] = s[1] THEN w[1] ELSE t[i]
    <3>1. CASE i <= pos
      <4>1. i \in 1..pos
        BY <1>1, <1>2, <3>1
      <4> QED BY <1>4, <1>10, <4>1, Zenon
    <3>2. CASE i > pos
      <4>1. i - 1 \in pos..(Len(t) - Len(s)) /\ i - 1 \in 0..(Len(t) - Len(s)) /\ (i - 1) + 1 = i /\ i \in (pos + 1)..Len(t)
        BY <1>1, <1>2, <1>10, <3>2
      <4>2. t[i] # s[1]
        <5> SUFFICES ASSUME t[i] = s[1] PROVE FALSE
          OBVIOUS
        <5>1. \A m \in 1..Len(s) : t[(i - 1) + m] = s[m]
          BY <1>10, <4>1
        <5>2. Occurs(s, t, i - 1)
          BY <4>1, <5>1, OccursIs
        <5> QED BY <2>1, <4>1, <5>2, Zenon
      <4> QED BY <1>4, <4>1, <4>2, Zenon
    <3>3. i <= pos \/ i > pos
      BY <1>2
    <3> QED BY <3>1, <3>2, <3>3, Zenon
  <2>3. DOMAIN t = 1..Len(t) /\ x = [i \in 1..Len(t) |-> x[i]]
    BY <1>4
  <2> QED BY <2>2, <2>3, Zenon DEF ReplaceChar
<1> QED BY <1>8, <1>9, <1>10, Zenon DEF Replaced

(* When there is one, a round of the loop reaches the next piece. *)
LEMMA EvenGoesOn ==
  ASSUME NEW t \in Seq(Chars), NEW s \in Seq(Chars), s # <<>>, NEW w \in Seq(Chars), Len(w) = Len(s),
         NEW p, NEW c, CutAt(p, c, t, s),
         NEW k \in 1..Len(p), NEW x, NEW pos, Even(x, pos, k, p, c, t, s, w),
         Find(x, s, pos) # Npos
  PROVE  /\ k + 1 \in 1..Len(p)
         /\ Even(Spliced(x, Find(x, s, pos), s, w), Find(x, s, pos) + Len(s), k + 1, p, c, t, s, w)
<1> DEFINE n == Len(p)
           a == Find(t, s, c[k])
           d == c[k + 1]
           y == Spliced(x, a, s, w)
<1>1. n \in Nat /\ n >= 1 /\ c \in [1..n -> 0..Len(t)] /\ Len(t) \in Nat /\ Len(s) \in Nat /\ Len(s) >= 1
  BY DEF CutAt
<1>2. pos \in 0..Len(t) /\ Find(x, s, pos) = a /\ a # Npos
  <2>1. pos \in 0..Len(t) /\ Find(x, s, pos) = Find(t, s, c[k])
    BY EvenFind
  <2> QED BY <2>1, Zenon
<1>3. k # n
  BY <1>2, Zenon DEF CutAt
<1>4. k \in 1..(Len(p) - 1) /\ k + 1 \in 1..n /\ (k + 1) - 1 = k
  BY <1>1, <1>3
<1>5. /\ d \in 0..Len(t) /\ a \in c[k]..Len(t) /\ d = a + Len(s)
      /\ SubSeq(t, a + 1, d) = s /\ p[k] = SubSeq(t, c[k] + 1, a)
      /\ \A m \in c[k]..(a - 1) : ~ Occurs(s, t, m)
  <2>1. Within(k, p, c, t, s)
    BY <1>4, CutsWithin, Zenon
  <2> QED BY <2>1, Zenon DEF Within
<1>6. /\ pos = c[k] /\ x \in Seq(Chars) /\ Len(x) = Len(t)
      /\ \A i \in (pos + 1)..Len(t) : x[i] = t[i]
      /\ \A j \in 1..(k - 1) : c[j + 1] <= pos /\ SubSeq(x, c[j] + 1, c[j + 1]) = p[j] \o w
      /\ Len(s) = 1 => \A i \in 1..pos : x[i] = IF t[i] = s[1] THEN w[1] ELSE t[i]
  BY Zenon DEF Even
<1>7. \A j \in 1..(k - 1) : c[j] \in 0..Len(t) /\ c[j + 1] \in 0..Len(t) /\ c[j] <= c[j + 1]
  <2> SUFFICES ASSUME NEW j \in 1..(k - 1)
               PROVE  c[j] \in 0..Len(t) /\ c[j + 1] \in 0..Len(t) /\ c[j] <= c[j + 1]
    OBVIOUS
  <2>1. j \in 1..(Len(p) - 1)
    BY <1>1, <1>4
  <2> DEFINE f == Find(t, s, c[j])
             g == c[j]
             h == c[j + 1]
  <2>2. g \in 0..Len(t) /\ h \in 0..Len(t) /\ f \in g..Len(t) /\ h = f + Len(s)
    <3>1. Within(j, p, c, t, s)
      BY <2>1, CutsWithin, Zenon
    <3> QED BY <3>1, Zenon DEF Within
  <2> HIDE DEF f, g, h
  <2>3. g <= h
    BY <1>1, <2>2
  <2> QED BY <2>2, <2>3, Zenon DEF g, h
<1> HIDE DEF a, d
<1>8. /\ pos \in Nat /\ a \in Nat /\ d \in Nat /\ pos <= a /\ a <= d /\ d <= Len(t) /\ a <= Len(t)
      /\ a + Len(s) <= Len(x) /\ a + Len(w) = d /\ a \in pos..Len(t) /\ pos <= d
  <2>1. a \in pos..Len(t)
    BY <1>5, <1>6, Zenon
  <2> QED BY <1>1, <1>2, <1>5, <1>6, <2>1
<1>9. /\ y \in Seq(Chars) /\ Len(y) = (Len(x) - Len(s)) + Len(w)
      /\ \A i \in 1..a : y[i] = x[i]
      /\ \A i \in 1..Len(w) : y[a + i] = w[i]
      /\ \A i \in 1..((Len(x) - a) - Len(s)) : y[(a + Len(w)) + i] = x[(a + Len(s)) + i]
  <2>1. x \in Seq(Chars) /\ a \in Nat /\ a + Len(s) <= Len(x)
    BY <1>6, <1>8
  <2>2. SplicedFrom(y, x, a, s, w)
    BY <2>1, SpliceIs, Zenon
  <2> HIDE DEF y
  <2> QED BY <2>2, Zenon DEF SplicedFrom
<1> HIDE DEF y
<1>10. Len(y) = Len(t)
  BY <1>1, <1>6, <1>9
<1>11. ASSUME NEW i \in (d + 1)..Len(t) PROVE y[i] = t[i]
  <2>1. /\ i - d \in 1..((Len(x) - a) - Len(s)) /\ d + (i - d) = i /\ a + Len(s) = d
        /\ i \in (pos + 1)..Len(t)
    BY <1>1, <1>5, <1>6, <1>8
  <2>2. y[(a + Len(w)) + (i - d)] = x[(a + Len(s)) + (i - d)]
    BY <1>9, <2>1, Zenon
  <2>3. y[i] = x[i]
    BY <1>8, <2>1, <2>2, Zenon
  <2> QED BY <1>6, <2>1, <2>3, Zenon
<1>12. ASSUME NEW j \in 1..k PROVE c[j + 1] <= d /\ SubSeq(y, c[j] + 1, c[j + 1]) = p[j] \o w
  <2>1. CASE j = k
    <3> DEFINE u == SubSeq(y, pos + 1, a)
               v == SubSeq(y, a + 1, d)
               q == SubSeq(t, pos + 1, a)
    <3>1. a <= Len(y) /\ d <= Len(y)
      BY <1>8, <1>10
    <3>2. u \o v = SubSeq(y, pos + 1, d)
      <4>1. pos \in Nat /\ a \in Nat /\ d \in Nat /\ pos <= a /\ a <= d /\ y \in Seq(Chars)
        BY <1>8, <1>9
      <4> QED BY <3>1, <4>1, CutsJoin
    <3>3. u \in Seq(Chars) /\ Len(u) = a - pos /\ \A i \in 1..(a - pos) : u[i] = y[pos + i]
      BY <1>8, <1>9, <3>1, CutIs, ZenonT(60)
    <3>4. v \in Seq(Chars) /\ Len(v) = d - a /\ \A i \in 1..(d - a) : v[i] = y[a + i]
      BY <1>8, <1>9, <3>1, CutIs, ZenonT(60)
    <3>5. q \in Seq(Chars) /\ Len(q) = a - pos /\ \A i \in 1..(a - pos) : q[i] = t[pos + i]
      BY <1>8, CutIs, Zenon
    <3> HIDE DEF u, v, q
    <3>6. u = q
      <4>1. ASSUME NEW i \in 1..Len(u) PROVE u[i] = q[i]
        <5>1. i \in 1..(a - pos) /\ pos + i \in 1..a /\ pos + i \in (pos + 1)..Len(t)
          BY <1>1, <1>8, <3>3
        <5>2. u[i] = y[pos + i] /\ q[i] = t[pos + i]
          BY <3>3, <3>5, <5>1, Zenon
        <5>3. y[pos + i] = x[pos + i] /\ x[pos + i] = t[pos + i]
          BY <1>6, <1>9, <5>1, Zenon
        <5> QED BY <5>2, <5>3, Zenon
      <4> QED BY <3>3, <3>5, <4>1, SameText, Zenon
    <3>7. v = w
      <4>0. Len(v) = Len(w) /\ d - a = Len(w)
        BY <1>1, <1>8, <3>4
      <4>1. ASSUME NEW i \in 1..Len(v) PROVE v[i] = w[i]
        BY <1>9, <3>4, <4>0, Zenon
      <4> QED BY <3>4, <4>0, <4>1, SameText, Zenon
    <3>8. p[j] = q /\ c[j] = pos /\ c[j + 1] = d
      BY <1>5, <1>6, <2>1, Zenon DEF q, d
    <3>9. SubSeq(y, c[j] + 1, c[j + 1]) = p[j] \o w
      BY <3>2, <3>6, <3>7, <3>8, Zenon
    <3>10. d <= d
      BY <1>8
    <3> QED BY <3>8, <3>9, <3>10, Zenon
  <2>2. CASE j # k
    <3>1. j \in 1..(k - 1)
      BY <1>4, <2>2
    <3> DEFINE g == c[j]
               h == c[j + 1]
               u == SubSeq(y, g + 1, h)
               v == SubSeq(x, g + 1, h)
    <3>2. g \in 0..Len(t) /\ h \in 0..Len(t) /\ g <= h /\ h <= pos /\ v = p[j] \o w
      BY <1>6, <1>7, <3>1, Zenon
    <3> HIDE DEF g, h
    <3>3. g \in Nat /\ h \in Nat /\ g <= h /\ h <= a /\ h <= Len(x) /\ h <= Len(y) /\ h <= d
      BY <1>1, <1>6, <1>8, <1>10, <3>2
    <3>4. u \in Seq(Chars) /\ Len(u) = h - g /\ \A i \in 1..(h - g) : u[i] = y[g + i]
      BY <1>9, <3>3, CutIs, Zenon
    <3>5. v \in Seq(Chars) /\ Len(v) = h - g /\ \A i \in 1..(h - g) : v[i] = x[g + i]
      BY <1>6, <3>3, CutIs, Zenon
    <3> HIDE DEF u, v
    <3>6. ASSUME NEW i \in 1..Len(u) PROVE u[i] = v[i]
      <4>1. i \in 1..(h - g) /\ g + i \in 1..a
        BY <1>8, <3>3, <3>4
      <4> QED BY <1>9, <3>4, <3>5, <4>1, Zenon
    <3>7. u = v
      BY <3>4, <3>5, <3>6, SameText, Zenon
    <3> QED BY <3>2, <3>3, <3>7, Zenon DEF g, h, u, v
  <2> QED BY <2>1, <2>2
<1>13. ASSUME Len(s) = 1, NEW i \in 1..d PROVE y[i] = IF t[i] = s[1] THEN w[1] ELSE t[i]
  <2>0. d = a + 1 /\ Len(w) = 1 /\ d \in 1..Len(t)
    BY <1>1, <1>5, <1>8, <1>13
  <2>1. CASE i <= pos
    <3>1. i \in 1..pos /\ i \in 1..a
      BY <1>8, <2>1
    <3> QED BY <1>6, <1>9, <1>13, <3>1, Zenon
  <2>2. CASE i > pos /\ i <= a
    <3>1. /\ i \in (pos + 1)..Len(t) /\ i \in 1..a
          /\ i - 1 \in pos..(a - 1) /\ i - 1 \in 0..(Len(t) - Len(s)) /\ (i - 1) + 1 = i
      BY <1>1, <1>8, <1>13, <2>2
    <3>2. t[i] # s[1]
      <4> SUFFICES ASSUME t[i] = s[1] PROVE FALSE
        OBVIOUS
      <4>1. \A m \in 1..Len(s) : t[(i - 1) + m] = s[m]
        BY <1>13, <3>1
      <4>2. Occurs(s, t, i - 1)
        BY <3>1, <4>1, OccursIs
      <4>3. \A m \in pos..(a - 1) : ~ Occurs(s, t, m)
        BY <1>5, <1>6, Zenon
      <4> QED BY <3>1, <4>2, <4>3, Zenon
    <3> QED BY <1>6, <1>9, <3>1, <3>2, Zenon
  <2>3. CASE i = d
    <3>1. y[d] = w[1]
      <4>1. 1 \in 1..Len(w)
        BY <2>0
      <4> QED BY <1>9, <2>0, <4>1, Zenon
    <3>2. t[d] = s[1]
      <4>1. a \in 0..(Len(t) - Len(s)) /\ 1 \in 1..Len(s)
        BY <1>1, <1>8, <1>13, <2>0
      <4>2. Occurs(s, t, a)
        BY <1>5, Zenon DEF Occurs
      <4>3. \A m \in 1..Len(s) : t[a + m] = s[m]
        BY <4>1, <4>2, OccursIs
      <4> QED BY <2>0, <4>1, <4>3, Zenon
    <3> QED BY <2>3, <3>1, <3>2, Zenon
  <2>4. i <= pos \/ (i > pos /\ i <= a) \/ i = d
    BY <1>8, <2>0
  <2> QED BY <2>1, <2>2, <2>3, <2>4, Zenon
<1>14. Even(y, d, k + 1, p, c, t, s, w)
  <2>1. d = c[k + 1]
    BY DEF d
  <2>2. \A j \in 1..((k + 1) - 1) : c[j + 1] <= d /\ SubSeq(y, c[j] + 1, c[j + 1]) = p[j] \o w
    BY <1>4, <1>12, Zenon
  <2> HIDE DEF d
  <2> QED BY <1>9, <1>10, <1>11, <1>13, <2>1, <2>2, Zenon DEF Even
<1> QED BY <1>2, <1>4, <1>5, <1>14, Zenon DEF y

(* replace() where the text has at most one occurrence, and the substitute   *)
(* is then shorter than the search text.                                     *)
Few(p, s, w) == Len(p) = 1 \/ (Len(p) = 2 /\ Len(w) < Len(s))

Once(x, pos, p, c, t, s, w) ==
  \/ pos = 0 /\ x = t
  \/ /\ Len(p) = 2 /\ Len(w) < Len(s)
     /\ pos = c[2] /\ x = Spliced(t, Find(t, s, c[1]), s, w)

(* The rest that a shorter substitute has moved to the left is not searched  *)
(* from its begin, but it has no occurrence at all.                          *)
LEMMA OnceStops ==
  ASSUME NEW t \in Seq(Chars), NEW s \in Seq(Chars), s # <<>>, NEW w \in Seq(Chars),
         NEW p, NEW c, CutAt(p, c, t, s), c[1] = 0, Len(p) = 2, Len(w) < Len(s)
  PROVE  Find(Spliced(t, Find(t, s, c[1]), s, w), s, c[2]) = Npos
<1> DEFINE a == Find(t, s, c[1])
           e == c[2]
           x == Spliced(t, a, s, w)
           f == Find(x, s, e)
           d == Len(s) - Len(w)
<1>1. Len(t) \in Nat /\ Len(s) \in Nat /\ Len(w) \in Nat
  OBVIOUS
<1>2. a \in 0..Len(t) /\ e \in 0..Len(t) /\ e = a + Len(s)
  <2>1. 1 \in 1..(Len(p) - 1) /\ 1 + 1 = 2
    OBVIOUS
  <2>2. Within(1, p, c, t, s)
    BY <2>1, CutsWithin, Zenon
  <2> QED BY <2>1, <2>2, Zenon DEF Within
<1>3. Find(t, s, e) = Npos
  BY Zenon DEF CutAt
<1> HIDE DEF a, e
<1>4. \A m \in e..(Len(t) - Len(s)) : ~ Occurs(s, t, m)
  <2>1. e \in Nat
    BY <1>1, <1>2
  <2> QED BY <1>3, <2>1, FindIs, Zenon
<1>5. /\ x \in Seq(Chars) /\ Len(x) = (Len(t) - Len(s)) + Len(w)
      /\ \A i \in 1..((Len(t) - a) - Len(s)) : x[(a + Len(w)) + i] = t[(a + Len(s)) + i]
  <2>1. a \in Nat /\ a + Len(s) <= Len(t)
    BY <1>1, <1>2
  <2>2. SplicedFrom(x, t, a, s, w)
    BY <2>1, SpliceIs, Zenon
  <2> HIDE DEF x
  <2> QED BY <2>2, Zenon DEF SplicedFrom
<1> HIDE DEF x
<1>6. ASSUME f # Npos PROVE FALSE
  <2>1. f \in e..(Len(x) - Len(s)) /\ Occurs(s, x, f)
    <3>1. e \in Nat
      BY <1>1, <1>2
    <3> QED BY <1>5, <1>6, <3>1, FindIs, Zenon
  <2> HIDE DEF f
  <2>2. f \in Nat /\ d \in Nat /\ Len(t) = Len(x) + d /\ f <= Len(x) - Len(s) /\ Len(x) \in Nat
    BY <1>1, <1>2, <1>5, <2>1
  <2>3. ASSUME NEW i \in (f + 1)..Len(x) PROVE x[i] = t[i + d]
    <3> DEFINE j == i - (a + Len(w))
    <3>1. /\ j \in 1..((Len(t) - a) - Len(s)) /\ (a + Len(w)) + j = i
          /\ (a + Len(s)) + j = i + d
      BY <1>1, <1>2, <1>5, <2>1, <2>2
    <3> HIDE DEF j, d
    <3> QED BY <1>5, <3>1, Zenon
  <2>4. f + d \in e..(Len(t) - Len(s))
    BY <1>1, <1>2, <2>1, <2>2
  <2> HIDE DEF d
  <2>5. Occurs(s, t, f + d)
    BY <1>5, <2>1, <2>2, <2>3, OccursLikewise, Zenon
  <2> QED BY <1>4, <2>4, <2>5, Zenon
<1> QED BY <1>6, Zenon DEF f, x, a, e

(* Only the first round finds an occurrence. *)
LEMMA OnceGoesOn ==
  ASSUME NEW t \in Seq(Chars), NEW s \in Seq(Chars), s # <<>>, NEW w \in Seq(Chars),
         NEW p, NEW c, CutAt(p, c, t, s), c[1] = 0, Few(p, s, w),
         NEW x, NEW pos, Once(x, pos, p, c, t, s, w), Find(x, s, pos) # Npos
  PROVE  Once(Spliced(x, Find(x, s, pos), s, w), Find(x, s, pos) + Len(s), p, c, t, s, w)
<1>1. pos = 0 /\ x = t
  <2> SUFFICES ASSUME ~ (pos = 0 /\ x = t) PROVE FALSE
    OBVIOUS
  <2>1. Len(p) = 2 /\ Len(w) < Len(s) /\ pos = c[2] /\ x = Spliced(t, Find(t, s, c[1]), s, w)
    BY Zenon DEF Once
  <2>2. Find(Spliced(t, Find(t, s, c[1]), s, w), s, c[2]) = Npos
    BY <2>1, OnceStops, Zenon
  <2> QED BY <2>1, <2>2, Zenon
<1>2. Find(t, s, c[1]) # Npos /\ Find(x, s, pos) = Find(t, s, c[1])
  BY <1>1, Zenon
<1>3. Len(p) = 2 /\ Len(w) < Len(s)
  <2>1. Len(p) # 1
    BY <1>2, Zenon DEF CutAt
  <2> QED BY <2>1, Zenon DEF Few
<1>4. c[2] = Find(t, s, c[1]) + Len(s)
  <2>1. 1 \in 1..(Len(p) - 1) /\ 1 + 1 = 2
    BY <1>3
  <2> QED BY <2>1, Zenon DEF CutAt
<1> QED BY <1>1, <1>2, <1>3, <1>4, Zenon DEF Once

(* What is left behind it is the text with its occurrence replaced. *)
LEMMA OnceEnds ==
  ASSUME NEW t \in Seq(Chars), NEW s \in Seq(Chars), s # <<>>, NEW w \in Seq(Chars),
         NEW p, NEW c, CutAt(p, c, t, s), c[1] = 0, Few(p, s, w),
         NEW x, NEW pos, Once(x, pos, p, c, t, s, w), Find(x, s, pos) = Npos
  PROVE  x = Joined(p, w)
<1>1. CASE pos = 0 /\ x = t
  <2>1. Len(p) = 1
    <3> SUFFICES ASSUME Len(p) # 1 PROVE FALSE
      OBVIOUS
    <3>1. Len(p) = 2
      BY Zenon DEF Few
    <3>2. 1 \in 1..(Len(p) - 1)
      BY <3>1
    <3> QED BY <1>1, <3>2, Zenon DEF CutAt
  <2> DEFINE u == [k \in 1..1 |-> p[1]]
  <2>2. u[1] = p[1]
    OBVIOUS
  <2>3. Joins(u, p, w)
    <3>1. \A k \in 1..1 : k = 1
      OBVIOUS
    <3>2. u = [k \in 1..1 |-> IF k = 1 THEN p[k] ELSE p[k] \o w \o u[k + 1]]
      BY <3>1, Zenon
    <3> HIDE DEF u
    <3> QED BY <2>1, <3>2, Zenon DEF Joins
  <2> HIDE DEF u
  <2>4. Joined(p, w) = u[1]
    <3>1. Len(p) \in Nat /\ Len(p) >= 1
      BY <2>1
    <3> QED BY <2>3, <3>1, JoinedIs, Zenon
  <2>5. p[1] = SubSeq(t, 0 + 1, Len(t))
    BY <2>1, Zenon DEF CutAt
  <2>6. SubSeq(t, 0 + 1, Len(t)) = t
    OBVIOUS
  <2> QED BY <1>1, <2>2, <2>4, <2>5, <2>6, Zenon
<1>2. CASE ~ (pos = 0 /\ x = t)
  <2>1. Len(p) = 2 /\ Len(w) < Len(s) /\ pos = c[2] /\ x = Spliced(t, Find(t, s, c[1]), s, w)
    BY <1>2, Zenon DEF Once
  <2>2. 1 \in 1..(Len(p) - 1) /\ 1 + 1 = 2 /\ 0 + 1 = 1
    BY <2>1
  <2>3. /\ p[1] = SubSeq(t, 1, Find(t, s, c[1])) /\ c[2] = Find(t, s, c[1]) + Len(s)
        /\ p[2] = SubSeq(t, c[2] + 1, Len(t))
    BY <2>1, <2>2, Zenon DEF CutAt
  <2>4. x = p[1] \o w \o p[2]
    BY <2>1, <2>3, Zenon DEF Spliced
  <2> DEFINE u == [k \in 1..2 |-> IF k = 2 THEN p[2] ELSE p[1] \o w \o p[2]]
  <2>5. u[1] = p[1] \o w \o p[2] /\ u[2] = p[2]
    <3>1. 1 \in 1..2 /\ 2 \in 1..2 /\ 1 # 2
      OBVIOUS
    <3> QED BY <3>1, Zenon
  <2>6. u = [k \in 1..2 |-> IF k = 2 THEN p[k] ELSE p[k] \o w \o u[k + 1]]
    <3>1. \A k \in 1..2 : k # 2 => k = 1
      OBVIOUS
    <3>2. ASSUME NEW k \in 1..2 PROVE u[k] = IF k = 2 THEN p[k] ELSE p[k] \o w \o u[k + 1]
      <4> HIDE DEF u
      <4> QED BY <2>2, <2>5, <3>1, Zenon
    <3>3. u = [k \in 1..2 |-> u[k]]
      BY Zenon
    <3> HIDE DEF u
    <3> QED BY <3>2, <3>3, Zenon
  <2> HIDE DEF u
  <2>7. Joins(u, p, w)
    BY <2>1, <2>6, Zenon DEF Joins
  <2>8. Joined(p, w) = u[1]
    <3>1. Len(p) \in Nat /\ Len(p) >= 1
      BY <2>1
    <3> QED BY <2>7, <3>1, JoinedIs, Zenon
  <2> QED BY <2>4, <2>5, <2>8, Zenon
<1> QED BY <1>1, <1>2

(* The inductive invariant of replace(). *)
ReplaceInv ==
  LET p == Pieces(original, search)
  IN  /\ original \in Seq(Chars) /\ search \in Seq(Chars) /\ substitute \in Seq(Chars)
      /\ text \in Seq(Chars) /\ position \in Nat /\ returned \in BOOLEAN
      /\ returned => Find(text, search, position) = Npos
      /\ search = <<>> => ~ returned /\ position <= Len(text)
      /\ search # <<>> =>
           \E c : /\ CutAt(p, c, original, search) /\ c[1] = 0
                  /\ Len(substitute) = Len(search) =>
                       \E k \in 1..Len(p) :
                         Even(text, position, k, p, c, original, search, substitute)
                  /\ Few(p, search, substitute) =>
                       Once(text, position, p, c, original, search, substitute)

(* A call of replace() begins so. *)
LEMMA ReplaceStarts == StringsInit => ReplaceInv
<1> SUFFICES ASSUME StringsInit PROVE ReplaceInv
  OBVIOUS
<1> DEFINE p == Pieces(original, search)
<1>1. /\ original \in Seq(Chars) /\ search \in Seq(Chars) /\ substitute \in Seq(Chars)
      /\ text = original /\ position = 0 /\ returned = FALSE
  <2>1. \A n : BoundedSeq(Chars, n) \subseteq Seq(Chars)
    BY DEF BoundedSeq, SeqOf
  <2> QED BY <2>1, Zenon DEF StringsInit
<1>2. position \in Nat /\ position <= Len(text)
  BY <1>1
<1>3. ASSUME search # <<>>
      PROVE  \E c : /\ CutAt(p, c, original, search) /\ c[1] = 0
                    /\ \E k \in 1..Len(p) : Even(text, position, k, p, c, original, search, substitute)
                    /\ Once(text, position, p, c, original, search, substitute)
  <2>1. PICK c : CutAt(p, c, original, search) /\ c[1] = 0
    BY <1>1, <1>3, PiecesAre, Zenon
  <2> HIDE DEF p
  <2>2. 1 \in 1..Len(p)
    <3>1. Len(p) \in Nat /\ Len(p) >= 1
      BY <2>1 DEF CutAt
    <3> QED BY <3>1
  <2>3. (\A j \in 1..(1 - 1) : FALSE) /\ (\A i \in 1..0 : FALSE)
    OBVIOUS
  <2>4. Even(text, position, 1, p, c, original, search, substitute)
    BY <1>1, <2>1, <2>3, Zenon DEF Even
  <2>5. Once(text, position, p, c, original, search, substitute)
    BY <1>1, Zenon DEF Once
  <2> QED BY <2>1, <2>2, <2>4, <2>5, Zenon
<1> HIDE DEF p
<1>4. ReplaceInv
  BY <1>1, <1>2, <1>3, Zenon DEF ReplaceInv, p
<1> QED BY <1>4

(* Every round of the loop keeps it. *)
LEMMA ReplaceGoesOn == ReplaceInv /\ ReplaceFound => ReplaceInv'
<1> SUFFICES ASSUME ReplaceInv, ReplaceFound PROVE ReplaceInv'
  OBVIOUS
<1> DEFINE p == Pieces(original, search)
           f == Find(text, search, position)
<1>1. /\ original \in Seq(Chars) /\ search \in Seq(Chars) /\ substitute \in Seq(Chars)
      /\ text \in Seq(Chars) /\ position \in Nat /\ returned \in BOOLEAN
      /\ search = <<>> => ~ returned /\ position <= Len(text)
  BY Zenon DEF ReplaceInv
<1>2. /\ f # Npos /\ ~ returned /\ text' = Spliced(text, f, search, substitute)
      /\ position' = f + Len(search)
      /\ original' = original /\ search' = search /\ substitute' = substitute /\ returned' = returned
  BY Zenon DEF ReplaceFound, ReplaceAndSkip, Spliced
<1>3. f \in position..(Len(text) - Len(search))
  BY <1>1, <1>2, FindIs, Zenon
<1>4. text' \in Seq(Chars) /\ position' \in Nat /\ (search = <<>> => position' <= Len(text'))
  <2> HIDE DEF f
  <2>1. /\ f \in Nat /\ f + Len(search) <= Len(text) /\ Len(text) \in Nat /\ Len(search) \in Nat
        /\ Len(substitute) \in Nat
    BY <1>1, <1>3
  <2>2. SplicedFrom(text', text, f, search, substitute)
    BY <1>1, <1>2, <2>1, SpliceIs, Zenon
  <2>3. text' \in Seq(Chars) /\ Len(text') = (Len(text) - Len(search)) + Len(substitute)
    BY <2>2, Zenon DEF SplicedFrom
  <2>4. search = <<>> => Len(search) = 0
    OBVIOUS
  <2>5. (search = <<>> => position' <= Len(text')) /\ position' \in Nat
    BY <1>2, <2>1, <2>3, <2>4
  <2> QED BY <2>3, <2>5
<1>5. ASSUME search # <<>>
      PROVE  \E c : /\ CutAt(p, c, original, search) /\ c[1] = 0
                    /\ Len(substitute) = Len(search) =>
                         \E k \in 1..Len(p) :
                           Even(text', position', k, p, c, original, search, substitute)
                    /\ Few(p, search, substitute) =>
                         Once(text', position', p, c, original, search, substitute)
  <2>1. PICK c : /\ CutAt(p, c, original, search) /\ c[1] = 0
                 /\ Len(substitute) = Len(search) =>
                      \E k \in 1..Len(p) :
                        Even(text, position, k, p, c, original, search, substitute)
                 /\ Few(p, search, substitute) =>
                      Once(text, position, p, c, original, search, substitute)
    BY <1>5, Zenon DEF ReplaceInv
  <2> HIDE DEF p
  <2>2. ASSUME Len(substitute) = Len(search)
        PROVE  \E k \in 1..Len(p) : Even(text', position', k, p, c, original, search, substitute)
    <3>1. PICK k \in 1..Len(p) : Even(text, position, k, p, c, original, search, substitute)
      BY <2>1, <2>2, Zenon
    <3>2. /\ k + 1 \in 1..Len(p)
          /\ Even(Spliced(text, f, search, substitute), f + Len(search), k + 1, p, c,
                  original, search, substitute)
      BY <1>1, <1>2, <1>5, <2>1, <2>2, <3>1, EvenGoesOn, Zenon
    <3> QED BY <1>2, <3>2, Zenon
  <2>3. ASSUME Few(p, search, substitute)
        PROVE  Once(text', position', p, c, original, search, substitute)
    <3>1. Once(Spliced(text, f, search, substitute), f + Len(search), p, c, original, search, substitute)
      BY <1>1, <1>2, <1>5, <2>1, <2>3, OnceGoesOn, Zenon
    <3> QED BY <1>2, <3>1, Zenon
  <2> QED BY <2>1, <2>2, <2>3, Zenon
<1> HIDE DEF p, f
<1> QED BY <1>1, <1>2, <1>4, <1>5, Zenon DEF ReplaceInv, p

(* The loop does not end for an empty search text, which find() always finds. *)
LEMMA ReplaceStops == ReplaceInv /\ ReplaceReturns => ReplaceInv'
<1> SUFFICES ASSUME ReplaceInv, ReplaceReturns PROVE ReplaceInv'
  OBVIOUS
<1>1. /\ Find(text, search, position) = Npos /\ returned' = TRUE
      /\ original' = original /\ search' = search /\ substitute' = substitute
      /\ text' = text /\ position' = position
  BY Zenon DEF ReplaceReturns
<1>2. search # <<>>
  <2> SUFFICES ASSUME search = <<>> PROVE FALSE
    OBVIOUS
  <2>1. text \in Seq(Chars) /\ search \in Seq(Chars) /\ position \in Nat /\ position <= Len(text)
    BY Zenon DEF ReplaceInv
  <2>2. \A q \in position..(Len(text) - Len(search)) : ~ Occurs(search, text, q)
    BY <1>1, <2>1, FindIs, Zenon
  <2>3. Len(search) = 0 /\ position \in position..(Len(text) - Len(search)) /\ position \in 0..(Len(text) - Len(search))
    BY <2>1
  <2>4. Occurs(search, text, position)
    <3>1. \A i \in 1..Len(search) : text[position + i] = search[i]
      BY <2>3
    <3> QED BY <2>1, <2>3, <3>1, OccursIs
  <2> QED BY <2>2, <2>3, <2>4, Zenon
<1> QED BY <1>1, <1>2, Zenon DEF ReplaceInv

(* So it holds in every state of a call. *)
LEMMA ReplaceKeeps == StringsSpec => []ReplaceInv
<1>1. ReplaceInv /\ UNCHANGED stringVars => ReplaceInv'
  <2> SUFFICES ASSUME ReplaceInv, UNCHANGED stringVars PROVE ReplaceInv'
    OBVIOUS
  <2>1. /\ original' = original /\ search' = search /\ substitute' = substitute
        /\ text' = text /\ position' = position /\ returned' = returned
    BY Zenon DEF stringVars
  <2> QED BY <2>1, Zenon DEF ReplaceInv
<1>2. ReplaceInv /\ [ReplaceStep]_stringVars => ReplaceInv'
  BY <1>1, ReplaceGoesOn, ReplaceStops, Zenon DEF ReplaceStep
<1> QED BY <1>2, ReplaceStarts, PTL DEF StringsSpec

(* What replace() returns, for every text, search text and substitute of the *)
(* cases in which it replaces all occurrences.                               *)
THEOREM ReplacesAll == StringsSpec => []ReplaceExact
<1>1. ReplaceInv => ReplaceExact
  <2> SUFFICES ASSUME ReplaceInv PROVE ReplaceExact
    OBVIOUS
  <2> DEFINE p == Split(original, search)
             exact == \/ Len(search) = Len(substitute)
                      \/ Len(p) = 2 /\ Len(search) > Len(substitute)
                      \/ Len(p) = 1
  <2>1. ASSUME returned, exact
        PROVE  /\ text = Joined(p, substitute)
               /\ Len(search) = 1 /\ Len(substitute) = 1
                    => text = ReplaceChar(original, search[1], substitute[1])
    <3>1. /\ original \in Seq(Chars) /\ search \in Seq(Chars) /\ substitute \in Seq(Chars)
          /\ Find(text, search, position) = Npos /\ search # <<>>
      BY <2>1, Zenon DEF ReplaceInv
    <3>2. p = Pieces(original, search)
      BY <3>1, Zenon DEF Split
    <3>3. PICK c : /\ CutAt(p, c, original, search) /\ c[1] = 0
                   /\ Len(substitute) = Len(search) =>
                        \E k \in 1..Len(p) :
                          Even(text, position, k, p, c, original, search, substitute)
                   /\ Few(p, search, substitute) =>
                        Once(text, position, p, c, original, search, substitute)
      <4> HIDE DEF p
      <4> QED BY <3>1, <3>2, Zenon DEF ReplaceInv
    <3> HIDE DEF p
    <3>4. CASE Len(substitute) = Len(search)
      <4>1. PICK k \in 1..Len(p) : Even(text, position, k, p, c, original, search, substitute)
        BY <3>3, <3>4, Zenon
      <4>2. Replaced(text, p, original, search, substitute)
        BY <3>1, <3>3, <3>4, <4>1, EvenEnds, Zenon
      <4> QED BY <4>2, Zenon DEF Replaced
    <3>5. CASE Len(substitute) # Len(search)
      <4>1. Few(p, search, substitute)
        <5>1. Len(search) > Len(substitute) => Len(substitute) < Len(search)
          BY <3>1
        <5> QED BY <2>1, <3>5, <5>1, Zenon DEF Few
      <4>2. text = Joined(p, substitute)
        BY <3>1, <3>3, <4>1, OnceEnds, Zenon
      <4> QED BY <3>5, <4>2, Zenon
    <3> QED BY <3>4, <3>5
  <2> QED BY <2>1, Zenon DEF ReplaceExact
<1> QED BY <1>1, ReplaceKeeps, PTL

-----------------------------------------------------------------------------
(***************************************************************************)
(* Addresses                                                               *)
(***************************************************************************)

(* The bits of an octet, one by one. *)
LEMMA BitsAre ==
  ASSUME NEW o \in Nat
  PROVE  /\ Bits(o) = [k \in 1..8 |-> Bits(o)[k]]
         /\ Bits(o)[1] = (o \div 128) % 2 /\ Bits(o)[2] = (o \div 64) % 2
         /\ Bits(o)[3] = (o \div 32) % 2 /\ Bits(o)[4] = (o \div 16) % 2
         /\ Bits(o)[5] = (o \div 8) % 2 /\ Bits(o)[6] = (o \div 4) % 2
         /\ Bits(o)[7] = (o \div 2) % 2 /\ Bits(o)[8] = (o \div 1) % 2
<1>3. \A k \in 1..8 : Bits(o)[k] = (o \div Weights[k]) % 2
  BY Zenon DEF Bits
<1>4. Bits(o) = [k \in 1..8 |-> Bits(o)[k]]
  BY Zenon DEF Bits
<1>5. Bits(o)[1] = (o \div 128) % 2
  <2>1. 1 \in 1..8 /\ Weights[1] = 128
    BY DEF Weights
  <2> QED BY <1>3, <2>1
<1>6. Bits(o)[2] = (o \div 64) % 2
  <2>1. 2 \in 1..8 /\ Weights[2] = 64
    BY DEF Weights
  <2> QED BY <1>3, <2>1
<1>7. Bits(o)[3] = (o \div 32) % 2
  <2>1. 3 \in 1..8 /\ Weights[3] = 32
    BY DEF Weights
  <2> QED BY <1>3, <2>1
<1>8. Bits(o)[4] = (o \div 16) % 2
  <2>1. 4 \in 1..8 /\ Weights[4] = 16
    BY DEF Weights
  <2> QED BY <1>3, <2>1
<1>9. Bits(o)[5] = (o \div 8) % 2
  <2>1. 5 \in 1..8 /\ Weights[5] = 8
    BY DEF Weights
  <2> QED BY <1>3, <2>1
<1>10. Bits(o)[6] = (o \div 4) % 2
  <2>1. 6 \in 1..8 /\ Weights[6] = 4
    BY DEF Weights
  <2> QED BY <1>3, <2>1
<1>11. Bits(o)[7] = (o \div 2) % 2
  <2>1. 7 \in 1..8 /\ Weights[7] = 2
    BY DEF Weights
  <2> QED BY <1>3, <2>1
<1>12. Bits(o)[8] = (o \div 1) % 2
  <2>1. 8 \in 1..8 /\ Weights[8] = 1
    BY DEF Weights
  <2> QED BY <1>3, <2>1
<1> QED BY <1>4, <1>5, <1>6, <1>7, <1>8, <1>9, <1>10, <1>11, <1>12

(* An octet has eight bits. *)
LEMMA EightCases == \A k \in 1..8 : k = 1 \/ k = 2 \/ k = 3 \/ k = 4 \/ k = 5 \/ k = 6 \/ k = 7 \/ k = 8
OBVIOUS

(* A bit is 0 or 1. *)
LEMMA BitsInRange ==
  ASSUME NEW o \in Nat
  PROVE  Bits(o) \in [1..8 -> {0, 1}]
<1>1. \A w \in {1, 2, 4, 8, 16, 32, 64, 128} : (o \div w) % 2 \in {0, 1}
  OBVIOUS
<1>2. ASSUME NEW k \in 1..8 PROVE Bits(o)[k] \in {0, 1}
  <2>1. CASE k = 1
    <3>1. (o \div 128) % 2 \in {0, 1}
      BY <1>1
    <3> QED BY <2>1, <3>1, BitsAre, Zenon
  <2>2. CASE k = 2
    <3>1. (o \div 64) % 2 \in {0, 1}
      BY <1>1
    <3> QED BY <2>2, <3>1, BitsAre, Zenon
  <2>3. CASE k = 3
    <3>1. (o \div 32) % 2 \in {0, 1}
      BY <1>1
    <3> QED BY <2>3, <3>1, BitsAre, Zenon
  <2>4. CASE k = 4
    <3>1. (o \div 16) % 2 \in {0, 1}
      BY <1>1
    <3> QED BY <2>4, <3>1, BitsAre, Zenon
  <2>5. CASE k = 5
    <3>1. (o \div 8) % 2 \in {0, 1}
      BY <1>1
    <3> QED BY <2>5, <3>1, BitsAre, Zenon
  <2>6. CASE k = 6
    <3>1. (o \div 4) % 2 \in {0, 1}
      BY <1>1
    <3> QED BY <2>6, <3>1, BitsAre, Zenon
  <2>7. CASE k = 7
    <3>1. (o \div 2) % 2 \in {0, 1}
      BY <1>1
    <3> QED BY <2>7, <3>1, BitsAre, Zenon
  <2>8. CASE k = 8
    <3>1. (o \div 1) % 2 \in {0, 1}
      BY <1>1
    <3> QED BY <2>8, <3>1, BitsAre, Zenon
  <2> QED BY <2>1, <2>2, <2>3, <2>4, <2>5, <2>6, <2>7, <2>8
<1> QED BY <1>2, BitsAre, Zenon

(* An octet is the sum of its bits. *)
LEMMA OctetOfBits ==
  ASSUME NEW o \in 0..255
  PROVE  Octet(Bits(o)) = o
<1> DEFINE b1 == (o \div 128) % 2
           b2 == (o \div 64) % 2
           b3 == (o \div 32) % 2
           b4 == (o \div 16) % 2
           b5 == (o \div 8) % 2
           b6 == (o \div 4) % 2
           b7 == (o \div 2) % 2
           b8 == (o \div 1) % 2
<1>0. o \in Nat
  OBVIOUS
<1>1. Octet(Bits(o)) = 128 * b1 + 64 * b2 + 32 * b3 + 16 * b4 + 8 * b5 + 4 * b6 + 2 * b7 + b8
  BY <1>0, BitsAre, ZenonT(60) DEF Octet
<1>2. 128 * b1 + 64 * b2 + 32 * b3 + 16 * b4 + 8 * b5 + 4 * b6 + 2 * b7 + b8 = o
  OBVIOUS
<1> QED BY <1>1, <1>2, Zenon

(* The sum of eight bits is an octet that has these bits. *)
LEMMA BitsOfOctet ==
  ASSUME NEW b \in [1..8 -> {0, 1}]
  PROVE  /\ Octet(b) \in 0..255
         /\ Bits(Octet(b)) = b
<1>1. /\ b[1] \in {0, 1} /\ b[2] \in {0, 1} /\ b[3] \in {0, 1} /\ b[4] \in {0, 1}
      /\ b[5] \in {0, 1} /\ b[6] \in {0, 1} /\ b[7] \in {0, 1} /\ b[8] \in {0, 1}
  OBVIOUS
<1> DEFINE o == Octet(b)
           b1 == b[1]
           b2 == b[2]
           b3 == b[3]
           b4 == b[4]
           b5 == b[5]
           b6 == b[6]
           b7 == b[7]
           b8 == b[8]
<1>2. /\ o = 128 * b1 + 64 * b2 + 32 * b3 + 16 * b4 + 8 * b5 + 4 * b6 + 2 * b7 + b8
      /\ b1 \in {0, 1} /\ b2 \in {0, 1} /\ b3 \in {0, 1} /\ b4 \in {0, 1}
      /\ b5 \in {0, 1} /\ b6 \in {0, 1} /\ b7 \in {0, 1} /\ b8 \in {0, 1}
  BY <1>1, Zenon DEF Octet
<1>3. /\ o \in 0..255
      /\ (o \div 128) % 2 = b[1] /\ (o \div 64) % 2 = b[2] /\ (o \div 32) % 2 = b[3]
      /\ (o \div 16) % 2 = b[4] /\ (o \div 8) % 2 = b[5] /\ (o \div 4) % 2 = b[6]
      /\ (o \div 2) % 2 = b[7] /\ (o \div 1) % 2 = b[8]
  <2> HIDE DEF o, b1, b2, b3, b4, b5, b6, b7, b8
  <2>0. o \in 0..255
    BY <1>2
  <2>1. (o \div 128) % 2 = b1
    BY <1>2
  <2>2. (o \div 64) % 2 = b2
    BY <1>2
  <2>3. (o \div 32) % 2 = b3
    BY <1>2
  <2>4. (o \div 16) % 2 = b4
    BY <1>2
  <2>5. (o \div 8) % 2 = b5
    BY <1>2
  <2>6. (o \div 4) % 2 = b6
    BY <1>2
  <2>7. (o \div 2) % 2 = b7
    BY <1>2
  <2>8. (o \div 1) % 2 = b8
    BY <1>2
  <2> QED BY <2>0, <2>1, <2>2, <2>3, <2>4, <2>5, <2>6, <2>7, <2>8, Zenon DEF b1, b2, b3, b4, b5, b6, b7, b8
<1> HIDE DEF o
<1>0. o \in Nat
  BY <1>3
<1>4. ASSUME NEW k \in 1..8 PROVE Bits(o)[k] = b[k]
  <2>1. CASE k = 1
    BY <1>0, <1>3, <2>1, BitsAre, Zenon
  <2>2. CASE k = 2
    BY <1>0, <1>3, <2>2, BitsAre, Zenon
  <2>3. CASE k = 3
    BY <1>0, <1>3, <2>3, BitsAre, Zenon
  <2>4. CASE k = 4
    BY <1>0, <1>3, <2>4, BitsAre, Zenon
  <2>5. CASE k = 5
    BY <1>0, <1>3, <2>5, BitsAre, Zenon
  <2>6. CASE k = 6
    BY <1>0, <1>3, <2>6, BitsAre, Zenon
  <2>7. CASE k = 7
    BY <1>0, <1>3, <2>7, BitsAre, Zenon
  <2>8. CASE k = 8
    BY <1>0, <1>3, <2>8, BitsAre, Zenon
  <2> QED BY <2>1, <2>2, <2>3, <2>4, <2>5, <2>6, <2>7, <2>8
<1>5. Bits(o) = b
  BY <1>0, <1>4, BitsAre
<1> QED BY <1>3, <1>5 DEF o

(* The octets a word is made of. *)
LEMMA WordIs ==
  ASSUME NEW o \in [1..4 -> Nat]
  PROVE  /\ Word(o) \in [1..32 -> {0, 1}]
         /\ \A j \in 1..4, i \in 1..8 : Word(o)[(8 * j - 8) + i] = Bits(o[j])[i]
<1> DEFINE BitAt(k) == Bits(o[(k + 7) \div 8])[((k - 1) % 8) + 1]
<1>1. Word(o) = [k \in 1..32 |-> BitAt(k)]
  BY Zenon DEF Word
<1>2. ASSUME NEW k \in 1..32 PROVE BitAt(k) \in {0, 1}
  <2> DEFINE j == (k + 7) \div 8
             i == ((k - 1) % 8) + 1
  <2>1. j \in 1..4 /\ i \in 1..8
    OBVIOUS
  <2> HIDE DEF j, i
  <2>2. Bits(o[j]) \in [1..8 -> {0, 1}]
    <3>1. o[j] \in Nat
      BY <2>1
    <3> QED BY <3>1, BitsInRange
  <2>3. Bits(o[j])[i] \in {0, 1}
    BY <2>1, <2>2, Zenon
  <2> QED BY <2>3, Zenon DEF j, i
<1>3. ASSUME NEW j \in 1..4, NEW i \in 1..8 PROVE Word(o)[(8 * j - 8) + i] = Bits(o[j])[i]
  <2> DEFINE k == (8 * j - 8) + i
  <2>1. k \in 1..32 /\ (k + 7) \div 8 = j /\ ((k - 1) % 8) + 1 = i
    OBVIOUS
  <2> HIDE DEF k
  <2>2. Word(o)[k] = BitAt(k)
    BY <1>1, <2>1, Zenon
  <2>3. Word(o)[k] = Bits(o[j])[i]
    BY <2>1, <2>2, Zenon
  <2> QED BY <2>3 DEF k
<1> HIDE DEF BitAt
<1> QED BY <1>1, <1>2, <1>3, Zenon

(* Every bit of a word is one of an octet. *)
LEMMA BitPlace ==
  ASSUME NEW k \in 1..32
  PROVE  \E j \in 1..4, i \in 1..8 : k = (8 * j - 8) + i
<1>1. /\ (k + 7) \div 8 \in 1..4 /\ ((k - 1) % 8) + 1 \in 1..8
      /\ k = (8 * ((k + 7) \div 8) - 8) + (((k - 1) % 8) + 1)
  OBVIOUS
<1> QED BY <1>1, Zenon

(* The eight bits of an octet in a word. *)
LEMMA ByteIs ==
  ASSUME NEW n \in Nat, NEW w \in [1..n -> {0, 1}], NEW j \in Nat, j >= 1, 8 * j <= n
  PROVE  /\ SubSeq(w, 8 * j - 7, 8 * j) \in [1..8 -> {0, 1}]
         /\ \A i \in 1..8 : SubSeq(w, 8 * j - 7, 8 * j)[i] = w[(8 * j - 8) + i]
<1>1. w \in Seq({0, 1}) /\ Len(w) = n
  OBVIOUS
<1> DEFINE m == 8 * j - 7
           e == 8 * j
           s == SubSeq(w, m, e)
<1>2. /\ m \in 1..n + 1 /\ e \in m - 1..n /\ e \in Int /\ m \in Int /\ (e - m) + 1 = 8
      /\ m - 1 = 8 * j - 8
  OBVIOUS
<1> HIDE DEF m, e
<1>3. s \in Seq({0, 1}) /\ Len(s) = 8
  BY <1>1, <1>2
<1>4. \A i \in 1..8 : s[i] = w[(m - 1) + i]
  BY <1>1, <1>2
<1>5. s \in [1..8 -> {0, 1}]
  <2> HIDE DEF s
  <2> QED BY <1>3, LenProperties
<1> HIDE DEF s
<1>6. \A i \in 1..8 : s[i] = w[(8 * j - 8) + i]
  BY <1>2, <1>4, Zenon
<1> QED BY <1>5, <1>6 DEF s, m, e

(* A word is the word of its octets. *)
LEMMA WordOfOctets ==
  ASSUME NEW w \in [1..32 -> {0, 1}]
  PROVE  /\ Octets(w) \in [1..4 -> 0..255]
         /\ Word(Octets(w)) = w
<1> DEFINE B(j) == SubSeq(w, 8 * j - 7, 8 * j)
           o == Octets(w)
<1>1. ASSUME NEW j \in 1..4
      PROVE  B(j) \in [1..8 -> {0, 1}] /\ \A i \in 1..8 : B(j)[i] = w[(8 * j - 8) + i]
  <2>1. 32 \in Nat /\ j \in Nat /\ j >= 1 /\ 8 * j <= 32
    OBVIOUS
  <2> QED BY <2>1, ByteIs
<1>2. o = [j \in 1..4 |-> Octet(B(j))]
  BY Zenon DEF Octets
<1> HIDE DEF o, B
<1>3. ASSUME NEW j \in 1..4 PROVE Octet(B(j)) \in 0..255 /\ Bits(Octet(B(j))) = B(j) /\ o[j] = Octet(B(j))
  BY <1>1, <1>2, BitsOfOctet
<1>4. o \in [1..4 -> 0..255]
  BY <1>2, <1>3, Zenon
<1>5. o \in [1..4 -> Nat]
  <2>1. 0..255 \subseteq Nat
    OBVIOUS
  <2> QED BY <1>4, <2>1
<1>6. Word(o) \in [1..32 -> {0, 1}] /\ \A j \in 1..4, i \in 1..8 : Word(o)[(8 * j - 8) + i] = Bits(o[j])[i]
  BY <1>5, WordIs
<1>7. ASSUME NEW k \in 1..32 PROVE Word(o)[k] = w[k]
  <2>1. PICK j \in 1..4, i \in 1..8 : k = (8 * j - 8) + i
    BY BitPlace
  <2>2. Word(o)[(8 * j - 8) + i] = Bits(o[j])[i]
    BY <1>6
  <2>3. Bits(o[j])[i] = w[(8 * j - 8) + i]
    <3>1. Bits(o[j]) = B(j)
      <4>1. Bits(Octet(B(j))) = B(j) /\ o[j] = Octet(B(j))
        BY <1>3, Zenon
      <4> QED BY <4>1, Zenon
    <3>2. B(j)[i] = w[(8 * j - 8) + i]
      BY <1>1, Zenon
    <3> QED BY <3>1, <3>2, Zenon
  <2> QED BY <2>1, <2>2, <2>3, Zenon
<1>8. Word(o) = w
  <2> DEFINE v == Word(o)
  <2>1. v \in [1..32 -> {0, 1}] /\ \A k \in 1..32 : v[k] = w[k]
    BY <1>6, <1>7
  <2> HIDE DEF v
  <2>2. v = w
    BY <2>1
  <2> QED BY <2>2 DEF v
<1> QED BY <1>4, <1>8 DEF o

(* The octets of a word are those it was made of. *)
LEMMA OctetsOfWord ==
  ASSUME NEW o \in [1..4 -> 0..255]
  PROVE  Octets(Word(o)) = o
<1> DEFINE w == Word(o)
           B(j) == SubSeq(w, 8 * j - 7, 8 * j)
<1>0. o \in [1..4 -> Nat]
  <2>1. 0..255 \subseteq Nat
    OBVIOUS
  <2> QED BY <2>1
<1>1. w \in [1..32 -> {0, 1}] /\ \A j \in 1..4, i \in 1..8 : w[(8 * j - 8) + i] = Bits(o[j])[i]
  BY <1>0, WordIs
<1> HIDE DEF w
<1>2. ASSUME NEW j \in 1..4 PROVE Octet(B(j)) = o[j]
  <2>1. 32 \in Nat /\ j \in Nat /\ j >= 1 /\ 8 * j <= 32 /\ o[j] \in Nat /\ o[j] \in 0..255
    BY <1>0
  <2>2. B(j) \in [1..8 -> {0, 1}] /\ \A i \in 1..8 : B(j)[i] = w[(8 * j - 8) + i]
    BY <1>1, <2>1, ByteIs
  <2>3. Bits(o[j]) \in [1..8 -> {0, 1}]
    BY <2>1, BitsInRange
  <2> DEFINE x == B(j)
             y == Bits(o[j])
  <2>4. x \in [1..8 -> {0, 1}] /\ y \in [1..8 -> {0, 1}] /\ \A i \in 1..8 : x[i] = y[i]
    BY <1>1, <2>2, <2>3, Zenon
  <2>5. x = y
    <3> HIDE DEF x, y
    <3> QED BY <2>4
  <2> QED BY <2>1, <2>5, OctetOfBits, Zenon
<1>3. Octets(w) = [j \in 1..4 |-> Octet(B(j))]
  BY Zenon DEF Octets
<1>4. Octets(w) = o
  <2> HIDE DEF B
  <2> QED BY <1>2, <1>3
<1> QED BY <1>4 DEF w

-----------------------------------------------------------------------------
(* The least of a set of positions, as Min gives it. *)
LEMMA MinIs ==
  ASSUME NEW S, S \subseteq Nat, S # {}
  PROVE  Min(S) \in S /\ \A m \in S : Min(S) <= m
<1>1. \E n \in S : \A m \in S : n <= m
  BY LeastNatural
<1> QED BY <1>1, Zenon DEF Min

(* The count of the ones at the begin of a word, as the loop over the bits   *)
(* makes it.                                                                 *)
CountsOnes(f, w) == f = [k \in 1..33 |-> IF k = 33 \/ w[k] = 0 THEN k - 1 ELSE f[k + 1]]

(* The recursion that counts the ones has a solution. *)
LEMMA OnesCounted ==
  ASSUME NEW w \in [1..32 -> {0, 1}]
  PROVE  \E f : CountsOnes(f, w)
<1> DEFINE Z(k) == {j \in k..33 : j = 33 \/ w[j] = 0}
           f == [k \in 1..33 |-> Min(Z(k)) - 1]
<1>1. ASSUME NEW k \in 1..33
      PROVE  Min(Z(k)) \in Z(k) /\ \A m \in Z(k) : Min(Z(k)) <= m
  <2>1. Z(k) \subseteq Nat /\ Z(k) # {}
    <3>1. 33 \in Z(k)
      OBVIOUS
    <3> QED BY <3>1
  <2> HIDE DEF Z
  <2> QED BY <2>1, MinIs
<1>2. ASSUME NEW k \in 1..33
      PROVE  f[k] = IF k = 33 \/ w[k] = 0 THEN k - 1 ELSE f[k + 1]
  <2>1. f[k] = Min(Z(k)) - 1
    BY Zenon
  <2>2. CASE k = 33 \/ w[k] = 0
    <3>1. k \in Z(k)
      BY <2>2
    <3>2. Min(Z(k)) = k
      <4>1. Min(Z(k)) \in Z(k) /\ Min(Z(k)) <= k
        BY <1>1, <3>1
      <4>2. \A m \in Z(k) : m \in Nat /\ m >= k
        OBVIOUS
      <4> HIDE DEF Z
      <4> QED BY <4>1, <4>2
    <3> HIDE DEF f, Z
    <3> QED BY <2>1, <2>2, <3>2, Zenon
  <2>3. CASE ~ (k = 33 \/ w[k] = 0)
    <3>1. k + 1 \in 1..33
      BY <2>3
    <3>2. Z(k) = Z(k + 1)
      BY <2>3
    <3>3. f[k + 1] = Min(Z(k + 1)) - 1
      BY <3>1, Zenon
    <3> HIDE DEF f, Z
    <3> QED BY <2>1, <2>3, <3>2, <3>3, Zenon
  <2> QED BY <2>2, <2>3
<1>3. f = [k \in 1..33 |-> f[k]]
  BY Zenon
<1> HIDE DEF f
<1>4. CountsOnes(f, w)
  BY <1>2, <1>3, Zenon DEF CountsOnes
<1> QED BY <1>4

(* Any solution counts the ones in front of the first zero, by the least     *)
(* distance from that zero at which it would not.                            *)
LEMMA OnesAre ==
  ASSUME NEW w \in [1..32 -> {0, 1}], NEW f, CountsOnes(f, w)
  PROVE  /\ f[1] \in 0..32
         /\ \A k \in 1..f[1] : w[k] = 1
         /\ f[1] < 32 => w[f[1] + 1] = 0
<1> DEFINE Z == {j \in 1..33 : j = 33 \/ w[j] = 0}
           z == Min(Z)
           S == {d \in 0..(z - 1) : f[z - d] # z - 1}
<1>1. z \in Z /\ \A m \in Z : z <= m
  <2>1. Z \subseteq Nat /\ Z # {}
    <3>1. 33 \in Z
      OBVIOUS
    <3> QED BY <3>1
  <2> HIDE DEF Z
  <2> QED BY <2>1, MinIs
<1>2. z \in 1..33 /\ (z = 33 \/ w[z] = 0)
  BY <1>1, Zenon
<1>3. \A k \in 1..33 : k < z => k # 33 /\ w[k] = 1
  <2> SUFFICES ASSUME NEW k \in 1..33, k < z PROVE k # 33 /\ w[k] = 1
    OBVIOUS
  <2>1. k \notin Z
    <3> HIDE DEF Z, z
    <3> QED BY <1>1, <1>2
  <2>2. k # 33 /\ w[k] # 0
    BY <2>1
  <2> QED BY <2>2
<1> HIDE DEF z, Z
<1>4. \A k \in 1..33 : f[k] = IF k = 33 \/ w[k] = 0 THEN k - 1 ELSE f[k + 1]
  BY Zenon DEF CountsOnes
<1>5. f[1] = z - 1
  <2> SUFFICES ASSUME f[1] # z - 1 PROVE FALSE
    OBVIOUS
  <2>1. PICK d \in S : \A e \in S : d <= e
    <3>1. S \subseteq Nat
      OBVIOUS
    <3>2. z - 1 \in S
      <4>1. z - 1 \in 0..(z - 1) /\ z - (z - 1) = 1
        BY <1>2
      <4> QED BY <4>1, Zenon
    <3> HIDE DEF S
    <3> QED BY <3>1, <3>2, LeastNatural
  <2>2. d \in 0..(z - 1) /\ f[z - d] # z - 1
    BY <2>1, Zenon
  <2>3. CASE d = 0
    <3>1. z - d = z
      BY <1>2, <2>3
    <3> QED BY <1>2, <1>4, <2>2, <3>1, Zenon
  <2>4. CASE d # 0
    <3>1. /\ z - d \in 1..33 /\ z - d < z /\ d - 1 \in 0..(z - 1) /\ ~ (d <= d - 1)
          /\ z - (d - 1) = (z - d) + 1
      BY <1>2, <2>2, <2>4
    <3>2. f[(z - d) + 1] = z - 1
      BY <2>1, <3>1, Zenon
    <3>3. z - d # 33 /\ w[z - d] = 1
      BY <1>3, <3>1, Zenon
    <3>4. 1 # 0
      OBVIOUS
    <3> QED BY <1>4, <2>2, <3>1, <3>2, <3>3, <3>4, Zenon
  <2> QED BY <2>3, <2>4
<1> QED BY <1>2, <1>3, <1>5

-----------------------------------------------------------------------------
AddressTexts == Seq([aton : Nat \cup {-1}, stoul : Nat \cup {-1}])

(* What inet_aton makes of a text it accepts. *)
LEMMA InetAtonIs ==
  ASSUME NEW t \in AddressTexts, InetAtonAccepts(t)
  PROVE  InetAton(t) \in [1..4 -> 0..255]
<1> DEFINE n == Len(t)
           BitAt(k) == IF k < n THEN t[k].aton ELSE (t[n].aton \div Places[k]) % 256
<1>1. n \in 1..4 /\ (\A k \in 1..n : t[k].aton # Bad) /\ (\A k \in 1..n - 1 : t[k].aton < 256)
  BY Zenon DEF InetAtonAccepts
<1>2. \A k \in 1..n : t[k].aton \in Nat
  <2>1. \A k \in 1..n : t[k].aton \in Nat \cup {-1}
    <3> SUFFICES ASSUME NEW k \in 1..n PROVE t[k].aton \in Nat \cup {-1}
      OBVIOUS
    <3>1. t[k] \in [aton : Nat \cup {-1}, stoul : Nat \cup {-1}]
      BY ElementOfSeq DEF AddressTexts
    <3> DEFINE x == t[k]
    <3> HIDE DEF x
    <3>2. x \in [aton : Nat \cup {-1}, stoul : Nat \cup {-1}]
      BY <3>1 DEF x
    <3>3. x.aton \in Nat \cup {-1}
      BY <3>2
    <3> QED BY <3>3 DEF x
  <2>2. \A k \in 1..n : t[k].aton # -1
    BY <1>1, Zenon DEF Bad
  <2>3. \A x : x \in Nat \cup {-1} /\ x # -1 => x \in Nat
    OBVIOUS
  <2> QED BY <2>1, <2>2, <2>3, Zenon
<1>3. ASSUME NEW k \in 1..4 PROVE BitAt(k) \in 0..255
  <2>1. CASE k < n
    <3>1. k \in 1..n /\ k \in 1..n - 1
      BY <1>1, <2>1
    <3> DEFINE a == t[k].aton
    <3>3. a \in Nat /\ a < 256
      BY <1>1, <1>2, <3>1, Zenon
    <3>2. a \in 0..255
      <4> HIDE DEF a
      <4> QED BY <3>3
    <3> QED BY <2>1, <3>2, Zenon
  <2>2. CASE ~ (k < n)
    <3> DEFINE a == t[n].aton
               p == Places[k]
    <3>1. a \in Nat
      <4>1. n \in 1..n
        <5>1. n \in 1..4
          BY <1>1
        <5> HIDE DEF n
        <5> QED BY <5>1
      <4> QED BY <1>2, <4>1, Zenon
    <3>2. p \in {16777216, 65536, 256, 1}
      BY DEF Places
    <3> HIDE DEF a, p
    <3>3. (a \div p) % 256 \in 0..255
      BY <3>1, <3>2
    <3> QED BY <2>2, <3>3, Zenon DEF a, p
  <2> QED BY <2>1, <2>2
<1>4. InetAton(t) = [k \in 1..4 |-> BitAt(k)]
  BY Zenon DEF InetAton
<1> HIDE DEF BitAt
<1> QED BY <1>3, <1>4, Zenon

(* 255.255.255.255 *)
AllOnes == <<255, 255, 255, 255>>

(* Its word is 32 ones. *)
LEMMA AllOnesWord ==
  /\ AllOnes \in [1..4 -> 0..255]
  /\ Word(AllOnes) = Mask(32, 32)
<1>1. AllOnes \in [1..4 -> 0..255] /\ AllOnes \in [1..4 -> Nat] /\ \A j \in 1..4 : AllOnes[j] = 255
  BY DEF AllOnes
<1>2. \A i \in 1..8 : Bits(255)[i] = 1
  <2>1. /\ (255 \div 128) % 2 = 1 /\ (255 \div 64) % 2 = 1 /\ (255 \div 32) % 2 = 1
        /\ (255 \div 16) % 2 = 1 /\ (255 \div 8) % 2 = 1 /\ (255 \div 4) % 2 = 1
        /\ (255 \div 2) % 2 = 1 /\ (255 \div 1) % 2 = 1 /\ 255 \in Nat
    OBVIOUS
  <2> QED BY <2>1, BitsAre
<1>6. \A j \in 1..4, i \in 1..8 : Bits(AllOnes[j])[i] = 1
  BY <1>1, <1>2
<1> DEFINE w == Word(AllOnes)
<1>3. w \in [1..32 -> {0, 1}] /\ \A j \in 1..4, i \in 1..8 : w[(8 * j - 8) + i] = Bits(AllOnes[j])[i]
  BY <1>1, WordIs, SMTT(60)
<1> HIDE DEF w
<1>4. ASSUME NEW k \in 1..32 PROVE w[k] = 1
  <2>1. PICK j \in 1..4, i \in 1..8 : k = (8 * j - 8) + i
    BY BitPlace
  <2>2. w[(8 * j - 8) + i] = Bits(AllOnes[j])[i]
    BY <1>3
  <2> QED BY <1>6, <2>1, <2>2, Zenon
<1>5. w = Mask(32, 32)
  BY <1>3, <1>4 DEF Mask
<1> QED BY <1>1, <1>5 DEF w

(* The bits of a netmask. *)
LEMMA MaskIs ==
  ASSUME NEW n \in Nat, NEW width \in Nat
  PROVE  /\ Mask(n, width) \in [1..width -> {0, 1}]
         /\ \A k \in 1..width : Mask(n, width)[k] = IF k <= n THEN 1 ELSE 0
BY DEF Mask

(* Words determine their octets. *)
LEMMA SameWord ==
  ASSUME NEW o \in [1..4 -> 0..255], NEW q \in [1..4 -> 0..255], Word(o) = Word(q)
  PROVE  o = q
BY OctetsOfWord, Zenon

(* What getPrefixFromNetmask returns. *)
Refused(t, n) ==
  \/ ~ InetAtonAccepts(t)
  \/ InetAton(t) = AllOnes /\ t # Text(AllOnes)
  \/ GapAfter(Word(InetAton(t)), n)

(* The count of the ones, unless it is refused. *)
LEMMA PrefixIs ==
  ASSUME NEW t \in AddressTexts, InetAtonAccepts(t)
  PROVE  \E n \in 0..32 :
           /\ GetPrefixFromNetmask(t) = IF Refused(t, n) THEN Invalid ELSE n
           /\ \A k \in 1..n : Word(InetAton(t))[k] = 1
           /\ n < 32 => Word(InetAton(t))[n + 1] = 0
<1> DEFINE w == Word(InetAton(t))
           f == CHOOSE g : g = [k \in 1..33 |-> IF k = 33 \/ w[k] = 0 THEN k - 1 ELSE g[k + 1]]
<1>1. w \in [1..32 -> {0, 1}]
  <2>1. InetAton(t) \in [1..4 -> Nat]
    <3>1. 0..255 \subseteq Nat
      OBVIOUS
    <3> QED BY <3>1, InetAtonIs
  <2> QED BY <2>1, WordIs
<1>2. GetPrefixFromNetmask(t) = IF Refused(t, f[1]) THEN Invalid ELSE f[1]
  BY Zenon DEF GetPrefixFromNetmask, Refused, AllOnes
<1>3. CountsOnes(f, w)
  <2> HIDE DEF w
  <2>1. \E g : CountsOnes(g, w)
    BY <1>1, OnesCounted
  <2>2. \E g : g = [k \in 1..33 |-> IF k = 33 \/ w[k] = 0 THEN k - 1 ELSE g[k + 1]]
    BY <2>1, Zenon DEF CountsOnes
  <2>3. f = [k \in 1..33 |-> IF k = 33 \/ w[k] = 0 THEN k - 1 ELSE f[k + 1]]
    BY <2>2, Zenon
  <2> HIDE DEF f
  <2> QED BY <2>3, Zenon DEF CountsOnes
<1> HIDE DEF f, w
<1>4. f[1] \in 0..32 /\ (\A k \in 1..f[1] : w[k] = 1) /\ (f[1] < 32 => w[f[1] + 1] = 0)
  BY <1>1, <1>3, OnesAre, Zenon
<1> QED BY <1>2, <1>4, Zenon DEF w

(* What getPrefixFromNetmask accepts, of any text. *)
IsMask(t, n) == /\ InetAtonAccepts(t)
                /\ Word(InetAton(t)) = Mask(n, 32)
                /\ n = 32 => t = Text(AllOnes)

(* It accepts the netmasks of n ones and then zeros, and returns n. *)
LEMMA NetmaskIs ==
  ASSUME NEW t \in AddressTexts
  PROVE  /\ GetPrefixFromNetmask(t) = Invalid => \A n \in 0..32 : ~ IsMask(t, n)
         /\ GetPrefixFromNetmask(t) # Invalid
              => GetPrefixFromNetmask(t) \in 0..32 /\ IsMask(t, GetPrefixFromNetmask(t))
<1> DEFINE prefix == GetPrefixFromNetmask(t)
           w == Word(InetAton(t))
           isMask(n) == /\ InetAtonAccepts(t)
                        /\ w = Mask(n, 32)
                        /\ n = 32 => t = Text(AllOnes)
           Goal == /\ prefix = Invalid => \A n \in 0..32 : ~ isMask(n)
                   /\ prefix # Invalid => prefix \in 0..32 /\ isMask(prefix)
<1> SUFFICES Goal
  BY Zenon DEF IsMask
<1>2. CASE ~ InetAtonAccepts(t)
  <2>1. prefix = Invalid
    BY <1>2, Zenon DEF GetPrefixFromNetmask
  <2> QED BY <1>2, <2>1, Zenon
<1>3. CASE InetAtonAccepts(t)
  <2>1. PICK n \in 0..32 :
          /\ prefix = IF Refused(t, n) THEN Invalid ELSE n
          /\ \A k \in 1..n : w[k] = 1
          /\ n < 32 => w[n + 1] = 0
    BY <1>3, PrefixIs
  <2>2. InetAton(t) \in [1..4 -> 0..255]
    BY <1>3, InetAtonIs
  <2>3. w \in [1..32 -> {0, 1}]
    <3>1. 0..255 \subseteq Nat
      OBVIOUS
    <3>2. InetAton(t) \in [1..4 -> Nat]
      BY <2>2, <3>1
    <3> QED BY <3>2, WordIs
  <2>4. InetAton(t) = AllOnes <=> w = Mask(32, 32)
    BY <2>2, AllOnesWord, SameWord, Zenon
  <2> HIDE DEF w, prefix
  <2>5. ASSUME NEW m \in 0..32, w = Mask(m, 32)
        PROVE  \A k \in 1..32 : w[k] = IF k <= m THEN 1 ELSE 0
    <3>1. m \in Nat /\ 32 \in Nat
      OBVIOUS
    <3> QED BY <2>5, <3>1, MaskIs, Zenon
  <2>6. n # Invalid /\ n \in Nat
    BY DEF Invalid
  <2>7. CASE Refused(t, n)
    <3>1. prefix = Invalid
      BY <2>1, <2>7, Zenon
    <3>2. ASSUME NEW m \in 0..32, isMask(m) PROVE FALSE
      <4>1. w = Mask(m, 32) /\ (m = 32 => t = Text(AllOnes))
        BY <3>2, Zenon
      <4>2. \A k \in 1..32 : w[k] = IF k <= m THEN 1 ELSE 0
        BY <2>5, <4>1, Zenon
      <4>3. CASE InetAton(t) = AllOnes /\ t # Text(AllOnes)
        <5>1. \A k \in 1..32 : w[k] = IF k <= 32 THEN 1 ELSE 0
          <6>1. 32 \in 0..32
            OBVIOUS
          <6> QED BY <2>4, <2>5, <4>3, <6>1, Zenon
        <5>2. m = 32
          BY <4>2, <5>1
        <5> QED BY <4>1, <4>3, <5>2, Zenon
      <4>4. CASE GapAfter(w, n)
        <5>1. PICK pos \in n + 1..31 : w[pos + 1] = 1
          BY <4>4 DEF GapAfter
        <5>2. w[n + 1] = 0 /\ n + 1 \in 1..32 /\ pos + 1 \in 1..32
          BY <2>1, <5>1
        <5> QED BY <4>2, <5>1, <5>2
      <4> QED BY <1>3, <2>7, <4>3, <4>4, Zenon DEF Refused, w
    <3> HIDE DEF isMask
    <3> QED BY <3>1, <3>2, Zenon
  <2>8. CASE ~ Refused(t, n)
    <3>1. prefix = n
      BY <2>1, <2>8, Zenon
    <3>2. w = Mask(n, 32)
      <4>1. ~ GapAfter(w, n)
        BY <2>8, Zenon DEF Refused, w
      <4>2. ASSUME NEW k \in 1..32 PROVE w[k] = IF k <= n THEN 1 ELSE 0
        <5>1. CASE k <= n
          BY <2>1, <5>1
        <5>2. CASE k = n + 1
          BY <2>1, <5>2
        <5>3. CASE k > n + 1
          <6>1. k - 1 \in n + 1..31 /\ (k - 1) + 1 = k
            BY <5>3
          <6>2. w[k] # 1
            BY <4>1, <6>1, Zenon DEF GapAfter
          <6>3. w[k] = 0
            BY <2>3, <6>2
          <6> QED BY <5>3, <6>3
        <5> QED BY <5>1, <5>2, <5>3
      <4>3. w = [k \in 1..32 |-> w[k]]
        BY <2>3
      <4> QED BY <4>2, <4>3, Zenon DEF Mask
    <3>3. n = 32 => t = Text(AllOnes)
      BY <2>4, <2>8, <3>2, Zenon DEF Refused
    <3> QED BY <1>3, <2>6, <3>1, <3>2, <3>3, Zenon
  <2> QED BY <2>7, <2>8
<1> QED BY <1>2, <1>3

(* Netmasks that are accepted are those of n ones and then zeros. *)
LEMMA PrefixIsExact ==
  ASSUME ip \in AddressTexts
  PROVE  PrefixExact
<1> DEFINE prefix == GetPrefixFromNetmask(ip)
<1>1. PrefixExact <=> IF prefix = Invalid THEN \A n \in 0..32 : ~ IsMask(ip, n) ELSE IsMask(ip, prefix)
  BY Zenon DEF PrefixExact, IsMask, AllOnes
<1> QED BY <1>1, NetmaskIs, Zenon

(* 0.0.0.0 *)
AllZeros == <<0, 0, 0, 0>>

(* Its word is 32 zeros. *)
LEMMA AllZerosWord ==
  /\ AllZeros \in [1..4 -> 0..255]
  /\ Word(AllZeros) = Mask(0, 32)
<1>1. AllZeros \in [1..4 -> 0..255] /\ AllZeros \in [1..4 -> Nat] /\ \A j \in 1..4 : AllZeros[j] = 0
  BY DEF AllZeros
<1>2. \A i \in 1..8 : Bits(0)[i] = 0
  <2>1. /\ (0 \div 128) % 2 = 0 /\ (0 \div 64) % 2 = 0 /\ (0 \div 32) % 2 = 0
        /\ (0 \div 16) % 2 = 0 /\ (0 \div 8) % 2 = 0 /\ (0 \div 4) % 2 = 0
        /\ (0 \div 2) % 2 = 0 /\ (0 \div 1) % 2 = 0 /\ 0 \in Nat
    OBVIOUS
  <2> QED BY <2>1, BitsAre
<1>6. \A j \in 1..4, i \in 1..8 : Bits(AllZeros[j])[i] = 0
  BY <1>1, <1>2
<1> DEFINE w == Word(AllZeros)
<1>3. w \in [1..32 -> {0, 1}] /\ \A j \in 1..4, i \in 1..8 : w[(8 * j - 8) + i] = Bits(AllZeros[j])[i]
  BY <1>1, WordIs
<1> HIDE DEF w
<1>4. ASSUME NEW k \in 1..32 PROVE w[k] = 0
  <2>1. PICK j \in 1..4, i \in 1..8 : k = (8 * j - 8) + i
    BY BitPlace
  <2>2. w[(8 * j - 8) + i] = Bits(AllZeros[j])[i]
    BY <1>3
  <2> QED BY <1>6, <2>1, <2>2, Zenon
<1>5. w = Mask(0, 32)
  BY <1>3, <1>4 DEF Mask
<1> QED BY <1>1, <1>5 DEF w

(* Of a text with four parts, inet_aton takes the numbers as they are. *)
LEMMA FourPartsAre ==
  ASSUME NEW t \in AddressTexts, FourParts(t)
  PROVE  /\ Len(t) = 4 /\ InetAtonAccepts(t) /\ t = [k \in 1..4 |-> t[k]]
         /\ \A k \in 1..4 : /\ t[k] = [aton |-> t[k].aton, stoul |-> t[k].stoul]
                            /\ t[k].aton \in 0..255 /\ InetAton(t)[k] = t[k].aton
<1>1. Len(t) = 4 /\ InetAtonAccepts(t)
  BY DEF FourParts
<1>2. t = [k \in 1..4 |-> t[k]]
  BY <1>1, LenProperties DEF AddressTexts
<1>3. ASSUME NEW k \in 1..4
      PROVE  /\ t[k] = [aton |-> t[k].aton, stoul |-> t[k].stoul]
             /\ t[k].aton \in 0..255 /\ InetAton(t)[k] = t[k].aton
  <2> DEFINE x == t[k]
             a == x.aton
  <2>1. x \in [aton : Nat \cup {-1}, stoul : Nat \cup {-1}]
    BY <1>1, ElementOfSeq DEF AddressTexts
  <2> HIDE DEF x
  <2>2. x = [aton |-> x.aton, stoul |-> x.stoul] /\ a \in Nat \cup {-1}
    BY <2>1
  <2> HIDE DEF a
  <2>3. a # -1
    <3>1. k \in 1..Len(t)
      BY <1>1
    <3> QED BY <1>1, <3>1, Zenon DEF InetAtonAccepts, Bad, a, x
  <2>4. a < 256
    <3>1. CASE k < 4
      <4>1. k \in 1..Len(t) - 1
        BY <1>1, <3>1
      <4> QED BY <1>1, <4>1, Zenon DEF InetAtonAccepts, a, x
    <3>2. CASE k = 4
      <4>1. Len(t) > 1 /\ Places[Len(t) - 1] = 256
        BY <1>1 DEF Places
      <4> QED BY <1>1, <3>2, <4>1, Zenon DEF InetAtonAccepts, a, x
    <3> QED BY <3>1, <3>2
  <2>5. a \in 0..255
    BY <2>2, <2>3, <2>4
  <2>6. InetAton(t)[k] = a
    <3>0. InetAton(t)[k] = IF k < 4 THEN t[k].aton ELSE (t[4].aton \div Places[k]) % 256
      BY <1>1, Zenon DEF InetAton
    <3>1. CASE k < 4
      BY <3>0, <3>1, Zenon DEF a, x
    <3>2. CASE k = 4
      <4>1. Places[k] = 1 /\ ~ (k < 4)
        BY <3>2 DEF Places
      <4>2. (a \div 1) % 256 = a
        BY <2>5
      <4>3. t[4].aton = a
        BY <3>2, Zenon DEF a, x
      <4> QED BY <3>0, <4>1, <4>2, <4>3
    <3> QED BY <3>1, <3>2
  <2> QED BY <2>2, <2>5, <2>6 DEF a, x
<1> QED BY <1>1, <1>2, <1>3

(* Which ranges an address is accepted from. *)
LEMMA ReservedIsRefused ==
  ASSUME ip \in AddressTexts
  PROVE  ReservedRefused
<1> DEFINE o == InetAton(ip)
<1>1. ASSUME FourParts(ip) PROVE o \in [1..4 -> 0..255] /\ o[1] \in 0..255
  <2>1. o \in [1..4 -> 0..255]
    BY <1>1, FourPartsAre, InetAtonIs
  <2> HIDE DEF o
  <2> QED BY <2>1
<1>2. ASSUME IsValidManualAddress(ip), o # AllZeros
      PROVE  /\ o[1] \in (1..126) \cup (128..223)
             /\ <<o[1], o[2]>> = <<169, 254>> => ~ Plain(ip)
  <2>1. FourParts(ip) /\ o[1] \notin {0, 127} /\ o[1] < 224 /\ ~ IsApipaAddress(ip)
    BY <1>2, Zenon DEF IsValidManualAddress, AllZeros
  <2>2. ASSUME <<o[1], o[2]>> = <<169, 254>>, Plain(ip) PROVE FALSE
    <3>1. o[1] = 169 /\ o[2] = 254
      <4> HIDE DEF o
      <4> QED BY <2>2
    <3> DEFINE x == ip[1]
               y == ip[2]
    <3>2. /\ x = [aton |-> x.aton, stoul |-> x.stoul] /\ o[1] = x.aton
          /\ y = [aton |-> y.aton, stoul |-> y.stoul] /\ o[2] = y.aton
      <4>1. 1 \in 1..4 /\ 2 \in 1..4
        OBVIOUS
      <4>2. \A k \in 1..4 : /\ ip[k] = [aton |-> ip[k].aton, stoul |-> ip[k].stoul]
                            /\ InetAton(ip)[k] = ip[k].aton
        BY <2>1, FourPartsAre, ZenonT(60)
      <4> QED BY <4>1, <4>2, Zenon
    <3>3. x.aton = x.stoul /\ y.aton = y.stoul
      <4>1. Len(ip) = 4
        BY <2>1 DEF FourParts
      <4>2. 1 \in DOMAIN ip /\ 2 \in DOMAIN ip
        BY <4>1, LenProperties DEF AddressTexts
      <4> QED BY <2>2, <4>2, Zenon DEF Plain
    <3> HIDE DEF o, x, y
    <3>4. x = Number(169) /\ y = Number(254)
      BY <3>1, <3>2, <3>3 DEF Number
    <3> QED BY <2>1, <3>4, Zenon DEF IsApipaAddress, x, y
  <2>3. o[1] \in 0..255
    BY <1>1, <2>1
  <2>4. o[1] \in (1..126) \cup (128..223)
    <3> DEFINE a == o[1]
    <3>1. a \in 0..255 /\ a \notin {0, 127} /\ a < 224
      BY <2>1, <2>3
    <3> HIDE DEF a
    <3>2. a \in (1..126) \cup (128..223)
      BY <3>1
    <3> QED BY <3>2 DEF a
  <2> QED BY <2>2, <2>4
<1>3. ASSUME GetIpv4MappedAddress(TRUE, ip) # NoText
      PROVE  \/ IsValidManualAddress(ip) \/ IsApipaAddress(ip)
             \/ o[1] \in {0, 127} \cup (224..255)
  <2>1. FourParts(ip)
    BY <1>3, Zenon DEF GetIpv4MappedAddress
  <2>2. o[1] \in 0..255
    BY <1>1, <2>1
  <2> DEFINE a == o[1]
  <2>3. a \in {0, 127} \cup (224..255) \/ (a \notin {0, 127} /\ a < 224)
    <3>1. a \in 0..255
      BY <2>2
    <3> HIDE DEF a
    <3> QED BY <3>1
  <2> QED BY <2>1, <2>3, Zenon DEF IsValidManualAddress
<1> QED BY <1>2, <1>3, Zenon DEF ReservedRefused, AllZeros

(* A word without a gap is some ones and then zeros. *)
LEMMA NoGap ==
  ASSUME NEW word \in [1..32 -> {0, 1}]
  PROVE  Gapped(word) <=> \A n \in 0..32 : word # Mask(n, 32)
<1>0. \A n \in 0..32 : Mask(n, 32) \in [1..32 -> {0, 1}]
                       /\ \A k \in 1..32 : Mask(n, 32)[k] = IF k <= n THEN 1 ELSE 0
  <2>1. 32 \in Nat /\ 0..32 \subseteq Nat
    OBVIOUS
  <2> QED BY <2>1, MaskIs, Zenon
<1>1. ASSUME Gapped(word), NEW n \in 0..32, word = Mask(n, 32)
      PROVE  FALSE
  <2>1. PICK j \in 1..32, k \in 1..32 : j < k /\ word[j] = 0 /\ word[k] = 1
    BY <1>1 DEF Gapped
  <2> QED BY <1>0, <1>1, <2>1, SMTT(30)
<1>2. ASSUME ~ Gapped(word)
      PROVE  \E n \in 0..32 : word = Mask(n, 32)
  <2>0. \A j, k \in 1..32 : j < k /\ word[j] = 0 => word[k] = 0
    BY <1>2 DEF Gapped
  <2>1. CASE \A k \in 1..32 : word[k] = 1
    <3>1. word = Mask(32, 32)
      BY <2>1 DEF Mask
    <3> QED BY <3>1
  <2>2. CASE \E k \in 1..32 : word[k] = 0
    <3> DEFINE zeros == {k \in 1..32 : word[k] = 0}
    <3>1. PICK first \in zeros : \A k \in zeros : first <= k
      <4>1. zeros \subseteq Nat /\ zeros # {}
        BY <2>2
      <4> HIDE DEF zeros
      <4> QED BY <4>1, LeastNatural
    <3>2. first - 1 \in 0..32
      BY <3>1
    <3>3. ASSUME NEW k \in 1..32
          PROVE  word[k] = IF k <= first - 1 THEN 1 ELSE 0
      BY <2>0, <3>1
    <3>4. word = Mask(first - 1, 32)
      BY <3>3 DEF Mask
    <3> QED BY <3>2, <3>4
  <2> QED BY <2>1, <2>2
<1> QED BY <1>1, <1>2

(* In what isValidNetmask and getPrefixFromNetmask differ. *)
LEMMA NetmasksAreAccepted ==
  ASSUME ip \in AddressTexts
  PROVE  NetmasksAccepted
<1> DEFINE o == InetAton(ip)
           w == Word(o)
           prefix == GetPrefixFromNetmask(ip)
<1> SUFFICES ASSUME FourParts(ip)
             PROVE  IsValidNetmask(ip) <=> prefix \in 1..31 \/ Gapped(w)
  BY Zenon DEF NetmasksAccepted, IsValidNetmask
<1>1. InetAtonAccepts(ip) /\ o \in [1..4 -> 0..255] /\ w \in [1..32 -> {0, 1}]
  <2>1. InetAtonAccepts(ip) /\ o \in [1..4 -> 0..255]
    BY FourPartsAre, InetAtonIs
  <2>2. o \in [1..4 -> Nat]
    <3>1. 0..255 \subseteq Nat
      OBVIOUS
    <3> QED BY <2>1, <3>1
  <2> QED BY <2>1, <2>2, WordIs
<1>2. IsValidNetmask(ip) <=> w # Mask(0, 32) /\ w # Mask(32, 32)
  <2>1. IsValidNetmask(ip) <=> o # AllZeros /\ o # AllOnes
    BY Zenon DEF IsValidNetmask, AllZeros, AllOnes
  <2> HIDE DEF o
  <2> QED BY <1>1, <2>1, AllOnesWord, AllZerosWord, SameWord, Zenon
<1>3. Gapped(w) <=> \A n \in 0..32 : w # Mask(n, 32)
  BY <1>1, NoGap, Zenon
<1>4. /\ prefix = Invalid => \A n \in 0..32 : ~ IsMask(ip, n)
      /\ prefix # Invalid => prefix \in 0..32 /\ IsMask(ip, prefix)
  BY NetmaskIs, Zenon
<1>5. \A n \in 0..32 : IsMask(ip, n) <=> w = Mask(n, 32) /\ (n = 32 => ip = Text(AllOnes))
  BY <1>1, Zenon DEF IsMask
<1>6. \A m, n \in 0..32 : m # n => Mask(m, 32) # Mask(n, 32)
  <2> SUFFICES ASSUME NEW m \in 0..32, NEW n \in 0..32, m < n
               PROVE  Mask(m, 32) # Mask(n, 32)
    <3>1. \A m, n \in 0..32 : m # n => m < n \/ n < m
      OBVIOUS
    <3> QED BY <3>1, Zenon
  <2>1. Mask(m, 32)[n] = 0 /\ Mask(n, 32)[n] = 1
    BY DEF Mask
  <2> QED BY <2>1
<1> HIDE DEF w, o, prefix
<1>7. CASE prefix = Invalid
  <2>1. prefix \notin 1..31
    BY <1>7 DEF Invalid
  <2>2. \A n \in 0..31 : w # Mask(n, 32)
    BY <1>4, <1>5, <1>7
  <2>3. 0 \in 0..31 /\ 32 \in 0..32 /\ 0 \in 0..32 /\ \A n \in 0..32 : n \in 0..31 \/ n = 32
    OBVIOUS
  <2> QED BY <1>2, <1>3, <2>1, <2>2, <2>3, Zenon
<1>8. CASE prefix # Invalid
  <2>1. prefix \in 0..32 /\ w = Mask(prefix, 32)
    BY <1>4, <1>5, <1>8, Zenon
  <2>2. ~ Gapped(w)
    BY <1>3, <2>1, Zenon
  <2>3. IsValidNetmask(ip) <=> prefix # 0 /\ prefix # 32
    <3>1. 0 \in 0..32 /\ 32 \in 0..32
      OBVIOUS
    <3> QED BY <1>2, <1>6, <2>1, <3>1, Zenon
  <2>4. prefix \in 1..31 <=> prefix # 0 /\ prefix # 32
    BY <2>1
  <2> QED BY <2>2, <2>3, <2>4, Zenon
<1> QED BY <1>7, <1>8

-----------------------------------------------------------------------------
(* An octet of an address and one of a netmask combined, bit by bit. *)
Masked(x, y) == Octet([k \in 1..8 |-> Bits(x)[k] * Bits(y)[k]])

(* Combining twice with the same octet changes nothing more. *)
LEMMA MaskedIs ==
  ASSUME NEW x \in 0..255, NEW y \in 0..255
  PROVE  /\ Masked(x, y) \in 0..255
         /\ Bits(Masked(x, y)) = [k \in 1..8 |-> Bits(x)[k] * Bits(y)[k]]
         /\ Masked(Masked(x, y), y) = Masked(x, y)
<1> DEFINE a == Bits(x)
           b == Bits(y)
           c == [k \in 1..8 |-> a[k] * b[k]]
<1>1. a \in [1..8 -> {0, 1}] /\ b \in [1..8 -> {0, 1}]
  <2>1. x \in Nat /\ y \in Nat
    OBVIOUS
  <2> QED BY <2>1, BitsInRange
<1>2. Masked(x, y) = Octet(c)
  BY Zenon DEF Masked
<1> HIDE DEF a, b
<1>3. c \in [1..8 -> {0, 1}] /\ [k \in 1..8 |-> c[k] * b[k]] = c
  <2>1. ASSUME NEW k \in 1..8 PROVE a[k] * b[k] \in {0, 1} /\ (a[k] * b[k]) * b[k] = a[k] * b[k]
    <3>1. a[k] \in {0, 1} /\ b[k] \in {0, 1}
      BY <1>1
    <3> DEFINE u == a[k]
               v == b[k]
    <3> HIDE DEF u, v
    <3>2. (u = 0 \/ u = 1) /\ (v = 0 \/ v = 1)
      BY <3>1 DEF u, v
    <3>3. u * v \in {0, 1} /\ (u * v) * v = u * v
      BY <3>2
    <3> QED BY <3>3 DEF u, v
  <2>2. c \in [1..8 -> {0, 1}]
    BY <2>1, Zenon
  <2>3. [k \in 1..8 |-> c[k] * b[k]] = c
    BY <2>1, Zenon
  <2> QED BY <2>2, <2>3
<1> HIDE DEF c
<1>4. Octet(c) \in 0..255 /\ Bits(Octet(c)) = c
  BY <1>3, BitsOfOctet
<1>5. Masked(Masked(x, y), y) = Masked(x, y)
  <2>1. Masked(Octet(c), y) = Octet([k \in 1..8 |-> Bits(Octet(c))[k] * b[k]])
    BY Zenon DEF Masked, b
  <2>2. Masked(Octet(c), y) = Octet(c)
    BY <1>3, <1>4, <2>1, Zenon
  <2> QED BY <1>2, <2>2, Zenon
<1> QED BY <1>2, <1>4, <1>5, Zenon DEF a, b, c

(* Two octets are the same behind a netmask if their bits under it agree. *)
LEMMA SameMasked ==
  ASSUME NEW x \in 0..255, NEW z \in 0..255, NEW y \in 0..255
  PROVE  Masked(x, y) = Masked(z, y) <=> \A i \in 1..8 : Bits(y)[i] = 1 => Bits(x)[i] = Bits(z)[i]
<1> DEFINE a == Bits(x)
           b == Bits(y)
           c == Bits(z)
           p == [k \in 1..8 |-> a[k] * b[k]]
           q == [k \in 1..8 |-> c[k] * b[k]]
<1>1. a \in [1..8 -> {0, 1}] /\ b \in [1..8 -> {0, 1}] /\ c \in [1..8 -> {0, 1}]
  <2>1. x \in Nat /\ y \in Nat /\ z \in Nat
    OBVIOUS
  <2> QED BY <2>1, BitsInRange
<1>2. Bits(Masked(x, y)) = p /\ Bits(Masked(z, y)) = q /\ Masked(x, y) = Octet(p) /\ Masked(z, y) = Octet(q)
  <2>1. Bits(Masked(x, y)) = p
    BY MaskedIs, ZenonT(60)
  <2>2. Bits(Masked(z, y)) = q
    BY MaskedIs, ZenonT(60)
  <2>3. Masked(x, y) = Octet(p) /\ Masked(z, y) = Octet(q)
    BY Zenon DEF Masked
  <2> QED BY <2>1, <2>2, <2>3, Zenon
<1>3. Masked(x, y) = Masked(z, y) <=> p = q
  <2> HIDE DEF p, q
  <2> QED BY <1>2, Zenon
<1> HIDE DEF a, b, c
<1>4. ASSUME NEW i \in 1..8 PROVE a[i] * b[i] = c[i] * b[i] <=> (b[i] = 1 => a[i] = c[i])
  <2> DEFINE u == a[i]
             v == b[i]
             w == c[i]
  <2>1. u \in {0, 1} /\ v \in {0, 1} /\ w \in {0, 1}
    BY <1>1
  <2> HIDE DEF u, v, w
  <2>2. (u = 0 \/ u = 1) /\ (v = 0 \/ v = 1) /\ (w = 0 \/ w = 1)
    BY <2>1
  <2>3. u * v = w * v <=> (v = 1 => u = w)
    BY <2>2
  <2> QED BY <2>3 DEF u, v, w
<1>5. p = q <=> \A i \in 1..8 : a[i] * b[i] = c[i] * b[i]
  <2>1. \A i \in 1..8 : p[i] = a[i] * b[i] /\ q[i] = c[i] * b[i]
    BY Zenon
  <2>2. (\A i \in 1..8 : a[i] * b[i] = c[i] * b[i]) => p = q
    BY Zenon
  <2> HIDE DEF p, q
  <2> QED BY <2>1, <2>2, Zenon
<1> HIDE DEF p, q
<1> QED BY <1>3, <1>4, <1>5, Zenon DEF a, b, c

(* A text of four decimal numbers, and the subnet of an address. *)
NumbersOf(t, b) == Len(t) = 4 /\ \A k \in 1..4 : t[k].stoul = b[k]
SubnetOf(a, m) == [k \in 1..4 |-> Number(Masked(a[k], m[k]))]

(* The conversion to unsigned int keeps octets as they are. *)
LEMMA SmallUInt ==
  ASSUME NEW n \in 0..255
  PROVE  ToUInt(n) = n
BY AddressAssumption DEF ToUInt

(* getSubnet() where every part is a number below 256. *)
LEMMA SubnetIs ==
  ASSUME NEW a \in [1..4 -> 0..255], NEW m \in [1..4 -> 0..255],
         NEW address, NEW netmask, NumbersOf(address, a), NumbersOf(netmask, m)
  PROVE  GetSubnet(address, netmask) = SubnetOf(a, m)
<1>0. Len(address) = 4 /\ Len(netmask) = 4 /\ \A k \in 1..4 : address[k].stoul = a[k] /\ netmask[k].stoul = m[k]
  BY Zenon DEF NumbersOf
<1> DEFINE throws(k) == Bad \in {address[k].stoul, netmask[k].stoul}
           tooLarge(k) == ToUInt(address[k].stoul) > 255 \/ ToUInt(netmask[k].stoul) > 255
           ends(k) == throws(k) \/ tooLarge(k)
           And(x, y) == [k \in 1..8 |-> x[k] * y[k]]
           first == Min({k \in 1..4 : ends(k)})
<1>1. ASSUME NEW k \in 1..4 PROVE ~ ends(k)
  <2> DEFINE u == a[k]
             v == m[k]
  <2>1. u \in 0..255 /\ v \in 0..255
    OBVIOUS
  <2>2. address[k].stoul = u /\ netmask[k].stoul = v
    BY <1>0, Zenon
  <2> HIDE DEF u, v
  <2>3. ~ (u > 255) /\ ~ (v > 255) /\ u # -1 /\ v # -1
    BY <2>1
  <2>4. ToUInt(u) = u /\ ToUInt(v) = v
    BY <2>1, SmallUInt, Zenon
  <2> QED BY <2>2, <2>3, <2>4, Zenon DEF Bad
<1>2. GetSubnet(address, netmask) =
        IF Len(address) # 4 \/ Len(netmask) # 4
        THEN NoText
        ELSE IF \E k \in 1..4 : ends(k)
             THEN IF throws(first) THEN "exception" ELSE NoText
             ELSE [k \in 1..4 |-> Number(Octet(And(Bits(ToUInt(address[k].stoul)),
                                                   Bits(ToUInt(netmask[k].stoul)))))]
  BY Zenon DEF GetSubnet
<1> HIDE DEF throws, ends, first
<1>3. GetSubnet(address, netmask) =
        [k \in 1..4 |-> Number(Octet(And(Bits(ToUInt(address[k].stoul)), Bits(ToUInt(netmask[k].stoul)))))]
  BY <1>0, <1>1, <1>2, Zenon
<1>4. \A k \in 1..4 :
        Octet(And(Bits(ToUInt(address[k].stoul)), Bits(ToUInt(netmask[k].stoul)))) = Masked(a[k], m[k])
  <2>1. ASSUME NEW k \in 1..4
        PROVE  ToUInt(address[k].stoul) = a[k] /\ ToUInt(netmask[k].stoul) = m[k]
    <3>1. a[k] \in 0..255 /\ m[k] \in 0..255
      OBVIOUS
    <3>2. ToUInt(a[k]) = a[k] /\ ToUInt(m[k]) = m[k]
      BY <3>1, SmallUInt
    <3> QED BY <1>0, <3>2, Zenon
  <2> QED BY <2>1, Zenon DEF Masked
<1> HIDE DEF And
<1> QED BY <1>3, <1>4, Zenon DEF SubnetOf

(* checkSubnet() with two adapters returns the first that has an address in  *)
(* the subnet.                                                               *)
Occupied(adapter, excluded, address, netmask) ==
  /\ adapter.name # excluded
  /\ \E a \in adapter.addresses : GetSubnet(a.address, a.netmask) = GetSubnet(address, netmask)

(* The first occupied adapter is found. *)
LEMMA CheckSubnetIs ==
  ASSUME NEW x, NEW y, NEW excluded, NEW address, NEW netmask
  PROVE  CheckSubnet(<<x, y>>, excluded, address, netmask) =
           IF Occupied(x, excluded, address, netmask) THEN x.name
           ELSE IF Occupied(y, excluded, address, netmask) THEN y.name ELSE ""
<1> DEFINE Occ(adapter) == Occupied(adapter, excluded, address, netmask)
           s == <<x, y>>
           I == {i \in 1..Len(s) : Occ(s[i])}
           k == IF I # {} THEN Min(I) ELSE 0
<1>1. CheckSubnet(s, excluded, address, netmask) = IF k = 0 THEN "" ELSE s[k].name
  BY Zenon DEF CheckSubnet, SelectInSeq, Occupied
<1>2. Len(s) = 2 /\ s[1] = x /\ s[2] = y
  OBVIOUS
<1> HIDE DEF s, Occ
<1>3. \A i : i \in I <=> i \in 1..2 /\ Occ(s[i])
  BY <1>2, Zenon
<1>4. 1 \in 1..2 /\ 2 \in 1..2 /\ (\A i \in 1..2 : i = 1 \/ i = 2) /\ 1 # 0 /\ 2 # 0
  OBVIOUS
<1>5. I # {} => Min(I) \in I /\ \A m \in I : Min(I) <= m
  <2>1. I \subseteq Nat
    <3>1. \A i \in 1..2 : i \in Nat
      OBVIOUS
    <3> HIDE DEF I
    <3> QED BY <1>3, <3>1, Zenon
  <2> HIDE DEF I
  <2> QED BY <2>1, MinIs
<1> HIDE DEF I
<1>6. CASE Occ(x)
  <2>1. 1 \in I
    BY <1>2, <1>3, <1>4, <1>6, Zenon
  <2>2. k = Min(I) /\ Min(I) \in I /\ Min(I) <= 1
    BY <1>5, <2>1, Zenon
  <2> HIDE DEF k
  <2>3. k \in 1..2 /\ k <= 1
    BY <1>3, <2>2, Zenon
  <2>4. k = 1
    BY <2>3
  <2> QED BY <1>1, <1>2, <1>4, <1>6, <2>4, Zenon DEF s, Occ
<1>7. CASE ~ Occ(x) /\ Occ(y)
  <2>1. 2 \in I
    BY <1>2, <1>3, <1>4, <1>7, Zenon
  <2>2. k = Min(I) /\ Min(I) \in I
    BY <1>5, <2>1, Zenon
  <2> HIDE DEF k
  <2>3. k = 2
    BY <1>2, <1>3, <1>4, <1>7, <2>2, Zenon
  <2> QED BY <1>1, <1>2, <1>4, <1>7, <2>3, Zenon DEF s, Occ
<1>8. CASE ~ Occ(x) /\ ~ Occ(y)
  <2>1. I = {}
    BY <1>2, <1>3, <1>4, <1>8, Zenon
  <2>2. k = 0
    BY <2>1, Zenon
  <2> HIDE DEF k
  <2> QED BY <1>1, <1>8, <2>2, Zenon DEF s, Occ
<1> QED BY <1>6, <1>7, <1>8, Zenon

(* Addresses are in one subnet if and only if they agree in the bits of the  *)
(* netmask.                                                                  *)
LEMMA SameSubnet ==
  ASSUME NEW a \in [1..4 -> 0..255], NEW b \in [1..4 -> 0..255], NEW m \in [1..4 -> 0..255]
  PROVE  SubnetOf(b, m) = SubnetOf(a, m)
           <=> \A k \in 1..32 : Word(m)[k] = 1 => Word(a)[k] = Word(b)[k]
<1> DEFINE Same(j) == Masked(b[j], m[j]) = Masked(a[j], m[j])
           Agree(j) == \A i \in 1..8 : Bits(m[j])[i] = 1 => Bits(b[j])[i] = Bits(a[j])[i]
           x == Word(a)
           y == Word(b)
           w == Word(m)
<1>1. ASSUME NEW j \in 1..4 PROVE Same(j) <=> Agree(j)
  <2> DEFINE u == a[j]
             v == b[j]
             s == m[j]
  <2>1. u \in 0..255 /\ v \in 0..255 /\ s \in 0..255
    OBVIOUS
  <2> HIDE DEF u, v, s
  <2>2. Masked(v, s) = Masked(u, s) <=> \A i \in 1..8 : Bits(s)[i] = 1 => Bits(v)[i] = Bits(u)[i]
    BY <2>1, SameMasked, ZenonT(60)
  <2> QED BY <2>2, Zenon DEF u, v, s
<1>2. SubnetOf(b, m) = SubnetOf(a, m)
        <=> \A j \in 1..4 : Same(j)
  <2> DEFINE f == [k \in 1..4 |-> Number(Masked(b[k], m[k]))]
             g == [k \in 1..4 |-> Number(Masked(a[k], m[k]))]
  <2>1. \A j \in 1..4 : f[j] = Number(Masked(b[j], m[j])) /\ g[j] = Number(Masked(a[j], m[j]))
    BY Zenon
  <2>2. \A u, v : Number(u) = Number(v) <=> u = v
    BY DEF Number
  <2>3. (\A j \in 1..4 : Same(j)) => f = g
    BY Zenon
  <2> HIDE DEF f, g
  <2>4. f = g => \A j \in 1..4 : Same(j)
    BY <2>1, <2>2, Zenon
  <2> QED BY <2>3, <2>4, Zenon DEF f, g, SubnetOf
<1>3. /\ \A j \in 1..4, i \in 1..8 : x[(8 * j - 8) + i] = Bits(a[j])[i]
      /\ \A j \in 1..4, i \in 1..8 : y[(8 * j - 8) + i] = Bits(b[j])[i]
      /\ \A j \in 1..4, i \in 1..8 : w[(8 * j - 8) + i] = Bits(m[j])[i]
  <2>1. a \in [1..4 -> Nat] /\ b \in [1..4 -> Nat] /\ m \in [1..4 -> Nat]
    <3>1. 0..255 \subseteq Nat
      OBVIOUS
    <3> QED BY <3>1, SMTT(60)
  <2> QED BY <2>1, WordIs
<1> HIDE DEF x, y, w
<1>4. (\A j \in 1..4 : Agree(j)) <=> \A k \in 1..32 : w[k] = 1 => x[k] = y[k]
  <2>1. ASSUME \A j \in 1..4 : Agree(j), NEW k \in 1..32, w[k] = 1 PROVE x[k] = y[k]
    <3>1. PICK j \in 1..4, i \in 1..8 : k = (8 * j - 8) + i
      BY BitPlace
    <3>2. Bits(m[j])[i] = w[k] /\ Bits(a[j])[i] = x[k] /\ Bits(b[j])[i] = y[k]
      BY <1>3, <3>1, Zenon
    <3> QED BY <2>1, <3>2, Zenon
  <2>2. ASSUME \A k \in 1..32 : w[k] = 1 => x[k] = y[k], NEW j \in 1..4 PROVE Agree(j)
    <3> SUFFICES ASSUME NEW i \in 1..8, Bits(m[j])[i] = 1 PROVE Bits(b[j])[i] = Bits(a[j])[i]
      OBVIOUS
    <3>1. (8 * j - 8) + i \in 1..32
      OBVIOUS
    <3>2. /\ w[(8 * j - 8) + i] = Bits(m[j])[i] /\ x[(8 * j - 8) + i] = Bits(a[j])[i]
          /\ y[(8 * j - 8) + i] = Bits(b[j])[i]
      BY <1>3, Zenon
    <3> QED BY <2>2, <3>1, <3>2, Zenon
  <2> HIDE DEF Agree
  <2> QED BY <2>1, <2>2, Zenon
<1> HIDE DEF Same, Agree
<1>5. (\A j \in 1..4 : Same(j)) <=> \A k \in 1..32 : w[k] = 1 => x[k] = y[k]
  BY <1>1, <1>4, Zenon
<1> QED BY <1>2, <1>5 DEF x, y, w

(* getSubnet() and checkSubnet() tell exactly the addresses of one subnet. *)
LEMMA SubnetIsExact ==
  ASSUME ip \in AddressTexts
  PROVE  SubnetExact
<1> SUFFICES ASSUME FourParts(ip), Plain(ip), NEW netmask \in Netmasks, NEW other \in Netmasks
             PROVE  LET mask == Text(netmask)
                        subnet == GetSubnet(ip, mask)
                        word == Word(InetAton(ip))
                        agrees == \A k \in 1..32 : Word(netmask)[k] = 1 => word[k] = Word(other)[k]
                        adapter(name) == [name |-> name, addresses |-> {[address |-> Text(other), netmask |-> mask]}]
                        adapters == <<adapter("eth0"), adapter("eth1")>>
                    IN  /\ GetSubnet(subnet, mask) = subnet
                        /\ CheckSubnet(adapters, "", ip, mask) = IF agrees THEN "eth0" ELSE ""
                        /\ CheckSubnet(adapters, "eth0", ip, mask) = IF agrees THEN "eth1" ELSE ""
  BY Zenon DEF SubnetExact
<1> DEFINE mask == Text(netmask)
           subnet == GetSubnet(ip, mask)
           a == InetAton(ip)
           agrees == \A k \in 1..32 : Word(netmask)[k] = 1 => Word(a)[k] = Word(other)[k]
           adapter(name) == [name |-> name, addresses |-> {[address |-> Text(other), netmask |-> mask]}]
           S(b) == SubnetOf(b, netmask)
<1>1. netmask \in [1..4 -> 0..255] /\ other \in [1..4 -> 0..255]
  BY AddressAssumption, Zenon
<1>2. ASSUME NEW b \in [1..4 -> 0..255]
      PROVE  NumbersOf(Text(b), b)
  <2>1. Text(b) = [k \in 1..4 |-> Number(b[k])]
    BY DEF Text
  <2>2. \A u : Number(u).stoul = u
    BY DEF Number
  <2>3. Len([k \in 1..4 |-> Number(b[k])]) = 4
    OBVIOUS
  <2> QED BY <2>1, <2>2, <2>3, Zenon DEF NumbersOf
<1>3. a \in [1..4 -> 0..255] /\ NumbersOf(ip, a)
  <2>1. Len(ip) = 4 /\ InetAtonAccepts(ip) /\ ip = [k \in 1..4 |-> ip[k]]
    BY FourPartsAre
  <2>2. \A k \in 1..4 : InetAton(ip)[k] = ip[k].aton
    BY FourPartsAre
  <2>3. DOMAIN ip = 1..4
    BY <2>1, Zenon
  <2>4. \A k \in 1..4 : ip[k].stoul = a[k]
    BY <2>2, <2>3, Zenon DEF Plain
  <2>5. NumbersOf(ip, a)
    BY <2>1, <2>4, Zenon DEF NumbersOf
  <2> QED BY <2>1, <2>5, InetAtonIs, Zenon
<1> HIDE DEF a, mask
<1>4. NumbersOf(mask, netmask)
  BY <1>1, <1>2, Zenon DEF mask
<1>5. subnet = S(a)
  BY <1>1, <1>3, <1>4, SubnetIs, Zenon
<1>6. GetSubnet(Text(other), mask) = S(other)
  BY <1>1, <1>2, <1>4, SubnetIs, Zenon
<1>7. GetSubnet(subnet, mask) = subnet
  <2> DEFINE c == [k \in 1..4 |-> Masked(a[k], netmask[k])]
  <2>0. ASSUME NEW k \in 1..4
        PROVE  /\ Masked(a[k], netmask[k]) \in 0..255
               /\ Masked(Masked(a[k], netmask[k]), netmask[k]) = Masked(a[k], netmask[k])
    <3>1. a[k] \in 0..255 /\ netmask[k] \in 0..255
      BY <1>1, <1>3
    <3> QED BY <3>1, MaskedIs, ZenonT(60)
  <2>1. c \in [1..4 -> 0..255]
    BY <2>0, Zenon
  <2>2. \A k \in 1..4 : c[k] = Masked(a[k], netmask[k])
    BY Zenon
  <2> HIDE DEF c
  <2>3. S(a) = Text(c)
    <3>1. DOMAIN c = 1..4
      BY <2>1, Zenon
    <3> QED BY <2>2, <3>1, Zenon DEF Text, SubnetOf
  <2>4. NumbersOf(subnet, c)
    <3>1. NumbersOf(Text(c), c)
      BY <1>2, <2>1, Zenon
    <3> HIDE DEF S, subnet
    <3> QED BY <1>5, <2>3, <3>1, Zenon
  <2> HIDE DEF subnet
  <2>5. GetSubnet(subnet, mask) = S(c)
    BY <1>1, <1>4, <2>1, <2>4, SubnetIs, Zenon
  <2>6. S(c) = S(a)
    BY <2>0, <2>2, Zenon DEF SubnetOf
  <2> QED BY <1>5, <2>5, <2>6, Zenon
<1>8. S(other) = S(a) <=> agrees
  BY <1>1, <1>3, SameSubnet, ZenonT(60)
<1> HIDE DEF S
<1>9. ASSUME NEW name, NEW excluded
      PROVE  /\ adapter(name).name = name
             /\ Occupied(adapter(name), excluded, ip, mask) <=> name # excluded /\ agrees
  <2> DEFINE x == adapter(name)
             r == [address |-> Text(other), netmask |-> mask]
  <2>1. x.name = name /\ x.addresses = {r}
    OBVIOUS
  <2>2. r.address = Text(other) /\ r.netmask = mask
    OBVIOUS
  <2> HIDE DEF x, r, agrees
  <2>3. Occupied(x, excluded, ip, mask) <=> name # excluded /\ S(other) = S(a)
    BY <1>5, <1>6, <2>1, <2>2, Zenon DEF Occupied
  <2>4. Occupied(x, excluded, ip, mask) <=> name # excluded /\ agrees
    BY <1>8, <2>3, Zenon
  <2> QED BY <2>1, <2>4 DEF x
<1> HIDE DEF adapter, agrees
<1>10. "eth0" # "" /\ "eth1" # "" /\ "eth0" # "eth1"
  OBVIOUS
<1>11. CheckSubnet(<<adapter("eth0"), adapter("eth1")>>, "", ip, mask) = IF agrees THEN "eth0" ELSE ""
  BY <1>9, <1>10, CheckSubnetIs, Zenon
<1>12. CheckSubnet(<<adapter("eth0"), adapter("eth1")>>, "eth0", ip, mask) = IF agrees THEN "eth1" ELSE ""
  BY <1>9, <1>10, CheckSubnetIs, ZenonT(60)
<1> QED BY <1>7, <1>11, <1>12, Zenon DEF mask, agrees, adapter, a

-----------------------------------------------------------------------------
(* The text of four octets is read as these octets. *)
LEMMA TextAccepted ==
  ASSUME NEW o \in [1..4 -> 0..255]
  PROVE  /\ Text(o) \in AddressTexts
         /\ InetAtonAccepts(Text(o))
         /\ InetAton(Text(o)) = o
<1> DEFINE t == Text(o)
<1>1. t = [k \in 1..4 |-> Number(o[k])]
  BY DEF Text
<1>2. \A u : Number(u).aton = u
  BY DEF Number
<1> DEFINE R == [aton : Nat \cup {-1}, stoul : Nat \cup {-1}]
<1>3. \A u \in 0..255 : Number(u) \in R
  BY DEF Number
<1>4. \A k \in 1..4 : o[k] \in 0..255
  OBVIOUS
<1>6. \A k \in 1..4 : t[k].aton = o[k]
  BY <1>1, <1>2, Zenon
<1> HIDE DEF R, t
<1>7. t \in AddressTexts /\ Len(t) = 4
  <2>1. Len([k \in 1..4 |-> Number(o[k])]) = 4
    OBVIOUS
  <2>2. \A k \in 1..4 : Number(o[k]) \in R
    BY <1>3, <1>4, Zenon
  <2>3. t \in [1..4 -> R]
    BY <1>1, <2>2, Zenon
  <2>4. t \in Seq(R)
    <3>1. 4 \in Nat
      OBVIOUS
    <3>2. [1..4 -> R] \in {[1..n -> R] : n \in Nat}
      BY <3>1, Zenon
    <3>3. t \in UNION {[1..n -> R] : n \in Nat}
      BY <2>3, <3>2, Zenon
    <3>4. Seq(R) = UNION {[1..n -> R] : n \in Nat}
      BY SeqDef
    <3> QED BY <3>3, <3>4, Zenon
  <2> QED BY <1>1, <2>1, <2>4, Zenon DEF AddressTexts, R
<1>8. \A k \in 1..4 : t[k].aton \in 0..255
  BY <1>4, <1>6, Zenon
<1>9. InetAtonAccepts(t)
  <2>1. Places[4 - 1] = 256 /\ 4 \in 1..4 /\ \A k \in 1..4 - 1 : k \in 1..4
    BY DEF Places
  <2>2. ASSUME NEW k \in 1..4 PROVE t[k].aton # Bad /\ t[k].aton < 256
    <3> DEFINE u == t[k].aton
    <3>1. u \in 0..255
      BY <1>8, Zenon
    <3> HIDE DEF u
    <3>2. u # Bad /\ u < 256
      BY <3>1 DEF Bad
    <3> QED BY <3>2, Zenon DEF u
  <2>3. \A k \in 1..4 : t[k].aton # Bad
    BY <2>2, Zenon
  <2>4. ASSUME NEW k \in 1..4 - 1 PROVE t[k].aton < 256
    <3>1. k \in 1..4
      BY <2>1
    <3> QED BY <2>2, <3>1
  <2>5. t[4].aton < Places[4 - 1]
    BY <2>1, <2>2
  <2> DEFINE n == Len(t)
             Small(k) == t[k].aton < 256
             Fits(m) == t[m].aton < Places[m - 1]
  <2>6. InetAtonAccepts(t) <=> /\ n \in 1..4 /\ \A k \in 1..n : t[k].aton # Bad
                               /\ \A k \in 1..n - 1 : Small(k)
                               /\ n > 1 => Fits(n)
    BY Zenon DEF InetAtonAccepts
  <2>7. n = 4 /\ Fits(4) /\ \A k \in 1..4 - 1 : Small(k)
    BY <1>7, <2>4, <2>5
  <2> HIDE DEF n, Small, Fits
  <2> QED BY <2>1, <2>3, <2>6, <2>7, Zenon
<1>10. InetAton(t) = o
  <2>1. InetAton(t) = [k \in 1..4 |-> IF k < 4 THEN t[k].aton ELSE (t[4].aton \div Places[k]) % 256]
    BY <1>7, Zenon DEF InetAton
  <2>2. ASSUME NEW k \in 1..4
        PROVE  (IF k < 4 THEN t[k].aton ELSE (t[4].aton \div Places[k]) % 256) = o[k]
    <3>1. CASE k < 4
      BY <1>6, <3>1, Zenon
    <3>2. CASE ~ (k < 4)
      <4>1. k = 4 /\ Places[4] = 1 /\ 4 \in 1..4
        BY <3>2 DEF Places
      <4>3. (t[4].aton \div Places[4]) % 256 = o[4]
        <5> DEFINE u == o[4]
        <5>1. u \in 0..255 /\ t[4].aton = u
          BY <1>4, <1>6, <4>1, ZenonT(60)
        <5> HIDE DEF u
        <5>2. (u \div 1) % 256 = u
          BY <5>1
        <5> QED BY <4>1, <5>1, <5>2, Zenon DEF u
      <4> QED BY <3>2, <4>1, <4>3, Zenon
    <3> QED BY <3>1, <3>2
  <2>3. o = [k \in 1..4 |-> o[k]]
    OBVIOUS
  <2> QED BY <2>1, <2>2, <2>3, Zenon
<1> QED BY <1>7, <1>9, <1>10 DEF t

(* The word after k rounds of the loop of getNetmaskFromPrefix(). *)
Shifts(f, prefix) ==
  f = [k \in 0..32 |->
         IF k = 0 THEN [bit \in 1..32 |-> 0]
         ELSE [bit \in 1..32 |-> IF bit < 32 THEN f[k - 1][bit + 1]
                                ELSE IF k <= prefix THEN 1 ELSE 0]]

Shifted(k, prefix) ==
  [bit \in 1..32 |-> IF bit > 32 - k /\ bit - (32 - k) <= prefix THEN 1 ELSE 0]

(* A round shifts the word by one bit and sets the last one. *)
LEMMA ShiftStep ==
  ASSUME NEW prefix \in 0..32, NEW k \in 0..32
  PROVE  /\ k = 0 => Shifted(k, prefix) = [bit \in 1..32 |-> 0]
         /\ k # 0 => Shifted(k, prefix) =
              [bit \in 1..32 |-> IF bit < 32 THEN Shifted(k - 1, prefix)[bit + 1]
                                 ELSE IF k <= prefix THEN 1 ELSE 0]
<1> DEFINE BitAt(n, bit) == IF bit > 32 - n /\ bit - (32 - n) <= prefix THEN 1 ELSE 0
<1>1. \A n : Shifted(n, prefix) = [bit \in 1..32 |-> BitAt(n, bit)]
  BY Zenon DEF Shifted
<1>2. ASSUME k = 0, NEW bit \in 1..32 PROVE BitAt(k, bit) = 0
  BY <1>2
<1>3. ASSUME k # 0, NEW bit \in 1..32
      PROVE  BitAt(k, bit) = IF bit < 32 THEN Shifted(k - 1, prefix)[bit + 1]
                          ELSE IF k <= prefix THEN 1 ELSE 0
  <2>1. CASE bit < 32
    <3>1. bit + 1 \in 1..32
      BY <2>1
    <3>2. Shifted(k - 1, prefix)[bit + 1] = BitAt(k - 1, bit + 1)
      BY <1>1, <3>1, Zenon
    <3>3. BitAt(k - 1, bit + 1) = BitAt(k, bit)
      BY <1>3, <2>1
    <3> HIDE DEF BitAt
    <3> QED BY <2>1, <3>2, <3>3, Zenon
  <2>2. CASE ~ (bit < 32)
    <3>1. BitAt(k, bit) = IF k <= prefix THEN 1 ELSE 0
      BY <1>3, <2>2
    <3> HIDE DEF BitAt
    <3> QED BY <2>2, <3>1, Zenon
  <2> QED BY <2>1, <2>2
<1> HIDE DEF BitAt
<1> QED BY <1>1, <1>2, <1>3, Zenon

(* The recursion over the rounds has a solution. *)
LEMMA ShiftsExist ==
  ASSUME NEW prefix \in 0..32
  PROVE  \E f : Shifts(f, prefix)
<1> DEFINE f == [k \in 0..32 |-> Shifted(k, prefix)]
<1>1. ASSUME NEW k \in 0..32
      PROVE  f[k] = IF k = 0 THEN [bit \in 1..32 |-> 0]
                    ELSE [bit \in 1..32 |-> IF bit < 32 THEN f[k - 1][bit + 1]
                                            ELSE IF k <= prefix THEN 1 ELSE 0]
  <2>1. f[k] = Shifted(k, prefix)
    BY Zenon
  <2>2. CASE k = 0
    BY <2>1, <2>2, ShiftStep, Zenon
  <2>3. CASE k # 0
    <3>1. k - 1 \in 0..32
      BY <2>3
    <3>2. f[k - 1] = Shifted(k - 1, prefix)
      BY <3>1, Zenon
    <3> HIDE DEF f
    <3>3. f[k] = [bit \in 1..32 |-> IF bit < 32 THEN Shifted(k - 1, prefix)[bit + 1]
                                    ELSE IF k <= prefix THEN 1 ELSE 0]
      BY <2>1, <2>3, ShiftStep, Zenon
    <3> QED BY <2>3, <3>2, <3>3, Zenon
  <2> QED BY <2>2, <2>3
<1>2. f = [k \in 0..32 |-> f[k]]
  BY Zenon
<1> HIDE DEF f
<1>3. Shifts(f, prefix)
  BY <1>1, <1>2, Zenon DEF Shifts
<1> QED BY <1>3

(* Any solution is the shifted word, by the least round at which it would not be. *)
LEMMA ShiftsAre ==
  ASSUME NEW prefix \in 0..32, NEW f, Shifts(f, prefix)
  PROVE  f[32] = Shifted(32, prefix)
<1> DEFINE S == {k \in 0..32 : f[k] # Shifted(k, prefix)}
<1>1. \A k \in 0..32 :
        f[k] = IF k = 0 THEN [bit \in 1..32 |-> 0]
               ELSE [bit \in 1..32 |-> IF bit < 32 THEN f[k - 1][bit + 1]
                                       ELSE IF k <= prefix THEN 1 ELSE 0]
  BY Zenon DEF Shifts
<1>2. ASSUME S # {} PROVE FALSE
  <2>1. PICK k \in S : \A m \in S : k <= m
    <3>1. S \subseteq Nat
      OBVIOUS
    <3> HIDE DEF S
    <3> QED BY <1>2, <3>1, LeastNatural
  <2>2. k \in 0..32 /\ f[k] # Shifted(k, prefix)
    BY <2>1, Zenon
  <2>3. CASE k = 0
    BY <1>1, <2>2, <2>3, ShiftStep, Zenon
  <2>4. CASE k # 0
    <3>1. k - 1 \in 0..32 /\ ~ (k <= k - 1)
      BY <2>2, <2>4
    <3>2. f[k - 1] = Shifted(k - 1, prefix)
      BY <2>1, <3>1, Zenon
    <3>3. f[k] = [bit \in 1..32 |-> IF bit < 32 THEN Shifted(k - 1, prefix)[bit + 1]
                                    ELSE IF k <= prefix THEN 1 ELSE 0]
      BY <1>1, <2>2, <2>4, <3>2, ZenonT(60)
    <3> QED BY <2>2, <2>4, <3>3, ShiftStep, Zenon
  <2> QED BY <2>3, <2>4
<1>3. 32 \in 0..32
  OBVIOUS
<1> QED BY <1>2, <1>3, Zenon

(* getNetmaskFromPrefix() returns the text of the netmask. *)
LEMMA NetmaskOfPrefix ==
  ASSUME NEW prefix \in 0..32
  PROVE  GetNetmaskFromPrefix(prefix) = Text(Octets(Mask(prefix, 32)))
<1> DEFINE f == CHOOSE g :
             g = [k \in 0..32 |->
                    IF k = 0 THEN [bit \in 1..32 |-> 0]
                    ELSE [bit \in 1..32 |-> IF bit < 32 THEN g[k - 1][bit + 1]
                                           ELSE IF k <= prefix THEN 1 ELSE 0]]
<1>1. GetNetmaskFromPrefix(prefix) = IF prefix > 32 THEN NoText ELSE Text(Octets(f[32]))
  BY Zenon DEF GetNetmaskFromPrefix
<1>2. ~ (prefix > 32)
  OBVIOUS
<1>3. Shifts(f, prefix)
  <2>1. \E g : g = [k \in 0..32 |->
                    IF k = 0 THEN [bit \in 1..32 |-> 0]
                    ELSE [bit \in 1..32 |-> IF bit < 32 THEN g[k - 1][bit + 1]
                                           ELSE IF k <= prefix THEN 1 ELSE 0]]
    BY ShiftsExist, Zenon DEF Shifts
  <2>2. f = [k \in 0..32 |->
                    IF k = 0 THEN [bit \in 1..32 |-> 0]
                    ELSE [bit \in 1..32 |-> IF bit < 32 THEN f[k - 1][bit + 1]
                                           ELSE IF k <= prefix THEN 1 ELSE 0]]
    BY <2>1, Zenon
  <2> HIDE DEF f
  <2> QED BY <2>2, Zenon DEF Shifts
<1> HIDE DEF f
<1>4. f[32] = Shifted(32, prefix)
  BY <1>3, ShiftsAre, Zenon
<1>5. Shifted(32, prefix) = Mask(prefix, 32)
  BY DEF Shifted, Mask
<1> QED BY <1>1, <1>2, <1>4, <1>5, Zenon

(* getPrefixFromNetmask() gives the length back. *)
LEMMA PrefixOfNetmask ==
  ASSUME NEW n \in 0..32
  PROVE  GetPrefixFromNetmask(GetNetmaskFromPrefix(n)) = n
<1> DEFINE w == Mask(n, 32)
           o == Octets(w)
           t == Text(o)
           p == GetPrefixFromNetmask(t)
<1>1. n \in Nat /\ 32 \in Nat
  OBVIOUS
<1>2. w \in [1..32 -> {0, 1}] /\ \A k \in 1..32 : w[k] = IF k <= n THEN 1 ELSE 0
  BY <1>1, MaskIs
<1> HIDE DEF w
<1>3. o \in [1..4 -> 0..255] /\ Word(o) = w
  BY <1>2, WordOfOctets
<1>4. n = 32 => o = AllOnes
  BY <1>3, AllOnesWord, SameWord, Zenon DEF w
<1> HIDE DEF o
<1>5. t \in AddressTexts /\ InetAtonAccepts(t) /\ InetAton(t) = o
  BY <1>3, TextAccepted
<1>6. IsMask(t, n)
  BY <1>3, <1>4, <1>5, Zenon DEF IsMask, w
<1>7. p \in 0..32 /\ IsMask(t, p)
  BY <1>5, <1>6, NetmaskIs, Zenon
<1> HIDE DEF p
<1>8. w = Mask(p, 32)
  BY <1>3, <1>5, <1>7, Zenon DEF IsMask
<1>9. \A k \in 1..32 : w[k] = IF k <= p THEN 1 ELSE 0
  <2>1. p \in Nat
    BY <1>7
  <2> QED BY <1>1, <1>8, <2>1, MaskIs, Zenon
<1>10. p = n
  BY <1>2, <1>7, <1>9
<1> QED BY <1>10, NetmaskOfPrefix, Zenon DEF p, t, o, w

-----------------------------------------------------------------------------
(* The octets of an IPv6 netmask of n ones: which are 0, and how many ones   *)
(* the others have.                                                          *)
MaskOctet(n, j) == Octet(SubSeq(Mask(n, 128), 8 * j - 7, 8 * j))

(* An octet of the netmask is 0 behind the ones and counts them before. *)
LEMMA MaskOctetIs ==
  ASSUME NEW n \in 0..128, NEW j \in 1..16
  PROVE  /\ MaskOctet(n, j) = 0 <=> n <= 8 * j - 8
         /\ n >= 8 * j => BitCount(Bits(MaskOctet(n, j))) = 8
         /\ n > 8 * j - 8 /\ n < 8 * j => BitCount(Bits(MaskOctet(n, j))) = n - (8 * j - 8)
<1> DEFINE w == Mask(n, 128)
           s == SubSeq(w, 8 * j - 7, 8 * j)
           m == 8 * j - 8
<1>1. w \in [1..128 -> {0, 1}] /\ \A k \in 1..128 : w[k] = IF k <= n THEN 1 ELSE 0
  <2>1. n \in Nat /\ 128 \in Nat
    OBVIOUS
  <2> QED BY <2>1, MaskIs
<1> HIDE DEF w
<1>2. s \in [1..8 -> {0, 1}] /\ \A i \in 1..8 : s[i] = w[(8 * j - 8) + i]
  <2>1. 128 \in Nat /\ j \in Nat /\ j >= 1 /\ 8 * j <= 128
    OBVIOUS
  <2> QED BY <1>1, <2>1, ByteIs, ZenonT(60)
<1>3. ASSUME NEW i \in 1..8 PROVE s[i] = IF m + i <= n THEN 1 ELSE 0
  <2>1. m + i \in 1..128
    OBVIOUS
  <2> HIDE DEF s
  <2> QED BY <1>1, <1>2, <2>1, Zenon
<1>4. Bits(Octet(s)) = s
  BY <1>2, BitsOfOctet
<1> HIDE DEF s
<1>5. /\ s[1] = (IF m + 1 <= n THEN 1 ELSE 0) /\ s[2] = (IF m + 2 <= n THEN 1 ELSE 0)
      /\ s[3] = (IF m + 3 <= n THEN 1 ELSE 0) /\ s[4] = (IF m + 4 <= n THEN 1 ELSE 0)
      /\ s[5] = (IF m + 5 <= n THEN 1 ELSE 0) /\ s[6] = (IF m + 6 <= n THEN 1 ELSE 0)
      /\ s[7] = (IF m + 7 <= n THEN 1 ELSE 0) /\ s[8] = (IF m + 8 <= n THEN 1 ELSE 0)
  <2>1. /\ 1 \in 1..8 /\ 2 \in 1..8 /\ 3 \in 1..8 /\ 4 \in 1..8
        /\ 5 \in 1..8 /\ 6 \in 1..8 /\ 7 \in 1..8 /\ 8 \in 1..8
    OBVIOUS
  <2> HIDE DEF m
  <2> QED BY <1>3, <2>1, Zenon
<1>6. m \in Int /\ 8 * j = m + 8
  OBVIOUS
<1> HIDE DEF m
<1>7. Octet(s) = 0 <=> n <= m
  BY <1>5, <1>6 DEF Octet
<1>8. n >= m + 8 => BitCount(s) = 8
  BY <1>5, <1>6 DEF BitCount
<1>9. n > m /\ n < m + 8 => BitCount(s) = n - m
  <2> SUFFICES ASSUME n > m, n < m + 8 PROVE BitCount(s) = n - m
    OBVIOUS
  <2>1. n = m + 1 \/ n = m + 2 \/ n = m + 3 \/ n = m + 4 \/ n = m + 5 \/ n = m + 6 \/ n = m + 7
    BY <1>6
  <2> QED BY <1>5, <1>6, <2>1 DEF BitCount
<1>10. MaskOctet(n, j) = Octet(s)
  BY Zenon DEF MaskOctet, s, w
<1> QED BY <1>4, <1>6, <1>7, <1>8, <1>9, <1>10 DEF m

(* The count of the bits from octet k on. *)
CountsBits(f, octets) ==
  f = [k \in 1..17 |-> IF k = 17 \/ octets[k] = 0 THEN 0 ELSE BitCount(Bits(octets[k])) + f[k + 1]]

BitsLeft(n, k) == IF n <= 8 * k - 8 THEN 0 ELSE n - (8 * k - 8)

(* What is left of the length satisfies the recursion. *)
LEMMA BitsLeftStep ==
  ASSUME NEW n \in 0..128, NEW k \in 1..17
  PROVE  /\ k = 17 => BitsLeft(n, k) = 0
         /\ k # 17 => BitsLeft(n, k) = IF MaskOctet(n, k) = 0 THEN 0
                                       ELSE BitCount(Bits(MaskOctet(n, k))) + BitsLeft(n, k + 1)
<1>1. k = 17 => BitsLeft(n, k) = 0
  BY DEF BitsLeft
<1>2. ASSUME k # 17
      PROVE  BitsLeft(n, k) = IF MaskOctet(n, k) = 0 THEN 0
                              ELSE BitCount(Bits(MaskOctet(n, k))) + BitsLeft(n, k + 1)
  <2> DEFINE z == MaskOctet(n, k)
             c == BitCount(Bits(z))
             l == 8 * k - 8
  <2>1. k \in 1..16
    BY <1>2
  <2>2. (z = 0 <=> n <= l) /\ (n >= 8 * k => c = 8) /\ (n > l /\ n < 8 * k => c = n - l)
    BY <2>1, MaskOctetIs, Zenon
  <2> HIDE DEF z, c
  <2>3. BitsLeft(n, k) = (IF n <= l THEN 0 ELSE n - l) /\ 8 * k = l + 8
        /\ BitsLeft(n, k + 1) = (IF n <= l + 8 THEN 0 ELSE n - (l + 8)) /\ l \in Int
    BY <2>1 DEF BitsLeft
  <2> HIDE DEF l
  <2>4. BitsLeft(n, k) = IF z = 0 THEN 0 ELSE c + BitsLeft(n, k + 1)
    <3>1. CASE n <= l
      BY <2>2, <2>3, <3>1
    <3>2. CASE n > l /\ n < l + 8
      BY <2>2, <2>3, <3>2
    <3>3. CASE n >= l + 8
      BY <2>2, <2>3, <3>3
    <3> QED BY <2>3, <3>1, <3>2, <3>3
  <2> QED BY <2>4, Zenon DEF z, c
<1> QED BY <1>1, <1>2

(* The recursion has a solution, and any solution counts n bits. *)
LEMMA BitsCounted ==
  ASSUME NEW n \in 0..128, NEW octets, \A k \in 1..16 : octets[k] = MaskOctet(n, k)
  PROVE  /\ \E f : CountsBits(f, octets)
         /\ \A f : CountsBits(f, octets) => f[1] = n
<1> DEFINE Rhs(g, k) == IF k = 17 \/ octets[k] = 0 THEN 0 ELSE BitCount(Bits(octets[k])) + g[k + 1]
<1>1. ASSUME NEW k \in 1..17, NEW g, k # 17 => g[k + 1] = BitsLeft(n, k + 1)
      PROVE  Rhs(g, k) = BitsLeft(n, k)
  <2>1. CASE k = 17
    BY <2>1, BitsLeftStep, Zenon
  <2>2. CASE k # 17
    <3>1. k \in 1..16
      BY <2>2
    <3>2. octets[k] = MaskOctet(n, k)
      BY <3>1
    <3> QED BY <1>1, <2>2, <3>2, BitsLeftStep, Zenon
  <2> QED BY <2>1, <2>2
<1>2. \E f : CountsBits(f, octets)
  <2> DEFINE f == [k \in 1..17 |-> BitsLeft(n, k)]
  <2>1. ASSUME NEW k \in 1..17 PROVE f[k] = Rhs(f, k)
    <3>1. f[k] = BitsLeft(n, k)
      BY Zenon
    <3>2. k # 17 => f[k + 1] = BitsLeft(n, k + 1)
      <4> SUFFICES ASSUME k # 17 PROVE f[k + 1] = BitsLeft(n, k + 1)
        OBVIOUS
      <4>1. k + 1 \in 1..17
        OBVIOUS
      <4> QED BY <4>1, Zenon
    <3> HIDE DEF f, Rhs
    <3> QED BY <1>1, <3>1, <3>2, Zenon
  <2>2. f = [k \in 1..17 |-> f[k]]
    BY Zenon
  <2> HIDE DEF f
  <2>3. CountsBits(f, octets)
    BY <2>1, <2>2, Zenon DEF CountsBits
  <2> QED BY <2>3
<1>3. ASSUME NEW f, CountsBits(f, octets) PROVE f[1] = n
  <2> DEFINE S == {d \in 0..16 : f[17 - d] # BitsLeft(n, 17 - d)}
  <2>1. \A k \in 1..17 : f[k] = Rhs(f, k)
    BY <1>3, Zenon DEF CountsBits
  <2> HIDE DEF Rhs
  <2>2. ASSUME S # {} PROVE FALSE
    <3>1. PICK d \in S : \A m \in S : d <= m
      <4>1. S \subseteq Nat
        OBVIOUS
      <4> HIDE DEF S
      <4> QED BY <2>2, <4>1, LeastNatural
    <3>2. d \in 0..16 /\ f[17 - d] # BitsLeft(n, 17 - d)
      BY <3>1, Zenon
    <3> DEFINE k == 17 - d
    <3>3. k \in 1..17 /\ (k # 17 => d - 1 \in 0..16 /\ ~ (d <= d - 1) /\ 17 - (d - 1) = k + 1)
      BY <3>2
    <3>4. k # 17 => f[k + 1] = BitsLeft(n, k + 1)
      <4> SUFFICES ASSUME k # 17 PROVE f[k + 1] = BitsLeft(n, k + 1)
        OBVIOUS
      <4>1. d - 1 \in 0..16 /\ d - 1 \notin S
        BY <3>1, <3>3, Zenon
      <4>2. f[17 - (d - 1)] = BitsLeft(n, 17 - (d - 1))
        BY <4>1, Zenon
      <4>3. 17 - (d - 1) = k + 1
        BY <3>3, Zenon
      <4> QED BY <4>2, <4>3, Zenon
    <3> HIDE DEF k, S
    <3>5. f[k] = BitsLeft(n, k)
      BY <1>1, <2>1, <3>3, <3>4, Zenon
    <3> QED BY <3>2, <3>5, Zenon DEF k
  <2>3. f[1] = BitsLeft(n, 1)
    <3>1. 16 \in 0..16 /\ 17 - 16 = 1
      OBVIOUS
    <3> QED BY <2>2, <3>1, Zenon
  <2>4. BitsLeft(n, 1) = n
    BY DEF BitsLeft
  <2> QED BY <2>3, <2>4
<1> QED BY <1>2, <1>3

(* The netmask of length ones is written and counted back to length. *)
LEMMA PrefixesAreInverse ==
  ASSUME length \in 0..128
  PROVE  PrefixesInverse
<1> DEFINE octets == [k \in 1..16 |-> MaskOctet(length, k)]
           f == CHOOSE g : g = [k \in 1..17 |-> IF k = 17 \/ octets[k] = 0 THEN 0
                                                ELSE BitCount(Bits(octets[k])) + g[k + 1]]
<1>1. PrefixesInverse <=>
        /\ PrefixOfIpv6Netmask(octets) = length
        /\ IF length > 32
           THEN GetNetmaskFromPrefix(length) = NoText
           ELSE GetPrefixFromNetmask(GetNetmaskFromPrefix(length)) = length
  BY Zenon DEF PrefixesInverse, MaskOctet
<1>2. PrefixOfIpv6Netmask(octets) = f[1]
  BY Zenon DEF PrefixOfIpv6Netmask
<1>3. \A k \in 1..16 : octets[k] = MaskOctet(length, k)
  BY Zenon
<1> HIDE DEF octets
<1>4. CountsBits(f, octets)
  <2>1. \E g : g = [k \in 1..17 |-> IF k = 17 \/ octets[k] = 0 THEN 0
                                    ELSE BitCount(Bits(octets[k])) + g[k + 1]]
    <3>1. \E g : CountsBits(g, octets)
      BY <1>3, BitsCounted, Zenon
    <3> QED BY <3>1, Zenon DEF CountsBits
  <2>2. f = [k \in 1..17 |-> IF k = 17 \/ octets[k] = 0 THEN 0
                             ELSE BitCount(Bits(octets[k])) + f[k + 1]]
    BY <2>1, Zenon
  <2> HIDE DEF f
  <2> QED BY <2>2, Zenon DEF CountsBits
<1> HIDE DEF f
<1>5. f[1] = length
  BY <1>3, <1>4, BitsCounted, Zenon
<1>6. CASE length > 32
  <2>1. GetNetmaskFromPrefix(length) = NoText
    BY <1>6, Zenon DEF GetNetmaskFromPrefix
  <2> QED BY <1>1, <1>2, <1>5, <1>6, <2>1, Zenon
<1>7. CASE ~ (length > 32)
  <2>1. length \in 0..32
    BY <1>7
  <2> QED BY <1>1, <1>2, <1>5, <1>7, <2>1, PrefixOfNetmask, Zenon
<1> QED BY <1>6, <1>7

(***************************************************************************)
(* For every set of texts and of netmasks the functions are called with:   *)
(* getPrefixFromNetmask() accepts exactly the netmasks of n ones and then  *)
(* zeros and inverts getNetmaskFromPrefix(); the count of NetadapterList   *)
(* gives back the length of every IPv6 netmask; isValidNetmask() accepts   *)
(* besides its netmasks those with a gap, but not those of 0 and 32 ones;  *)
(* and, for plain decimal numbers only, getSubnet() and checkSubnet() tell *)
(* exactly the addresses of one subnet and no reserved address is valid by *)
(* hand.                                                                   *)
(***************************************************************************)
THEOREM AddressesAreExact == AddressesInit => AddressesExact
<1> SUFFICES ASSUME AddressesInit PROVE AddressesExact
  OBVIOUS
<1>1. ASSUME length # -1 PROVE PrefixesInverse
  <2>1. length \in 0..128
    BY <1>1, Zenon DEF AddressesInit
  <2> QED BY <2>1, PrefixesAreInverse, Zenon
<1>2. ASSUME ip # <<>> PROVE PrefixExact /\ SubnetExact /\ ReservedRefused /\ NetmasksAccepted
  <2>1. ip \in AddressTexts
    BY <1>2, AddressAssumption, Zenon DEF AddressesInit, AddressTexts
  <2> QED BY <2>1, PrefixIsExact, SubnetIsExact, ReservedIsRefused, NetmasksAreAccepted, Zenon
<1> QED BY <1>1, <1>2 DEF AddressesExact
=============================================================================
