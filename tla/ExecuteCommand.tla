--------------------------- MODULE ExecuteCommand ---------------------------
(***************************************************************************)
(* executeCommand with parameters and stdin (lib/sys/linux/executecommand. *)
(* cpp:58): a pipe, a child process that executes the command with the     *)
(* pipe as its stdin, and the caller, which writes to the pipe, closes it  *)
(* and waits for the child.  Several threads may call it.  A fork copies   *)
(* all descriptors of the process, those of the other threads too, and     *)
(* execve keeps them open.                                                 *)
(***************************************************************************)
EXTENDS Integers

CONSTANTS
  Callers,    \* threads that call executeCommand(), each once
  Caller,     \* the process they belong to; the child of thread t is named t
  PipeSize,   \* what a pipe holds
  MaxStdin    \* bound: length of stdinString

ASSUME CommandAssumption == Caller \notin Callers /\ PipeSize \in Nat \ {0} /\ MaxStdin \in Nat

VARIABLES
  parent,      \* where the call of thread t is
  child,       \* where its child is
  readers,     \* processes that have the read end of its pipe open
  writers,     \* processes that have the write end open
  toSend,      \* stdinDataSize
  inPipe,      \* bytes in the pipe
  result,      \* what the call returns
  interrupted, \* calls whose waitpid() was interrupted by a signal
  astray,      \* children that returned from executeCommand()
  overlapped   \* a child was forked that has the pipe of another call open

pipeVars == <<readers, writers, toSend, inPipe>>
callVars == <<interrupted, astray, overlapped, result>>
commandVars == <<parent, child, pipeVars, callVars>>

Ended == {"success", "failure", "signal"}

CommandInit ==
  /\ parent = [t \in Callers |-> "pipe"]
  /\ child = [t \in Callers |-> "none"]
  /\ readers = [t \in Callers |-> {}]
  /\ writers = [t \in Callers |-> {}]
  /\ toSend \in [Callers -> 0..MaxStdin]
  /\ inPipe = [t \in Callers |-> 0]
  /\ result = [t \in Callers |-> 0]
  /\ interrupted = {}
  /\ astray = {}
  /\ overlapped = FALSE

At(t, at) == parent[t] = at
Goes(t, at) == parent' = [parent EXCEPT ![t] = at]
Returns(t, value) == Goes(t, "returned") /\ result' = [result EXCEPT ![t] = value]

-----------------------------------------------------------------------------
(* The caller *)

Pipe(t) ==
  /\ At(t, "pipe")
  /\ \/ /\ Goes(t, "fork")
        /\ readers' = [readers EXCEPT ![t] = {Caller}]
        /\ writers' = [writers EXCEPT ![t] = {Caller}]
        /\ UNCHANGED result
     \/ Returns(t, -1) /\ UNCHANGED <<readers, writers>>
  /\ UNCHANGED <<child, toSend, inPipe, interrupted, astray, overlapped>>

(* The child has what its parent has.  If there is none, the pipe stays open. *)
Fork(t) ==
  LET Inherited(holders) == [u \in Callers |-> IF Caller \in holders[u] THEN holders[u] \cup {t} ELSE holders[u]]
  IN
  /\ At(t, "fork")
  /\ \/ /\ Goes(t, "parent")
        /\ child' = [child EXCEPT ![t] = "forked"]
        /\ readers' = Inherited(readers)
        /\ writers' = Inherited(writers)
        /\ overlapped' = (overlapped \/ \E u \in Callers \ {t} : Caller \in writers[u])
        /\ UNCHANGED result
     \/ Returns(t, -1) /\ UNCHANGED <<child, readers, writers, overlapped>>
  /\ UNCHANGED <<toSend, inPipe, interrupted, astray>>

CloseRead(t) ==
  /\ At(t, "parent")
  /\ Goes(t, "write")
  /\ readers' = [readers EXCEPT ![t] = @ \ {Caller}]
  /\ UNCHANGED <<child, writers, toSend, inPipe, callVars>>

(* write() waits while the pipe is full.  SIGPIPE is taken to be ignored. *)
Write(t) ==
  /\ At(t, "write")
  /\ readers[t] # {}
  /\ \E n \in 1..toSend[t] :
       /\ inPipe[t] + n <= PipeSize
       /\ inPipe' = [inPipe EXCEPT ![t] = @ + n]
       /\ toSend' = [toSend EXCEPT ![t] = @ - n]
  /\ UNCHANGED <<parent, child, readers, writers, callVars>>

(* The loop ends: all is written, nobody reads, or a signal came meanwhile. *)
Written(t) == At(t, "write") /\ (toSend[t] = 0 \/ readers[t] = {} \/ inPipe[t] = PipeSize)

(* Mutant: the pipe stays open. *)
CloseKeepsOpen(t) ==
  /\ Written(t)
  /\ Goes(t, "wait")
  /\ UNCHANGED <<child, pipeVars, callVars>>

Close(t) ==
  /\ Written(t)
  /\ Goes(t, "wait")
  /\ writers' = [writers EXCEPT ![t] = @ \ {Caller}]
  /\ UNCHANGED <<child, readers, toSend, inPipe, callVars>>

Wait(t) ==
  /\ At(t, "wait")
  /\ child[t] \in Ended
  /\ Returns(t, IF child[t] = "success" THEN 0 ELSE -1)
  /\ UNCHANGED <<child, pipeVars, interrupted, astray, overlapped>>

(* waitpid() is interrupted: waitStatus was never written. *)
WaitInterrupted(t) ==
  /\ At(t, "wait")
  /\ \E value \in {0, -1} : Returns(t, value)
  /\ interrupted' = interrupted \cup {t}
  /\ UNCHANGED <<child, pipeVars, astray, overlapped>>

-----------------------------------------------------------------------------
(* The child *)

Becomes(t, at) == child' = [child EXCEPT ![t] = at]

(* It closes the write end of its own pipe and makes the read end its stdin; *)
(* if it cannot, it returns from executeCommand() as its parent does later.  *)
Redirect(t) ==
  /\ child[t] = "forked"
  /\ writers' = [writers EXCEPT ![t] = @ \ {t}]
  /\ \/ Becomes(t, "exec") /\ UNCHANGED astray
     \/ Becomes(t, "astray") /\ astray' = astray \cup {t}
  /\ UNCHANGED <<parent, readers, toSend, inPipe, interrupted, overlapped, result>>

(* The end of a process closes its descriptors. *)
Ends(t, how) ==
  /\ Becomes(t, how)
  /\ readers' = [u \in Callers |-> readers[u] \ {t}]
  /\ writers' = [u \in Callers |-> writers[u] \ {t}]
  /\ UNCHANGED <<parent, toSend, inPipe, callVars>>

Exec(t) ==
  /\ child[t] = "exec"
  /\ Becomes(t, "running")
  /\ UNCHANGED <<parent, pipeVars, callVars>>

ExecFails(t) == child[t] = "exec" /\ Ends(t, "failure")

(* External: the command reads its stdin to the end. *)
Reads(t) ==
  /\ child[t] = "running"
  /\ inPipe[t] > 0
  /\ inPipe' = [inPipe EXCEPT ![t] = 0]
  /\ UNCHANGED <<parent, child, readers, writers, toSend, callVars>>

(* External: it ends well after the end of its stdin, or badly at any time. *)
Exits(t, how) ==
  /\ child[t] \in {"running", "astray"}
  /\ how = "success" /\ child[t] = "running" => inPipe[t] = 0 /\ writers[t] = {}
  /\ Ends(t, how)

CommandStep ==
  \E t \in Callers :
    \/ Pipe(t) \/ Fork(t) \/ CloseRead(t) \/ Write(t) \/ Close(t) \/ Wait(t) \/ WaitInterrupted(t)
    \/ Redirect(t) \/ Exec(t) \/ ExecFails(t) \/ Reads(t)
    \/ \E how \in {"success", "failure", "signal"} : Exits(t, how)

CommandSpec == CommandInit /\ [][CommandStep]_commandVars

-----------------------------------------------------------------------------
(* 0 is returned only after the command was executed and has ended well.     *)
SuccessMeansExecuted ==
  \A t \in Callers : At(t, "returned") /\ result[t] = 0 /\ t \notin interrupted \cup astray
                       => child[t] = "success"

(* Both ends of the pipe are closed when the caller returns. *)
PipeClosed ==
  \A t \in Callers : At(t, "returned") /\ child[t] # "none" => Caller \notin readers[t] \cup writers[t]

(* A caller does not wait for a command that waits for the end of its stdin. *)
EndOfStdinSeen ==
  \A t \in Callers : At(t, "wait") /\ child[t] = "running" => writers[t] = {}

(* What a caller of executeCommand() (executecommand.cpp:58) relies on: 0 is *)
(* returned only after the command has ended well, no pipe is left open, and *)
(* caller and command do not wait for each other.  The exceptions: waitpid() *)
(* (118) is not repeated when a signal interrupts it and its status is used  *)
(* all the same; a child that fails to redirect its stdin (82) returns to    *)
(* the code of its parent; without a child the pipe stays open (72); and a   *)
(* second call in another thread hands the pipe of the first one to its      *)
(* child, so that two commands may wait for each other's end.                *)
CommandSound ==
  /\ SuccessMeansExecuted
  /\ PipeClosed
  /\ ~overlapped => EndOfStdinSeen
=============================================================================
