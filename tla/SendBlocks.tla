----------------------------- MODULE SendBlocks -----------------------------
(***************************************************************************)
(* sendBlocks() and sendBlock() of                                         *)
(* lib/communication/linux/socketnonblocking.cpp: everything is sent on a  *)
(* non-blocking socket, with as many partial writes as it takes.  The      *)
(* socket (room in its send buffer, the peer that reads or breaks the      *)
(* connection, signals) is external.                                       *)
(*                                                                         *)
(* The bytes to send are numbered 1, 2, ... over all blocks.               *)
(***************************************************************************)
EXTENDS Integers, Sequences, SequencesExt

CONSTANTS
  MaxBlocks,  \* bound: blocks of a call
  MaxSize,    \* bound: bytes of a block
  MaxRoom,    \* size of the send buffer
  Breaks      \* whether the peer may break the connection

ASSUME BoundsAssumption ==
  MaxBlocks \in Nat /\ MaxSize \in Nat /\ MaxRoom \in Nat \ {0} /\ Breaks \in BOOLEAN

VARIABLES
  blocks,     \* the dataBlock_t array: number of the first byte and size of each
  pos,        \* pBlockPos
  count,      \* blockCount
  total,      \* totalLength
  remaining,  \* totalBytesRemaining, or BytesLeft of sendBlock
  offset,     \* remainingOffset
  at,         \* where the call is
  result,     \* its return value, once it is done
  room,       \* room in the send buffer of the socket
  broken,     \* the connection is broken
  wire        \* the bytes handed to the socket

cursor == <<blocks, pos, count>>
sums == <<total, remaining, offset>>
socket == <<room, broken>>
sendVars == <<cursor, sums, at, result, socket, wire>>

-----------------------------------------------------------------------------
Block == [first : Nat, size : 0..MaxSize]

(* Where a run of k blocks can be cut: cuts[i] bytes lie in the first i. *)
Cuts(k) ==
  {cuts \in [0..k -> 0..(MaxBlocks * MaxSize)] :
     /\ cuts[0] = 0
     /\ \A i \in 1..k : cuts[i] - cuts[i - 1] \in 0..MaxSize}

(* The k blocks between the cuts, one behind the other. *)
Layout(k, cuts) ==
  [i \in 1..k |-> [first |-> cuts[i - 1] + 1, size |-> cuts[i] - cuts[i - 1]]]

(* The bytes described by howMany blocks from index from on. *)
Gather(blks, from, howMany) ==
  FlattenSeq([i \in 1..howMany |->
    [j \in 1..blks[from + i - 1].size |-> blks[from + i - 1].first + j - 1]])

(* A call is about to be made; sendBlock() gets a single block. *)
SendInit ==
  /\ \E k \in 0..MaxBlocks : \E cuts \in Cuts(k) : blocks = Layout(k, cuts)
  /\ pos = 1
  /\ count = Len(blocks)
  /\ total = Len(Gather(blocks, 1, Len(blocks)))
  /\ remaining = total
  /\ offset = 0
  /\ at = "idle"
  /\ result = 0
  /\ room \in 0..MaxRoom
  /\ broken = FALSE
  /\ wire = <<>>

-----------------------------------------------------------------------------
(* External: the socket *)

PeerReads ==
  /\ ~broken
  /\ room < MaxRoom
  /\ room' = room + 1
  /\ UNCHANGED <<cursor, sums, at, result, broken, wire>>

PeerBreaks ==
  /\ Breaks
  /\ ~broken
  /\ broken' = TRUE
  /\ UNCHANGED <<cursor, sums, at, result, room, wire>>

(* What the socket takes of the bytes offered. *)
Taken(bytes) == IF Len(bytes) < room THEN Len(bytes) ELSE room

Return(value) ==
  /\ at' = "done"
  /\ result' = value

-----------------------------------------------------------------------------
(* sendBlocks *)

SendBlocksStart ==
  /\ at = "idle"
  /\ at' = "sendmsg"
  /\ UNCHANGED <<cursor, sums, result, socket, wire>>

Iov == Gather(blocks, pos, count)

(* sendmsg takes some bytes: done, or the blocks have to be reorganized. *)
SendMsg ==
  /\ at = "sendmsg"
  /\ ~broken
  /\ Taken(Iov) > 0
  /\ wire' = wire \o SubSeq(Iov, 1, Taken(Iov))
  /\ room' = room - Taken(Iov)
  /\ remaining' = remaining - Taken(Iov)
  /\ offset' = Taken(Iov)
  /\ IF remaining' = 0 THEN Return(total) ELSE at' = "reorganize" /\ UNCHANGED result
  /\ UNCHANGED <<cursor, total, broken>>

(* Nothing to send at all: sendmsg returns 0, and so does sendBlocks. *)
SendMsgZero ==
  /\ at = "sendmsg"
  /\ ~broken
  /\ Len(Iov) = 0
  /\ Return(0)
  /\ UNCHANGED <<cursor, sums, socket, wire>>

(* EAGAIN, or EINTR at any time: nothing was written. *)
SendMsgNothing ==
  /\ at = "sendmsg"
  /\ Len(Iov) > 0
  /\ offset' = 0
  /\ at' = "reorganize"
  /\ UNCHANGED <<cursor, total, remaining, result, socket, wire>>

(* Mutant: after every error the socket is waited for and tried again. *)
SendMsgErrorRetries ==
  /\ at = "sendmsg"
  /\ broken
  /\ at' = "poll"
  /\ UNCHANGED <<cursor, sums, result, socket, wire>>

SendMsgError ==
  /\ at = "sendmsg"
  /\ broken
  /\ Return(-1)
  /\ UNCHANGED <<cursor, sums, socket, wire>>

(* The do/while loop passes over the blocks that were sent completely. *)
SkipBlock ==
  /\ at = "reorganize"
  /\ offset >= blocks[pos].size
  /\ offset' = offset - blocks[pos].size
  /\ pos' = pos + 1
  /\ count' = count - 1
  /\ UNCHANGED <<blocks, total, remaining, at, result, socket, wire>>

(* Mutant: the size of a block sent in part is adapted, its start is not. *)
ShrinkBlockSizeOnly ==
  /\ at = "reorganize"
  /\ offset < blocks[pos].size
  /\ blocks' = [blocks EXCEPT ![pos].size = @ - offset]
  /\ at' = "poll"
  /\ UNCHANGED <<pos, count, sums, result, socket, wire>>

(* ... and cuts the sent part off the first that was not. *)
ShrinkBlock ==
  /\ at = "reorganize"
  /\ offset < blocks[pos].size
  /\ blocks' = [blocks EXCEPT ![pos] = [first |-> @.first + offset, size |-> @.size - offset]]
  /\ at' = "poll"
  /\ UNCHANGED <<pos, count, sums, result, socket, wire>>

-----------------------------------------------------------------------------
(* sendBlock *)

SendBlockStart ==
  /\ at = "idle"
  /\ Len(blocks) = 1
  /\ IF total = 0 THEN Return(0) ELSE at' = "send" /\ UNCHANGED result
  /\ UNCHANGED <<cursor, sums, socket, wire>>

(* Mutant: pDat is not advanced after a partial write. *)
SendSameStart ==
  /\ at = "send"
  /\ ~broken
  /\ Taken(Iov) > 0
  /\ wire' = wire \o SubSeq(Iov, 1, Taken(Iov))
  /\ room' = room - Taken(Iov)
  /\ remaining' = remaining - Taken(Iov)
  /\ blocks' = [blocks EXCEPT ![1].size = @ - Taken(Iov)]
  /\ IF remaining' = 0 THEN Return(total) ELSE UNCHANGED <<at, result>>
  /\ UNCHANGED <<pos, count, total, offset, broken>>

(* send() takes some bytes; the loop goes on with the rest at once. *)
Send ==
  /\ at = "send"
  /\ ~broken
  /\ Taken(Iov) > 0
  /\ wire' = wire \o SubSeq(Iov, 1, Taken(Iov))
  /\ room' = room - Taken(Iov)
  /\ remaining' = remaining - Taken(Iov)
  /\ blocks' = [blocks EXCEPT ![1] = [first |-> @.first + Taken(Iov), size |-> @.size - Taken(Iov)]]
  /\ IF remaining' = 0 THEN Return(total) ELSE UNCHANGED <<at, result>>
  /\ UNCHANGED <<pos, count, total, offset, broken>>

SendWouldBlock ==
  /\ at = "send"
  /\ ~broken
  /\ room = 0
  /\ at' = "pollSend"
  /\ UNCHANGED <<cursor, sums, result, socket, wire>>

SendError ==
  /\ at = "send"
  /\ broken
  /\ Return(-1)
  /\ UNCHANGED <<cursor, sums, socket, wire>>

-----------------------------------------------------------------------------
(* waitForWritable without a timeout; a broken connection is writable.  EINTR *)
(* repeats the poll.                                                         *)
WaitForWritable ==
  /\ at \in {"poll", "pollSend"}
  /\ room > 0 \/ broken
  /\ at' = IF at = "poll" THEN "sendmsg" ELSE "send"
  /\ UNCHANGED <<cursor, sums, result, socket, wire>>

CallerStep ==
  \/ SendMsg \/ SendMsgZero \/ SendMsgNothing \/ SendMsgError
  \/ SkipBlock \/ ShrinkBlock
  \/ Send \/ SendWouldBlock \/ SendError
  \/ WaitForWritable

Returned == at = "done" /\ UNCHANGED sendVars

SendNext == SendBlocksStart \/ SendBlockStart \/ CallerStep \/ PeerReads \/ PeerBreaks \/ Returned

SendSpec == SendInit /\ [][SendNext]_sendVars

(* The caller is scheduled, not every single sendmsg is interrupted by a     *)
(* signal, and the peer goes on reading.                                     *)
SendLiveSpec ==
  /\ SendSpec
  /\ WF_sendVars(CallerStep)
  /\ SF_sendVars(SendMsg) /\ SF_sendVars(SendMsgError)
  /\ WF_sendVars(PeerReads)

-----------------------------------------------------------------------------
(* Every variable has its type. *)
SendTypeOK ==
  /\ blocks \in Seq(Block)
  /\ Len(blocks) <= MaxBlocks
  /\ pos \in 1..(Len(blocks) + 1)
  /\ count \in 0..Len(blocks)
  /\ total \in Nat
  /\ remaining \in 0..total
  /\ offset \in Nat
  /\ at \in {"idle", "sendmsg", "reorganize", "send", "poll", "pollSend", "done"}
  /\ result \in Int
  /\ room \in 0..MaxRoom
  /\ broken \in BOOLEAN
  /\ wire \in Seq(Nat)

(* Whenever the socket is tried, the blocks describe exactly the bytes that   *)
(* were not sent.                                                            *)
BlocksDescribeRest ==
  at \in {"sendmsg", "send"} => Iov = [i \in 1..remaining |-> Len(wire) + i]

(* "send everything or until connection closes" (socketnonblocking.h:101):    *)
(* what reaches the socket is the concatenation of the blocks from its start, *)
(* all of it when the call returns its length, and a length is returned       *)
(* unless the connection breaks.                                             *)
SentInOrder ==
  /\ wire = [i \in 1..Len(wire) |-> i]
  /\ at = "done" => \/ result = total /\ Len(wire) = total
                    \/ result = -1 /\ broken

(* The call returns, as the peer reads or breaks the connection. *)
SendEnds == at # "idle" ~> at = "done"
=============================================================================
