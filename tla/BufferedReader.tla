--------------------------- MODULE BufferedReader ---------------------------
(***************************************************************************)
(* Receiving from a stream socket: BufferedReader::recv of                 *)
(* lib/communication/linux/bufferedreader.cpp, and receive() and           *)
(* receiveComplete() of lib/communication/linux/socketnonblocking.cpp,     *)
(* which call it.  connect() gives the same object a new connection.       *)
(*                                                                         *)
(* A byte is identified by its connection and its position in the stream,  *)
(* so that loss, duplication and reordering all show.  The peer and the    *)
(* socket are external.                                                    *)
(***************************************************************************)
EXTENDS Integers, Sequences

CONSTANTS
  BufferSize,  \* sizeof(m_buffer)
  MaxLen,      \* bound: bytes a caller asks for
  MaxSent,     \* bound: bytes the peer sends on a connection
  MaxConns     \* bound: connections the object has one after the other

ASSUME SizesAssumption ==
  /\ BufferSize \in Nat \ {0}
  /\ MaxLen \in Nat
  /\ MaxSent \in Nat
  /\ MaxConns \in Nat \ {0}

VARIABLES
  conn,         \* number of the current connection
  sent,         \* bytes the peer has sent on it
  taken,        \* bytes readv has taken from the socket
  peer,         \* "open", or the peer has "closed" or "reset" the connection
  buffer,       \* m_buffer
  fillLevel,    \* m_fillLevel
  alreadyRead,  \* m_alreadyRead
  pc,           \* "idle", or where receiveComplete() is
  sizeLeft,     \* its local variable
  size,         \* its argument
  got,          \* bytes stored in the blocks of the callers
  reported,     \* bytes the calls have reported to the callers
  failed,       \* a receiveComplete() on this connection has returned -1
  stale         \* bytes m_buffer held when this connection was made

stream == <<conn, sent, taken, peer>>
reader == <<buffer, fillLevel, alreadyRead>>
complete == <<pc, sizeLeft, size>>
callers == <<got, reported, failed>>
vars == <<stream, reader, complete, callers, stale>>

Byte == [conn : 0..MaxConns, pos : Nat]

Init ==
  /\ conn = 1
  /\ sent = 0
  /\ taken = 0
  /\ peer = "open"
  /\ buffer = [i \in 0..(BufferSize - 1) |-> [conn |-> 0, pos |-> 0]]
  /\ fillLevel = 0
  /\ alreadyRead = 0
  /\ pc = "idle"
  /\ sizeLeft = 0
  /\ size = 0
  /\ got = <<>>
  /\ reported = 0
  /\ failed = FALSE
  /\ stale = 0

-----------------------------------------------------------------------------
(* External: the peer *)

PeerSends ==
  /\ peer = "open"
  /\ sent < MaxSent
  /\ sent' = sent + 1
  /\ UNCHANGED <<conn, taken, peer, reader, complete, callers, stale>>

PeerCloses ==
  /\ peer = "open"
  /\ peer' \in {"closed", "reset"}
  /\ UNCHANGED <<conn, sent, taken, reader, complete, callers, stale>>

-----------------------------------------------------------------------------
(* BufferedReader::recv *)

BytesLeft == fillLevel - alreadyRead

(* From m_buffer: as much as desired, or the rest of it (a short read). *)
FromBuffer(desired) == IF BytesLeft >= desired THEN desired ELSE BytesLeft

RecvBuffered(desired) ==
  /\ desired <= BytesLeft \/ BytesLeft > 0
  /\ got' = got \o [i \in 1..FromBuffer(desired) |-> buffer[alreadyRead + i - 1]]
  /\ alreadyRead' = alreadyRead + FromBuffer(desired)
  /\ UNCHANGED <<stream, buffer, fillLevel>>

(* What readv takes into the block and m_buffer together. *)
ReadvCount(desired) ==
  IF sent - taken > desired + BufferSize THEN desired + BufferSize ELSE sent - taken

(* Mutant: what m_buffer still holds is passed over. *)
RecvReadvEarly(desired) ==
  LET count == ReadvCount(desired) IN
  /\ desired > BytesLeft
  /\ count > 0
  /\ got' = got \o [i \in 1..(IF count > desired THEN desired ELSE count) |->
                      [conn |-> conn, pos |-> taken + i]]
  /\ buffer' = [i \in 0..(BufferSize - 1) |->
                  IF i < count - desired THEN [conn |-> conn, pos |-> taken + desired + i + 1]
                                         ELSE buffer[i]]
  /\ fillLevel' = IF count > desired THEN count - desired ELSE 0
  /\ alreadyRead' = 0
  /\ taken' = taken + count
  /\ UNCHANGED <<conn, sent, peer>>

(* readv fills the block of the caller first, then m_buffer. *)
RecvReadv(desired) ==
  LET count == ReadvCount(desired) IN
  /\ desired > BytesLeft
  /\ BytesLeft = 0
  /\ count > 0
  /\ got' = got \o [i \in 1..(IF count > desired THEN desired ELSE count) |->
                      [conn |-> conn, pos |-> taken + i]]
  /\ buffer' = [i \in 0..(BufferSize - 1) |->
                  IF i < count - desired THEN [conn |-> conn, pos |-> taken + desired + i + 1]
                                         ELSE buffer[i]]
  /\ fillLevel' = IF count > desired THEN count - desired ELSE 0
  /\ alreadyRead' = 0
  /\ taken' = taken + count
  /\ UNCHANGED <<conn, sent, peer>>

(* readv returns 0 at the end of the stream, or -1 with EAGAIN or an error. *)
RecvNothing(desired) ==
  /\ desired > BytesLeft
  /\ BytesLeft = 0
  /\ sent = taken
  /\ fillLevel' = 0
  /\ alreadyRead' = 0
  /\ UNCHANGED <<stream, buffer, got>>

(* The call succeeds; its result is the growth of got. *)
RecvBytes(desired) == RecvBuffered(desired) \/ RecvReadv(desired)

-----------------------------------------------------------------------------
(* SocketNonblocking *)

(* receive() *)
Receive(len) ==
  /\ pc = "idle"
  /\ \/ RecvBytes(len) /\ reported' = reported + (Len(got') - Len(got))
     \/ RecvNothing(len) /\ UNCHANGED reported
  /\ UNCHANGED <<complete, failed, stale>>

(* receiveComplete() with len bytes to receive *)
CompleteStart(len) ==
  /\ pc = "idle"
  /\ len > 0
  /\ pc' = "recv"
  /\ size' = len
  /\ sizeLeft' = len
  /\ UNCHANGED <<stream, reader, callers, stale>>

CompleteReturns(result) ==
  /\ pc' = "idle"
  /\ sizeLeft' = 0
  /\ size' = 0
  /\ reported' = IF result = -1 THEN reported ELSE reported + result
  /\ failed' = (failed \/ result = -1)
  /\ UNCHANGED stale

(* Mutant: every short read is taken for the end of the stream. *)
CompleteRecvShort ==
  /\ pc = "recv"
  /\ RecvBytes(sizeLeft)
  /\ CompleteReturns(size)

CompleteRecv ==
  /\ pc = "recv"
  /\ RecvBytes(sizeLeft)
  /\ LET rest == sizeLeft - (Len(got') - Len(got)) IN
     IF rest = 0 THEN CompleteReturns(size)
                 ELSE sizeLeft' = rest /\ UNCHANGED <<pc, size, reported, failed, stale>>

(* End of the stream: the bytes received so far are reported. *)
CompleteEof ==
  /\ pc = "recv"
  /\ RecvNothing(sizeLeft)
  /\ peer = "closed"
  /\ CompleteReturns(size - sizeLeft)

(* The connection is broken: -1, whatever was received before. *)
CompleteError ==
  /\ pc = "recv"
  /\ RecvNothing(sizeLeft)
  /\ peer = "reset"
  /\ CompleteReturns(-1)

CompleteWouldBlock ==
  /\ pc = "recv"
  /\ RecvNothing(sizeLeft)
  /\ peer = "open"
  /\ pc' = "poll"
  /\ UNCHANGED <<sizeLeft, size, reported, failed, stale>>

(* poll() says that the socket is readable, which the end of stream is, too. *)
CompleteReadable ==
  /\ pc = "poll"
  /\ sent > taken \/ peer # "open"
  /\ pc' = "recv"
  /\ UNCHANGED <<stream, reader, sizeLeft, size, callers, stale>>

(* Mutant: a timeout only repeats the poll. *)
CompleteTimeoutRetries ==
  /\ pc = "poll"
  /\ sent = taken
  /\ peer = "open"
  /\ pc' = "recv"
  /\ UNCHANGED <<stream, reader, sizeLeft, size, callers, stale>>

(* The timeout elapses: -1, whatever was received before. *)
CompleteTimeout ==
  /\ pc = "poll"
  /\ sent = taken
  /\ peer = "open"
  /\ CompleteReturns(-1)
  /\ UNCHANGED <<stream, reader, got>>

Complete ==
  \/ CompleteRecv \/ CompleteEof \/ CompleteError
  \/ CompleteWouldBlock \/ CompleteReadable \/ CompleteTimeout

(* disconnect() and connect(): m_bufferedReader is left as it is. *)
Reconnect ==
  /\ pc = "idle"
  /\ conn < MaxConns
  /\ conn' = conn + 1
  /\ sent' = 0
  /\ taken' = 0
  /\ peer' = "open"
  /\ got' = <<>>
  /\ reported' = 0
  /\ failed' = FALSE
  /\ stale' = BytesLeft
  /\ UNCHANGED <<reader, complete>>

-----------------------------------------------------------------------------
Next ==
  \/ PeerSends \/ PeerCloses \/ Reconnect
  \/ Complete
  \/ \E len \in 0..MaxLen : Receive(len) \/ CompleteStart(len)

Spec == Init /\ [][Next]_vars

(* The thread inside receiveComplete() is scheduled, and its timeout is      *)
(* finite.                                                                   *)
LiveSpec == Spec /\ WF_vars(Complete)

-----------------------------------------------------------------------------
(* Every variable has its type; the read position is within what m_buffer    *)
(* holds.                                                                    *)
TypeOK ==
  /\ conn \in 1..MaxConns
  /\ sent \in 0..MaxSent
  /\ taken \in 0..sent
  /\ peer \in {"open", "closed", "reset"}
  /\ buffer \in [0..(BufferSize - 1) -> Byte]
  /\ fillLevel \in 0..BufferSize
  /\ alreadyRead \in 0..fillLevel
  /\ pc \in {"idle", "recv", "poll"}
  /\ sizeLeft \in 0..MaxLen
  /\ size \in 0..MaxLen
  /\ got \in Seq(Byte)
  /\ reported \in Nat
  /\ failed \in BOOLEAN
  /\ stale \in 0..BufferSize

(* What the i-th byte is that the callers of the current connection get:     *)
(* leftovers of older connections first, then the stream from its start.     *)
Expected(i, byte) ==
  IF i <= stale THEN byte.conn < conn ELSE byte = [conn |-> conn, pos |-> i - stale]

(* What receive() and receiveComplete() deliver in any mix and over any      *)
(* number of connections: the stream without gap, repetition or reordering,  *)
(* after at most the bytes that connect() left in m_buffer.                  *)
StreamAfterLeftovers == \A i \in 1..Len(got) : Expected(i, got[i])

(* The bytes taken from the socket are with the callers or still in          *)
(* m_buffer, in order.                                                       *)
BufferContinues ==
  /\ Len(got) + BytesLeft = stale + taken
  /\ \A i \in 1..BytesLeft : Expected(Len(got) + i, buffer[alreadyRead + i - 1])

(* Every byte put into the block of a caller has been reported to him, or    *)
(* is by the running receiveComplete(), through short reads, waiting and the *)
(* end of the stream.  Only a receiveComplete() that returns -1, on timeout  *)
(* or error, breaks that.                                                    *)
EveryByteReported == ~failed => Len(got) = reported + (size - sizeLeft)

(* receiveComplete() with a timeout ends: the data is there, the connection  *)
(* is closed, or the timeout elapses, also if the peer sends byte by byte.   *)
CompleteEnds == pc # "idle" ~> pc = "idle"
=============================================================================
