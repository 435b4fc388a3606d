---------------------------- MODULE StreamProofs ----------------------------
(***************************************************************************)
(* Proofs about both directions of a stream socket, which share no state:  *)
(* BufferedReader, for any size of m_buffer, of the requests and of the    *)
(* stream and any number of connections, and SendBlocks, for any number    *)
(* and size of the blocks and any send buffer.                             *)
(***************************************************************************)
EXTENDS BufferedReader, SendBlocks, SequenceTheorems, WellFoundedInduction, TLAPS

-----------------------------------------------------------------------------
(***************************************************************************)
(* Receiving                                                               *)
(***************************************************************************)

(* Appending k bytes to what the callers got. *)
LEMMA Appending ==
  \A s \in Seq(Byte), k \in Nat : \A out \in [1..k -> Byte] :
    /\ s \o out \in Seq(Byte)
    /\ Len(s \o out) = Len(s) + k
    /\ \A i \in 1..Len(s) : (s \o out)[i] = s[i]
    /\ \A i \in 1..k : (s \o out)[Len(s) + i] = out[i]
<1> TAKE s \in Seq(Byte), k \in Nat
<1> TAKE out \in [1..k -> Byte]
<1>1. out \in Seq(Byte) /\ Len(out) = k
  OBVIOUS
<1> QED BY <1>1

ReaderType ==
  /\ conn \in 1..MaxConns
  /\ sent \in 0..MaxSent
  /\ taken \in 0..sent
  /\ buffer \in [0..(BufferSize - 1) -> Byte]
  /\ fillLevel \in 0..BufferSize
  /\ alreadyRead \in 0..fillLevel
  /\ got \in Seq(Byte)
  /\ stale \in 0..BufferSize

(* BufferContinues is what makes the order of the bytes inductive: it says   *)
(* where in the stream the bytes in m_buffer come from.                      *)
ReaderInv == ReaderType /\ StreamAfterLeftovers /\ BufferContinues

(* If what is appended continues the stream, the stream stays in order. *)
LEMMA OrderExtends ==
  ASSUME got \in Seq(Byte), StreamAfterLeftovers, conn' = conn, stale' = stale,
         NEW k \in Nat, NEW out \in [1..k -> Byte], got' = got \o out,
         \A i \in 1..k : Expected(Len(got) + i, out[i])
  PROVE  /\ StreamAfterLeftovers'
         /\ Len(got') = Len(got) + k
         /\ got' \in Seq(Byte)
<1>1. /\ got' \in Seq(Byte)
      /\ Len(got') = Len(got) + k
      /\ \A i \in 1..Len(got) : got'[i] = got[i]
      /\ \A i \in 1..k : got'[Len(got) + i] = out[i]
  <2>1. /\ got \o out \in Seq(Byte)
        /\ Len(got \o out) = Len(got) + k
        /\ \A i \in 1..Len(got) : (got \o out)[i] = got[i]
        /\ \A i \in 1..k : (got \o out)[Len(got) + i] = out[i]
    BY Appending, Zenon
  <2> QED BY <2>1, Zenon
<1>2. ASSUME NEW i \in 1..Len(got')
      PROVE  Expected(i, got[i])'
  <2>1. CASE i <= Len(got)
    BY <1>1, <2>1 DEF StreamAfterLeftovers, Expected
  <2>2. CASE i > Len(got)
    <3>1. i - Len(got) \in 1..k /\ Len(got) + (i - Len(got)) = i
      BY <1>1, <2>2
    <3>2. Expected(i, out[i - Len(got)]) /\ got'[i] = out[i - Len(got)]
      BY <1>1, <3>1
    <3> QED BY <3>2 DEF Expected
  <2> QED BY <1>1, <2>1, <2>2
<1> QED BY <1>1, <1>2 DEF StreamAfterLeftovers

(* Serving a request from m_buffer, completely or in part. *)
LEMMA BufferedKeepsOrder ==
  ASSUME ReaderInv, NEW desired \in Nat, RecvBuffered(desired), stale' = stale
  PROVE  ReaderInv' /\ Len(got') - Len(got) \in 0..desired
<1> USE SizesAssumption DEF ReaderInv, ReaderType, BytesLeft
<1> DEFINE k == FromBuffer(desired)
           out == [i \in 1..k |-> buffer[alreadyRead + i - 1]]
<1>1. k \in Nat /\ k <= desired /\ k <= BytesLeft
  BY DEF FromBuffer, RecvBuffered
<1>2. \A i \in 1..k : alreadyRead + i - 1 \in 0..(BufferSize - 1)
  BY <1>1
<1>3. out \in [1..k -> Byte]
  BY <1>2
<1>4. \A i \in 1..k : Expected(Len(got) + i, out[i])
  BY <1>1 DEF BufferContinues
<1>5. got' = got \o out /\ alreadyRead' = alreadyRead + k
  BY DEF RecvBuffered
<1>6. UNCHANGED <<conn, sent, taken, peer, buffer, fillLevel>>
  BY DEF RecvBuffered, stream
<1> HIDE DEF out, k
<1>7. StreamAfterLeftovers' /\ Len(got') = Len(got) + k /\ got' \in Seq(Byte)
  BY <1>1, <1>3, <1>4, <1>5, <1>6, OrderExtends
<1>8. BytesLeft' = BytesLeft - k /\ alreadyRead' \in 0..fillLevel
  BY <1>1, <1>5, <1>6
<1>9. BufferContinues'
  <2>1. Len(got') + BytesLeft' = stale' + taken'
    <3>1. Len(got) + BytesLeft = stale + taken /\ Len(got) \in Int /\ BytesLeft \in Int
      BY DEF BufferContinues
    <3>2. k \in Int
      BY <1>1
    <3> HIDE DEF ReaderInv, BytesLeft
    <3>3. Len(got') + BytesLeft' = (Len(got) + k) + (BytesLeft - k)
      BY <1>7, <1>8
    <3>4. @ = Len(got) + BytesLeft
      BY <3>1, <3>2
    <3>5. @ = stale' + taken'
      BY <1>6, <3>1
    <3> QED BY <3>3, <3>4, <3>5
  <2>2. ASSUME NEW i \in 1..BytesLeft'
        PROVE  Expected(Len(got) + i, buffer[alreadyRead + i - 1])'
    <3>1. k + i \in 1..BytesLeft
      BY <1>1, <1>8
    <3>2. Expected(Len(got) + (k + i), buffer[alreadyRead + (k + i) - 1])
      BY <3>1 DEF BufferContinues
    <3>3. alreadyRead' + i - 1 = alreadyRead + (k + i) - 1 /\ Len(got') + i = Len(got) + (k + i)
      BY <1>1, <1>5, <1>7, <1>8
    <3> QED BY <1>6, <3>2, <3>3 DEF Expected
  <2> QED BY <2>1, <2>2 DEF BufferContinues
<1> QED BY <1>1, <1>6, <1>7, <1>8, <1>9

(* A readv into the block of the caller and m_buffer. *)
LEMMA ReadvKeepsOrder ==
  ASSUME ReaderInv, NEW desired \in Nat, RecvReadv(desired), stale' = stale
  PROVE  ReaderInv' /\ Len(got') - Len(got) \in 0..desired
<1> USE SizesAssumption DEF ReaderInv, ReaderType, BytesLeft
<1> DEFINE fetched == ReadvCount(desired)
           k == IF fetched > desired THEN desired ELSE fetched
           out == [i \in 1..k |-> [conn |-> conn, pos |-> taken + i]]
<1>1. /\ fetched \in Nat
      /\ fetched <= desired + BufferSize
      /\ taken + fetched <= sent
      /\ k \in Nat /\ k <= desired /\ k <= fetched
  BY DEF ReadvCount, RecvReadv
<1>2. /\ BytesLeft = 0 /\ stale + taken = Len(got)
      /\ stale \in Nat /\ taken \in Nat /\ Len(got) \in Nat
  BY DEF RecvReadv, BufferContinues
<1>3. out \in [1..k -> Byte]
  BY <1>1 DEF Byte
<1>4. ASSUME NEW i \in 1..k
      PROVE  Expected(Len(got) + i, out[i])
  <2>1. out[i] = [conn |-> conn, pos |-> taken + i]
    OBVIOUS
  <2>2. ~(Len(got) + i <= stale) /\ (Len(got) + i) - stale = taken + i
    BY <1>1, <1>2
  <2> HIDE DEF ReaderInv, BytesLeft, out
  <2>3. out[i] = [conn |-> conn, pos |-> (Len(got) + i) - stale]
    BY <2>1, <2>2, Zenon
  <2> QED BY <2>2, <2>3, Zenon DEF Expected
<1>5. /\ got' = got \o out
      /\ buffer' = [i \in 0..(BufferSize - 1) |->
                  IF i < fetched - desired THEN [conn |-> conn, pos |-> taken + desired + i + 1]
                                         ELSE buffer[i]]
      /\ fillLevel' = IF fetched > desired THEN fetched - desired ELSE 0
      /\ alreadyRead' = 0
      /\ taken' = taken + fetched
      /\ UNCHANGED <<conn, sent, peer>>
  BY DEF RecvReadv
<1>6. fillLevel' = fetched - k /\ fillLevel' \in 0..BufferSize /\ (fillLevel' > 0 => k = desired)
  BY <1>1, <1>5
<1> HIDE DEF out, k, fetched
<1>7. StreamAfterLeftovers' /\ Len(got') = Len(got) + k /\ got' \in Seq(Byte)
  BY <1>1, <1>3, <1>4, <1>5, OrderExtends
<1>8. buffer' \in [0..(BufferSize - 1) -> Byte]
  <2>1. \A i \in 0..(BufferSize - 1) : [conn |-> conn, pos |-> taken + desired + i + 1] \in Byte
    BY DEF Byte
  <2> QED BY <1>5, <2>1
<1>9. BufferContinues'
  <2>1. BytesLeft' = fillLevel'
    BY <1>5, <1>6
  <2>2. Len(got') + BytesLeft' = stale' + taken'
    <3> HIDE DEF ReaderInv, BytesLeft
    <3>1. Len(got') + BytesLeft' = (Len(got) + k) + (fetched - k)
      BY <1>6, <1>7, <2>1
    <3>2. @ = (stale + taken) + fetched
      BY <1>1, <1>2
    <3>3. @ = stale' + taken'
      BY <1>1, <1>2, <1>5
    <3> QED BY <3>1, <3>2, <3>3
  <2>3. ASSUME NEW i \in 1..BytesLeft'
        PROVE  Expected(Len(got) + i, buffer[alreadyRead + i - 1])'
    <3>1. k = desired /\ i - 1 \in 0..(BufferSize - 1) /\ i - 1 < fetched - desired
      BY <1>1, <1>6, <2>1
    <3>2. buffer'[i - 1] = [conn |-> conn, pos |-> taken + desired + (i - 1) + 1]
      BY <1>5, <3>1
    <3>3. /\ taken + desired + (i - 1) + 1 = (Len(got') + i) - stale'
          /\ Len(got') + i > stale'
          /\ alreadyRead' + i - 1 = i - 1
      <4>1. Len(got') = (stale + taken) + desired /\ stale' = stale
        BY <1>2, <1>7, <3>1
      <4> HIDE DEF ReaderInv, BytesLeft
      <4> QED BY <1>2, <1>5, <3>1, <4>1
    <3>4. buffer'[alreadyRead' + i - 1] = [conn |-> conn', pos |-> (Len(got') + i) - stale']
      BY <1>5, <3>2, <3>3
    <3>5. ~(Len(got') + i <= stale')
      BY <1>2, <1>7, <3>1, <3>3
    <3> QED BY <3>4, <3>5 DEF Expected
  <2> QED BY <2>2, <2>3 DEF BufferContinues
<1>10. taken' \in 0..sent'
  BY <1>1, <1>5
<1> QED BY <1>1, <1>5, <1>6, <1>7, <1>8, <1>9, <1>10

(* Finding nothing leaves an empty m_buffer empty. *)
LEMMA NothingKeepsOrder ==
  ASSUME ReaderInv, NEW desired \in Nat, RecvNothing(desired), stale' = stale
  PROVE  ReaderInv'
  BY SizesAssumption
  DEF ReaderInv, ReaderType, StreamAfterLeftovers, BufferContinues, Expected, BytesLeft, RecvNothing, stream

StepInv == ReaderInv /\ sizeLeft \in 0..MaxLen

(* A new connection: what is in m_buffer becomes the leftovers. *)
LEMMA ReconnectKeepsOrder ==
  ASSUME ReaderInv, Reconnect
  PROVE  ReaderInv'
<1> USE SizesAssumption DEF ReaderInv, ReaderType
<1>1. /\ conn' = conn + 1 /\ conn' \in 1..MaxConns
      /\ sent' = 0 /\ taken' = 0
      /\ got' = <<>>
      /\ stale' = BytesLeft
      /\ UNCHANGED <<buffer, fillLevel, alreadyRead>>
  BY DEF Reconnect, reader
<1>2. BytesLeft \in 0..BufferSize /\ BytesLeft' = BytesLeft
  BY <1>1 DEF BytesLeft
<1>3. got' \in Seq(Byte) /\ Len(got') = 0
  BY <1>1
<1>4. ReaderType'
  BY <1>1, <1>2, <1>3
<1>5. StreamAfterLeftovers'
  BY <1>3 DEF StreamAfterLeftovers
<1>6. ASSUME NEW i \in 1..BytesLeft'
      PROVE  Expected(Len(got) + i, buffer[alreadyRead + i - 1])'
  <2>1. Expected(Len(got) + i, buffer[alreadyRead + i - 1])
    BY <1>2, <1>6 DEF BufferContinues
  <2>2. alreadyRead + i - 1 \in 0..(BufferSize - 1)
    BY <1>2, <1>6 DEF BytesLeft
  <2>3. buffer[alreadyRead + i - 1].conn \in Int
    BY <2>2 DEF Byte
  <2>4. buffer[alreadyRead + i - 1].conn < conn + 1
    BY <2>1, <2>3 DEF Expected
  <2>5. Len(got') + i <= stale'
    BY <1>1, <1>2, <1>3, <1>6
  <2> QED BY <1>1, <2>4, <2>5 DEF Expected
<1>7. BufferContinues'
  BY <1>1, <1>2, <1>3, <1>6 DEF BufferContinues
<1> QED BY <1>4, <1>5, <1>7

(* Every step keeps the order. *)
LEMMA ReaderStep ==
  ASSUME StepInv, [Next]_vars
  PROVE  StepInv'
<1> USE SizesAssumption DEF StepInv
<1>1. ASSUME UNCHANGED <<conn, taken, reader, got, stale>>, sent' \in 0..MaxSent, sent <= sent',
             sizeLeft' \in 0..MaxLen
      PROVE  StepInv'
  <2>1. ReaderType'
    BY <1>1 DEF ReaderInv, ReaderType, reader
  <2>2. StreamAfterLeftovers'
    BY <1>1 DEF ReaderInv, StreamAfterLeftovers, Expected
  <2>3. BufferContinues'
    BY <1>1 DEF ReaderInv, BufferContinues, Expected, BytesLeft, reader
  <2> QED BY <1>1, <2>1, <2>2, <2>3 DEF ReaderInv
<1>2. CASE PeerSends \/ PeerCloses
  <2>1. sent' \in 0..MaxSent /\ sent <= sent'
    BY <1>2 DEF PeerSends, PeerCloses, ReaderInv, ReaderType
  <2> QED BY <1>1, <1>2, <2>1 DEF PeerSends, PeerCloses, complete, callers
<1>3. CASE Reconnect
  BY <1>3, ReconnectKeepsOrder DEF Reconnect, complete
<1>4. CASE CompleteReadable \/ CompleteTimeout
  BY <1>1, <1>4 DEF CompleteReadable, CompleteTimeout, CompleteReturns, stream, callers, ReaderInv, ReaderType
<1>5. CASE CompleteRecv
  <2>1. ReaderInv' /\ Len(got') - Len(got) \in 0..sizeLeft
    BY <1>5, BufferedKeepsOrder, ReadvKeepsOrder DEF CompleteRecv, CompleteReturns, RecvBytes
  <2>2. sizeLeft' \in 0..MaxLen
    BY <1>5, <2>1 DEF CompleteRecv, CompleteReturns
  <2> QED BY <2>1, <2>2
<1>6. CASE CompleteEof \/ CompleteError \/ CompleteWouldBlock
  <2>1. ReaderInv'
    BY <1>6, NothingKeepsOrder DEF CompleteEof, CompleteError, CompleteWouldBlock, CompleteReturns
  <2> QED BY <1>6, <2>1 DEF CompleteEof, CompleteError, CompleteWouldBlock, CompleteReturns
<1>7. ASSUME NEW len \in 0..MaxLen, Receive(len)
      PROVE  StepInv'
  <2>1. ReaderInv'
    BY <1>7, BufferedKeepsOrder, ReadvKeepsOrder, NothingKeepsOrder DEF Receive, RecvBytes
  <2> QED BY <1>7, <2>1 DEF Receive, complete
<1>8. ASSUME NEW len \in 0..MaxLen, CompleteStart(len)
      PROVE  StepInv'
  BY <1>1, <1>8 DEF CompleteStart, stream, callers, ReaderInv, ReaderType
<1>9. CASE UNCHANGED vars
  BY <1>1, <1>9 DEF vars, stream, complete, callers, ReaderInv, ReaderType
<1> QED
  BY <1>2, <1>3, <1>4, <1>5, <1>6, <1>7, <1>8, <1>9 DEF Next, Complete

(* The buffer is empty initially. *)
LEMMA ReaderStart == Init => StepInv
<1> SUFFICES ASSUME Init PROVE StepInv
  OBVIOUS
<1>1. buffer \in [0..(BufferSize - 1) -> Byte]
  BY SizesAssumption DEF Init, Byte
<1> QED
  BY <1>1, SizesAssumption
  DEF Init, StepInv, ReaderInv, ReaderType, StreamAfterLeftovers, BufferContinues, BytesLeft

(* Whatever the sizes of m_buffer, of the requests and of what readv returns *)
(* each time, and however receive() and receiveComplete() alternate, the     *)
(* callers get the stream of every connection byte by byte in order, behind  *)
(* at most the bytes that were in m_buffer when it was made.                 *)
THEOREM StreamInOrder == Spec => [](StreamAfterLeftovers /\ BufferContinues)
<1>1. StepInv /\ [Next]_vars => StepInv'
  BY ReaderStep
<1>2. StepInv => StreamAfterLeftovers /\ BufferContinues
  BY DEF StepInv, ReaderInv
<1> QED BY ReaderStart, <1>1, <1>2, PTL DEF Spec
-----------------------------------------------------------------------------
(* Between calls nothing is on its way; a running receiveComplete() has got  *)
(* what it does not ask for any more.                                        *)
CountInv ==
  /\ size \in Nat /\ reported \in Int
  /\ pc = "idle" => size = 0 /\ sizeLeft = 0
  /\ EveryByteReported

(* A request is served with what was counted, *)
LEMMA BytesCounted ==
  ASSUME StepInv, NEW desired \in Nat, RecvBytes(desired), stale' = stale
  PROVE  Len(got') - Len(got) \in 0..desired /\ Len(got) \in Nat /\ Len(got') \in Nat
<1>1. ReaderInv' /\ Len(got') - Len(got) \in 0..desired
  BY BufferedKeepsOrder, ReadvKeepsOrder DEF StepInv, RecvBytes
<1>2. got \in Seq(Byte) /\ got' \in Seq(Byte)
  BY <1>1 DEF StepInv, ReaderInv, ReaderType
<1> QED BY <1>1, <1>2

(* and every step accounts for it. *)
LEMMA CountStep ==
  ASSUME StepInv, CountInv, [Next]_vars
  PROVE  CountInv'
<1>1. sizeLeft \in Nat /\ size \in Nat /\ reported \in Int /\ Len(got) \in Nat
  BY SizesAssumption DEF StepInv, ReaderInv, ReaderType, CountInv
<1>2. CASE PeerSends \/ PeerCloses \/ CompleteReadable \/ UNCHANGED vars
  BY <1>2
  DEF PeerSends, PeerCloses, CompleteReadable, vars, complete, callers, CountInv, EveryByteReported
<1>3. CASE Reconnect
  <2>1. got' = <<>> /\ reported' = 0 /\ size' = 0 /\ sizeLeft' = 0
    BY <1>3 DEF Reconnect, complete, CountInv
  <2> QED BY <1>3, <2>1 DEF CountInv, EveryByteReported
<1>4. CASE CompleteRecv
  <2> DEFINE k == Len(got') - Len(got)
  <2>1. k \in 0..sizeLeft /\ Len(got') \in Nat
    BY <1>1, <1>4, BytesCounted DEF CompleteRecv, CompleteReturns
  <2>2. CASE sizeLeft - k = 0
    <3>1. CompleteReturns(size)
      BY <1>4, <2>2 DEF CompleteRecv
    <3>2. /\ pc' = "idle" /\ sizeLeft' = 0 /\ size' = 0 /\ reported' = reported + size
          /\ (failed => failed')
      <4>1. failed => failed'
        BY <3>1, Zenon DEF CompleteReturns
      <4>2. size # -1
        BY <1>1
      <4> QED BY <3>1, <4>1, <4>2 DEF CompleteReturns
    <3>3. ~failed' => Len(got') = reported' + (size' - sizeLeft')
      BY <1>1, <2>1, <2>2, <3>2 DEF CountInv, EveryByteReported
    <3> QED BY <1>1, <3>2, <3>3 DEF CountInv, EveryByteReported
  <2>3. CASE sizeLeft - k # 0
    <3>1. sizeLeft' = sizeLeft - k /\ UNCHANGED <<pc, size, reported, failed>> /\ pc = "recv"
      BY <1>4, <2>3 DEF CompleteRecv
    <3>2. ~failed' => Len(got') = reported' + (size' - sizeLeft')
      BY <1>1, <2>1, <3>1 DEF CountInv, EveryByteReported
    <3> QED BY <1>1, <3>1, <3>2 DEF CountInv, EveryByteReported
  <2> QED BY <2>2, <2>3
<1>5. CASE CompleteEof
  <2>1. got' = got /\ CompleteReturns(size - sizeLeft)
    BY <1>5 DEF CompleteEof, RecvNothing
  <2>2. pc' = "idle" /\ sizeLeft' = 0 /\ size' = 0
    BY <2>1 DEF CompleteReturns
  <2>3. CASE size - sizeLeft = -1
    <3>1. reported' = reported /\ failed'
      BY <2>1, <2>3 DEF CompleteReturns
    <3> QED BY <1>1, <2>2, <3>1 DEF CountInv, EveryByteReported
  <2>4. CASE size - sizeLeft # -1
    <3>1. reported' = reported + (size - sizeLeft) /\ (failed => failed')
      BY <2>1, <2>4 DEF CompleteReturns
    <3> QED BY <1>1, <2>1, <2>2, <3>1 DEF CountInv, EveryByteReported
  <2> QED BY <2>3, <2>4
<1>6. CASE CompleteError \/ CompleteTimeout
  <2>1. pc' = "idle" /\ sizeLeft' = 0 /\ size' = 0 /\ reported' = reported /\ failed'
    BY <1>6 DEF CompleteError, CompleteTimeout, CompleteReturns
  <2> QED BY <1>1, <2>1 DEF CountInv, EveryByteReported
<1>7. CASE CompleteWouldBlock
  BY <1>7 DEF CompleteWouldBlock, RecvNothing, CountInv, EveryByteReported
<1>8. ASSUME NEW len \in 0..MaxLen, Receive(len)
      PROVE  CountInv'
  <2>1. pc = "idle" /\ UNCHANGED <<pc, size, sizeLeft, failed, stale>>
    BY <1>8 DEF Receive, complete
  <2>2. CASE RecvBytes(len) /\ reported' = reported + (Len(got') - Len(got))
    <3>1. Len(got') \in Nat
      BY <2>1, <2>2, BytesCounted, SizesAssumption
    <3> QED BY <1>1, <2>1, <2>2, <3>1 DEF CountInv, EveryByteReported
  <2>3. CASE RecvNothing(len) /\ UNCHANGED reported
    BY <2>1, <2>3 DEF RecvNothing, CountInv, EveryByteReported
  <2> QED BY <1>8, <2>2, <2>3 DEF Receive
<1>9. ASSUME NEW len \in 0..MaxLen, CompleteStart(len)
      PROVE  CountInv'
  <2>1. /\ pc = "idle" /\ pc' = "recv" /\ size' = len /\ sizeLeft' = len
        /\ UNCHANGED <<got, reported, failed>> /\ len \in Nat
    BY <1>9, SizesAssumption DEF CompleteStart, callers
  <2> QED BY <1>1, <2>1 DEF CountInv, EveryByteReported
<1> QED
  BY <1>2, <1>3, <1>4, <1>5, <1>6, <1>7, <1>8, <1>9 DEF Next, Complete

(* A mix of receive() and receiveComplete() reports every byte that it puts  *)
(* into a block, for any sizes, unless a receiveComplete() fails (see        *)
(* EveryByteReported).                                                       *)
THEOREM BytesReported == Spec => []EveryByteReported
<1>1. Init => StepInv /\ CountInv
  <2> SUFFICES ASSUME Init PROVE StepInv /\ CountInv
    OBVIOUS
  <2>1. StepInv
    BY ReaderStart
  <2>2. Len(got) = 0 /\ reported = 0 /\ size = 0 /\ sizeLeft = 0
    BY DEF Init
  <2> QED BY <2>1, <2>2 DEF CountInv, EveryByteReported
<1>2. StepInv /\ CountInv /\ [Next]_vars => (StepInv /\ CountInv)'
  BY ReaderStep, CountStep
<1>3. CountInv => EveryByteReported
  BY DEF CountInv
<1> QED BY <1>1, <1>2, <1>3, PTL DEF Spec

-----------------------------------------------------------------------------
(***************************************************************************)
(* Runs of bytes                                                           *)
(***************************************************************************)

(* A nonempty set of natural numbers has a least element. *)
LEMMA LeastNatural ==
  ASSUME NEW S, S \subseteq Nat, S # {}
  PROVE  \E n \in S : \A m \in S : n <= m
<1>1. PICK n \in S : \A m \in S : ~ (<<m, n>> \in OpToRel(<, Nat))
  BY NatLessThanWellFounded, WFMin, Zenon
<1>2. \A m \in S : ~ (m < n)
  BY <1>1, Zenon DEF OpToRel
<1> QED BY <1>2

(* The numbers of k bytes from first on. *)
Run(first, k) == [j \in 1..k |-> first + j - 1]

(* A run is a sequence. *)
LEMMA RunIs ==
  ASSUME NEW a \in Nat, NEW k \in Nat
  PROVE  /\ Run(a, k) \in Seq(Nat)
         /\ Len(Run(a, k)) = k
         /\ \A j \in 1..k : Run(a, k)[j] = a + j - 1
BY DEF Run

(* Two runs, one behind the other, are a run. *)
LEMMA RunsJoin ==
  ASSUME NEW a \in Nat, NEW k \in Nat, NEW l \in Nat
  PROVE  Run(a, k) \o Run(a + k, l) = Run(a, k + l)
<1> DEFINE s == Run(a, k)
           t == Run(a + k, l)
           u == Run(a, k + l)
<1>1. /\ s \in Seq(Nat) /\ Len(s) = k
      /\ \A j \in 1..k : s[j] = a + j - 1
  BY RunIs
<1>2. /\ t \in Seq(Nat) /\ Len(t) = l
      /\ \A j \in 1..l : t[j] = a + k + j - 1
  <2>1. a + k \in Nat
    OBVIOUS
  <2> QED BY <2>1, RunIs
<1>3. /\ u \in Seq(Nat) /\ Len(u) = k + l
      /\ \A j \in 1..(k + l) : u[j] = a + j - 1
  BY RunIs
<1> HIDE DEF s, t, u
<1>4. /\ s \o t \in Seq(Nat) /\ Len(s \o t) = Len(s) + Len(t)
      /\ \A j \in 1..Len(s) + Len(t) : (s \o t)[j] = IF j <= Len(s) THEN s[j] ELSE t[j - Len(s)]
  BY <1>1, <1>2, ConcatProperties
<1>5. ASSUME NEW j \in 1..(k + l) PROVE (s \o t)[j] = u[j]
  <2>1. CASE j <= k
    <3>1. (s \o t)[j] = s[j] /\ j \in 1..k
      BY <1>1, <1>2, <1>4, <2>1
    <3> QED BY <1>1, <1>3, <3>1
  <2>2. CASE j > k
    <3>1. (s \o t)[j] = t[j - k] /\ j - k \in 1..l
      BY <1>1, <1>2, <1>4, <2>2
    <3> QED BY <1>2, <1>3, <3>1
  <2>3. j <= k \/ j > k
    OBVIOUS
  <2> QED BY <2>1, <2>2, <2>3, Zenon
<1>6. s \o t = u
  BY <1>1, <1>2, <1>3, <1>4, <1>5, SeqEqual
<1> QED BY <1>6 DEF s, t, u

(* FlattenSeq of runs that lie one behind the other: the recursion of        *)
(* FlattenSeq has a solution, the runs up to each element, and only this one. *)
LEMMA FlattenRuns ==
  ASSUME NEW n \in Nat, NEW cuts \in [0..n -> Nat], NEW seqs,
         \A i \in 1..n : cuts[i - 1] <= cuts[i],
         seqs = [i \in 1..n |-> Run(cuts[i - 1], cuts[i] - cuts[i - 1])]
  PROVE  FlattenSeq(seqs) = Run(cuts[0], cuts[n] - cuts[0])
<1>0. seqs \in Seq(Seq(Nat)) /\ Len(seqs) = n
  <2>1. \A i \in 1..n : Run(cuts[i - 1], cuts[i] - cuts[i - 1]) \in Seq(Nat)
    <3> SUFFICES ASSUME NEW i \in 1..n PROVE Run(cuts[i - 1], cuts[i] - cuts[i - 1]) \in Seq(Nat)
      OBVIOUS
    <3>1. cuts[i - 1] \in Nat /\ cuts[i] - cuts[i - 1] \in Nat
      OBVIOUS
    <3> QED BY <3>1, RunIs
  <2> QED BY <2>1
<1>1. CASE n = 0
  <2>1. seqs = <<>>
    BY <1>0, <1>1
  <2>2. Run(cuts[0], cuts[n] - cuts[0]) = <<>>
    <3>1. cuts[0] \in Nat /\ cuts[n] - cuts[0] = 0
      BY <1>1
    <3>2. Run(cuts[0], 0) = <<>>
      BY DEF Run
    <3> QED BY <3>1, <3>2, Zenon
  <2> QED BY <1>0, <1>1, <2>1, <2>2 DEF FlattenSeq
<1>2. CASE n > 0
  <2> DEFINE Sol(f) == f = [i \in 1..Len(seqs) |-> IF i = 1 THEN seqs[i] ELSE f[i - 1] \o seqs[i]]
             flat == CHOOSE f : Sol(f)
             g == [i \in 1..n |-> Run(cuts[0], cuts[i] - cuts[0])]
  <2>1. FlattenSeq(seqs) = flat[n]
    BY <1>0, <1>2 DEF FlattenSeq
  <2>2. \A i \in 0..n : cuts[0] <= cuts[i]
    <3> SUFFICES ASSUME ~ \A i \in 0..n : cuts[0] <= cuts[i] PROVE FALSE
      OBVIOUS
    <3> DEFINE S == {i \in 0..n : ~ (cuts[0] <= cuts[i])}
    <3>1. PICK i \in S : \A m \in S : i <= m
      <4>1. S \subseteq Nat
        OBVIOUS
      <4>2. S # {}
        OBVIOUS
      <4> HIDE DEF S
      <4> QED BY <4>1, <4>2, LeastNatural
    <3>2. i \in 1..n /\ i - 1 \in 0..n /\ i - 1 \notin S
      BY <3>1
    <3> QED BY <3>2
  <2>3. /\ g[1] = seqs[1]
        /\ \A i \in 2..n : g[i] = g[i - 1] \o seqs[i]
    <3>1. g[1] = seqs[1]
      BY <1>2
    <3>2. ASSUME NEW i \in 2..n PROVE g[i] = g[i - 1] \o seqs[i]
      <4> DEFINE a == cuts[0]
                 k == cuts[i - 1] - cuts[0]
                 l == cuts[i] - cuts[i - 1]
      <4>1. /\ a \in Nat /\ k \in Nat /\ l \in Nat
            /\ a + k = cuts[i - 1] /\ k + l = cuts[i] - cuts[0]
        <5>1. i - 1 \in 0..n /\ i \in 1..n
          OBVIOUS
        <5> QED BY <2>2, <5>1
      <4>2. g[i] = Run(a, k + l) /\ g[i - 1] = Run(a, k) /\ seqs[i] = Run(a + k, l)
        <5>1. i \in 1..n /\ i - 1 \in 1..n
          OBVIOUS
        <5>2. g[i] = Run(cuts[0], cuts[i] - cuts[0]) /\ g[i - 1] = Run(cuts[0], cuts[i - 1] - cuts[0])
          BY <5>1
        <5>3. seqs[i] = Run(cuts[i - 1], cuts[i] - cuts[i - 1])
          BY <5>1
        <5> QED BY <4>1, <5>2, <5>3, Zenon
      <4> HIDE DEF a, k, l, g
      <4>3. Run(a, k) \o Run(a + k, l) = Run(a, k + l)
        BY <4>1, RunsJoin
      <4> QED BY <4>2, <4>3, Zenon
    <3> QED BY <3>1, <3>2
  <2>4. Sol(g)
    <3>1. \A i \in 1..n : g[i] = IF i = 1 THEN seqs[i] ELSE g[i - 1] \o seqs[i]
      <4> SUFFICES ASSUME NEW i \in 1..n
                   PROVE  g[i] = IF i = 1 THEN seqs[i] ELSE g[i - 1] \o seqs[i]
        BY Zenon
      <4> HIDE DEF g
      <4>1. CASE i = 1
        BY <2>3, <4>1
      <4>2. CASE i # 1
        <5>1. i \in 2..n
          BY <4>2
        <5> QED BY <2>3, <4>2, <5>1, Zenon
      <4> QED BY <4>1, <4>2
    <3>2. g = [i \in 1..n |-> g[i]]
      BY Zenon
    <3> HIDE DEF g
    <3> QED BY <1>0, <3>1, <3>2, ZenonT(60)
  <2>5. Sol(flat)
    BY <2>4, Zenon
  <2> HIDE DEF flat
  <2>6. \A i \in 1..n : flat[i] = g[i]
    <3>1. flat[1] = seqs[1] /\ \A i \in 2..n : flat[i] = flat[i - 1] \o seqs[i]
      <4>1. \A i \in 1..n : flat[i] = IF i = 1 THEN seqs[i] ELSE flat[i - 1] \o seqs[i]
        BY <1>0, <2>5
      <4>2. flat[1] = seqs[1]
        <5>1. 1 \in 1..n
          BY <1>2
        <5> QED BY <4>1, <5>1, Zenon
      <4>3. ASSUME NEW i \in 2..n PROVE flat[i] = flat[i - 1] \o seqs[i]
        <5>1. i \in 1..n /\ i # 1
          OBVIOUS
        <5> QED BY <4>1, <5>1, Zenon
      <4> QED BY <4>2, <4>3
    <3> SUFFICES ASSUME ~ \A i \in 1..n : flat[i] = g[i] PROVE FALSE
      OBVIOUS
    <3> DEFINE S == {i \in 1..n : flat[i] # g[i]}
    <3> HIDE DEF g
    <3>2. PICK i \in S : \A m \in S : i <= m
      <4>1. S \subseteq Nat
        OBVIOUS
      <4>2. S # {}
        BY Zenon
      <4> HIDE DEF S
      <4> QED BY <4>1, <4>2, LeastNatural
    <3>3. i \in 2..n
      BY <2>3, <3>1, <3>2
    <3>4. flat[i - 1] = g[i - 1]
      BY <3>2, <3>3
    <3>5. flat[i] = g[i]
      BY <2>3, <3>1, <3>3, <3>4
    <3> QED BY <3>2, <3>5
  <2> QED BY <1>2, <2>1, <2>6
<1> QED BY <1>1, <1>2

(* The bytes of blocks that lie one behind the other, of any size, are a     *)
(* single run: from the first byte of the first block to the last one of the *)
(* last.                                                                     *)
LEMMA GatherIs ==
  ASSUME NEW blks \in Seq(Block), NEW from \in 1..Len(blks),
         \A i \in from..(Len(blks) - 1) : blks[i + 1].first = blks[i].first + blks[i].size
  PROVE  Gather(blks, from, Len(blks) - from + 1)
           = Run(blks[from].first,
                 (blks[Len(blks)].first + blks[Len(blks)].size) - blks[from].first)
<1> DEFINE n == Len(blks) - from + 1
           last == blks[Len(blks)].first + blks[Len(blks)].size
           cuts == [i \in 0..n |-> IF i = n THEN last ELSE blks[from + i].first]
           seqs == [i \in 1..n |->
                      [j \in 1..blks[from + i - 1].size |-> blks[from + i - 1].first + j - 1]]
<1>1. n \in Nat /\ n > 0 /\ Len(blks) \in Nat
  OBVIOUS
<1>2. ASSUME NEW i \in 1..Len(blks)
      PROVE  blks[i].first \in Nat /\ blks[i].size \in Nat
  <2>1. blks[i] \in Block
    BY ElementOfSeq, Zenon
  <2> QED BY <2>1, BoundsAssumption DEF Block
<1>3. cuts \in [0..n -> Nat]
  <2> SUFFICES ASSUME NEW i \in 0..n PROVE (IF i = n THEN last ELSE blks[from + i].first) \in Nat
    BY Zenon
  <2>1. CASE i = n
    <3>1. Len(blks) \in 1..Len(blks)
      BY <1>1
    <3>2. last \in Nat
      BY <1>2, <3>1
    <3> QED BY <2>1, <3>2, Zenon
  <2>2. CASE i # n
    <3>1. from + i \in 1..Len(blks)
      <4>1. i \in Nat /\ i < n
        <5> HIDE DEF n
        <5> QED BY <1>1, <2>2
      <4> QED BY <1>1, <4>1
    <3> QED BY <1>2, <2>2, <3>1
  <2> QED BY <2>1, <2>2
<1>4. ASSUME NEW i \in 1..n
      PROVE  /\ cuts[i - 1] = blks[from + i - 1].first
             /\ cuts[i] - cuts[i - 1] = blks[from + i - 1].size
             /\ blks[from + i - 1].size \in Nat
  <2>1. from + i - 1 \in 1..Len(blks) /\ from + (i - 1) = from + i - 1
    BY <1>1
  <2>2. cuts[i - 1] = blks[from + i - 1].first
    <3>1. i - 1 \in 0..n /\ i - 1 # n
      BY <1>1
    <3>2. cuts[i - 1] = blks[from + (i - 1)].first
      BY <3>1
    <3> QED BY <2>1, <3>2
  <2>3. cuts[i] = blks[from + i - 1].first + blks[from + i - 1].size
    <3>1. CASE i = n
      <4>1. cuts[i] = last
        BY <1>1, <3>1
      <4>2. from + i - 1 = Len(blks)
        BY <1>1, <3>1
      <4> QED BY <4>1, <4>2
    <3>2. CASE i # n
      <4>1. /\ i \in 0..n
            /\ from + i - 1 \in from..(Len(blks) - 1)
            /\ (from + i - 1) + 1 = from + i
        <5>1. i \in Nat /\ 1 <= i /\ i < n
          <6> HIDE DEF n
          <6> QED BY <1>1, <3>2
        <5> QED BY <1>1, <5>1
      <4>2. cuts[i] = blks[from + i].first
        BY <3>2, <4>1
      <4>3. blks[(from + i - 1) + 1].first = blks[from + i - 1].first + blks[from + i - 1].size
        BY <4>1
      <4> QED BY <4>1, <4>2, <4>3
    <3> QED BY <3>1, <3>2
  <2>4. blks[from + i - 1].first \in Nat /\ blks[from + i - 1].size \in Nat
    BY <1>2, <2>1
  <2> HIDE DEF cuts
  <2> QED BY <2>2, <2>3, <2>4
<1>5. seqs = [i \in 1..n |-> Run(cuts[i - 1], cuts[i] - cuts[i - 1])]
  <2>1. ASSUME NEW i \in 1..n
        PROVE  [j \in 1..blks[from + i - 1].size |-> blks[from + i - 1].first + j - 1]
                  = Run(cuts[i - 1], cuts[i] - cuts[i - 1])
    <3> HIDE DEF cuts
    <3>1. Run(cuts[i - 1], cuts[i] - cuts[i - 1]) = Run(blks[from + i - 1].first, blks[from + i - 1].size)
      BY <1>4, Zenon
    <3> QED BY <3>1, Zenon DEF Run
  <2> HIDE DEF cuts
  <2> QED BY <2>1, Zenon
<1>6. \A i \in 1..n : cuts[i - 1] <= cuts[i]
  <2> SUFFICES ASSUME NEW i \in 1..n PROVE cuts[i - 1] <= cuts[i]
    BY Zenon
  <2>1. i \in 0..n /\ i - 1 \in 0..n
    BY <1>1
  <2> HIDE DEF cuts
  <2>2. cuts[i] \in Nat /\ cuts[i - 1] \in Nat
    BY <1>3, <2>1, Zenon
  <2>3. cuts[i] - cuts[i - 1] \in Nat
    BY <1>4, Zenon
  <2> QED BY <2>2, <2>3
<1>7. cuts[0] = blks[from].first /\ cuts[n] = last
  <2>1. 0 \in 0..n /\ n \in 0..n /\ 0 # n /\ from + 0 = from
    BY <1>1
  <2> QED BY <2>1
<1>8. FlattenSeq(seqs) = Run(cuts[0], cuts[n] - cuts[0])
  <2> HIDE DEF cuts, seqs, n
  <2> QED BY <1>1, <1>3, <1>5, <1>6, FlattenRuns
<1>9. Gather(blks, from, n) = FlattenSeq(seqs)
  BY Zenon DEF Gather
<1>10. Gather(blks, from, n) = Run(blks[from].first, last - blks[from].first)
  <2> HIDE DEF cuts, seqs, n, last
  <2> QED BY <1>7, <1>8, <1>9, Zenon
<1> QED BY <1>10

-----------------------------------------------------------------------------
(***************************************************************************)
(* Sending                                                                 *)
(***************************************************************************)

(* The blocks still to be sent lie one behind the other, up to the last byte, *)
(* and pBlockPos and blockCount agree.                                       *)
Contiguous ==
  /\ count = Len(blocks) - pos + 1
  /\ \A i \in pos..(Len(blocks) - 1) : blocks[i + 1].first = blocks[i].first + blocks[i].size
  /\ IF blocks = <<>> THEN total = 0
     ELSE blocks[Len(blocks)].first + blocks[Len(blocks)].size = total + 1

(* What of the block at pBlockPos was sent already: the reorganization has   *)
(* still to account for it.                                                  *)
Skew == IF at = "reorganize" THEN offset ELSE 0

(* The block at pBlockPos is where the bytes that were not sent start.       *)
(* sendBlocks() comes back to the socket only with bytes to send, so the     *)
(* search for the block to cut ends before the array does.                   *)
CursorAtRest ==
  /\ at # "done" /\ pos <= Len(blocks) => blocks[pos].first + Skew = Len(wire) + 1
  /\ at # "done" /\ total > 0 => pos <= Len(blocks) /\ remaining > 0
  /\ at = "reorganize" => total > 0
  /\ at \in {"send", "pollSend"} => total > 0 /\ pos = 1 /\ Len(blocks) = 1

(* The bytes on the wire are the first ones, and the rest is counted. *)
WireInOrder == wire = [i \in 1..Len(wire) |-> i] /\ Len(wire) + remaining = total

(* What the call has returned. *)
CallResult == at = "done" => \/ result = total /\ Len(wire) = total
                             \/ result = -1 /\ broken

(* The invariant of sendBlock() and sendBlocks(). *)
SendInv == SendTypeOK /\ Contiguous /\ CursorAtRest /\ WireInOrder /\ CallResult

(* As long as there is anything to send, what sendmsg() is offered is the    *)
(* run of the bytes that were not sent.                                      *)
LEMMA IovIs ==
  ASSUME SendTypeOK, Contiguous, CursorAtRest, WireInOrder, at \notin {"reorganize", "done"}
  PROVE  /\ Iov = Run(Len(wire) + 1, remaining)
         /\ Iov \in Seq(Nat)
         /\ Len(Iov) = remaining
<1>1. Len(wire) + 1 \in Nat /\ remaining \in Nat
  BY DEF SendTypeOK
<1>2. Iov = Run(Len(wire) + 1, remaining)
  <2>1. CASE pos <= Len(blocks)
    <3> DEFINE last == blocks[Len(blocks)].first + blocks[Len(blocks)].size
    <3>1. pos \in 1..Len(blocks) /\ count = Len(blocks) - pos + 1 /\ blocks # <<>>
      BY <2>1 DEF SendTypeOK, Contiguous
    <3>2. blocks \in Seq(Block) /\ blocks[pos] \in Block
      BY <3>1, ElementOfSeq DEF SendTypeOK
    <3>3. Gather(blocks, pos, Len(blocks) - pos + 1)
            = Run(blocks[pos].first, last - blocks[pos].first)
      BY <3>1, <3>2, GatherIs DEF Contiguous
    <3>4. blocks[pos].first = Len(wire) + 1 /\ last = total + 1
      <4>1. blocks[pos].first + 0 = Len(wire) + 1
        BY <2>1 DEF CursorAtRest, Skew
      <4>2. blocks[pos].first \in Nat
        BY <3>2 DEF Block
      <4> QED BY <3>1, <4>1, <4>2 DEF Contiguous
    <3>5. last - blocks[pos].first = remaining
      <4>1. Len(wire) \in Nat /\ total \in Nat /\ Len(wire) + remaining = total
        BY DEF WireInOrder, SendTypeOK
      <4> HIDE DEF last
      <4> QED BY <1>1, <3>4, <4>1
    <3> QED BY <3>1, <3>3, <3>4, <3>5, Zenon DEF Iov
  <2>2. CASE ~ (pos <= Len(blocks))
    <3>1. total = 0 /\ remaining = 0
      BY <2>2 DEF CursorAtRest, SendTypeOK
    <3>2. count = 0
      BY <2>2 DEF Contiguous, SendTypeOK
    <3>3. Iov = <<>>
      BY <3>2 DEF Iov, Gather, FlattenSeq
    <3>4. Run(Len(wire) + 1, 0) = <<>>
      BY DEF Run
    <3> QED BY <3>1, <3>3, <3>4
  <2> QED BY <2>1, <2>2
<1>3. Run(Len(wire) + 1, remaining) \in Seq(Nat) /\ Len(Run(Len(wire) + 1, remaining)) = remaining
  BY <1>1, RunIs
<1> QED BY <1>2, <1>3

(* What the socket takes of them are the next bytes. *)
LEMMA TakesNext ==
  ASSUME SendTypeOK, Contiguous, CursorAtRest, WireInOrder, at \notin {"reorganize", "done"}
  PROVE  /\ Taken(Iov) \in Nat
         /\ Taken(Iov) <= remaining /\ Taken(Iov) <= room
         /\ SubSeq(Iov, 1, Taken(Iov)) = Run(Len(wire) + 1, Taken(Iov))
<1>1. /\ Iov = Run(Len(wire) + 1, remaining)
      /\ Iov \in Seq(Nat)
      /\ Len(Iov) = remaining
  BY IovIs
<1>2. remaining \in Nat /\ room \in Nat /\ Len(wire) + 1 \in Nat
  BY BoundsAssumption DEF SendTypeOK
<1>3. Taken(Iov) \in Nat /\ Taken(Iov) <= remaining /\ Taken(Iov) <= room
  BY <1>1, <1>2 DEF Taken
<1>4. SubSeq(Iov, 1, Taken(Iov)) = Run(Len(wire) + 1, Taken(Iov))
  <2> DEFINE k == Taken(Iov)
             s == SubSeq(Iov, 1, k)
             r == Run(Len(wire) + 1, k)
  <2>1. \A j \in 1..remaining : Iov[j] = (Len(wire) + 1) + j - 1
    BY <1>1, <1>2, RunIs
  <2>2. r \in Seq(Nat) /\ Len(r) = k /\ \A j \in 1..k : r[j] = (Len(wire) + 1) + j - 1
    <3> HIDE DEF k
    <3> QED BY <1>2, <1>3, RunIs DEF k
  <2>3. s \in Seq(Nat) /\ Len(s) = k /\ \A j \in 1..k : s[j] = Iov[j]
    <3> HIDE DEF k
    <3> QED BY <1>1, <1>2, <1>3 DEF k
  <2>4. \A j \in 1..Len(s) : s[j] = r[j]
    <3>1. k \in Nat /\ k <= remaining
      BY <1>3
    <3> HIDE DEF k, s, r
    <3> SUFFICES ASSUME NEW j \in 1..k PROVE s[j] = r[j]
      BY <2>3
    <3>2. j \in 1..remaining
      BY <1>2, <3>1
    <3>3. s[j] = Iov[j] /\ Iov[j] = (Len(wire) + 1) + j - 1 /\ r[j] = (Len(wire) + 1) + j - 1
      BY <2>1, <2>2, <2>3, <3>2, Zenon
    <3> QED BY <3>3, Zenon
  <2> HIDE DEF k, s, r
  <2>5. s = r
    BY <2>2, <2>3, <2>4, SeqEqual
  <2> QED BY <2>5 DEF k, s, r
<1> QED BY <1>3, <1>4

(* Bytes that follow those on the wire keep it in order. *)
LEMMA WireGrows ==
  ASSUME SendTypeOK, WireInOrder, NEW k \in 0..remaining,
         wire' = wire \o Run(Len(wire) + 1, k), remaining' = remaining - k, total' = total
  PROVE  /\ WireInOrder'
         /\ wire' \in Seq(Nat)
         /\ Len(wire') = Len(wire) + k
<1>1. Len(wire) \in Nat /\ k \in Nat /\ remaining \in Nat /\ total \in Nat
  BY DEF SendTypeOK
<1>2. wire = Run(1, Len(wire))
  BY <1>1 DEF WireInOrder, Run
<1>3. wire' = Run(1, Len(wire) + k)
  <2>1. Run(1, Len(wire)) \o Run(1 + Len(wire), k) = Run(1, Len(wire) + k)
    BY <1>1, RunsJoin
  <2>2. 1 + Len(wire) = Len(wire) + 1
    BY <1>1
  <2> QED BY <1>2, <2>1, <2>2, Zenon
<1>4. wire' \in Seq(Nat) /\ Len(wire') = Len(wire) + k
  <2>1. 1 \in Nat /\ Len(wire) + k \in Nat
    BY <1>1
  <2> QED BY <1>3, <2>1, RunIs
<1>5. wire' = [i \in 1..Len(wire') |-> i]
  BY <1>1, <1>3, <1>4 DEF Run
<1>6. Len(wire') + remaining' = total'
  <2>1. Len(wire) + remaining = total
    BY DEF WireInOrder
  <2>2. (Len(wire) + k) + (remaining - k) = total
    BY <1>1, <2>1
  <2> QED BY <1>4, <2>2, Zenon
<1> QED BY <1>4, <1>5, <1>6, Zenon DEF WireInOrder

(* The facts about the blocks that every step needs. *)
LEMMA BlockAtCursor ==
  ASSUME SendTypeOK, NEW i \in 1..Len(blocks)
  PROVE  blocks[i] \in Block /\ blocks[i].first \in Nat /\ blocks[i].size \in 0..MaxSize
<1>1. blocks[i] \in Block
  BY ElementOfSeq DEF SendTypeOK
<1> QED BY <1>1 DEF Block

(* The invariant holds when a call starts. *)
LEMMA SendStarts == SendInit => SendInv
<1> SUFFICES ASSUME SendInit PROVE SendInv
  OBVIOUS
<1> USE BoundsAssumption
<1>0. PICK k \in 0..MaxBlocks : \E cuts \in Cuts(k) : blocks = Layout(k, cuts)
  BY Zenon DEF SendInit
<1>1. PICK cuts \in Cuts(k) : blocks = Layout(k, cuts)
  BY <1>0, Zenon
<1>2. /\ cuts \in [0..k -> Nat] /\ cuts[0] = 0
      /\ \A i \in 1..k : cuts[i] - cuts[i - 1] \in 0..MaxSize
  <2>1. /\ cuts \in [0..k -> 0..(MaxBlocks * MaxSize)] /\ cuts[0] = 0
        /\ \A i \in 1..k : cuts[i] - cuts[i - 1] \in 0..MaxSize
    BY Zenon DEF Cuts
  <2>2. cuts \in [0..k -> Nat]
    BY <2>1
  <2> QED BY <2>1, <2>2
<1>3. ASSUME NEW i \in 1..k
      PROVE  /\ blocks[i] = [first |-> cuts[i - 1] + 1, size |-> cuts[i] - cuts[i - 1]]
             /\ blocks[i] \in Block
             /\ blocks[i].first = cuts[i - 1] + 1
             /\ blocks[i].first + blocks[i].size = cuts[i] + 1
  <2>1. blocks[i] = [first |-> cuts[i - 1] + 1, size |-> cuts[i] - cuts[i - 1]]
    BY <1>1, Zenon DEF Layout
  <2>2. i \in 0..k /\ i - 1 \in 0..k
    OBVIOUS
  <2>3. cuts[i] \in Nat /\ cuts[i - 1] \in Nat
    BY <1>2, <2>2, Zenon
  <2>4. blocks[i].first = cuts[i - 1] + 1 /\ blocks[i].size = cuts[i] - cuts[i - 1]
    BY <2>1
  <2> QED BY <1>2, <2>1, <2>3, <2>4, SMTT(30) DEF Block
<1>4. blocks \in Seq(Block) /\ Len(blocks) = k
  <2>1. blocks \in [1..k -> Block]
    <3>1. blocks = [i \in 1..k |-> blocks[i]]
      BY <1>1, Zenon DEF Layout
    <3> QED BY <1>3, <3>1, Zenon
  <2> QED BY <2>1
<1>5. \A i \in 1..(Len(blocks) - 1) : blocks[i + 1].first = blocks[i].first + blocks[i].size
  <2> SUFFICES ASSUME NEW i \in 1..(k - 1)
               PROVE  blocks[i + 1].first = blocks[i].first + blocks[i].size
    BY <1>4
  <2>1. i \in 1..k /\ i + 1 \in 1..k /\ (i + 1) - 1 = i
    OBVIOUS
  <2>2. blocks[i + 1].first = cuts[(i + 1) - 1] + 1
    BY <1>3, <2>1, Zenon
  <2>3. blocks[i].first + blocks[i].size = cuts[i] + 1
    BY <1>3, <2>1, Zenon
  <2> QED BY <2>1, <2>2, <2>3, Zenon
<1>6. total \in Nat /\ IF blocks = <<>> THEN total = 0
                       ELSE blocks[Len(blocks)].first + blocks[Len(blocks)].size = total + 1
  <2>1. CASE k = 0
    <3>1. blocks = <<>>
      BY <1>4, <2>1
    <3>2. Gather(blocks, 1, Len(blocks)) = <<>>
      BY <1>4, <2>1 DEF Gather, FlattenSeq
    <3>3. total = 0
      BY <3>2 DEF SendInit
    <3> QED BY <3>1, <3>3
  <2>2. CASE k # 0
    <3>1. 1 \in 1..k /\ k \in 1..k /\ k \in 0..k /\ Len(blocks) - 1 + 1 = Len(blocks) /\ 1 - 1 = 0
      BY <1>4, <2>2
    <3>2. /\ blocks[1].first = cuts[1 - 1] + 1
          /\ blocks[Len(blocks)].first + blocks[Len(blocks)].size = cuts[k] + 1
      BY <1>3, <1>4, <3>1, Zenon
    <3>3. Gather(blocks, 1, Len(blocks) - 1 + 1)
             = Run(blocks[1].first,
                   (blocks[Len(blocks)].first + blocks[Len(blocks)].size) - blocks[1].first)
      BY <1>4, <1>5, <3>1, GatherIs
    <3>4. cuts[k] \in Nat
      BY <1>2, <3>1, Zenon
    <3>5. blocks[1].first = 1 /\ (cuts[k] + 1) - 1 = cuts[k]
      BY <1>2, <3>1, <3>2, <3>4
    <3>6. Gather(blocks, 1, Len(blocks)) = Run(1, cuts[k])
      BY <3>1, <3>2, <3>3, <3>5, Zenon
    <3>7. total = cuts[k]
      <4>1. Len(Run(1, cuts[k])) = cuts[k]
        BY <3>4, RunIs
      <4> QED BY <3>6, <4>1, Zenon DEF SendInit
    <3>8. blocks # <<>>
      BY <1>4, <2>2
    <3> QED BY <3>2, <3>4, <3>7, <3>8
  <2> QED BY <2>1, <2>2
<1>7. SendTypeOK
  <2>1. total \in Nat
    BY <1>6
  <2>2. Len(blocks) <= MaxBlocks /\ Len(blocks) \in Nat
    BY <1>4
  <2>3. pos \in 1..(Len(blocks) + 1) /\ count \in 0..Len(blocks)
    BY <2>2 DEF SendInit
  <2>4. remaining \in 0..total /\ offset \in Nat
    BY <2>1 DEF SendInit
  <2>5. wire \in Seq(Nat) /\ result \in Int
    BY DEF SendInit
  <2>6. at = "idle" /\ room \in 0..MaxRoom /\ broken \in BOOLEAN
    BY Zenon DEF SendInit
  <2> QED BY <1>4, <2>1, <2>2, <2>3, <2>4, <2>5, <2>6, Zenon DEF SendTypeOK
<1>8. Contiguous
  BY <1>4, <1>5, <1>6 DEF SendInit, Contiguous
<1>9. WireInOrder
  BY <1>6 DEF SendInit, WireInOrder
<1>10. CursorAtRest
  <2>1. total > 0 => pos <= Len(blocks)
    BY <1>4, <1>6 DEF SendInit
  <2>2. pos <= Len(blocks) => blocks[pos].first + Skew = Len(wire) + 1
    <3>1. CASE k = 0
      BY <1>4, <3>1 DEF SendInit
    <3>2. CASE k # 0
      <4>1. 1 \in 1..k /\ 1 - 1 = 0
        BY <3>2
      <4>2. blocks[1].first = 1
        <5>1. blocks[1].first = cuts[1 - 1] + 1
          BY <1>3, <4>1, Zenon
        <5> QED BY <1>2, <4>1, <5>1
      <4> QED BY <4>2 DEF SendInit, Skew
    <3> QED BY <3>1, <3>2
  <2> QED BY <1>6, <2>1, <2>2 DEF SendInit, CursorAtRest
<1>11. CallResult
  BY DEF SendInit, CallResult
<1> QED BY <1>7, <1>8, <1>9, <1>10, <1>11 DEF SendInv

(* sendmsg() takes a part: the reorganization has all of it to account for. *)
LEMMA SendMsgStep ==
  ASSUME SendInv, SendMsg
  PROVE  SendInv'
<1> DEFINE n == Taken(Iov)
<1> USE BoundsAssumption
<1>0. SendTypeOK /\ Contiguous /\ CursorAtRest /\ WireInOrder /\ CallResult
  BY DEF SendInv
<1>1. /\ at = "sendmsg" /\ n > 0
      /\ wire' = wire \o SubSeq(Iov, 1, n)
      /\ room' = room - n /\ remaining' = remaining - n /\ offset' = n
      /\ IF remaining' = 0 THEN Return(total) ELSE at' = "reorganize" /\ UNCHANGED result
      /\ blocks' = blocks /\ pos' = pos /\ count' = count /\ total' = total /\ broken' = broken
  BY Zenon DEF SendMsg, cursor
<1>2. /\ n \in Nat /\ n <= remaining /\ n <= room
      /\ SubSeq(Iov, 1, n) = Run(Len(wire) + 1, n)
  BY <1>0, <1>1, TakesNext
<1> HIDE DEF n
<1>3. /\ remaining \in Nat /\ total \in Nat /\ room \in Nat /\ Len(wire) \in Nat
      /\ room <= MaxRoom /\ remaining <= total /\ result \in Int
  BY <1>0 DEF SendTypeOK
<1>4. WireInOrder' /\ wire' \in Seq(Nat) /\ Len(wire') = Len(wire) + n
  <2>1. n \in 0..remaining
    BY <1>2, <1>3
  <2> QED BY <1>0, <1>1, <1>2, <2>1, WireGrows
<1>5. \/ remaining' = 0 /\ at' = "done" /\ result' = total
      \/ remaining' # 0 /\ at' = "reorganize" /\ result' = result
  BY <1>1 DEF Return
<1>6. SendTypeOK'
  BY <1>0, <1>1, <1>2, <1>3, <1>4, <1>5 DEF SendTypeOK
<1>7. Contiguous'
  BY <1>0, <1>1 DEF Contiguous
<1>8. CursorAtRest'
  <2>1. at' = "reorganize" => total' > 0 /\ pos' <= Len(blocks') /\ remaining' > 0
    BY <1>0, <1>1, <1>2, <1>3, <1>5, SMTT(30) DEF CursorAtRest
  <2>2. at' = "reorganize" => blocks'[pos'].first + offset' = Len(wire') + 1
    <3> SUFFICES ASSUME at' = "reorganize" PROVE blocks[pos].first + n = (Len(wire) + n) + 1
      BY <1>1, <1>4
    <3>1. pos <= Len(blocks) /\ pos \in 1..Len(blocks)
      BY <1>0, <1>1, <2>1 DEF SendTypeOK
    <3>2. blocks[pos].first \in Nat
      BY <1>0, <3>1, BlockAtCursor
    <3>3. blocks[pos].first + 0 = Len(wire) + 1
      BY <1>0, <1>1, <3>1 DEF CursorAtRest, Skew
    <3> QED BY <1>2, <1>3, <3>2, <3>3
  <2> QED BY <1>5, <2>1, <2>2 DEF CursorAtRest, Skew
<1>9. CallResult'
  <2>1. at' = "done" => Len(wire') = total'
    BY <1>1, <1>3, <1>4, <1>5 DEF WireInOrder
  <2> QED BY <1>1, <1>5, <2>1 DEF CallResult
<1> QED BY <1>4, <1>6, <1>7, <1>8, <1>9 DEF SendInv

(* The search passes over blocks that were sent, and never over the last one. *)
LEMMA SkipBlockStep ==
  ASSUME SendInv, SkipBlock
  PROVE  SendInv'
<1> USE BoundsAssumption
<1>0. SendTypeOK /\ Contiguous /\ CursorAtRest /\ WireInOrder /\ CallResult
  BY DEF SendInv
<1>1. /\ at = "reorganize" /\ offset >= blocks[pos].size
      /\ offset' = offset - blocks[pos].size
      /\ pos' = pos + 1 /\ count' = count - 1
      /\ UNCHANGED <<blocks, total, remaining, at, result, room, broken, wire>>
  BY DEF SkipBlock, socket
<1>2. /\ total > 0 /\ pos <= Len(blocks) /\ remaining > 0
      /\ blocks[pos].first + offset = Len(wire) + 1
  BY <1>0, <1>1 DEF CursorAtRest, Skew
<1>3. /\ pos \in 1..Len(blocks) /\ total \in Nat /\ remaining \in Nat /\ offset \in Nat
      /\ Len(wire) \in Nat /\ Len(blocks) \in Nat
  BY <1>0, <1>2 DEF SendTypeOK
<1>4. blocks[pos].first \in Nat /\ blocks[pos].size \in Nat
  BY <1>0, <1>3, BlockAtCursor
<1>5. pos < Len(blocks)
  <2> SUFFICES ASSUME pos = Len(blocks) PROVE FALSE
    BY <1>3
  <2>1. blocks[pos].first + blocks[pos].size = total + 1
    BY <1>0, <1>2 DEF Contiguous
  <2>2. Len(wire) + remaining = total
    BY <1>0 DEF WireInOrder
  <2> QED BY <1>1, <1>2, <1>3, <1>4, <2>1, <2>2, SMTT(30)
<1>6. blocks[pos + 1].first = blocks[pos].first + blocks[pos].size
  BY <1>0, <1>3, <1>5 DEF Contiguous
<1>7. SendTypeOK'
  <2>1. pos' \in 1..(Len(blocks) + 1) /\ count' \in 0..Len(blocks) /\ offset' \in Nat
    BY <1>0, <1>1, <1>3, <1>4, <1>5, SMTT(30) DEF Contiguous
  <2> QED BY <1>0, <1>1, <2>1 DEF SendTypeOK
<1>8. Contiguous'
  <2>1. count' = Len(blocks') - pos' + 1
    BY <1>0, <1>1, <1>3 DEF Contiguous
  <2>2. \A i \in pos'..(Len(blocks) - 1) : i \in pos..(Len(blocks) - 1)
    BY <1>1, <1>3
  <2> QED BY <1>0, <1>1, <2>1, <2>2 DEF Contiguous
<1>9. CursorAtRest'
  <2>1. blocks'[pos'].first + offset' = Len(wire') + 1
    BY <1>1, <1>2, <1>3, <1>4, <1>6, SMTT(30)
  <2> QED BY <1>1, <1>2, <1>3, <1>5, <2>1 DEF CursorAtRest, Skew
<1>10. WireInOrder' /\ CallResult'
  BY <1>0, <1>1 DEF WireInOrder, CallResult
<1> QED BY <1>7, <1>8, <1>9, <1>10 DEF SendInv

(* A cut block keeps its end: what lies behind it stays in place. *)
LEMMA BlockCut ==
  ASSUME SendTypeOK, Contiguous, pos \in 1..Len(blocks),
         NEW n \in Nat, n <= blocks[pos].size,
         blocks' = [blocks EXCEPT ![pos] = [first |-> @.first + n, size |-> @.size - n]],
         pos' = pos, count' = count, total' = total
  PROVE  /\ blocks' \in Seq(Block) /\ Len(blocks') = Len(blocks)
         /\ Contiguous'
         /\ blocks'[pos].first = blocks[pos].first + n
<1> USE BoundsAssumption
<1> DEFINE b == [first |-> blocks[pos].first + n, size |-> blocks[pos].size - n]
<1>1. blocks[pos].first \in Nat /\ blocks[pos].size \in 0..MaxSize
  BY BlockAtCursor
<1>2. b \in Block /\ b.first = blocks[pos].first + n /\ b.size = blocks[pos].size - n
  BY <1>1 DEF Block
<1> HIDE DEF b
<1>3. blocks' = [blocks EXCEPT ![pos] = b]
  BY DEF b
<1>4. /\ blocks' \in Seq(Block) /\ Len(blocks') = Len(blocks)
      /\ blocks'[pos] = b /\ \A i \in 1..Len(blocks) : i # pos => blocks'[i] = blocks[i]
  BY <1>2, <1>3 DEF SendTypeOK
<1>5. ASSUME NEW i \in 1..Len(blocks)
      PROVE  blocks'[i].first + blocks'[i].size = blocks[i].first + blocks[i].size
  BY <1>1, <1>2, <1>4
<1>6. ASSUME NEW i \in pos..(Len(blocks) - 1)
      PROVE  blocks'[i + 1].first = blocks'[i].first + blocks'[i].size
  <2>1. i \in 1..Len(blocks) /\ i + 1 \in 1..Len(blocks) /\ i + 1 # pos
    BY DEF SendTypeOK
  <2>2. blocks'[i + 1] = blocks[i + 1]
    BY <1>4, <2>1
  <2>3. blocks[i + 1].first = blocks[i].first + blocks[i].size
    BY DEF Contiguous
  <2> QED BY <1>5, <2>1, <2>2, <2>3
<1>7. Contiguous'
  <2>1. Len(blocks) \in 1..Len(blocks) /\ blocks # <<>> /\ blocks' # <<>>
    BY <1>4 DEF SendTypeOK
  <2>2. blocks'[Len(blocks')].first + blocks'[Len(blocks')].size = total' + 1
    BY <1>4, <1>5, <2>1 DEF Contiguous
  <2>3. count' = Len(blocks') - pos' + 1
    BY <1>4 DEF Contiguous
  <2>4. \A i \in pos'..(Len(blocks') - 1) : blocks'[i + 1].first = blocks'[i].first + blocks'[i].size
    BY <1>4, <1>6
  <2> QED BY <2>1, <2>2, <2>3, <2>4 DEF Contiguous
<1> QED BY <1>2, <1>4, <1>7

(* Once the block sent in part is cut, nothing is left to account for. *)
LEMMA ShrinkBlockStep ==
  ASSUME SendInv, ShrinkBlock
  PROVE  SendInv'
<1>0. SendTypeOK /\ Contiguous /\ CursorAtRest /\ WireInOrder /\ CallResult
  BY DEF SendInv
<1>1. /\ at = "reorganize" /\ offset < blocks[pos].size /\ at' = "poll"
      /\ blocks' = [blocks EXCEPT ![pos] = [first |-> @.first + offset, size |-> @.size - offset]]
      /\ UNCHANGED <<pos, count, total, remaining, offset, result, room, broken, wire>>
  BY DEF ShrinkBlock, sums, socket
<1>2. /\ total > 0 /\ pos <= Len(blocks) /\ remaining > 0
      /\ blocks[pos].first + offset = Len(wire) + 1
  BY <1>0, <1>1 DEF CursorAtRest, Skew
<1>3. pos \in 1..Len(blocks) /\ offset \in Nat /\ Len(wire) \in Nat
  BY <1>0, <1>2 DEF SendTypeOK
<1>4. offset <= blocks[pos].size
  <2>1. blocks[pos].size \in 0..MaxSize
    BY <1>0, <1>3, BlockAtCursor
  <2> QED BY <1>1, <1>3, <2>1, BoundsAssumption
<1>5. /\ blocks' \in Seq(Block) /\ Len(blocks') = Len(blocks)
      /\ Contiguous'
      /\ blocks'[pos].first = blocks[pos].first + offset
  BY <1>0, <1>1, <1>3, <1>4, BlockCut
<1>6. SendTypeOK'
  BY <1>0, <1>1, <1>5 DEF SendTypeOK
<1>7. CursorAtRest'
  BY <1>1, <1>2, <1>3, <1>5 DEF CursorAtRest, Skew
<1>8. WireInOrder' /\ CallResult'
  BY <1>0, <1>1 DEF WireInOrder, CallResult
<1> QED BY <1>5, <1>6, <1>7, <1>8 DEF SendInv

(* send() of sendBlock(). *)
LEMMA SendOneStep ==
  ASSUME SendInv, Send
  PROVE  SendInv'
<1> DEFINE n == Taken(Iov)
<1> USE BoundsAssumption
<1>0. SendTypeOK /\ Contiguous /\ CursorAtRest /\ WireInOrder /\ CallResult
  BY DEF SendInv
<1>1. /\ at = "send" /\ n > 0
      /\ wire' = wire \o SubSeq(Iov, 1, n)
      /\ room' = room - n /\ remaining' = remaining - n
      /\ blocks' = [blocks EXCEPT ![1] = [first |-> @.first + n, size |-> @.size - n]]
      /\ IF remaining' = 0 THEN Return(total) ELSE UNCHANGED <<at, result>>
      /\ pos' = pos /\ count' = count /\ total' = total /\ offset' = offset /\ broken' = broken
  BY Zenon DEF Send
<1>2. /\ n \in Nat /\ n <= remaining /\ n <= room
      /\ SubSeq(Iov, 1, n) = Run(Len(wire) + 1, n)
  BY <1>0, <1>1, TakesNext
<1> HIDE DEF n
<1>3. /\ remaining \in Nat /\ total \in Nat /\ room \in Nat /\ Len(wire) \in Nat
      /\ room <= MaxRoom /\ remaining <= total /\ result \in Int /\ offset \in Nat
  BY <1>0 DEF SendTypeOK
<1>4. WireInOrder' /\ wire' \in Seq(Nat) /\ Len(wire') = Len(wire) + n
  <2>1. n \in 0..remaining
    BY <1>2, <1>3
  <2> QED BY <1>0, <1>1, <1>2, <2>1, WireGrows
<1>5. \/ remaining' = 0 /\ at' = "done" /\ result' = total
      \/ remaining' # 0 /\ at' = "send" /\ result' = result
  BY <1>1 DEF Return
<1>6. /\ total > 0 /\ pos = 1 /\ Len(blocks) = 1 /\ pos \in 1..Len(blocks)
      /\ blocks[1].first + 0 = Len(wire) + 1
  BY <1>0, <1>1 DEF CursorAtRest, Skew
<1>7. blocks[1].first \in Nat /\ blocks[1].size \in 0..MaxSize
  BY <1>0, <1>6, BlockAtCursor
<1>8. n <= blocks[pos].size
  <2>1. blocks[1].first + blocks[1].size = total + 1
    BY <1>0, <1>6 DEF Contiguous
  <2>2. Len(wire) + remaining = total
    BY <1>0 DEF WireInOrder
  <2> QED BY <1>2, <1>3, <1>6, <1>7, <2>1, <2>2
<1>9. /\ blocks' \in Seq(Block) /\ Len(blocks') = Len(blocks)
      /\ Contiguous'
      /\ blocks'[pos].first = blocks[pos].first + n
  BY <1>0, <1>1, <1>2, <1>6, <1>8, BlockCut
<1>10. SendTypeOK'
  BY <1>0, <1>1, <1>2, <1>3, <1>4, <1>5, <1>9 DEF SendTypeOK
<1>11. CursorAtRest'
  <2>1. blocks'[pos'].first = Len(wire') + 1
    BY <1>1, <1>2, <1>3, <1>4, <1>6, <1>7, <1>9
  <2>2. remaining' # 0 => remaining' > 0
    BY <1>1, <1>2, <1>3
  <2>3. blocks'[pos'].first \in Nat /\ blocks'[pos'].first + 0 = blocks'[pos'].first
    BY <1>3, <1>4, <2>1
  <2>4. Skew' = 0
    BY <1>5 DEF Skew
  <2>5. pos' = 1 /\ Len(blocks') = 1 /\ total' > 0 /\ pos' <= Len(blocks')
    BY <1>1, <1>6, <1>9
  <2>6. at' # "reorganize" /\ (at' # "done" => remaining' > 0)
    BY <1>5, <2>2
  <2> QED BY <2>1, <2>3, <2>4, <2>5, <2>6, Zenon DEF CursorAtRest
<1>12. CallResult'
  <2>1. at' = "done" => Len(wire') = total'
    BY <1>1, <1>3, <1>4, <1>5 DEF WireInOrder
  <2> QED BY <1>1, <1>5, <2>1 DEF CallResult
<1> QED BY <1>4, <1>9, <1>10, <1>11, <1>12 DEF SendInv

(* The steps that leave the blocks and the wire alone. *)
LEMMA OtherSendStep ==
  ASSUME SendInv, UNCHANGED <<blocks, pos, count, total, remaining, wire>>,
         \/ SendBlocksStart \/ SendBlockStart
         \/ SendMsgZero \/ SendMsgNothing \/ SendMsgError
         \/ SendWouldBlock \/ SendError \/ WaitForWritable
         \/ PeerReads \/ PeerBreaks \/ UNCHANGED sendVars
  PROVE  SendInv'
<1> USE BoundsAssumption
<1>0. SendTypeOK /\ Contiguous /\ CursorAtRest /\ WireInOrder /\ CallResult
  BY DEF SendInv
<1>1. Contiguous' /\ WireInOrder'
  BY <1>0 DEF Contiguous, WireInOrder
<1>2. /\ remaining \in Nat /\ total \in Nat /\ Len(wire) \in Nat /\ room \in Nat /\ offset \in Nat
      /\ Len(wire) + remaining = total
  BY <1>0 DEF SendTypeOK, WireInOrder
<1>3. at \notin {"reorganize", "done"} => Len(Iov) = remaining
  BY <1>0, IovIs
<1>4. /\ pos \in Nat /\ 1 <= pos /\ Len(blocks) \in Nat
      /\ 1 <= pos /\ pos <= Len(blocks) => blocks[pos].first \in Nat
  <2>1. pos \in 1..(Len(blocks) + 1) /\ Len(blocks) \in Nat
    BY <1>0 DEF SendTypeOK
  <2>2. pos <= Len(blocks) => blocks[pos].first \in Nat
    <3> SUFFICES ASSUME pos <= Len(blocks) PROVE blocks[pos].first \in Nat
      OBVIOUS
    <3>1. pos \in 1..Len(blocks)
      BY <2>1
    <3> QED BY <1>0, <3>1, BlockAtCursor
  <2> QED BY <2>1, <2>2
<1>5. SendTypeOK' /\ CursorAtRest' /\ CallResult'
  <2>1. CASE SendBlocksStart
    BY <1>0, <1>2, <1>4, <2>1
    DEF SendBlocksStart, SendTypeOK, CursorAtRest, CallResult, Skew, cursor, sums,
        socket
  <2>2. CASE SendBlockStart
    <3>1. /\ at = "idle" /\ Len(blocks) = 1
          /\ \/ total = 0 /\ at' = "done" /\ result' = 0
             \/ total # 0 /\ at' = "send" /\ result' = result
          /\ UNCHANGED <<cursor, sums, socket, wire>>
      BY <2>2 DEF SendBlockStart, Return
    <3>2. SendTypeOK'
      BY <1>0, <3>1 DEF SendTypeOK, cursor, sums, socket
    <3>3. total # 0 => pos = 1
      BY <1>0, <1>2, <1>4, <3>1 DEF CursorAtRest
    <3>4. CursorAtRest'
      BY <1>0, <1>2, <1>4, <3>1, <3>3 DEF CursorAtRest, Skew, cursor, sums
    <3>5. CallResult'
      BY <1>2, <3>1 DEF CallResult, sums
    <3> QED BY <3>2, <3>4, <3>5
  <2>3. CASE SendMsgZero
    BY <1>0, <1>2, <1>3, <1>4, <2>3
    DEF SendMsgZero, Return, SendTypeOK, CursorAtRest, CallResult, Skew, cursor, sums,
        socket
  <2>4. CASE SendMsgNothing
    BY <1>0, <1>2, <1>3, <1>4, <2>4
    DEF SendMsgNothing, SendTypeOK, CursorAtRest, CallResult, Skew, cursor, sums, socket
  <2>5. CASE SendMsgError
    BY <1>0, <1>2, <1>4, <2>5
    DEF SendMsgError, Return, SendTypeOK, CursorAtRest, CallResult, Skew, cursor, sums,
        socket
  <2>6. CASE SendWouldBlock
    BY <1>0, <1>2, <1>4, <2>6
    DEF SendWouldBlock, SendTypeOK, CursorAtRest, CallResult, Skew, cursor, sums, socket
  <2>7. CASE SendError
    BY <1>0, <1>2, <1>4, <2>7
    DEF SendError, Return, SendTypeOK, CursorAtRest, CallResult, Skew, cursor, sums,
        socket
  <2>8. CASE WaitForWritable
    BY <1>0, <1>2, <1>4, <2>8
    DEF WaitForWritable, SendTypeOK, CursorAtRest, CallResult, Skew, cursor, sums,
        socket
  <2>9. CASE PeerReads
    BY <1>0, <1>2, <1>4, <2>9
    DEF PeerReads, SendTypeOK, CursorAtRest, CallResult, Skew, cursor, sums, socket
  <2>10. CASE PeerBreaks
    BY <1>0, <1>2, <1>4, <2>10
    DEF PeerBreaks, SendTypeOK, CursorAtRest, CallResult, Skew, cursor, sums, socket
  <2>11. CASE UNCHANGED sendVars
    BY <1>0, <1>2, <1>4, <2>11
    DEF sendVars, SendTypeOK, CursorAtRest, CallResult, Skew, cursor, sums, socket
  <2> QED BY <2>1, <2>2, <2>3, <2>4, <2>5, <2>6, <2>7, <2>8, <2>9, <2>10, <2>11
<1> QED BY <1>1, <1>5 DEF SendInv

(* Every step of a call and of the peer keeps the invariant. *)
LEMMA SendStep ==
  ASSUME SendInv, [SendNext]_sendVars
  PROVE  SendInv'
<1>1. CASE SendMsg
  BY <1>1, SendMsgStep
<1>2. CASE SkipBlock
  BY <1>2, SkipBlockStep
<1>3. CASE ShrinkBlock
  BY <1>3, ShrinkBlockStep
<1>4. CASE Send
  BY <1>4, SendOneStep
<1>5. CASE \/ SendBlocksStart \/ SendBlockStart
           \/ SendMsgZero \/ SendMsgNothing \/ SendMsgError
           \/ SendWouldBlock \/ SendError \/ WaitForWritable
           \/ PeerReads \/ PeerBreaks \/ UNCHANGED sendVars
  <2>1. UNCHANGED <<blocks, pos, count, total, remaining, wire>>
    BY <1>5 DEF SendBlocksStart, SendBlockStart, SendMsgZero, SendMsgNothing, SendMsgError,
                SendWouldBlock, SendError, WaitForWritable, PeerReads, PeerBreaks,
                sendVars, cursor, sums
  <2> QED BY <1>5, <2>1, OtherSendStep
<1> QED BY <1>1, <1>2, <1>3, <1>4, <1>5, Zenon DEF SendNext, CallerStep, Returned

(* The invariant holds throughout. *)
LEMMA SendAlways == SendSpec => []SendInv
<1>1. SendInv /\ [SendNext]_sendVars => SendInv'
  BY SendStep
<1> QED BY SendStarts, <1>1, PTL DEF SendSpec

(* Whenever the socket is tried, the dataBlock_t array that sendBlocks()     *)
(* reorganizes, or the rest sendBlock() keeps, describes exactly the bytes   *)
(* that were not sent: for any number and size of blocks, empty ones too,    *)
(* and any sequence of partial writes, EAGAIN and EINTR.                     *)
THEOREM RestIsDescribed == SendSpec => []BlocksDescribeRest
<1>1. SendInv => BlocksDescribeRest
  <2> SUFFICES ASSUME SendInv, at \in {"sendmsg", "send"}
               PROVE  Iov = [i \in 1..remaining |-> Len(wire) + i]
    BY DEF BlocksDescribeRest
  <2>1. Iov = Run(Len(wire) + 1, remaining)
    BY IovIs DEF SendInv
  <2>2. Len(wire) \in Nat /\ remaining \in Nat
    BY DEF SendInv, SendTypeOK
  <2> QED BY <2>1, <2>2 DEF Run
<1> QED BY SendAlways, <1>1, PTL

(* What sendBlock() and sendBlocks() hand to the socket is the concatenation *)
(* of the blocks from its start, without gap or repetition; all of it is     *)
(* handed over when the call returns the length, and the call returns the    *)
(* length unless the connection breaks.                                      *)
THEOREM SendsAllInOrder == SendSpec => []SentInOrder
<1>1. SendInv => SentInOrder
  BY DEF SendInv, SentInOrder, WireInOrder, CallResult
<1> QED BY SendAlways, <1>1, PTL

=============================================================================
