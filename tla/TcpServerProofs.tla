-------------------------- MODULE TcpServerProofs --------------------------
(***************************************************************************)
(* Proofs about Sockets and TcpServer for any number of objects and        *)
(* descriptors, whatever calls the users of the objects make.              *)
(***************************************************************************)
EXTENDS TcpServer, SequenceTheorems, TLAPS

(* The call stacks an object can be in: addEvent calls the callback in the   *)
(* middle of connect(), or for a setter, and the callback may disconnect().  *)
InConnect == {<<"connectIn">>, <<"connectOut">>, <<"connectOptions">>, <<"connectEnd">>}
InCallback == {<<"callback">>, <<"callback", "connectOut">>, <<"callback", "connectOptions">>}
InEraseIn == {<<"eraseIn">>, <<"eraseIn", "callback">>, <<"eraseIn", "callback", "connectOut">>,
              <<"eraseIn", "callback", "connectOptions">>}
InEraseOut == {<<"eraseOut">>, <<"eraseOut", "callback">>, <<"eraseOut", "callback", "connectOut">>,
               <<"eraseOut", "callback", "connectOptions">>}
Stacks == {<<>>} \cup InConnect \cup InCallback \cup InEraseIn \cup InEraseOut

InErase(s) == calls[s] \in InEraseIn \cup InEraseOut

(* connect() has still to register the callback for direction d. *)
ToRegister(s, d) ==
  IF d = "in" THEN calls[s] = <<"connectIn">>
              ELSE calls[s] \in {<<"connectIn">>, <<"connectOut">>, <<"callback", "connectOut">>}

(* Every variable has its type. *)
Types ==
  /\ owner \in [Fds -> Objects \cup {None, Other}]
  /\ bound \in [Fds -> [Dir -> Objects \cup {None, Other}]]
  /\ watched \in [Fds -> SUBSET Dir]
  /\ alive \subseteq Objects
  /\ event \in [Objects -> Fds \cup {NoFd}]
  /\ handler \in [Objects -> SUBSET Dir]
  /\ calls \in [Objects -> Stacks]
  /\ want \in [Objects -> SUBSET Dir]
  /\ lost \subseteq Fds
  /\ robbed \subseteq Objects \cup {Other}
  /\ unclear \subseteq Objects \X Dir

ServerTypes == listening \in Fds \cup {NoFd} /\ waiting \in Nat

-----------------------------------------------------------------------------
(* Objects in a call exist. *)
BusyIsAlive == \A s \in Objects : calls[s] # <<>> => s \in alive

(* While disconnect() erases the registrations of a descriptor, it is not    *)
(* the object's any more, though it may be open again for another one; and   *)
(* what was erased stays erased.                                             *)
ErasesClosed ==
  \A s \in Objects : InErase(s) =>
    /\ event[s] # NoFd
    /\ owner[event[s]] # s
    /\ calls[s] \in InEraseOut => bound[event[s]]["in"] # s

(* UsesOwnDescriptor in terms of the stacks. *)
OwnOrErased ==
  \A s \in Objects : event[s] # NoFd => s \in alive /\ (InErase(s) \/ owner[event[s]] = s)

DescriptorInv ==
  Types /\ BusyIsAlive /\ ErasesClosed /\ OwnOrErased /\ NoDanglingCallback /\ NoLeak

-----------------------------------------------------------------------------
(* Nobody closes a descriptor that was lost, *)
LostStaysOpen ==
  /\ \A fd \in lost : owner[fd] # None
  /\ \A s \in Objects : event[s] \in lost => owner[event[s]] # s
  /\ listening \in lost => owner[listening] # Other

(* ... epoll does not watch a closed one, *)
FreeIsUnwatched == \A fd \in Fds : owner[fd] = None => watched[fd] = {}

(* ... and the server's callback is registered for its own only. *)
ServerBound == \A fd \in Fds : \A d \in Dir : bound[fd][d] = Other => d = "in" /\ owner[fd] = Other

(* Whoever has a descriptor that its former owner is still erasing is        *)
(* counted as robbed.                                                        *)
ErasedIsRobbed ==
  /\ \A s, former \in Objects :
       InErase(former) /\ event[former] = event[s] /\ owner[event[s]] = s => s \in robbed
  /\ \A former \in Objects :
       InErase(former) /\ event[former] = listening /\ owner[listening] = Other => Other \in robbed

(* The server listens to its own open descriptor until stop(), *)
ListensToOwn ==
  /\ listening # NoFd /\ ~stopped => owner[listening] = Other
  /\ started => listening # NoFd /\ ~stopped

(* ... and the event loop reports its clients unless it was robbed. *)
ServerWatched == started /\ Other \notin robbed => "in" \in watched[listening]

SharingInv ==
  /\ LostStaysOpen /\ FreeIsUnwatched /\ ServerBound
  /\ ErasedIsRobbed /\ ListensToOwn /\ ServerWatched

ServerInv ==
  DescriptorInv /\ ServerTypes /\ SharingInv /\ NoClientStranded /\ OnlySecondStopHits

-----------------------------------------------------------------------------
(* m_inDataHandler and m_outDataHandler are what the user asked for last. *)
HandlersAsAsked(s) ==
  /\ \A d \in Dir : <<s, d>> \notin unclear => (d \in handler[s] <=> d \in want[s])
  /\ s \notin alive => want[s] = {}

(* The registrations of an open socket are its own, what is registered is    *)
(* watched, and connect() and the setters register what the user asked for.  *)
RegisteredAsAsked(s) ==
  s \notin robbed /\ event[s] # NoFd /\ ~InErase(s) =>
    /\ watched[event[s]] = Registered(event[s])
    /\ \A d \in Dir : bound[event[s]][d] \in {None, s}
    /\ \A d \in Dir : <<s, d>> \notin unclear =>
         (bound[event[s]][d] = s <=> d \in want[s] /\ ~ToRegister(s, d))

AskedInv(s) == HandlersAsAsked(s) /\ RegisteredAsAsked(s)

-----------------------------------------------------------------------------
(* Call stacks *)

(* A call on top of one or two others. *)
LEMMA Cons ==
  ASSUME NEW a, NEW b
  PROVE  /\ <<a>> \o <<b>> = <<a, b>>
         /\ \A c : <<a>> \o <<b, c>> = <<a, b, c>>
<1>1. <<a>> \o <<b>> = <<a, b>>
  <2> DEFINE S == {a, b}
  <2>1. <<a>> \in Seq(S) /\ <<b>> \in Seq(S) /\ <<a, b>> \in Seq(S)
    OBVIOUS
  <2> HIDE DEF S
  <2>2. /\ <<a>> \o <<b>> \in Seq(S)
        /\ Len(<<a>> \o <<b>>) = 2
        /\ \A i \in 1..2 : (<<a>> \o <<b>>)[i] = IF i <= 1 THEN <<a>>[i] ELSE <<b>>[i - 1]
    BY <2>1, ConcatProperties
  <2>3. \A i \in 1..2 : (<<a>> \o <<b>>)[i] = <<a, b>>[i]
    BY <2>2
  <2> QED BY <2>1, <2>2, <2>3, SeqEqual
<1>2. ASSUME NEW c PROVE <<a>> \o <<b, c>> = <<a, b, c>>
  <2> DEFINE S == {a, b, c}
  <2>1. <<a>> \in Seq(S) /\ <<b, c>> \in Seq(S) /\ <<a, b, c>> \in Seq(S)
    OBVIOUS
  <2> HIDE DEF S
  <2>2. /\ <<a>> \o <<b, c>> \in Seq(S)
        /\ Len(<<a>> \o <<b, c>>) = 3
        /\ \A i \in 1..3 : (<<a>> \o <<b, c>>)[i] = IF i <= 1 THEN <<a>>[i] ELSE <<b, c>>[i - 1]
    BY <2>1, ConcatProperties
  <2>3. \A i \in 1..3 : (<<a>> \o <<b, c>>)[i] = <<a, b, c>>[i]
    BY <2>2
  <2> QED BY <2>1, <2>2, <2>3, SeqEqual
<1> QED BY <1>1, <1>2

(* The kinds of stacks exclude each other. *)
LEMMA StackKinds ==
  /\ \A st \in InEraseIn \cup InEraseOut : st # <<>> /\ st \notin InConnect /\ st \notin InCallback
  /\ \A st \in InConnect \cup InCallback : st # <<>>
  /\ \A st \in InEraseIn : st \notin InEraseOut
  /\ \A st \in InConnect : st \notin InCallback
BY DEF InConnect, InCallback, InEraseIn, InEraseOut

(* The innermost call tells the stack. *)
LEMMA StackTop ==
  ASSUME Types, NEW s \in Objects
  PROVE  /\ At(s, "connectIn") => calls[s] = <<"connectIn">>
         /\ At(s, "connectOut") => calls[s] = <<"connectOut">>
         /\ At(s, "connectOptions") => calls[s] = <<"connectOptions">>
         /\ At(s, "connectEnd") => calls[s] = <<"connectEnd">>
         /\ At(s, "callback") <=> calls[s] \in InCallback
         /\ At(s, "eraseIn") <=> calls[s] \in InEraseIn
         /\ At(s, "eraseOut") <=> calls[s] \in InEraseOut
<1>1. calls[s] \in Stacks
  BY DEF Types
<1>2. CASE calls[s] = <<>>
  BY <1>2 DEF At, Idle, InCallback, InEraseIn, InEraseOut
<1>3. CASE calls[s] \in InConnect
  BY <1>3 DEF At, Idle, InConnect, InCallback, InEraseIn, InEraseOut
<1>4. CASE calls[s] \in InCallback
  BY <1>4 DEF At, Idle, InCallback, InEraseIn, InEraseOut
<1>5. CASE calls[s] \in InEraseIn
  BY <1>5 DEF At, Idle, InCallback, InEraseIn, InEraseOut
<1>6. CASE calls[s] \in InEraseOut
  BY <1>6 DEF At, Idle, InCallback, InEraseIn, InEraseOut
<1> QED BY <1>1, <1>2, <1>3, <1>4, <1>5, <1>6 DEF Stacks

(* What an object goes on with when its innermost call continues or returns. *)
LEMMA StackMoves ==
  /\ \A st \in InConnect : Tail(st) = <<>>
  /\ \A st \in InCallback : Tail(st) \in {<<>>, <<"connectOut">>, <<"connectOptions">>}
  /\ \A st \in InCallback : Tail(st) = <<"connectOut">> <=> st = <<"callback", "connectOut">>
  /\ \A st \in InEraseIn : <<"eraseOut">> \o Tail(st) \in InEraseOut
  /\ \A st \in InEraseOut : Tail(st) \in {<<>>} \cup InCallback
  /\ \A st \in {<<>>} \cup InCallback : <<"eraseIn">> \o st \in InEraseIn
<1>1. \A st \in InConnect : Tail(st) = <<>>
  <2>1. /\ Tail(<<"connectIn">>) = <<>> /\ Tail(<<"connectOut">>) = <<>>
        /\ Tail(<<"connectOptions">>) = <<>> /\ Tail(<<"connectEnd">>) = <<>>
    OBVIOUS
  <2> QED BY <2>1 DEF InConnect
<1>2. /\ Tail(<<"callback">>) = <<>>
      /\ Tail(<<"callback", "connectOut">>) = <<"connectOut">>
      /\ Tail(<<"callback", "connectOptions">>) = <<"connectOptions">>
  OBVIOUS
<1>3. /\ Tail(<<"eraseIn">>) = <<>>
      /\ Tail(<<"eraseIn", "callback">>) = <<"callback">>
      /\ Tail(<<"eraseIn", "callback", "connectOut">>) = <<"callback", "connectOut">>
      /\ Tail(<<"eraseIn", "callback", "connectOptions">>) = <<"callback", "connectOptions">>
  OBVIOUS
<1>4. /\ Tail(<<"eraseOut">>) = <<>>
      /\ Tail(<<"eraseOut", "callback">>) = <<"callback">>
      /\ Tail(<<"eraseOut", "callback", "connectOut">>) = <<"callback", "connectOut">>
      /\ Tail(<<"eraseOut", "callback", "connectOptions">>) = <<"callback", "connectOptions">>
  OBVIOUS
<1>5. \A st \in InCallback : Tail(st) \in {<<>>, <<"connectOut">>, <<"connectOptions">>}
  BY <1>2 DEF InCallback
<1>6. \A st \in InCallback : Tail(st) = <<"connectOut">> <=> st = <<"callback", "connectOut">>
  <2>1. <<>> # <<"connectOut">> /\ <<"connectOptions">> # <<"connectOut">>
    OBVIOUS
  <2>2. /\ <<"callback">> # <<"callback", "connectOut">>
        /\ <<"callback", "connectOptions">> # <<"callback", "connectOut">>
    OBVIOUS
  <2> QED BY <1>2, <2>1, <2>2, Zenon DEF InCallback
<1>7. /\ <<"eraseIn">> \o <<>> = <<"eraseIn">>
      /\ <<"eraseOut">> \o <<>> = <<"eraseOut">>
  OBVIOUS
<1>8. \A st \in InEraseIn : <<"eraseOut">> \o Tail(st) \in InEraseOut
  <2>1. /\ <<"eraseOut">> \o <<"callback">> = <<"eraseOut", "callback">>
        /\ <<"eraseOut">> \o <<"callback", "connectOut">> = <<"eraseOut", "callback", "connectOut">>
        /\ <<"eraseOut">> \o <<"callback", "connectOptions">> = <<"eraseOut", "callback", "connectOptions">>
    BY Cons
  <2> QED BY <1>3, <1>7, <2>1, Zenon DEF InEraseIn, InEraseOut
<1>9. \A st \in InEraseOut : Tail(st) \in {<<>>} \cup InCallback
  BY <1>4 DEF InEraseOut, InCallback
<1>10. \A st \in {<<>>} \cup InCallback : <<"eraseIn">> \o st \in InEraseIn
  BY <1>7, Cons, ZenonT(60) DEF InCallback, InEraseIn
<1> QED BY <1>1, <1>5, <1>6, <1>8, <1>9, <1>10

(* The stack of s after Continue, for every call that continues. *)
LEMMA ContinueMoves ==
  ASSUME Types, NEW s \in Objects
  PROVE  /\ calls[s] \in InConnect =>
              /\ \A steps \in {<<>>} \cup InConnect :
                   Continue(s, steps) => calls' = [calls EXCEPT ![s] = steps]
              /\ Continue(s, <<"callback">> \o <<"connectOut">>) =>
                   calls' = [calls EXCEPT ![s] = <<"callback", "connectOut">>]
              /\ Continue(s, <<"callback">> \o <<"connectOptions">>) =>
                   calls' = [calls EXCEPT ![s] = <<"callback", "connectOptions">>]
         /\ calls[s] \in InCallback \cup InEraseOut =>
              (Return(s) => calls' = [calls EXCEPT ![s] = Tail(calls[s])])
<1>1. \A st \in {<<>>} \cup InConnect : st \o <<>> = st
  BY DEF InConnect
<1>2. \A st \in {<<>>} \cup InCallback \cup InConnect : <<>> \o st = st
  BY DEF InCallback, InConnect
<1>3. \A st \in InCallback : st \o <<>> = st
  BY DEF InCallback
<1>4. CASE calls[s] \in InConnect
  <2>1. Tail(calls[s]) = <<>>
    BY <1>4, StackMoves
  <2>2. \A steps : Continue(s, steps) => calls' = [calls EXCEPT ![s] = steps \o <<>>]
    BY <2>1 DEF Continue
  <2>3. calls[s] \notin InCallback \cup InEraseOut
    BY <1>4 DEF InConnect, InCallback, InEraseOut
  <2>4. /\ <<"callback">> \o <<"connectOut">> = <<"callback", "connectOut">>
        /\ <<"callback">> \o <<"connectOptions">> = <<"callback", "connectOptions">>
    BY Cons
  <2>5. \A steps \in {<<>>} \cup InConnect :
          Continue(s, steps) => calls' = [calls EXCEPT ![s] = steps]
    BY <1>1, <2>2
  <2>6. /\ <<"callback", "connectOut">> \in InCallback
        /\ <<"callback", "connectOptions">> \in InCallback
    BY DEF InCallback
  <2> QED BY <1>3, <2>2, <2>3, <2>4, <2>5, <2>6, Zenon
<1>5. CASE calls[s] \in InCallback \cup InEraseOut
  <2>1. Tail(calls[s]) \in {<<>>} \cup InCallback \cup InConnect
    BY <1>5, StackMoves DEF InConnect
  <2>2. <<>> \o Tail(calls[s]) = Tail(calls[s])
    BY <1>2, <2>1
  <2>3. Return(s) => calls' = [calls EXCEPT ![s] = Tail(calls[s])]
    BY <2>2 DEF Return, Continue
  <2>4. calls[s] \notin InConnect
    BY <1>5 DEF InConnect, InCallback, InEraseOut
  <2> QED BY <2>3, <2>4
<1> QED BY <1>4, <1>5

-----------------------------------------------------------------------------
(* Registrations *)

(* addEvent and addOutEvent touch the entry of one descriptor. *)
LEMMA AddEffect ==
  ASSUME Types, NEW fd \in Fds, NEW d \in Dir, NEW x \in Objects \cup {Other}, AddTo(fd, d, x)
  PROVE  /\ bound' \in [Fds -> [Dir -> Objects \cup {None, Other}]]
         /\ watched' \in [Fds -> SUBSET Dir]
         /\ \A other \in Fds \ {fd} : bound'[other] = bound[other] /\ watched'[other] = watched[other]
         /\ bound'[fd][d] = x
         /\ \A e \in Dir \ {d} : bound'[fd][e] = bound[fd][e]
         /\ Added(fd) => watched'[fd] = Registered(fd) \cup {d}
BY DEF Types, AddTo, Registered

(* So do eraseEvent and eraseOutEvent. *)
LEMMA EraseEffect ==
  ASSUME Types, NEW fd \in Fds, NEW d \in Dir, EraseFrom(fd, d)
  PROVE  /\ bound' \in [Fds -> [Dir -> Objects \cup {None, Other}]]
         /\ watched' \in [Fds -> SUBSET Dir]
         /\ \A other \in Fds \ {fd} : bound'[other] = bound[other] /\ watched'[other] = watched[other]
         /\ bound'[fd][d] = None
         /\ \A e \in Dir \ {d} : bound'[fd][e] = bound[fd][e]
         /\ watched[fd] = Registered(fd) => watched'[fd] = Registered(fd) \ {d}
BY DEF Types, EraseFrom, Registered

(* What the setters, connect() after socket() and the return of a callback   *)
(* have in common: they leave descriptors and objects as they are and touch  *)
(* registrations of the object's own descriptor only.                        *)
Registers(s) ==
  /\ s \in alive
  /\ ~InErase(s)
  /\ UNCHANGED <<owner, alive, event, lost, robbed>>
  /\ \E st \in {<<>>} \cup InConnect \cup InCallback : calls' = [calls EXCEPT ![s] = st]
  /\ bound' \in [Fds -> [Dir -> Objects \cup {None, Other}]]
  /\ watched' \in [Fds -> SUBSET Dir]
  /\ \A fd \in Fds : fd # event[s] => bound'[fd] = bound[fd] /\ watched'[fd] = watched[fd]
  /\ \A fd \in Fds, d \in Dir : bound'[fd][d] \in {bound[fd][d], None, s}
  /\ handler' \in [Objects -> SUBSET Dir]
  /\ want' \in [Objects -> SUBSET Dir]
  /\ unclear' \subseteq Objects \X Dir

RegisterStep(s) ==
  \/ ConnectIn(s) \/ ConnectOut(s) \/ ConnectOptions(s) \/ ConnectEnd(s) \/ CallbackReturn(s)
  \/ \E d \in Dir : SetCb(s, d) \/ SetEmptyCb(s, d)
  \/ ClearDataCb(s) \/ ClearOutDataCb(s)

(* addEvent in connect() has that form, *)
LEMMA AddAndCallRegisters ==
  ASSUME Types, BusyIsAlive, NEW s \in Objects, NEW d \in Dir,
         NEW rest \in {"connectOut", "connectOptions"}, calls[s] \in InConnect,
         \/ AddAndCall(s, d, <<rest>>)
         \/ Continue(s, <<rest>>) /\ UNCHANGED <<bound, watched>>,
         UNCHANGED <<owner, objects, ghosts>>
  PROVE  Registers(s)
<1>1. s \in alive /\ ~InErase(s)
  <2>1. calls[s] # <<>> /\ calls[s] \notin InEraseIn \cup InEraseOut
    BY DEF InConnect, InEraseIn, InEraseOut
  <2> QED BY <2>1 DEF BusyIsAlive, InErase
<1>2. \E st \in {<<>>} \cup InConnect \cup InCallback : calls' = [calls EXCEPT ![s] = st]
  <2>1. <<rest>> \in InConnect /\ <<"callback", rest>> \in InCallback
    BY DEF InConnect, InCallback
  <2>2. Continue(s, <<rest>>) => calls' = [calls EXCEPT ![s] = <<rest>>]
    BY <2>1, ContinueMoves
  <2>3. Continue(s, <<"callback">> \o <<rest>>) => calls' = [calls EXCEPT ![s] = <<"callback", rest>>]
    BY ContinueMoves
  <2>4. Continue(s, <<rest>>) \/ Continue(s, <<"callback">> \o <<rest>>)
    BY DEF AddAndCall
  <2> QED BY <2>1, <2>2, <2>3, <2>4
<1>3. \/ UNCHANGED <<bound, watched>>
      \/ event[s] \in Fds /\ AddTo(event[s], d, s)
  BY DEF AddAndCall, Types
<1>4. /\ bound' \in [Fds -> [Dir -> Objects \cup {None, Other}]]
      /\ watched' \in [Fds -> SUBSET Dir]
      /\ \A fd \in Fds : fd # event[s] => bound'[fd] = bound[fd] /\ watched'[fd] = watched[fd]
      /\ \A fd \in Fds, e \in Dir : bound'[fd][e] \in {bound[fd][e], None, s}
  <2>1. CASE UNCHANGED <<bound, watched>>
    BY <2>1 DEF Types
  <2>2. CASE event[s] \in Fds /\ AddTo(event[s], d, s)
    BY <2>2, AddEffect
  <2> QED BY <1>3, <2>1, <2>2
<1> QED BY <1>1, <1>2, <1>4 DEF Registers, objects, ghosts, Types

(* ... and so do the calls that change a callback. *)
LEMMA SetterRegisters ==
  ASSUME Types, NEW s \in Objects, s \in alive, calls[s] = <<>>, NEW d \in Dir,
         calls' \in {calls, [calls EXCEPT ![s] = <<"callback">>]},
         \/ UNCHANGED <<bound, watched>>
         \/ event[s] # NoFd /\ (AddTo(event[s], d, s) \/ EraseFrom(event[s], d)),
         UNCHANGED <<owner, alive, event, lost, robbed>>,
         handler' \in [Objects -> SUBSET Dir], want' \in [Objects -> SUBSET Dir],
         unclear' \subseteq Objects \X Dir
  PROVE  Registers(s)
<1>1. ~InErase(s)
  BY DEF InErase, InEraseIn, InEraseOut
<1>2. \E st \in {<<>>} \cup InConnect \cup InCallback : calls' = [calls EXCEPT ![s] = st]
  <2>1. <<"callback">> \in InCallback
    BY DEF InCallback
  <2>2. calls = [calls EXCEPT ![s] = <<>>]
    BY DEF Types
  <2> QED BY <2>1, <2>2
<1>3. /\ bound' \in [Fds -> [Dir -> Objects \cup {None, Other}]]
      /\ watched' \in [Fds -> SUBSET Dir]
      /\ \A fd \in Fds : fd # event[s] => bound'[fd] = bound[fd] /\ watched'[fd] = watched[fd]
      /\ \A fd \in Fds, e \in Dir : bound'[fd][e] \in {bound[fd][e], None, s}
  <2>1. CASE UNCHANGED <<bound, watched>>
    BY <2>1 DEF Types
  <2>2. event[s] # NoFd => event[s] \in Fds
    BY DEF Types
  <2>3. CASE event[s] # NoFd /\ AddTo(event[s], d, s)
    BY <2>2, <2>3, AddEffect
  <2>4. CASE event[s] # NoFd /\ EraseFrom(event[s], d)
    BY <2>2, <2>4, EraseEffect, SMTT(60)
  <2> QED BY <2>1, <2>3, <2>4
<1> QED BY <1>1, <1>2, <1>3 DEF Registers

(* All of them have it. *)
LEMMA RegisterStepRegisters ==
  ASSUME Types, BusyIsAlive, NEW s \in Objects, RegisterStep(s)
  PROVE  Registers(s)
<1>1. CASE ConnectIn(s)
  <2>1. calls[s] \in InConnect
    BY <1>1, StackTop DEF ConnectIn, InConnect
  <2> QED BY <1>1, <2>1, AddAndCallRegisters DEF ConnectIn, Dir
<1>2. CASE ConnectOut(s)
  <2>1. calls[s] \in InConnect
    BY <1>2, StackTop DEF ConnectOut, InConnect
  <2> QED BY <1>2, <2>1, AddAndCallRegisters DEF ConnectOut, Dir
<1>3. CASE ConnectOptions(s) \/ ConnectEnd(s) \/ CallbackReturn(s)
  <2>1. calls[s] \in InConnect \cup InCallback
    BY <1>3, StackTop DEF ConnectOptions, ConnectEnd, CallbackReturn, InConnect
  <2>2. s \in alive /\ ~InErase(s)
    <3>1. calls[s] # <<>> /\ calls[s] \notin InEraseIn \cup InEraseOut
      BY <2>1 DEF InConnect, InCallback, InEraseIn, InEraseOut
    <3> QED BY <3>1 DEF BusyIsAlive, InErase
  <2>3. \E st \in {<<>>} \cup InConnect \cup InCallback : calls' = [calls EXCEPT ![s] = st]
    <3>1. CASE ConnectOptions(s) \/ ConnectEnd(s)
      <4>1. calls[s] \in InConnect /\ <<"connectEnd">> \in InConnect
        BY <3>1, StackTop DEF ConnectOptions, ConnectEnd, InConnect
      <4>2. Continue(s, <<>>) \/ Continue(s, <<"connectEnd">>)
        BY <3>1 DEF ConnectOptions, ConnectEnd, Return
      <4> QED BY <4>1, <4>2, ContinueMoves
    <3>2. CASE CallbackReturn(s)
      <4>1. calls[s] \in InCallback
        BY <3>2, StackTop DEF CallbackReturn
      <4>2. Tail(calls[s]) \in {<<>>} \cup InConnect
        BY <4>1, StackMoves DEF InConnect
      <4> QED BY <3>2, <4>1, <4>2, ContinueMoves DEF CallbackReturn
    <3> QED BY <1>3, <3>1, <3>2
  <2>4. UNCHANGED <<descriptors, objects, ghosts>>
    BY <1>3 DEF ConnectOptions, ConnectEnd, CallbackReturn
  <2> QED BY <2>2, <2>3, <2>4 DEF Registers, descriptors, objects, ghosts, Types
<1>4. ASSUME NEW d \in Dir, SetCb(s, d) \/ SetEmptyCb(s, d) PROVE Registers(s)
  <2>1. s \in alive /\ calls[s] = <<>>
    BY <1>4 DEF SetCb, SetEmptyCb, MayCall, Idle
  <2>2. /\ handler' \in [Objects -> SUBSET Dir] /\ want' \in [Objects -> SUBSET Dir]
        /\ unclear' \subseteq Objects \X Dir
    BY <1>4 DEF SetCb, SetEmptyCb, Types
  <2>3. /\ calls' \in {calls, [calls EXCEPT ![s] = <<"callback">>]}
        /\ UNCHANGED <<owner, alive, event, lost, robbed>>
        /\ \/ UNCHANGED <<bound, watched>>
           \/ event[s] # NoFd /\ AddTo(event[s], d, s)
    BY <1>4 DEF SetCb, SetEmptyCb
  <2> QED BY <2>1, <2>2, <2>3, SetterRegisters
<1>5. CASE ClearDataCb(s) \/ ClearOutDataCb(s)
  <2>1. s \in alive /\ calls[s] = <<>>
    BY <1>5 DEF ClearDataCb, ClearOutDataCb, MayCall, Idle
  <2>2. /\ handler' \in [Objects -> SUBSET Dir] /\ want' \in [Objects -> SUBSET Dir]
        /\ unclear' \subseteq Objects \X Dir
    BY <1>5 DEF ClearDataCb, ClearOutDataCb, Types, Dir
  <2>3. PICK d \in Dir : EraseCb(s, d)
    BY <1>5 DEF ClearDataCb, ClearOutDataCb, Dir
  <2>4. /\ calls' = calls
        /\ UNCHANGED <<owner, alive, event, lost, robbed>>
        /\ \/ UNCHANGED <<bound, watched>>
           \/ event[s] # NoFd /\ EraseFrom(event[s], d)
    BY <1>5, <2>3 DEF ClearDataCb, ClearOutDataCb, EraseCb
  <2> QED BY <2>1, <2>2, <2>4, SetterRegisters
<1> QED BY <1>1, <1>2, <1>3, <1>4, <1>5 DEF RegisterStep

-----------------------------------------------------------------------------
(* Descriptors *)

(* -1 is no descriptor. *)
LEMMA NoFdIsNone == NoFd \notin Fds
BY FdsAssumption DEF NoFd

(* OwnOrErased is UsesOwnDescriptor. *)
LEMMA UsesOwnMeans ==
  ASSUME Types
  PROVE  UsesOwnDescriptor <=> OwnOrErased
<1>1. \A s \in Objects : Erasing(s, event[s]) <=> InErase(s)
  BY StackTop DEF Erasing, InErase
<1> QED BY <1>1 DEF UsesOwnDescriptor, OwnOrErased

(* disconnect() is neither begun nor ended by such a step. *)
LEMMA RegistersKeepsErase ==
  ASSUME Types, NEW s \in Objects, Registers(s)
  PROVE  \A o \in Objects : /\ InErase(o)' <=> InErase(o)
                            /\ o # s => calls'[o] = calls[o]
<1>1. PICK st \in {<<>>} \cup InConnect \cup InCallback : calls' = [calls EXCEPT ![s] = st]
  BY DEF Registers
<1>2. calls'[s] = st /\ \A o \in Objects \ {s} : calls'[o] = calls[o]
  BY <1>1 DEF Types
<1>3. st \notin InEraseIn \cup InEraseOut
  BY StackKinds
<1> QED BY <1>2, <1>3 DEF InErase, Registers

(* Nothing but the registrations of an own descriptor changes. *)
LEMMA RegistersKeepsDescriptors ==
  ASSUME DescriptorInv, NEW s \in Objects, Registers(s)
  PROVE  DescriptorInv'
<1> USE NoFdIsNone, NoneAssumption DEF DescriptorInv
<1>1. PICK st \in {<<>>} \cup InConnect \cup InCallback : calls' = [calls EXCEPT ![s] = st]
  BY DEF Registers
<1>2. calls'[s] = st /\ \A o \in Objects \ {s} : calls'[o] = calls[o]
  BY <1>1 DEF Types
<1>3. Types'
  BY <1>1 DEF Registers, Types, Stacks
<1>4. \A o \in Objects : InErase(o)' <=> InErase(o)
  BY RegistersKeepsErase
<1>5. BusyIsAlive'
  BY <1>2 DEF BusyIsAlive, Registers
<1>6. ErasesClosed'
  <2> SUFFICES ASSUME NEW o \in Objects, InErase(o)'
               PROVE  /\ event'[o] # NoFd /\ owner'[event'[o]] # o
                      /\ calls'[o] \in InEraseOut => bound'[event'[o]]["in"] # o
    BY DEF ErasesClosed
  <2>1. InErase(o) /\ o # s /\ calls'[o] = calls[o]
    BY <1>2, <1>4 DEF Registers
  <2>2. event'[o] = event[o] /\ event[o] \in Fds /\ owner'[event[o]] # o
    BY <2>1 DEF Registers, ErasesClosed, Types
  <2>3. bound'[event[o]]["in"] \in {bound[event[o]]["in"], None, s}
    BY <2>2 DEF Registers, Dir
  <2> QED BY <2>1, <2>2, <2>3 DEF ErasesClosed
<1>7. OwnOrErased'
  BY <1>4 DEF OwnOrErased, Registers
<1>8. NoDanglingCallback'
  <2> SUFFICES ASSUME NEW f \in Fds \ lost, NEW d \in Dir, bound'[f][d] \in Objects
               PROVE  bound'[f][d] \in alive /\ event[bound'[f][d]] = f
    BY DEF NoDanglingCallback, Registers
  <2>1. CASE bound'[f][d] = bound[f][d]
    BY <2>1 DEF NoDanglingCallback
  <2>2. CASE bound'[f][d] # bound[f][d]
    BY <2>2 DEF Registers
  <2> QED BY <2>1, <2>2
<1>9. NoLeak'
  BY DEF NoLeak, Registers
<1> QED BY <1>3, <1>5, <1>6, <1>7, <1>8, <1>9

(* A new descriptor for s; the one it had before is lost. *)
LEMMA OpenOwnKeepsDescriptors ==
  ASSUME DescriptorInv, NEW fd \in Fds, NEW s \in Objects, Open(s, fd),
         calls[s] = <<>>,
         calls' \in {calls, [calls EXCEPT ![s] = <<"connectIn">>]},
         event' = [event EXCEPT ![s] = fd],
         lost' = lost \cup ({event[s]} \ {NoFd}),
         alive' = alive \cup {s},
         UNCHANGED <<bound, watched, handler, want, unclear>>
  PROVE  DescriptorInv'
<1> USE NoFdIsNone, NoneAssumption DEF DescriptorInv
<1>1. calls'[s] \in {<<>>, <<"connectIn">>} /\ \A o \in Objects \ {s} : calls'[o] = calls[o]
  BY DEF Types
<1>2. /\ event'[s] = fd /\ \A o \in Objects \ {s} : event'[o] = event[o]
      /\ owner[fd] = None
      /\ owner'[fd] = s /\ \A f \in Fds \ {fd} : owner'[f] = owner[f]
  BY DEF Types, Open
<1>3. Types'
  <2>1. calls' \in [Objects -> Stacks]
    BY DEF Types, Stacks, InConnect
  <2>2. owner' \in [Fds -> Objects \cup {None, Other}] /\ event' \in [Objects -> Fds \cup {NoFd}]
    BY DEF Types, Open
  <2>3. lost' \subseteq Fds /\ alive' \subseteq Objects /\ robbed' \subseteq Objects \cup {Other}
    BY DEF Types, Open
  <2> QED BY <2>1, <2>2, <2>3 DEF Types
<1>4. ~InErase(s) /\ ~InErase(s)' /\ \A o \in Objects \ {s} : InErase(o)' <=> InErase(o)
  <2>1. <<"connectIn">> \notin InEraseIn \cup InEraseOut /\ <<>> \notin InEraseIn \cup InEraseOut
    BY DEF InEraseIn, InEraseOut
  <2> QED BY <1>1, <2>1 DEF InErase
<1>5. BusyIsAlive'
  BY <1>1 DEF BusyIsAlive
<1>6. ErasesClosed'
  <2> SUFFICES ASSUME NEW o \in Objects, InErase(o)'
               PROVE  /\ event'[o] # NoFd /\ owner'[event'[o]] # o
                      /\ calls'[o] \in InEraseOut => bound'[event'[o]]["in"] # o
    BY DEF ErasesClosed
  <2>1. InErase(o) /\ o # s /\ calls'[o] = calls[o] /\ event'[o] = event[o]
    BY <1>1, <1>2, <1>4
  <2>2. event[o] \in Fds /\ owner[event[o]] # o
    BY <2>1 DEF ErasesClosed, Types
  <2>3. owner'[event[o]] # o
    BY <1>2, <2>1, <2>2
  <2>4. calls[o] \in InEraseOut => bound[event[o]]["in"] # o
    BY <2>1 DEF ErasesClosed
  <2> QED BY <2>1, <2>2, <2>3, <2>4
<1>7. OwnOrErased'
  <2> SUFFICES ASSUME NEW o \in Objects, event'[o] # NoFd
               PROVE  o \in alive' /\ (InErase(o)' \/ owner'[event'[o]] = o)
    BY DEF OwnOrErased
  <2>1. CASE o = s
    BY <1>2, <2>1
  <2>2. CASE o # s
    <3>1. event'[o] = event[o] /\ event[o] \in Fds /\ o \in alive /\ (InErase(o) \/ owner[event[o]] = o)
      BY <1>2, <2>2 DEF OwnOrErased, Types
    <3> QED BY <1>2, <1>4, <2>2, <3>1
  <2> QED BY <2>1, <2>2
<1>8. NoDanglingCallback'
  <2> SUFFICES ASSUME NEW f \in Fds \ lost', NEW d \in Dir, bound[f][d] \in Objects
               PROVE  bound[f][d] \in alive' /\ event'[bound[f][d]] = f
    BY DEF NoDanglingCallback
  <2>1. f \notin lost /\ f # event[s]
    OBVIOUS
  <2>2. bound[f][d] \in alive /\ event[bound[f][d]] = f
    BY <2>1 DEF NoDanglingCallback
  <2> QED BY <1>2, <2>1, <2>2
<1>9. NoLeak'
  <2> SUFFICES ASSUME NEW f \in Fds \ lost', owner'[f] \in Objects
               PROVE  owner'[f] \in alive' /\ event'[owner'[f]] = f
    BY DEF NoLeak
  <2>1. f \notin lost /\ f # event[s]
    OBVIOUS
  <2>2. CASE f = fd
    BY <1>2, <2>2
  <2>3. CASE f # fd
    <3>1. owner[f] \in alive /\ event[owner[f]] = f
      BY <1>2, <2>1, <2>3 DEF NoLeak
    <3> QED BY <1>2, <2>1, <2>3, <3>1
  <2> QED BY <2>2, <2>3
<1> QED BY <1>3, <1>5, <1>6, <1>7, <1>8, <1>9

(* A new descriptor for the server, or one that its constructor loses. *)
LEMMA OpenOtherKeepsDescriptors ==
  ASSUME DescriptorInv, NEW fd \in Fds,
         Open(Other, fd) \/ \E x \in Objects \ alive : (Open(x, fd) /\ fd \in lost'),
         bound' \in [Fds -> [Dir -> Objects \cup {None, Other}]],
         watched' \in [Fds -> SUBSET Dir],
         \A f \in Fds, d \in Dir : bound'[f][d] \in {bound[f][d], Other},
         lost \subseteq lost', lost' \subseteq Fds,
         UNCHANGED <<objects, calls, unclear>>
  PROVE  DescriptorInv'
<1> USE NoFdIsNone, NoneAssumption DEF DescriptorInv, objects
<1>1. /\ owner[fd] = None /\ \A f \in Fds \ {fd} : owner'[f] = owner[f]
      /\ owner'[fd] = Other \/ (owner'[fd] \in Objects \ alive /\ fd \in lost')
      /\ owner' \in [Fds -> Objects \cup {None, Other}] /\ robbed' \subseteq Objects \cup {Other}
  <2>1. CASE Open(Other, fd)
    BY <2>1 DEF Types, Open
  <2>2. ASSUME NEW x \in Objects \ alive, Open(x, fd), fd \in lost'
        PROVE  <1>1!:
    BY <2>2 DEF Types, Open
  <2> QED BY <2>1, <2>2
<1>2. Types'
  BY <1>1 DEF Types
<1>3. BusyIsAlive'
  BY DEF BusyIsAlive
<1>4. ErasesClosed'
  <2> SUFFICES ASSUME NEW o \in Objects, InErase(o)
               PROVE  /\ event[o] # NoFd /\ owner'[event[o]] # o
                      /\ calls[o] \in InEraseOut => bound'[event[o]]["in"] # o
    BY DEF ErasesClosed, InErase
  <2>1. event[o] \in Fds /\ owner[event[o]] # o
    BY DEF ErasesClosed, Types
  <2>2. o # owner'[fd]
    <3>1. calls[o] # <<>>
      BY StackKinds DEF InErase
    <3> QED BY <1>1, <3>1 DEF BusyIsAlive
  <2>3. bound'[event[o]]["in"] \in {bound[event[o]]["in"], Other}
    BY <2>1 DEF Dir
  <2> QED BY <1>1, <2>1, <2>2, <2>3 DEF ErasesClosed
<1>5. OwnOrErased'
  BY <1>1 DEF OwnOrErased, Types, InErase
<1>6. NoDanglingCallback'
  <2> SUFFICES ASSUME NEW f \in Fds \ lost', NEW d \in Dir, bound'[f][d] \in Objects
               PROVE  bound'[f][d] \in alive /\ event[bound'[f][d]] = f
    BY DEF NoDanglingCallback
  <2>1. bound'[f][d] = bound[f][d]
    OBVIOUS
  <2> QED BY <2>1 DEF NoDanglingCallback
<1>7. NoLeak'
  BY <1>1 DEF NoLeak
<1> QED BY <1>2, <1>3, <1>4, <1>5, <1>6, <1>7

(* close() of the descriptor of s, or of the one of the server. *)
LEMMA CloseKeepsDescriptors ==
  ASSUME DescriptorInv, NEW fd \in Fds, Close(fd),
         bound' \in [Fds -> [Dir -> Objects \cup {None, Other}]],
         \A f \in Fds, d \in Dir : bound'[f][d] \in {bound[f][d], None},
         \/ UNCHANGED calls /\ owner[fd] = Other
         \/ \E s \in Objects :
              /\ s \in alive /\ event[s] = fd /\ ~InErase(s)
              /\ \E st \in InEraseIn : calls' = [calls EXCEPT ![s] = st],
         robbed' \subseteq robbed,
         UNCHANGED <<objects, lost, unclear>>
  PROVE  DescriptorInv'
<1> USE NoFdIsNone, NoneAssumption DEF DescriptorInv, objects
<1>1. owner'[fd] = None /\ \A f \in Fds \ {fd} : owner'[f] = owner[f]
  BY DEF Types, Close
<1>2. calls' \in [Objects -> Stacks]
  <2>1. \A st \in InEraseIn : st \in Stacks
    BY DEF Stacks
  <2> QED BY <2>1 DEF Types
<1>3. Types'
  <2>1. /\ owner' \in [Fds -> Objects \cup {None, Other}]
        /\ watched' \in [Fds -> SUBSET Dir]
    BY DEF Types, Close
  <2> QED BY <1>2, <2>1 DEF Types
<1>4. \A o \in Objects :
        \/ calls'[o] = calls[o] /\ (event[o] = fd => InErase(o))
        \/ o \in alive /\ event[o] = fd /\ calls'[o] \in InEraseIn
  <2>1. \A o \in Objects : event[o] = fd => InErase(o) \/ owner[fd] = o
    BY DEF OwnOrErased
  <2>2. CASE UNCHANGED calls /\ owner[fd] = Other
    <3>1. \A o \in Objects : owner[fd] # o
      BY <2>2
    <3> QED BY <2>1, <2>2, <3>1
  <2>3. ASSUME NEW s \in Objects, s \in alive, event[s] = fd, ~InErase(s),
               NEW st \in InEraseIn, calls' = [calls EXCEPT ![s] = st]
        PROVE  \A o \in Objects :
                 \/ calls'[o] = calls[o] /\ (event[o] = fd => InErase(o))
                 \/ o \in alive /\ event[o] = fd /\ calls'[o] \in InEraseIn
    <3>1. owner[fd] = s
      BY <2>1, <2>3
    <3>2. calls'[s] = st /\ \A o \in Objects \ {s} : calls'[o] = calls[o]
      BY <2>3 DEF Types
    <3>3. \A o \in Objects \ {s} : event[o] = fd => InErase(o)
      BY <2>1, <3>1
    <3> QED BY <2>3, <3>2, <3>3
  <2> QED BY <2>2, <2>3
<1>5. BusyIsAlive'
  BY <1>4 DEF BusyIsAlive
<1>6. ErasesClosed'
  <2> SUFFICES ASSUME NEW o \in Objects, InErase(o)'
               PROVE  /\ event[o] # NoFd /\ owner'[event[o]] # o
                      /\ calls'[o] \in InEraseOut => bound'[event[o]]["in"] # o
    BY DEF ErasesClosed
  <2>1. CASE o \in alive /\ event[o] = fd /\ calls'[o] \in InEraseIn
    <3>1. calls'[o] \notin InEraseOut
      BY <2>1 DEF InEraseIn, InEraseOut
    <3>2. fd # NoFd /\ owner'[fd] # o
      BY <1>1
    <3> QED BY <2>1, <3>1, <3>2
  <2>2. CASE calls'[o] = calls[o]
    <3>1. InErase(o)
      BY <2>2 DEF InErase
    <3>2. event[o] \in Fds /\ owner[event[o]] # o
      BY <3>1 DEF ErasesClosed, Types
    <3>3. bound'[event[o]]["in"] \in {bound[event[o]]["in"], None}
      BY <3>2 DEF Dir
    <3> QED BY <1>1, <2>2, <3>1, <3>2, <3>3 DEF ErasesClosed
  <2> QED BY <1>4, <2>1, <2>2
<1>7. OwnOrErased'
  BY <1>1, <1>4 DEF OwnOrErased, Types, InErase
<1>8. NoDanglingCallback'
  <2> SUFFICES ASSUME NEW f \in Fds \ lost, NEW d \in Dir, bound'[f][d] \in Objects
               PROVE  bound'[f][d] \in alive /\ event[bound'[f][d]] = f
    BY DEF NoDanglingCallback
  <2>1. bound'[f][d] = bound[f][d]
    OBVIOUS
  <2> QED BY <2>1 DEF NoDanglingCallback
<1>9. NoLeak'
  BY <1>1 DEF NoLeak
<1> QED BY <1>3, <1>5, <1>6, <1>7, <1>8, <1>9

(* The two halves of what disconnect() does after close(). *)
LEMMA EraseKeepsDescriptors ==
  ASSUME DescriptorInv, NEW s \in Objects, EraseIn(s) \/ EraseOut(s)
  PROVE  DescriptorInv'
<1> USE NoFdIsNone, NoneAssumption DEF DescriptorInv, objects, ghosts
<1>1. InErase(s) /\ s \in alive /\ event[s] \in Fds /\ owner[event[s]] # s
  <2>1. InErase(s)
    BY StackTop DEF EraseIn, EraseOut, InErase
  <2> QED BY <2>1, StackKinds DEF BusyIsAlive, InErase, ErasesClosed, Types
<1> DEFINE fd == event[s]
<1>2. CASE EraseIn(s)
  <2>1. EraseFrom(fd, "in") /\ UNCHANGED <<owner, alive, event, handler, want, lost, robbed, unclear>>
    BY <1>2 DEF EraseIn
  <2>2. PICK st \in InEraseOut : calls' = [calls EXCEPT ![s] = st]
    <3>1. calls[s] \in InEraseIn
      BY <1>2, StackTop DEF EraseIn
    <3> QED BY <1>2, <3>1, StackMoves DEF EraseIn, Continue
  <2>3. calls'[s] = st /\ \A o \in Objects \ {s} : calls'[o] = calls[o]
    BY <2>2 DEF Types
  <2>4. /\ bound' \in [Fds -> [Dir -> Objects \cup {None, Other}]]
        /\ watched' \in [Fds -> SUBSET Dir]
        /\ bound'[fd]["in"] = None
        /\ \A f \in Fds, d \in Dir : bound'[f][d] \in {bound[f][d], None}
    BY <1>1, <2>1, EraseEffect DEF Dir
  <2> HIDE DEF fd
  <2>5. Types'
    <3>1. st \in Stacks
      BY DEF Stacks
    <3> QED BY <2>1, <2>2, <2>4, <3>1 DEF Types
  <2>6. \A o \in Objects : InErase(o)' <=> InErase(o)
    BY <1>1, <2>3 DEF InErase
  <2>7. BusyIsAlive'
    BY <1>1, <2>1, <2>3 DEF BusyIsAlive
  <2>8. ErasesClosed'
    <3> SUFFICES ASSUME NEW o \in Objects, InErase(o)
                 PROVE  /\ event[o] # NoFd /\ owner[event[o]] # o
                        /\ calls'[o] \in InEraseOut => bound'[event[o]]["in"] # o
      BY <2>1, <2>6 DEF ErasesClosed
    <3>1. event[o] \in Fds /\ owner[event[o]] # o
      BY DEF ErasesClosed, Types
    <3>2. CASE o = s
      BY <2>4, <3>1, <3>2 DEF fd
    <3>3. CASE o # s
      <4>1. calls'[o] = calls[o] /\ bound'[event[o]]["in"] \in {bound[event[o]]["in"], None}
        BY <2>3, <2>4, <3>1, <3>3 DEF Dir
      <4> QED BY <3>1, <4>1 DEF ErasesClosed
    <3> QED BY <3>2, <3>3
  <2>9. OwnOrErased'
    BY <2>1, <2>6 DEF OwnOrErased
  <2>10. NoDanglingCallback'
    BY <2>1, <2>4 DEF NoDanglingCallback
  <2>11. NoLeak'
    BY <2>1 DEF NoLeak
  <2> QED BY <2>5, <2>7, <2>8, <2>9, <2>10, <2>11
<1>3. CASE EraseOut(s)
  <2>1. /\ EraseFrom(fd, "out") /\ UNCHANGED <<owner, alive, handler, want, lost, unclear>>
        /\ robbed' = robbed \ {s} /\ event' = [event EXCEPT ![s] = NoFd]
    BY <1>3 DEF EraseOut
  <2>2. calls[s] \in InEraseOut
    BY <1>3, StackTop DEF EraseOut
  <2>3. PICK st \in {<<>>} \cup InCallback : calls' = [calls EXCEPT ![s] = st]
    BY <1>3, <2>2, ContinueMoves, StackMoves DEF EraseOut
  <2>4. /\ calls'[s] = st /\ \A o \in Objects \ {s} : calls'[o] = calls[o]
        /\ event'[s] = NoFd /\ \A o \in Objects \ {s} : event'[o] = event[o]
    BY <2>1, <2>3 DEF Types
  <2>5. /\ bound' \in [Fds -> [Dir -> Objects \cup {None, Other}]]
        /\ watched' \in [Fds -> SUBSET Dir]
        /\ bound'[fd]["out"] = None /\ bound'[fd]["in"] = bound[fd]["in"]
        /\ \A f \in Fds, d \in Dir : bound'[f][d] \in {bound[f][d], None}
    BY <1>1, <2>1, EraseEffect DEF Dir
  <2>6. bound[fd]["in"] # s
    BY <1>1, <2>2 DEF ErasesClosed
  <2> HIDE DEF fd
  <2>7. Types'
    <3>1. st \in Stacks
      BY DEF Stacks
    <3> QED BY <2>1, <2>3, <2>5, <3>1 DEF Types
  <2>8. ~InErase(s)' /\ \A o \in Objects \ {s} : InErase(o)' <=> InErase(o)
    BY <2>4, StackKinds DEF InErase
  <2>9. BusyIsAlive'
    BY <1>1, <2>1, <2>4 DEF BusyIsAlive
  <2>10. ErasesClosed'
    <3> SUFFICES ASSUME NEW o \in Objects, InErase(o), o # s
                 PROVE  /\ event[o] # NoFd /\ owner[event[o]] # o
                        /\ calls[o] \in InEraseOut => bound'[event[o]]["in"] # o
      BY <2>1, <2>4, <2>8 DEF ErasesClosed
    <3>1. event[o] \in Fds /\ owner[event[o]] # o
      BY DEF ErasesClosed, Types
    <3>2. bound'[event[o]]["in"] \in {bound[event[o]]["in"], None}
      BY <2>5, <3>1 DEF Dir
    <3> QED BY <3>1, <3>2 DEF ErasesClosed
  <2>11. OwnOrErased'
    BY <2>1, <2>4, <2>8 DEF OwnOrErased
  <2>12. NoDanglingCallback'
    <3> SUFFICES ASSUME NEW f \in Fds \ lost, NEW d \in Dir, bound'[f][d] \in Objects
                 PROVE  bound'[f][d] \in alive /\ event'[bound'[f][d]] = f
      BY <2>1 DEF NoDanglingCallback
    <3>1. bound[f][d] = bound'[f][d]
      BY <2>5
    <3>2. bound[f][d] \in alive /\ event[bound[f][d]] = f
      BY <3>1 DEF NoDanglingCallback
    <3>3. bound[f][d] # s
      <4>1. CASE f = fd
        BY <2>5, <2>6, <3>1, <4>1 DEF Dir
      <4>2. CASE f # fd
        BY <3>2, <4>2 DEF fd
      <4> QED BY <4>1, <4>2
    <3> QED BY <2>4, <3>1, <3>2, <3>3
  <2>13. NoLeak'
    <3> SUFFICES ASSUME NEW f \in Fds \ lost, owner[f] \in Objects
                 PROVE  owner[f] \in alive /\ event'[owner[f]] = f
      BY <2>1 DEF NoLeak
    <3>1. owner[f] \in alive /\ event[owner[f]] = f
      BY DEF NoLeak
    <3>2. owner[f] # s
      BY <1>1, <3>1
    <3> QED BY <2>4, <3>1, <3>2
  <2> QED BY <2>7, <2>9, <2>10, <2>11, <2>12, <2>13
<1> QED BY <1>2, <1>3

(* An object comes to be, or ends, while it has no descriptor. *)
LEMMA LifeKeepsDescriptors ==
  ASSUME DescriptorInv, NEW s \in Objects, Construct(s) \/ Destroy(s) \/ ConnectNoSocket(s)
  PROVE  DescriptorInv'
<1> USE NoFdIsNone, NoneAssumption DEF DescriptorInv, descriptors, ghosts
<1>1. CASE Construct(s)
  <2>1. alive' = alive \cup {s} /\ UNCHANGED <<owner, bound, watched, event, handler, want, calls, lost, robbed, unclear>>
    BY <1>1 DEF Construct
  <2> QED
    BY <2>1 DEF Types, BusyIsAlive, ErasesClosed, OwnOrErased, NoDanglingCallback, NoLeak, InErase
<1>2. CASE Destroy(s)
  <2>1. /\ alive' = alive \ {s} /\ calls[s] = <<>> /\ event[s] = NoFd
        /\ UNCHANGED <<owner, bound, watched, event, calls, lost, robbed>>
    BY <1>2 DEF Destroy, Idle
  <2>2. Types'
    <3>1. /\ handler' \in [Objects -> SUBSET Dir] /\ want' \in [Objects -> SUBSET Dir]
          /\ unclear' \subseteq Objects \X Dir
      BY <1>2 DEF Destroy, Types
    <3> QED BY <2>1, <3>1 DEF Types
  <2>3. BusyIsAlive' /\ ErasesClosed' /\ OwnOrErased'
    BY <2>1 DEF BusyIsAlive, ErasesClosed, OwnOrErased, InErase
  <2>4. NoDanglingCallback'
    BY <2>1 DEF NoDanglingCallback
  <2>5. NoLeak'
    BY <2>1 DEF NoLeak
  <2> QED BY <2>2, <2>3, <2>4, <2>5
<1>3. CASE ConnectNoSocket(s)
  <2>1. /\ event' = [event EXCEPT ![s] = NoFd] /\ lost' = lost \cup ({event[s]} \ {NoFd})
        /\ calls[s] = <<>>
        /\ UNCHANGED <<owner, bound, watched, alive, handler, calls, want, robbed, unclear>>
    BY <1>3 DEF ConnectNoSocket, MayCall, Idle
  <2>2. event'[s] = NoFd /\ \A o \in Objects \ {s} : event'[o] = event[o]
    BY <2>1 DEF Types
  <2>3. Types'
    BY <2>1 DEF Types
  <2>4. \A o \in Objects : (InErase(o)' <=> InErase(o)) /\ (InErase(o) => o # s)
    BY <2>1, StackKinds DEF InErase
  <2>5. BusyIsAlive' /\ ErasesClosed' /\ OwnOrErased'
    BY <2>1, <2>2, <2>4 DEF BusyIsAlive, ErasesClosed, OwnOrErased
  <2>6. \A f \in Fds \ lost' : f \notin lost /\ f # event[s]
    BY <2>1
  <2>7. NoDanglingCallback'
    BY <2>1, <2>2, <2>6 DEF NoDanglingCallback
  <2>8. NoLeak'
    BY <2>1, <2>2, <2>6 DEF NoLeak
  <2> QED BY <2>3, <2>5, <2>7, <2>8
<1> QED BY <1>1, <1>2, <1>3

(* Every call on an object keeps it, *)
LEMMA SocketKeepsDescriptors ==
  ASSUME DescriptorInv, NEW s \in Objects, SocketStep(s)
  PROVE  DescriptorInv'
<1>1. CASE RegisterStep(s)
  BY <1>1, RegisterStepRegisters, RegistersKeepsDescriptors DEF DescriptorInv
<1>2. CASE Construct(s) \/ Destroy(s) \/ ConnectNoSocket(s)
  BY <1>2, LifeKeepsDescriptors
<1>3. CASE ConnectSocket(s)
  <2>1. PICK fd \in Fds : Open(s, fd) /\ event' = [event EXCEPT ![s] = fd]
    BY <1>3 DEF ConnectSocket
  <2>2. calls[s] = <<>> /\ alive' = alive \cup {s}
    BY <1>3 DEF ConnectSocket, MayCall, Idle
  <2> QED BY <1>3, <2>1, <2>2, OpenOwnKeepsDescriptors DEF ConnectSocket
<1>4. CASE Disconnect(s)
  <2>1. event[s] \in Fds /\ Close(event[s]) /\ s \in alive
    BY <1>4 DEF Disconnect, MayDisconnect, DescriptorInv, Types
  <2>2. calls[s] \in {<<>>} \cup InCallback
    BY <1>4, StackTop DEF Disconnect, MayDisconnect, Idle, DescriptorInv
  <2>3. ~InErase(s)
    BY <2>2, StackKinds DEF InErase
  <2>4. \E st \in InEraseIn : calls' = [calls EXCEPT ![s] = st]
    BY <1>4, <2>2, StackMoves DEF Disconnect
  <2>5. bound' = bound /\ UNCHANGED <<objects, lost, robbed, unclear>>
    BY <1>4 DEF Disconnect, ghosts
  <2>6. bound \in [Fds -> [Dir -> Objects \cup {None, Other}]]
    BY DEF DescriptorInv, Types
  <2> QED BY <2>1, <2>3, <2>4, <2>5, <2>6, CloseKeepsDescriptors
<1>5. CASE EraseIn(s) \/ EraseOut(s)
  BY <1>5, EraseKeepsDescriptors
<1> QED BY <1>1, <1>2, <1>3, <1>4, <1>5 DEF SocketStep, RegisterStep

(* ... and so does every step of the server. *)
LEMMA ServerKeepsDescriptors ==
  ASSUME DescriptorInv, ServerTypes, ServerStep
  PROVE  DescriptorInv'
<1> USE NoFdIsNone, NoneAssumption
<1>1. Types
  BY DEF DescriptorInv
<1>2. CASE Start
  <2>1. PICK fd \in Fds : Open(Other, fd) /\ (AddTo(fd, "in", Other) \/ UNCHANGED <<bound, watched>>)
    BY <1>2 DEF Start
  <2>2. /\ bound' \in [Fds -> [Dir -> Objects \cup {None, Other}]]
        /\ watched' \in [Fds -> SUBSET Dir]
        /\ \A f \in Fds, d \in Dir : bound'[f][d] \in {bound[f][d], Other}
    <3>1. CASE AddTo(fd, "in", Other)
      BY <1>1, <3>1, AddEffect DEF Dir
    <3>2. CASE UNCHANGED <<bound, watched>>
      BY <1>1, <3>2 DEF Types
    <3> QED BY <2>1, <3>1, <3>2
  <2>3. lost \subseteq lost' /\ lost' \subseteq Fds
    BY <1>1, <1>2 DEF Start, Forgotten, ServerTypes, Types
  <2>4. UNCHANGED <<objects, calls, unclear>>
    BY <1>2 DEF Start
  <2> QED BY <2>1, <2>2, <2>3, <2>4, OpenOtherKeepsDescriptors
<1>3. CASE Stop
  <2>1. listening \in Fds /\ owner[listening] = Other /\ Close(listening)
    BY <1>3 DEF Stop, ServerTypes
  <2>2. /\ bound' \in [Fds -> [Dir -> Objects \cup {None, Other}]]
        /\ \A f \in Fds, d \in Dir : bound'[f][d] \in {bound[f][d], None}
    BY <1>1, <1>3, <2>1 DEF Stop, Types, Dir
  <2>3. robbed' \subseteq robbed /\ UNCHANGED <<objects, calls, lost, unclear>>
    BY <1>3 DEF Stop
  <2> QED BY <2>1, <2>2, <2>3, CloseKeepsDescriptors
<1>4. ASSUME NEW t \in Callers, NEW s \in Objects, AcceptClient(t, s) \/ AcceptCbThrows(t, s)
      PROVE  DescriptorInv'
  <2>1. Accept(s)
    BY <1>4 DEF AcceptClient, AcceptCbThrows, Accepted
  <2>2. PICK fd \in Fds : Open(s, fd) /\ event' = [event EXCEPT ![s] = fd]
    BY <2>1 DEF Accept
  <2>3. calls[s] = <<>> /\ event[s] = NoFd
    BY <2>1 DEF Accept, DescriptorInv, BusyIsAlive, OwnOrErased
  <2>4. lost' = lost \cup ({event[s]} \ {NoFd})
    BY <2>1, <2>3 DEF Accept
  <2> QED BY <2>1, <2>2, <2>3, <2>4, OpenOwnKeepsDescriptors DEF Accept
<1>5. ASSUME NEW t \in Callers, NEW s \in Objects, AcceptClientThrows(t, s) PROVE DescriptorInv'
  <2>1. AcceptThrows(s)
    BY <1>5 DEF AcceptClientThrows
  <2>2. PICK fd \in Fds : Open(s, fd) /\ lost' = lost \cup {fd}
    BY <2>1 DEF AcceptThrows
  <2>3. /\ bound' \in [Fds -> [Dir -> Objects \cup {None, Other}]]
        /\ watched' \in [Fds -> SUBSET Dir]
        /\ \A f \in Fds, d \in Dir : bound'[f][d] \in {bound[f][d], Other}
    BY <1>1, <2>1 DEF AcceptThrows, Types
  <2>4. lost \subseteq lost' /\ lost' \subseteq Fds /\ fd \in lost' /\ s \notin alive
    BY <1>1, <2>1, <2>2 DEF AcceptThrows, Types
  <2> QED BY <2>1, <2>2, <2>3, <2>4, OpenOtherKeepsDescriptors DEF AcceptThrows
<1>6. CASE StopAgain \/ ClientArrives \/ Wake \/ WakeStopped \/ \E t \in Callers : AcceptFails(t)
  <2>1. UNCHANGED socketVars
    BY <1>6 DEF StopAgain, ClientArrives, Wake, WakeStopped, AcceptFails
  <2> QED
    BY <2>1 DEF socketVars, descriptors, objects, ghosts, DescriptorInv, Types, BusyIsAlive,
                ErasesClosed, OwnOrErased, NoDanglingCallback, NoLeak, InErase
<1>7. CASE StartFails
  <2>1. UNCHANGED <<descriptors, objects, calls, robbed, unclear>>
    BY <1>7 DEF StartFails
  <2>2. lost \subseteq lost' /\ lost' \subseteq Fds
    BY <1>1, <1>7 DEF StartFails, Forgotten, ServerTypes, Types
  <2> QED
    BY <1>1, <2>1, <2>2 DEF descriptors, objects, DescriptorInv, Types, BusyIsAlive,
                ErasesClosed, OwnOrErased, NoDanglingCallback, NoLeak, InErase
<1> QED BY <1>2, <1>3, <1>4, <1>5, <1>6, <1>7 DEF ServerStep

(* The types of the server's own variables. *)
LEMMA ServerTypesStep ==
  ASSUME ServerTypes, [Next]_vars
  PROVE  ServerTypes'
<1>1. CASE Start
  BY <1>1, BacklogAssumption DEF Start, ServerTypes
<1>2. CASE StartFails \/ Stop \/ StopAgain \/ ClientArrives \/ Wake \/ WakeStopped
  BY <1>2 DEF ServerTypes, StartFails, Stop, StopAgain, ClientArrives, Wake, WakeStopped
<1>3. ASSUME NEW t \in Callers, AcceptFails(t) PROVE ServerTypes'
  BY <1>3 DEF ServerTypes, AcceptFails
<1>4. ASSUME NEW t \in Callers, NEW s \in Objects,
             AcceptClient(t, s) \/ AcceptCbThrows(t, s) \/ AcceptClientThrows(t, s)
      PROVE  ServerTypes'
  BY <1>4 DEF ServerTypes, AcceptClient, AcceptCbThrows, Accepted, AcceptClientThrows
<1>5. CASE UNCHANGED server
  BY <1>5 DEF server, ServerTypes
<1> QED BY <1>1, <1>2, <1>3, <1>4, <1>5 DEF Next, ServerStep, vars

(* Together: every step keeps it. *)
LEMMA DescriptorStep ==
  ASSUME DescriptorInv, ServerTypes, [Next]_vars
  PROVE  DescriptorInv'
<1>1. CASE UNCHANGED vars
  BY <1>1 DEF vars, socketVars, descriptors, objects, ghosts, DescriptorInv, Types, BusyIsAlive,
              ErasesClosed, OwnOrErased, NoDanglingCallback, NoLeak, InErase
<1> QED BY <1>1, SocketKeepsDescriptors, ServerKeepsDescriptors DEF Next

(* It holds in the beginning. *)
LEMMA DescriptorStart == Init => DescriptorInv /\ ServerTypes
<1> SUFFICES ASSUME Init PROVE DescriptorInv /\ ServerTypes
  OBVIOUS
<1> USE NoFdIsNone, NoneAssumption DEF Init, SocketsInit
<1>1. Types
  BY DEF Types, Stacks
<1>2. BusyIsAlive /\ OwnOrErased /\ NoDanglingCallback /\ NoLeak
  BY DEF BusyIsAlive, OwnOrErased, NoDanglingCallback, NoLeak
<1>3. ErasesClosed
  BY StackKinds DEF ErasesClosed, InErase
<1> QED BY <1>1, <1>2, <1>3 DEF DescriptorInv, ServerTypes

(* ... and in all reachable states. *)
LEMMA DescriptorsAlways == Spec => []DescriptorInv
<1>1. DescriptorInv /\ ServerTypes /\ [Next]_vars => DescriptorInv' /\ ServerTypes'
  BY DescriptorStep, ServerTypesStep
<1> QED BY DescriptorStart, <1>1, PTL DEF Spec

(* Objects that open, connect, disconnect and are destroyed at the same time *)
(* use no descriptor but their own, for any number of objects and            *)
(* descriptors and any calls of their users: the close(m_event) of           *)
(* disconnect() never hits the descriptor of somebody else.                  *)
THEOREM DescriptorsKept == Spec => []UsesOwnDescriptor
<1>1. DescriptorInv => UsesOwnDescriptor
  BY UsesOwnMeans DEF DescriptorInv
<1> QED BY DescriptorsAlways, <1>1, PTL

(* The event loop keeps no callback bound to a destroyed socket, or to one   *)
(* that has another descriptor by now: what disconnect() and the destructor  *)
(* erase after the close() is all there is.                                  *)
THEOREM CallbacksAlive == Spec => []NoDanglingCallback
<1>1. DescriptorInv => NoDanglingCallback
  BY DEF DescriptorInv
<1> QED BY DescriptorsAlways, <1>1, PTL

(* Every open descriptor that was not lost is known to its object, which     *)
(* closes it in disconnect() or its destructor.                              *)
THEOREM DescriptorsClosable == Spec => []NoLeak
<1>1. DescriptorInv => NoLeak
  BY DEF DescriptorInv
<1> QED BY DescriptorsAlways, <1>1, PTL

-----------------------------------------------------------------------------
(* The server *)

(* Setters and the rest of connect() do not reach what belongs to others. *)
LEMMA RegistersKeepsSharing ==
  ASSUME DescriptorInv, ServerTypes, SharingInv, NEW s \in Objects, Registers(s), UNCHANGED server
  PROVE  SharingInv'
<1> USE NoFdIsNone, NoneAssumption DEF SharingInv, server
<1>1. Types /\ UNCHANGED <<owner, alive, event, lost, robbed>>
  BY DEF DescriptorInv, Registers
<1>2. \A o \in Objects : InErase(o)' <=> InErase(o)
  BY <1>1, RegistersKeepsErase
<1>3. event[s] # NoFd => owner[event[s]] = s
  BY DEF DescriptorInv, OwnOrErased, Registers
<1>4. LostStaysOpen' /\ ListensToOwn'
  BY <1>1 DEF LostStaysOpen, ListensToOwn
<1>5. FreeIsUnwatched'
  BY <1>1, <1>3 DEF FreeIsUnwatched, Registers
<1>6. ServerBound'
  BY <1>1 DEF ServerBound, Registers
<1>7. ErasedIsRobbed'
  BY <1>1, <1>2 DEF ErasedIsRobbed
<1>8. ServerWatched'
  <2>1. started => listening \in Fds /\ owner[listening] = Other
    BY DEF ListensToOwn, ServerTypes
  <2>2. started => watched'[listening] = watched[listening]
    BY <1>3, <2>1 DEF Registers
  <2> QED BY <1>1, <2>2 DEF ServerWatched
<1> QED BY <1>4, <1>5, <1>6, <1>7, <1>8

(* Neither do the beginning and the end of an object. *)
LEMMA LifeKeepsSharing ==
  ASSUME DescriptorInv, SharingInv, NEW s \in Objects,
         Construct(s) \/ Destroy(s) \/ ConnectNoSocket(s), UNCHANGED server
  PROVE  SharingInv'
<1> USE NoFdIsNone, NoneAssumption DEF SharingInv, server
<1>1. Types /\ UNCHANGED <<owner, bound, watched, calls, robbed>>
  BY DEF DescriptorInv, Construct, Destroy, ConnectNoSocket, descriptors, ghosts
<1>2. \A o \in Objects : InErase(o)' <=> InErase(o)
  BY <1>1 DEF InErase
<1>3. FreeIsUnwatched' /\ ServerBound' /\ ListensToOwn' /\ ServerWatched'
  BY <1>1 DEF FreeIsUnwatched, ServerBound, ListensToOwn, ServerWatched
<1>4. CASE Construct(s) \/ Destroy(s)
  <2>1. UNCHANGED <<event, lost>>
    BY <1>4 DEF Construct, Destroy, ghosts
  <2> QED BY <1>1, <1>2, <1>3, <2>1 DEF LostStaysOpen, ErasedIsRobbed
<1>5. CASE ConnectNoSocket(s)
  <2>1. /\ event'[s] = NoFd /\ \A o \in Objects \ {s} : event'[o] = event[o]
        /\ lost' = lost \cup ({event[s]} \ {NoFd}) /\ ~InErase(s)
    BY <1>1, <1>5, StackKinds DEF ConnectNoSocket, MayCall, Idle, InErase, Types
  <2>2. event[s] # NoFd => event[s] \in Fds /\ owner[event[s]] = s
    BY <1>1, <2>1 DEF DescriptorInv, OwnOrErased, Types
  <2>3. LostStaysOpen'
    <3>1. \A fd \in lost' : owner[fd] # None
      BY <2>1, <2>2 DEF LostStaysOpen
    <3>2. \A o \in Objects : event'[o] \in lost' => owner[event'[o]] # o
      BY <1>1, <2>1, <2>2 DEF LostStaysOpen, Types
    <3>3. listening \in lost' => owner[listening] # Other
      BY <2>1, <2>2 DEF LostStaysOpen
    <3> QED BY <1>1, <3>1, <3>2, <3>3 DEF LostStaysOpen
  <2>4. ErasedIsRobbed'
    BY <1>1, <1>2, <2>1 DEF ErasedIsRobbed, DescriptorInv, ErasesClosed, Types
  <2> QED BY <1>3, <2>3, <2>4
<1> QED BY <1>4, <1>5

(* Whoever opens a descriptor and is not robbed finds it without             *)
(* registrations: those of its former owner are erased.                      *)
LEMMA FreshIsClean ==
  ASSUME DescriptorInv, SharingInv, NEW fd \in Fds, NEW x \in Objects \cup {Other}, Open(x, fd),
         x \in Objects => calls[x] = <<>>
  PROVE  /\ watched[fd] = {}
         /\ x \notin robbed' => \A d \in Dir : bound[fd][d] = None
         /\ \A o \in Objects : InErase(o) /\ event[o] = fd => x \in robbed'
<1> USE NoneAssumption
<1>1. Types /\ owner[fd] = None
  BY DEF Open, DescriptorInv
<1>2. watched[fd] = {}
  BY <1>1 DEF SharingInv, FreeIsUnwatched
<1>3. ASSUME NEW o \in Objects, InErase(o), event[o] = fd PROVE x \in robbed'
  <2>1. o # x
    BY <1>3, StackKinds DEF InErase
  <2>2. Erasing(o, fd)
    BY <1>1, <1>3, StackTop DEF InErase, Erasing
  <2> QED BY <2>1, <2>2 DEF Open
<1>4. ASSUME x \notin robbed', NEW d \in Dir PROVE bound[fd][d] = None
  <2>1. bound[fd][d] \in Objects \cup {None, Other}
    BY <1>1 DEF Types
  <2>2. bound[fd][d] # Other
    BY <1>1 DEF SharingInv, ServerBound
  <2>3. ASSUME bound[fd][d] \in Objects PROVE FALSE
    <3>1. fd \notin lost
      BY <1>1 DEF SharingInv, LostStaysOpen
    <3>2. event[bound[fd][d]] = fd
      BY <2>3, <3>1 DEF DescriptorInv, NoDanglingCallback
    <3>3. InErase(bound[fd][d])
      BY <1>1, <2>3, <3>2, NoFdIsNone DEF DescriptorInv, OwnOrErased
    <3> QED BY <1>3, <1>4, <2>3, <3>2, <3>3
  <2> QED BY <2>1, <2>2, <2>3
<1> QED BY <1>2, <1>3, <1>4

(* A new descriptor of an object. *)
LEMMA OpenOwnKeepsSharing ==
  ASSUME DescriptorInv, ServerTypes, SharingInv, NEW fd \in Fds, NEW s \in Objects, Open(s, fd),
         calls[s] = <<>>,
         calls' \in {calls, [calls EXCEPT ![s] = <<"connectIn">>]},
         event' = [event EXCEPT ![s] = fd],
         lost' = lost \cup ({event[s]} \ {NoFd}),
         UNCHANGED <<bound, watched, listening, started, stopped>>
  PROVE  SharingInv'
<1> USE NoFdIsNone, NoneAssumption DEF SharingInv
<1>1. Types
  BY DEF DescriptorInv
<1>2. /\ event'[s] = fd /\ \A o \in Objects \ {s} : event'[o] = event[o]
      /\ owner[fd] = None
      /\ owner'[fd] = s /\ \A f \in Fds \ {fd} : owner'[f] = owner[f]
      /\ robbed \subseteq robbed' /\ robbed' \subseteq robbed \cup {s}
  BY <1>1 DEF Types, Open
<1>3. /\ ~InErase(s) /\ ~InErase(s)'
      /\ \A o \in Objects : InErase(o)' <=> InErase(o)
  <2>1. <<"connectIn">> \in InConnect
    BY DEF InConnect
  <2>2. calls'[s] \in {<<>>, <<"connectIn">>} /\ \A o \in Objects \ {s} : calls'[o] = calls[o]
    BY <1>1 DEF Types
  <2> QED BY <2>1, <2>2, StackKinds DEF InErase
<1>4. event[s] # NoFd => event[s] \in Fds /\ owner[event[s]] = s
  BY <1>1, <1>3 DEF DescriptorInv, OwnOrErased, Types
<1>5. LostStaysOpen'
  <2>1. \A f \in lost' : f \in Fds /\ owner[f] # None
    BY <1>1, <1>4 DEF LostStaysOpen, Types
  <2>2. \A f \in lost' : owner'[f] = owner[f] /\ f # fd
    BY <1>2, <2>1
  <2>3. \A o \in Objects : event'[o] \in lost' => owner'[event'[o]] # o
    <3> SUFFICES ASSUME NEW o \in Objects, event'[o] \in lost' PROVE owner'[event'[o]] # o
      OBVIOUS
    <3>1. o # s /\ event'[o] = event[o] /\ owner'[event[o]] = owner[event[o]]
      BY <1>2, <2>2
    <3>2. CASE event[o] \in lost
      BY <3>1, <3>2 DEF LostStaysOpen
    <3>3. CASE event[o] = event[s] /\ event[s] # NoFd
      BY <1>4, <3>1, <3>3
    <3> QED BY <3>1, <3>2, <3>3
  <2>4. listening \in lost' => owner'[listening] # Other
    <3> SUFFICES ASSUME listening \in lost' PROVE owner[listening] # Other
      BY <2>2
    <3>1. CASE listening \in lost
      BY <3>1 DEF LostStaysOpen
    <3>2. CASE listening = event[s] /\ event[s] # NoFd
      BY <1>4, <3>2
    <3> QED BY <3>1, <3>2
  <2> QED BY <2>1, <2>2, <2>3, <2>4 DEF LostStaysOpen
<1>6. FreeIsUnwatched'
  BY <1>2 DEF FreeIsUnwatched
<1>7. ServerBound'
  BY <1>2 DEF ServerBound
<1>8. ErasedIsRobbed'
  <2>1. ASSUME NEW o \in Objects, NEW former \in Objects,
               InErase(former)', event'[former] = event'[o], owner'[event'[o]] = o
        PROVE  o \in robbed'
    <3>1. InErase(former) /\ former # s /\ event'[former] = event[former] /\ event[former] \in Fds
      BY <1>1, <1>2, <1>3, <2>1 DEF DescriptorInv, ErasesClosed, Types
    <3>2. CASE o = s
      BY <1>2, <2>1, <3>1, <3>2, FreshIsClean
    <3>3. CASE o # s
      <4>1. event'[o] = event[o] /\ owner[event[o]] = o
        BY <1>2, <2>1, <3>1, <3>3
      <4> QED BY <1>2, <2>1, <3>1, <4>1 DEF ErasedIsRobbed
    <3> QED BY <3>2, <3>3
  <2>2. ASSUME NEW former \in Objects,
               InErase(former)', event'[former] = listening, owner'[listening] = Other
        PROVE  Other \in robbed'
    <3>1. InErase(former) /\ event'[former] = event[former] /\ event[former] \in Fds
      BY <1>1, <1>2, <1>3, <2>2 DEF DescriptorInv, ErasesClosed, Types
    <3>2. owner[listening] = Other
      BY <1>2, <2>2, <3>1
    <3> QED BY <1>2, <2>2, <3>1, <3>2 DEF ErasedIsRobbed
  <2> QED BY <2>1, <2>2 DEF ErasedIsRobbed
<1>9. ListensToOwn'
  BY <1>2 DEF ListensToOwn, ServerTypes
<1>10. ServerWatched'
  BY <1>2 DEF ServerWatched
<1> QED BY <1>5, <1>6, <1>7, <1>8, <1>9, <1>10

(* A descriptor that is lost as soon as it is opened. *)
LEMMA ThrowKeepsSharing ==
  ASSUME DescriptorInv, ServerTypes, SharingInv, NEW s \in Objects, AcceptThrows(s),
         UNCHANGED <<listening, started, stopped>>
  PROVE  SharingInv'
<1> USE NoFdIsNone, NoneAssumption DEF SharingInv
<1>1. Types /\ UNCHANGED <<bound, watched, alive, event, calls>>
  BY DEF DescriptorInv, AcceptThrows, objects
<1>2. PICK fd \in Fds : Open(s, fd) /\ lost' = lost \cup {fd}
  BY DEF AcceptThrows
<1>3. calls[s] = <<>> /\ event[s] = NoFd
  BY DEF AcceptThrows, DescriptorInv, BusyIsAlive, OwnOrErased
<1>4. /\ owner[fd] = None
      /\ owner'[fd] = s /\ \A f \in Fds \ {fd} : owner'[f] = owner[f]
      /\ robbed \subseteq robbed'
      /\ Other \in robbed' => Other \in robbed
  BY <1>1, <1>2 DEF Types, Open
<1>5. \A o \in Objects : InErase(o)' <=> InErase(o)
  BY <1>1 DEF InErase
<1>6. LostStaysOpen'
  <2>1. \A f \in lost' : f \in Fds /\ owner'[f] # None
    BY <1>1, <1>2, <1>4 DEF LostStaysOpen, Types
  <2>2. \A o \in Objects : event[o] \in lost' => owner'[event[o]] # o
    BY <1>1, <1>2, <1>3, <1>4 DEF LostStaysOpen, Types
  <2>3. listening \in lost' => owner'[listening] # Other
    <3>1. CASE listening = fd
      BY <1>4, <3>1
    <3>2. CASE listening # fd
      BY <1>1, <1>2, <1>4, <3>2 DEF LostStaysOpen, Types
    <3> QED BY <3>1, <3>2
  <2> QED BY <1>1, <2>1, <2>2, <2>3 DEF LostStaysOpen
<1>7. FreeIsUnwatched' /\ ServerBound'
  BY <1>1, <1>4 DEF FreeIsUnwatched, ServerBound
<1>8. ErasedIsRobbed'
  <2>1. \A o \in Objects : event[o] # NoFd /\ owner'[event[o]] = o => owner[event[o]] = o
    BY <1>1, <1>3, <1>4 DEF Types
  <2>2. \A o \in Objects : InErase(o) => event[o] # NoFd
    BY DEF DescriptorInv, ErasesClosed
  <2>3. owner'[listening] = Other /\ listening \in Fds => owner[listening] = Other
    BY <1>4
  <2>4. \A o \in Objects : InErase(o) => event[o] \in Fds
    BY <1>1, <2>2 DEF Types
  <2> QED BY <1>1, <1>4, <1>5, <2>1, <2>2, <2>3, <2>4 DEF ErasedIsRobbed
<1>9. ListensToOwn'
  BY <1>4 DEF ListensToOwn, ServerTypes
<1>10. ServerWatched'
  BY <1>1, <1>4 DEF ServerWatched
<1> QED BY <1>6, <1>7, <1>8, <1>9, <1>10

(* close() of a descriptor by its owner. *)
LEMMA CloseKeepsSharing ==
  ASSUME DescriptorInv, ServerTypes, SharingInv, NEW fd \in Fds, Close(fd), fd \notin lost,
         owner[fd] # None,
         \A f \in Fds, d \in Dir : bound'[f][d] \in {bound[f][d], None},
         \A f \in Fds : bound'[f]["in"] = Other => f # fd,
         \A o \in Objects : (InErase(o)' => InErase(o) \/ event[o] = fd),
         fd = listening => ~started' /\ stopped',
         fd # listening => UNCHANGED <<started, stopped>>,
         UNCHANGED <<event, lost, listening>>,
         robbed \ {Other} \subseteq robbed',
         fd # listening => robbed' = robbed
  PROVE  SharingInv'
<1> USE NoFdIsNone, NoneAssumption DEF SharingInv
<1>1. Types
  BY DEF DescriptorInv
<1>2. /\ owner'[fd] = None /\ \A f \in Fds \ {fd} : owner'[f] = owner[f]
      /\ watched'[fd] = {} /\ \A f \in Fds \ {fd} : watched'[f] = watched[f]
  BY <1>1 DEF Types, Close
<1>3. LostStaysOpen'
  <2>1. \A f \in lost : f \in Fds /\ owner'[f] = owner[f]
    BY <1>1, <1>2 DEF Types
  <2> QED BY <2>1 DEF LostStaysOpen
<1>4. FreeIsUnwatched'
  BY <1>2 DEF FreeIsUnwatched
<1>5. ServerBound'
  <2> SUFFICES ASSUME NEW f \in Fds, NEW d \in Dir, bound'[f][d] = Other
               PROVE  d = "in" /\ owner'[f] = Other
    BY DEF ServerBound
  <2>1. d = "in" /\ owner[f] = Other
    BY DEF ServerBound
  <2> QED BY <1>2, <2>1
<1>6. ErasedIsRobbed'
  <2>1. ASSUME NEW o \in Objects, NEW former \in Objects,
               InErase(former)', event[former] = event[o], owner'[event[o]] = o
        PROVE  o \in robbed'
    <3>1. event[former] \in Fds
      <4>1. InErase(former) => event[former] # NoFd
        BY DEF DescriptorInv, ErasesClosed
      <4> QED BY <1>1, <2>1, <4>1 DEF Types
    <3>2. event[o] # fd /\ owner[event[o]] = o
      BY <1>2, <2>1, <3>1
    <3>3. InErase(former)
      BY <2>1, <3>2
    <3> QED BY <2>1, <3>2, <3>3 DEF ErasedIsRobbed
  <2>2. ASSUME NEW former \in Objects,
               InErase(former)', event[former] = listening, owner'[listening] = Other
        PROVE  Other \in robbed'
    <3>1. listening \in Fds
      <4>1. InErase(former) => event[former] # NoFd
        BY DEF DescriptorInv, ErasesClosed
      <4> QED BY <2>2, <4>1 DEF ServerTypes
    <3>2. listening # fd /\ owner[listening] = Other
      BY <1>2, <2>2, <3>1
    <3>3. InErase(former)
      BY <2>2, <3>2
    <3> QED BY <2>2, <3>2, <3>3 DEF ErasedIsRobbed
  <2> QED BY <2>1, <2>2 DEF ErasedIsRobbed
<1>7. ListensToOwn' /\ ServerWatched'
  <2>1. CASE fd = listening
    BY <2>1 DEF ListensToOwn, ServerWatched
  <2>2. CASE fd # listening
    <3>1. listening # NoFd => owner'[listening] = owner[listening] /\ watched'[listening] = watched[listening]
      BY <1>2, <2>2 DEF ServerTypes
    <3>2. ListensToOwn'
      BY <2>2, <3>1 DEF ListensToOwn
    <3>3. ServerWatched'
      BY <2>2, <3>1 DEF ListensToOwn, ServerWatched
    <3> QED BY <3>2, <3>3
  <2> QED BY <2>1, <2>2
<1> QED BY <1>3, <1>4, <1>5, <1>6, <1>7

(* disconnect() erases registrations of others only where they are counted   *)
(* as robbed.                                                                *)
LEMMA EraseKeepsSharing ==
  ASSUME DescriptorInv, ServerTypes, SharingInv, NEW s \in Objects, EraseIn(s) \/ EraseOut(s),
         UNCHANGED server
  PROVE  SharingInv'
<1> USE NoFdIsNone, NoneAssumption DEF SharingInv, server
<1>1. Types
  BY DEF DescriptorInv
<1>2. InErase(s) /\ event[s] \in Fds
  <2>1. InErase(s)
    BY <1>1, StackTop DEF EraseIn, EraseOut, InErase
  <2> QED BY <1>1, <2>1 DEF DescriptorInv, ErasesClosed, Types
<1>3. PICK d \in Dir : EraseFrom(event[s], d)
  BY DEF EraseIn, EraseOut, Dir
<1>4. /\ \A f \in Fds : f # event[s] => watched'[f] = watched[f]
      /\ \A f \in Fds, e \in Dir : bound'[f][e] \in {bound[f][e], None}
  BY <1>1, <1>2, <1>3, EraseEffect
<1>5. /\ UNCHANGED <<owner, lost>>
      /\ robbed' \in {robbed, robbed \ {s}}
      /\ event' \in {event, [event EXCEPT ![s] = NoFd]}
      /\ event' = event => robbed' = robbed
  BY <1>1, <1>2 DEF EraseIn, EraseOut, objects, ghosts, Types
<1>6. \A o \in Objects : InErase(o)' /\ event'[o] # NoFd => InErase(o)
  <2>1. \A o \in Objects \ {s} : calls'[o] = calls[o]
    BY <1>1 DEF EraseIn, EraseOut, Return, Continue, Types
  <2> QED BY <1>2, <2>1 DEF InErase
<1>7. \A o \in Objects : event'[o] # NoFd => event'[o] = event[o] /\ (o \in robbed' <=> o \in robbed)
  BY <1>1, <1>5 DEF Types
<1>8. LostStaysOpen'
  <2>1. \A o \in Objects : event'[o] \in lost => owner[event'[o]] # o
    BY <1>1, <1>7 DEF LostStaysOpen, Types
  <2> QED BY <1>5, <2>1 DEF LostStaysOpen
<1>9. FreeIsUnwatched'
  <2>1. owner[event[s]] = None => watched'[event[s]] = {}
    <3>1. watched' = watched \/ watched[event[s]] # {}
      BY <1>3 DEF EraseFrom
    <3> QED BY <1>2, <3>1 DEF FreeIsUnwatched
  <2> QED BY <1>4, <1>5, <2>1 DEF FreeIsUnwatched
<1>10. ServerBound'
  BY <1>4, <1>5 DEF ServerBound
<1>11. ErasedIsRobbed'
  <2>1. ASSUME NEW o \in Objects, NEW former \in Objects,
               InErase(former)', event'[former] = event'[o], owner[event'[o]] = o
        PROVE  o \in robbed'
    <3>1. event'[former] # NoFd
      <4>1. \A p \in Objects : InErase(p)' => event'[p] # NoFd
        BY EraseKeepsDescriptors DEF DescriptorInv, ErasesClosed
      <4> QED BY <2>1, <4>1
    <3> QED BY <1>6, <1>7, <2>1, <3>1 DEF ErasedIsRobbed
  <2>2. ASSUME NEW former \in Objects,
               InErase(former)', event'[former] = listening, owner[listening] = Other
        PROVE  Other \in robbed'
    <3>1. event'[former] # NoFd
      <4>1. \A p \in Objects : InErase(p)' => event'[p] # NoFd
        BY EraseKeepsDescriptors DEF DescriptorInv, ErasesClosed
      <4> QED BY <2>2, <4>1
    <3> QED BY <1>5, <1>6, <1>7, <2>2, <3>1 DEF ErasedIsRobbed
  <2> QED BY <1>5, <2>1, <2>2 DEF ErasedIsRobbed
<1>12. ListensToOwn'
  BY <1>5 DEF ListensToOwn
<1>13. ServerWatched'
  <2> SUFFICES ASSUME started, Other \notin robbed PROVE "in" \in watched'[listening]
    BY <1>5 DEF ServerWatched
  <2>1. listening \in Fds /\ owner[listening] = Other
    BY DEF ListensToOwn, ServerTypes
  <2>2. listening # event[s]
    BY <1>2, <2>1 DEF ErasedIsRobbed
  <2> QED BY <1>4, <2>1, <2>2 DEF ServerWatched
<1> QED BY <1>8, <1>9, <1>10, <1>11, <1>12, <1>13

(* start(): a server that was not robbed is watched. *)
LEMMA StartKeepsSharing ==
  ASSUME DescriptorInv, ServerTypes, SharingInv, Start
  PROVE  SharingInv'
<1> USE NoFdIsNone, NoneAssumption DEF SharingInv
<1>1. Types /\ UNCHANGED <<alive, event, calls>> /\ ~stopped'
  BY DEF DescriptorInv, Start, objects
<1>2. PICK fd \in Fds :
        /\ Open(Other, fd)
        /\ listening' = fd
        /\ \/ started' = TRUE /\ AddTo(fd, "in", Other)
           \/ started' = FALSE /\ UNCHANGED <<bound, watched>>
  BY DEF Start
<1>3. /\ owner[fd] = None
      /\ owner'[fd] = Other /\ \A f \in Fds \ {fd} : owner'[f] = owner[f]
      /\ robbed \subseteq robbed'
      /\ \A o \in Objects : o \in robbed' <=> o \in robbed
  BY <1>1, <1>2 DEF Types, Open
<1>4. \A o \in Objects : InErase(o)' <=> InErase(o)
  BY <1>1 DEF InErase
<1>5. \A o \in Objects : InErase(o) => event[o] \in Fds
  BY <1>1 DEF DescriptorInv, ErasesClosed, Types
<1>6. \A f \in lost' : f \in lost \/ (f = listening /\ f \in Fds /\ owner[f] = Other)
  BY DEF Start, Forgotten, ListensToOwn, ServerTypes
<1>7. /\ \A f \in Fds \ {fd} : watched'[f] = watched[f]
      /\ \A f \in Fds, d \in Dir : bound'[f][d] = bound[f][d] \/ (bound'[f][d] = Other /\ f = fd /\ d = "in")
  BY <1>1, <1>2, AddEffect DEF Dir
<1>8. LostStaysOpen'
  <2>1. \A f \in lost' : f \in Fds /\ f # fd /\ owner'[f] = owner[f] /\ owner[f] # None
    BY <1>1, <1>3, <1>6 DEF LostStaysOpen, Types
  <2>2. \A o \in Objects : event[o] \in lost' => owner'[event[o]] # o
    BY <1>6, <2>1 DEF LostStaysOpen
  <2> QED BY <1>1, <1>2, <2>1, <2>2 DEF LostStaysOpen
<1>9. FreeIsUnwatched'
  BY <1>3, <1>7 DEF FreeIsUnwatched
<1>10. ServerBound'
  BY <1>3, <1>7 DEF ServerBound
<1>11. ErasedIsRobbed'
  <2>1. \A former \in Objects : InErase(former) /\ event[former] = fd => Other \in robbed'
    BY <1>2, FreshIsClean
  <2>2. ASSUME NEW o \in Objects, NEW former \in Objects,
               InErase(former), event[former] = event[o], owner'[event[o]] = o
        PROVE  o \in robbed'
    <3>1. owner[event[o]] = o
      BY <1>3, <1>5, <2>2
    <3> QED BY <1>3, <2>2, <3>1 DEF ErasedIsRobbed
  <2> QED BY <1>1, <1>2, <1>4, <2>1, <2>2 DEF ErasedIsRobbed
<1>12. ListensToOwn'
  BY <1>1, <1>2, <1>3 DEF ListensToOwn
<1>13. ServerWatched'
  <2> SUFFICES ASSUME AddTo(fd, "in", Other), Other \notin robbed' PROVE "in" \in watched'[fd]
    BY <1>2 DEF ServerWatched
  <2>1. watched[fd] = {} /\ \A d \in Dir : bound[fd][d] = None
    BY <1>2, FreshIsClean
  <2>2. Added(fd)
    BY <2>1 DEF Added, Registered
  <2> QED BY <1>1, <2>2, AddEffect DEF Dir
<1> QED BY <1>8, <1>9, <1>10, <1>11, <1>12, <1>13

(* A start() without a socket forgets the descriptor of the one before. *)
LEMMA StartFailsKeepsSharing ==
  ASSUME DescriptorInv, ServerTypes, SharingInv, StartFails
  PROVE  SharingInv'
<1> USE NoFdIsNone, NoneAssumption DEF SharingInv
<1>1. Types /\ UNCHANGED <<owner, bound, watched, event, calls, robbed>> /\ listening' = NoFd /\ ~started'
  BY DEF DescriptorInv, StartFails, descriptors, objects
<1>2. \A f \in lost' : f \in lost \/ (f \in Fds /\ owner[f] = Other)
  BY DEF StartFails, Forgotten, ListensToOwn, ServerTypes
<1>3. \A o \in Objects : InErase(o)' <=> InErase(o)
  BY <1>1 DEF InErase
<1>4. LostStaysOpen'
  <2>1. \A f \in lost' : f \in Fds /\ owner[f] # None
    BY <1>1, <1>2 DEF LostStaysOpen, Types
  <2>2. \A o \in Objects : event[o] \in lost' => owner[event[o]] # o
    BY <1>2 DEF LostStaysOpen
  <2> QED BY <1>1, <2>1, <2>2 DEF LostStaysOpen
<1>5. FreeIsUnwatched' /\ ServerBound'
  BY <1>1 DEF FreeIsUnwatched, ServerBound
<1>6. \A o \in Objects : InErase(o) => event[o] \in Fds
  BY <1>1 DEF DescriptorInv, ErasesClosed, Types
<1>7. ErasedIsRobbed'
  BY <1>1, <1>3, <1>6 DEF ErasedIsRobbed
<1>8. ListensToOwn' /\ ServerWatched'
  BY <1>1 DEF ListensToOwn, ServerWatched
<1> QED BY <1>4, <1>5, <1>7, <1>8

(* Every call on an object keeps it, *)
LEMMA SocketKeepsSharing ==
  ASSUME DescriptorInv, ServerTypes, SharingInv, NEW s \in Objects, SocketStep(s), UNCHANGED server
  PROVE  SharingInv'
<1>1. CASE RegisterStep(s)
  BY <1>1, RegisterStepRegisters, RegistersKeepsSharing DEF DescriptorInv
<1>2. CASE Construct(s) \/ Destroy(s) \/ ConnectNoSocket(s)
  BY <1>2, LifeKeepsSharing
<1>3. CASE ConnectSocket(s)
  <2>1. PICK fd \in Fds : Open(s, fd) /\ event' = [event EXCEPT ![s] = fd]
    BY <1>3 DEF ConnectSocket
  <2>2. calls[s] = <<>>
    BY <1>3 DEF ConnectSocket, MayCall, Idle
  <2>3. /\ calls' = [calls EXCEPT ![s] = <<"connectIn">>]
        /\ lost' = lost \cup ({event[s]} \ {NoFd})
        /\ UNCHANGED <<bound, watched, listening, started, stopped>>
    BY <1>3 DEF ConnectSocket, server
  <2> QED BY <2>1, <2>2, <2>3, OpenOwnKeepsSharing
<1>4. CASE Disconnect(s)
  <2>1. event[s] \in Fds /\ Close(event[s])
    BY <1>4 DEF Disconnect, DescriptorInv, Types
  <2>2. calls[s] \in {<<>>} \cup InCallback
    BY <1>4, StackTop DEF Disconnect, MayDisconnect, Idle, DescriptorInv
  <2>3. owner[event[s]] = s
    BY <2>1, <2>2, StackKinds, NoFdIsNone DEF InErase, DescriptorInv, OwnOrErased
  <2>4. event[s] \notin lost
    BY <2>3 DEF SharingInv, LostStaysOpen
  <2>5. event[s] = listening => ~started /\ stopped
    BY <2>1, <2>3, NoFdIsNone, NoneAssumption DEF SharingInv, ListensToOwn
  <2>6. UNCHANGED <<bound, event, lost, robbed, listening, started, stopped>>
    BY <1>4 DEF Disconnect, ghosts, objects, server
  <2>7. \A f \in Fds : bound'[f]["in"] = Other => f # event[s]
    BY <2>3, <2>6, NoneAssumption DEF SharingInv, ServerBound, Dir
  <2>8. \A o \in Objects : (InErase(o)' => InErase(o) \/ event[o] = event[s])
    <3>1. \A o \in Objects \ {s} : calls'[o] = calls[o]
      BY <1>4 DEF Disconnect, DescriptorInv, Types
    <3> QED BY <3>1 DEF InErase
  <2>9. owner[event[s]] # None
    BY <2>3, NoneAssumption
  <2> QED BY <2>1, <2>4, <2>5, <2>6, <2>7, <2>8, <2>9, CloseKeepsSharing
<1>5. CASE EraseIn(s) \/ EraseOut(s)
  BY <1>5, EraseKeepsSharing
<1> QED BY <1>1, <1>2, <1>3, <1>4, <1>5 DEF SocketStep, RegisterStep

(* ... and so does every step of the server. *)
LEMMA ServerKeepsSharing ==
  ASSUME DescriptorInv, ServerTypes, SharingInv, ServerStep
  PROVE  SharingInv'
<1> USE NoFdIsNone, NoneAssumption
<1>1. Types
  BY DEF DescriptorInv
<1>2. CASE Start
  BY <1>2, StartKeepsSharing
<1>3. CASE Stop
  <2>1. listening \in Fds /\ owner[listening] = Other /\ Close(listening)
    BY <1>3 DEF Stop, ServerTypes
  <2>2. listening \notin lost
    BY <2>1 DEF SharingInv, LostStaysOpen
  <2>3. /\ \A f \in Fds, d \in Dir : bound'[f][d] \in {bound[f][d], None}
        /\ \A f \in Fds : bound'[f]["in"] = Other => f # listening
    BY <1>1, <1>3, <2>1 DEF Stop, Types, Dir
  <2>4. /\ UNCHANGED <<event, calls, lost, listening>> /\ robbed' = robbed \ {Other}
        /\ ~started' /\ stopped'
    BY <1>3 DEF Stop, objects
  <2>5. \A o \in Objects : (InErase(o)' => InErase(o) \/ event[o] = listening)
    BY <2>4 DEF InErase
  <2> QED BY <2>1, <2>2, <2>3, <2>4, <2>5, CloseKeepsSharing
<1>4. ASSUME NEW t \in Callers, NEW s \in Objects, AcceptClient(t, s) \/ AcceptCbThrows(t, s)
      PROVE  SharingInv'
  <2>1. Accept(s) /\ UNCHANGED <<listening, started, stopped>>
    BY <1>4 DEF AcceptClient, AcceptCbThrows, Accepted
  <2>2. PICK fd \in Fds : Open(s, fd) /\ event' = [event EXCEPT ![s] = fd]
    BY <2>1 DEF Accept
  <2>3. calls[s] = <<>> /\ event[s] = NoFd
    BY <2>1 DEF Accept, DescriptorInv, BusyIsAlive, OwnOrErased
  <2>4. lost' = lost \cup ({event[s]} \ {NoFd}) /\ calls' = calls /\ UNCHANGED <<bound, watched>>
    BY <2>1, <2>3 DEF Accept
  <2> QED BY <2>1, <2>2, <2>3, <2>4, OpenOwnKeepsSharing
<1>5. ASSUME NEW t \in Callers, NEW s \in Objects, AcceptClientThrows(t, s) PROVE SharingInv'
  BY <1>5, ThrowKeepsSharing DEF AcceptClientThrows
<1>6. CASE StopAgain \/ ClientArrives \/ Wake \/ WakeStopped \/ \E t \in Callers : AcceptFails(t)
  <2>1. UNCHANGED socketVars /\ UNCHANGED <<listening, started, stopped>>
    BY <1>6 DEF StopAgain, ClientArrives, Wake, WakeStopped, AcceptFails
  <2> QED
    BY <2>1 DEF socketVars, descriptors, objects, ghosts, SharingInv, LostStaysOpen, FreeIsUnwatched,
                ServerBound, ErasedIsRobbed, ListensToOwn, ServerWatched, InErase
<1>7. CASE StartFails
  BY <1>7, StartFailsKeepsSharing
<1> QED BY <1>2, <1>3, <1>4, <1>5, <1>6, <1>7 DEF ServerStep

(* Only start() and stop() change whether the server counts as robbed. *)
LEMMA RobbedByStart ==
  ASSUME NEW s \in Objects, SocketStep(s) \/ Accept(s) \/ AcceptThrows(s)
  PROVE  Other \in robbed' <=> Other \in robbed
BY NoneAssumption
DEF SocketStep, Construct, ConnectSocket, ConnectNoSocket, ConnectIn, ConnectOut, ConnectOptions,
    ConnectEnd, Disconnect, EraseIn, EraseOut, CallbackReturn, Destroy, SetCb, SetEmptyCb,
    ClearDataCb, ClearOutDataCb, Accept, AcceptThrows, Open, ghosts

(* A client is never left in the backlog of a server that is watched. *)
LEMMA StrandedStep ==
  ASSUME DescriptorInv, ServerTypes, SharingInv, NoClientStranded, ServerStep
  PROVE  NoClientStranded'
<1>1. CASE Start
  <2>1. PICK fd \in Fds :
          /\ Open(Other, fd)
          /\ edge' = (waiting' > 0 /\ Added(fd))
    BY <1>1 DEF Start
  <2>2. Other \notin robbed' => watched[fd] = {} /\ \A d \in Dir : bound[fd][d] = None
    BY <2>1, FreshIsClean, NoneAssumption
  <2>3. Other \notin robbed' => Added(fd)
    BY <2>2 DEF Added, Registered
  <2> QED BY <2>1, <2>3 DEF NoClientStranded
<1>2. CASE Stop \/ StartFails
  BY <1>2 DEF Stop, StartFails, NoClientStranded
<1>3. CASE StopAgain
  BY <1>3 DEF StopAgain, NoClientStranded, socketVars, ghosts
<1>4. CASE ClientArrives
  <2>1. UNCHANGED <<robbed, started, accepting, cut>> /\ (edge' <=> edge \/ "in" \in watched[listening])
    BY <1>4 DEF ClientArrives, socketVars, ghosts
  <2> QED BY <2>1 DEF NoClientStranded, SharingInv, ServerWatched
<1>5. CASE Wake
  BY <1>5 DEF Wake, NoClientStranded
<1>6. CASE WakeStopped
  BY <1>6 DEF WakeStopped, NoClientStranded, socketVars, ghosts
<1>7. ASSUME NEW t \in Callers, AcceptFails(t) PROVE NoClientStranded'
  BY <1>7 DEF AcceptFails, NoClientStranded, socketVars, ghosts
<1>8. ASSUME NEW t \in Callers, NEW s \in Objects, AcceptClient(t, s) PROVE NoClientStranded'
  <2>1. accepting' # {}
    BY <1>8 DEF AcceptClient, Accepted
  <2> QED BY <2>1 DEF NoClientStranded
<1>9. ASSUME NEW t \in Callers, NEW s \in Objects, AcceptCbThrows(t, s) \/ AcceptClientThrows(t, s)
      PROVE  NoClientStranded'
  <2>1. cut' = (waiting' > 0)
    BY <1>9 DEF AcceptCbThrows, AcceptClientThrows
  <2> QED BY <2>1 DEF NoClientStranded
<1> QED BY <1>1, <1>2, <1>3, <1>4, <1>5, <1>6, <1>7, <1>8, <1>9 DEF ServerStep

(* Every step keeps all of it. *)
LEMMA ServerStepKeeps ==
  ASSUME ServerInv, [Next]_vars
  PROVE  ServerInv'
<1> USE DEF ServerInv
<1>1. DescriptorInv' /\ ServerTypes'
  BY DescriptorStep, ServerTypesStep
<1>2. CASE UNCHANGED vars
  <2>1. SharingInv' /\ NoClientStranded' /\ OnlySecondStopHits'
    BY <1>2 DEF vars, socketVars, server, descriptors, objects, ghosts, SharingInv, LostStaysOpen,
                FreeIsUnwatched, ServerBound, ErasedIsRobbed, ListensToOwn, ServerWatched, InErase,
                NoClientStranded, OnlySecondStopHits
  <2> QED BY <1>1, <2>1
<1>3. CASE ~hit /\ ServerStep
  <2>1. SharingInv'
    BY <1>3, ServerKeepsSharing
  <2>2. NoClientStranded'
    BY <1>3, StrandedStep
  <2>3. OnlySecondStopHits'
    <3>1. CASE StopAgain
      BY <3>1, NoneAssumption DEF StopAgain, SharingInv, ListensToOwn, OnlySecondStopHits
    <3>2. CASE UNCHANGED hit
      BY <1>3, <3>2 DEF OnlySecondStopHits
    <3> QED
      BY <1>3, <3>1, <3>2
      DEF ServerStep, Start, StartFails, Stop, ClientArrives, Wake, WakeStopped, AcceptFails, AcceptClient,
          AcceptCbThrows, Accepted, AcceptClientThrows
  <2> QED BY <1>1, <2>1, <2>2, <2>3
<1>4. ASSUME NEW s \in Objects, SocketStep(s), UNCHANGED server PROVE ServerInv'
  <2>1. SharingInv'
    BY <1>4, SocketKeepsSharing
  <2>2. NoClientStranded' /\ OnlySecondStopHits'
    BY <1>4, RobbedByStart DEF server, NoClientStranded, OnlySecondStopHits
  <2> QED BY <1>1, <2>1, <2>2
<1> QED BY <1>2, <1>3, <1>4 DEF Next

(* It holds in the beginning. *)
LEMMA ServerStart == Init => ServerInv
<1> SUFFICES ASSUME Init PROVE ServerInv
  OBVIOUS
<1>1. DescriptorInv /\ ServerTypes
  BY DescriptorStart
<1>2. \A s \in Objects : ~InErase(s)
  BY StackKinds DEF Init, SocketsInit, InErase
<1>3. SharingInv
  BY <1>2, NoneAssumption DEF Init, SocketsInit, SharingInv, LostStaysOpen, FreeIsUnwatched,
                              ServerBound, ErasedIsRobbed, ListensToOwn, ServerWatched
<1> QED BY <1>1, <1>3 DEF ServerInv, Init, NoClientStranded, OnlySecondStopHits

LEMMA ServerAlways == Spec => []ServerInv
<1>1. ServerInv /\ [Next]_vars => ServerInv'
  BY ServerStepKeeps
<1> QED BY ServerStart, <1>1, PTL DEF Spec

(* For any backlog and any number of sockets next to the server no client is *)
(* left waiting without an edge or a thread that will accept it, unless the  *)
(* calling of process() was cut short or the registration was robbed.        *)
THEOREM ServerServes == Spec => []NoClientStranded
<1>1. ServerInv => NoClientStranded
  BY DEF ServerInv
<1> QED BY ServerAlways, <1>1, PTL

(* Only a second stop() closes a descriptor that is not the server's, never  *)
(* one after a failed start() or a reuse of the number while it listens.     *)
THEOREM StopHitsOwn == Spec => []OnlySecondStopHits
<1>1. ServerInv => OnlySecondStopHits
  BY DEF ServerInv
<1> QED BY ServerAlways, <1>1, PTL

-----------------------------------------------------------------------------
(* Registrations as the user asked for *)

(* What o knows stays as it is. *)
LeavesAlone(o) ==
  /\ handler'[o] = handler[o] /\ want'[o] = want[o]
  /\ calls'[o] = calls[o] /\ event'[o] = event[o]
  /\ o \in alive' <=> o \in alive
  /\ \A d \in Dir : <<o, d>> \in unclear' <=> <<o, d>> \in unclear
  /\ o \in robbed' <=> o \in robbed

(* An object that a step does not touch keeps its registrations. *)
LEMMA UntouchedKeepsAsked ==
  ASSUME Types, NEW o \in Objects, AskedInv(o),
         LeavesAlone(o),
         o \notin robbed' /\ event[o] # NoFd /\ ~InErase(o) =>
           bound'[event[o]] = bound[event[o]] /\ watched'[event[o]] = watched[event[o]]
  PROVE  AskedInv(o)'
<1> USE DEF LeavesAlone
<1>1. InErase(o)' <=> InErase(o)
  BY DEF InErase
<1>2. \A d \in Dir : ToRegister(o, d)' <=> ToRegister(o, d)
  BY DEF ToRegister
<1>3. HandlersAsAsked(o)'
  BY DEF AskedInv, HandlersAsAsked
<1>4. RegisteredAsAsked(o)'
  <2> SUFFICES ASSUME o \notin robbed', event[o] # NoFd, ~InErase(o)
               PROVE  /\ watched'[event[o]] = Registered(event[o])'
                      /\ \A d \in Dir : bound'[event[o]][d] \in {None, o}
                      /\ \A d \in Dir : <<o, d>> \notin unclear =>
                           (bound'[event[o]][d] = o <=> d \in want[o] /\ ~ToRegister(o, d))
    BY <1>1, <1>2 DEF RegisteredAsAsked
  <2>1. bound'[event[o]] = bound[event[o]] /\ watched'[event[o]] = watched[event[o]] /\ o \notin robbed
    OBVIOUS
  <2>2. Registered(event[o])' = Registered(event[o])
    BY <2>1 DEF Registered
  <2> QED BY <2>1, <2>2 DEF AskedInv, RegisteredAsAsked
<1> QED BY <1>3, <1>4 DEF AskedInv

(* A call on s leaves what another object knows alone. *)
LEMMA CallLeavesOthers ==
  ASSUME Types, NEW s \in Objects, SocketStep(s), NEW o \in Objects, o # s
  PROVE  LeavesAlone(o)
<1> USE DEF Types, objects, ghosts, LeavesAlone
<1>1. CASE Construct(s) \/ Destroy(s) \/ ConnectNoSocket(s)
  BY <1>1 DEF Construct, Destroy, ConnectNoSocket
<1>2. CASE ConnectSocket(s)
  BY <1>2 DEF ConnectSocket, Open
<1>3. CASE ConnectIn(s) \/ ConnectOut(s) \/ ConnectOptions(s) \/ ConnectEnd(s) \/ CallbackReturn(s)
  BY <1>3 DEF ConnectIn, ConnectOut, ConnectOptions, ConnectEnd, CallbackReturn, AddAndCall, Return,
              Continue
<1>4. CASE Disconnect(s) \/ EraseIn(s) \/ EraseOut(s)
  BY <1>4 DEF Disconnect, EraseIn, EraseOut, Return, Continue
<1>5. ASSUME NEW d \in Dir, SetCb(s, d) \/ SetEmptyCb(s, d) PROVE LeavesAlone(o)
  BY <1>5 DEF SetCb, SetEmptyCb
<1>6. CASE ClearDataCb(s) \/ ClearOutDataCb(s)
  BY <1>6 DEF ClearDataCb, ClearOutDataCb
<1> QED BY <1>1, <1>2, <1>3, <1>4, <1>5, <1>6 DEF SocketStep

(* Whoever uses a descriptor is alone with it. *)
LEMMA OpenIsAlone ==
  ASSUME DescriptorInv, NEW s \in Objects, NEW o \in Objects, o # s,
         event[s] # NoFd, ~InErase(s), event[o] # NoFd, ~InErase(o)
  PROVE  event[o] # event[s]
BY DEF DescriptorInv, OwnOrErased

(* A call on s leaves the registrations of another object alone, unless that *)
(* counts as robbed.                                                         *)
LEMMA CallKeepsOthers ==
  ASSUME DescriptorInv, SharingInv, NEW s \in Objects, SocketStep(s),
         NEW o \in Objects, o # s, AskedInv(o)
  PROVE  AskedInv(o)'
<1> USE NoFdIsNone
<1>1. Types /\ LeavesAlone(o)
  BY CallLeavesOthers DEF DescriptorInv
<1> SUFFICES ASSUME o \notin robbed, event[o] # NoFd, ~InErase(o)
             PROVE  bound'[event[o]] = bound[event[o]] /\ watched'[event[o]] = watched[event[o]]
  BY <1>1, UntouchedKeepsAsked DEF LeavesAlone
<1>2. event[o] \in Fds /\ owner[event[o]] = o
  BY <1>1 DEF Types, DescriptorInv, OwnOrErased
<1>3. CASE RegisterStep(s)
  <2>1. Registers(s)
    BY <1>3, RegisterStepRegisters DEF DescriptorInv
  <2>2. event[o] # event[s]
    BY <2>1, OpenIsAlone DEF Registers
  <2> QED BY <1>2, <2>1, <2>2 DEF Registers
<1>4. CASE Construct(s) \/ Destroy(s) \/ ConnectNoSocket(s) \/ ConnectSocket(s)
  BY <1>4 DEF Construct, Destroy, ConnectNoSocket, ConnectSocket, descriptors
<1>5. CASE Disconnect(s)
  <2>1. calls[s] \in {<<>>} \cup InCallback
    BY <1>1, <1>5, StackTop DEF Disconnect, MayDisconnect, Idle
  <2>2. event[s] \in Fds /\ event[o] # event[s]
    BY <1>1, <1>5, <2>1, StackKinds, OpenIsAlone DEF Disconnect, InErase, Types
  <2> QED BY <1>1, <1>2, <1>5, <2>2 DEF Disconnect, Close, Types
<1>6. CASE EraseIn(s) \/ EraseOut(s)
  <2>1. InErase(s)
    BY <1>1, <1>6, StackTop DEF EraseIn, EraseOut, InErase
  <2>2. event[s] \in Fds
    BY <1>1, <2>1 DEF DescriptorInv, ErasesClosed, Types
  <2>3. event[o] # event[s]
    BY <1>2, <2>1 DEF SharingInv, ErasedIsRobbed
  <2>4. EraseFrom(event[s], "in") \/ EraseFrom(event[s], "out")
    BY <1>6 DEF EraseIn, EraseOut
  <2> QED BY <1>1, <1>2, <2>2, <2>3, <2>4, EraseEffect DEF Dir
<1> QED BY <1>3, <1>4, <1>5, <1>6 DEF SocketStep, RegisterStep

(* addEvent for direction d of an object that is not robbed: what is         *)
(* registered is watched afterwards, and epoll_ctl does not fail.            *)
LEMMA AddAsAsked ==
  ASSUME Types, NEW s \in Objects, event[s] # NoFd, ~InErase(s), s \notin robbed,
         RegisteredAsAsked(s), NEW d \in Dir, AddTo(event[s], d, s), UNCHANGED event
  PROVE  /\ Added(event[s])
         /\ watched'[event[s]] = Registered(event[s])'
         /\ bound'[event[s]][d] = s
         /\ \A e \in Dir \ {d} : bound'[event[s]][e] = bound[event[s]][e]
         /\ \A e \in Dir : bound'[event[s]][e] \in {None, s}
<1> USE NoneAssumption
<1>1. event[s] \in Fds /\ watched[event[s]] = Registered(event[s])
  BY DEF Types, RegisteredAsAsked
<1>2. Added(event[s])
  BY <1>1 DEF Added
<1>3. /\ watched'[event[s]] = Registered(event[s]) \cup {d}
      /\ bound'[event[s]][d] = s
      /\ \A e \in Dir \ {d} : bound'[event[s]][e] = bound[event[s]][e]
  BY <1>1, <1>2, AddEffect
<1>4. Registered(event[s])' = Registered(event[s]) \cup {d}
  BY <1>3 DEF Registered
<1> QED BY <1>2, <1>3, <1>4 DEF RegisteredAsAsked

(* The same for eraseEvent. *)
LEMMA EraseAsAsked ==
  ASSUME Types, NEW s \in Objects, event[s] # NoFd, ~InErase(s), s \notin robbed,
         RegisteredAsAsked(s), NEW d \in Dir, EraseFrom(event[s], d), UNCHANGED event
  PROVE  /\ watched'[event[s]] = Registered(event[s])'
         /\ bound'[event[s]][d] = None
         /\ \A e \in Dir \ {d} : bound'[event[s]][e] = bound[event[s]][e]
         /\ \A e \in Dir : bound'[event[s]][e] \in {None, s}
<1> USE NoneAssumption
<1>1. event[s] \in Fds /\ watched[event[s]] = Registered(event[s])
  BY DEF Types, RegisteredAsAsked
<1>2. /\ watched'[event[s]] = Registered(event[s]) \ {d}
      /\ bound'[event[s]][d] = None
      /\ \A e \in Dir \ {d} : bound'[event[s]][e] = bound[event[s]][e]
  BY <1>1, EraseEffect
<1>3. Registered(event[s])' = Registered(event[s]) \ {d}
  BY <1>2 DEF Registered
<1> QED BY <1>2, <1>3 DEF RegisteredAsAsked

(* The addEvent of connect() for direction d: the user's callback is         *)
(* registered if there is one.                                               *)
LEMMA ConnectAsAsked ==
  ASSUME DescriptorInv, NEW s \in Objects, AskedInv(s), NEW d \in Dir,
         calls[s] = IF d = "in" THEN <<"connectIn">> ELSE <<"connectOut">>,
         \/ d \in handler[s] /\ AddAndCall(s, d, IF d = "in" THEN <<"connectOut">> ELSE <<"connectOptions">>)
         \/ d \notin handler[s] /\ UNCHANGED <<bound, watched>>,
         calls'[s] \in IF d = "in" THEN {<<"connectOut">>, <<"callback", "connectOut">>}
                                   ELSE {<<"connectOptions">>, <<"callback", "connectOptions">>},
         UNCHANGED <<owner, objects, ghosts>>
  PROVE  AskedInv(s)'
<1> USE NoneAssumption DEF objects, ghosts
<1>1. Types /\ HandlersAsAsked(s) /\ RegisteredAsAsked(s)
  BY DEF DescriptorInv, AskedInv
<1>2. HandlersAsAsked(s)'
  BY <1>1 DEF HandlersAsAsked
<1>3. ~InErase(s)
  BY DEF InErase, InEraseIn, InEraseOut
<1>4. ToRegister(s, d) /\ ~ToRegister(s, d)' /\ \A e \in Dir \ {d} : ToRegister(s, e)' <=> ToRegister(s, e)
  <2>1. CASE d = "in"
    BY <2>1 DEF ToRegister, Dir
  <2>2. CASE d = "out"
    BY <2>2 DEF ToRegister, Dir
  <2> QED BY <2>1, <2>2 DEF Dir
<1>5. ASSUME s \notin robbed, event[s] # NoFd
      PROVE  /\ watched'[event[s]] = Registered(event[s])'
             /\ \A e \in Dir : bound'[event[s]][e] \in {None, s}
             /\ \A e \in Dir : <<s, e>> \notin unclear =>
                  (bound'[event[s]][e] = s <=> e \in want[s] /\ ~ToRegister(s, e)')
  <2>1. CASE d \in handler[s]
    <3>1. AddTo(event[s], d, s)
      BY <1>5, <2>1 DEF AddAndCall
    <3>2. /\ watched'[event[s]] = Registered(event[s])'
          /\ bound'[event[s]][d] = s
          /\ \A e \in Dir \ {d} : bound'[event[s]][e] = bound[event[s]][e]
          /\ \A e \in Dir : bound'[event[s]][e] \in {None, s}
      BY <1>1, <1>3, <1>5, <3>1, AddAsAsked
    <3> QED BY <1>1, <1>3, <1>4, <1>5, <2>1, <3>2 DEF RegisteredAsAsked, HandlersAsAsked
  <2>2. CASE d \notin handler[s]
    <3>1. UNCHANGED <<bound, watched>>
      BY <2>2
    <3>2. Registered(event[s])' = Registered(event[s])
      BY <3>1 DEF Registered
    <3> QED BY <1>1, <1>3, <1>4, <1>5, <2>2, <3>1, <3>2 DEF RegisteredAsAsked, HandlersAsAsked
  <2> QED BY <2>1, <2>2
<1> QED BY <1>2, <1>5 DEF AskedInv, RegisteredAsAsked

(* A setter for direction d between calls. *)
LEMMA SetterAsAsked ==
  ASSUME DescriptorInv, NEW s \in Objects, s \in alive, AskedInv(s), calls[s] = <<>>, NEW d \in Dir,
         calls'[s] \in {<<>>, <<"callback">>},
         UNCHANGED <<alive, event, robbed>>,
         event[s] # NoFd => AddTo(event[s], d, s) \/ EraseFrom(event[s], d),
         <<s, d>> \notin unclear' =>
           /\ d \in handler'[s] <=> d \in want'[s]
           /\ d \in want'[s] => (event[s] # NoFd => AddTo(event[s], d, s))
           /\ d \notin want'[s] => (event[s] # NoFd => EraseFrom(event[s], d)),
         \A e \in Dir \ {d} : <<s, e>> \notin unclear' =>
           /\ <<s, e>> \notin unclear
           /\ e \in want'[s] <=> e \in want[s]
           /\ e \in handler'[s] <=> e \in handler[s]
  PROVE  AskedInv(s)'
<1> USE NoneAssumption
<1>1. Types /\ HandlersAsAsked(s) /\ RegisteredAsAsked(s)
  BY DEF DescriptorInv, AskedInv
<1>2. HandlersAsAsked(s)'
  BY <1>1 DEF HandlersAsAsked
<1>3. ~InErase(s) /\ \A e \in Dir : ~ToRegister(s, e) /\ ~ToRegister(s, e)'
  <2>1. ~InErase(s)
    BY StackKinds DEF InErase
  <2>2. \A e \in Dir : ~ToRegister(s, e)
    BY DEF ToRegister
  <2>3. \A e \in Dir : ~ToRegister(s, e)'
    <3>1. calls'[s] \notin {<<"connectIn">>, <<"connectOut">>, <<"callback", "connectOut">>}
      <4>1. /\ <<>> \notin {<<"connectIn">>, <<"connectOut">>, <<"callback", "connectOut">>}
            /\ <<"callback">> \notin {<<"connectIn">>, <<"connectOut">>, <<"callback", "connectOut">>}
        OBVIOUS
      <4> QED BY <4>1
    <3> QED BY <3>1 DEF ToRegister
  <2> QED BY <2>1, <2>2, <2>3
<1>4. ASSUME s \notin robbed, event[s] # NoFd
      PROVE  /\ watched'[event[s]] = Registered(event[s])'
             /\ \A e \in Dir : bound'[event[s]][e] \in {None, s}
             /\ \A e \in Dir : <<s, e>> \notin unclear' => (bound'[event[s]][e] = s <=> e \in want'[s])
  <2>1. /\ watched'[event[s]] = Registered(event[s])'
        /\ AddTo(event[s], d, s) => bound'[event[s]][d] = s
        /\ EraseFrom(event[s], d) => bound'[event[s]][d] = None
        /\ \A e \in Dir \ {d} : bound'[event[s]][e] = bound[event[s]][e]
        /\ \A e \in Dir : bound'[event[s]][e] \in {None, s}
    BY <1>1, <1>3, <1>4, AddAsAsked, EraseAsAsked
  <2>2. <<s, d>> \notin unclear' => (bound'[event[s]][d] = s <=> d \in want'[s])
    BY <1>4, <2>1
  <2>3. \A e \in Dir \ {d} : <<s, e>> \notin unclear' => (bound'[event[s]][e] = s <=> e \in want'[s])
    BY <1>1, <1>3, <1>4, <2>1 DEF RegisteredAsAsked
  <2> QED BY <2>1, <2>2, <2>3
<1> QED BY <1>2, <1>3, <1>4 DEF AskedInv, RegisteredAsAsked

(* The steps of connect() after socket(), the return of a callback and the   *)
(* setters.                                                                  *)
LEMMA RegisterStepAsAsked ==
  ASSUME DescriptorInv, NEW s \in Objects, RegisterStep(s), AskedInv(s)
  PROVE  AskedInv(s)'
<1>1. Types /\ HandlersAsAsked(s) /\ RegisteredAsAsked(s)
  BY DEF DescriptorInv, AskedInv
<1>2. CASE ConnectIn(s)
  <2>1. calls[s] = <<"connectIn">> /\ calls[s] \in InConnect /\ <<"connectOut">> \in InConnect
    BY <1>1, <1>2, StackTop DEF ConnectIn, InConnect
  <2>2. Continue(s, <<"connectOut">>) \/ Continue(s, <<"callback">> \o <<"connectOut">>)
    BY <1>2 DEF ConnectIn, AddAndCall
  <2>3. calls' = [calls EXCEPT ![s] = <<"connectOut">>] \/ calls' = [calls EXCEPT ![s] = <<"callback", "connectOut">>]
    BY <1>1, <2>1, <2>2, ContinueMoves
  <2>4. calls'[s] \in {<<"connectOut">>, <<"callback", "connectOut">>}
    BY <1>1, <2>3 DEF Types
  <2>5. /\ \/ "in" \in handler[s] /\ AddAndCall(s, "in", <<"connectOut">>)
           \/ "in" \notin handler[s] /\ UNCHANGED <<bound, watched>>
        /\ UNCHANGED <<owner, objects, ghosts>>
    BY <1>2 DEF ConnectIn
  <2> QED BY <2>1, <2>4, <2>5, ConnectAsAsked DEF Dir
<1>3. CASE ConnectOut(s)
  <2>1. calls[s] = <<"connectOut">> /\ calls[s] \in InConnect /\ <<"connectOptions">> \in InConnect
    BY <1>1, <1>3, StackTop DEF ConnectOut, InConnect
  <2>2. Continue(s, <<"connectOptions">>) \/ Continue(s, <<"callback">> \o <<"connectOptions">>)
    BY <1>3 DEF ConnectOut, AddAndCall
  <2>3. calls' = [calls EXCEPT ![s] = <<"connectOptions">>] \/ calls' = [calls EXCEPT ![s] = <<"callback", "connectOptions">>]
    BY <1>1, <2>1, <2>2, ContinueMoves
  <2>4. calls'[s] \in {<<"connectOptions">>, <<"callback", "connectOptions">>}
    BY <1>1, <2>3 DEF Types
  <2>5. /\ \/ "out" \in handler[s] /\ AddAndCall(s, "out", <<"connectOptions">>)
           \/ "out" \notin handler[s] /\ UNCHANGED <<bound, watched>>
        /\ UNCHANGED <<owner, objects, ghosts>>
    BY <1>3 DEF ConnectOut
  <2> QED BY <2>1, <2>4, <2>5, ConnectAsAsked DEF Dir
<1>4. CASE ConnectOptions(s) \/ ConnectEnd(s) \/ CallbackReturn(s)
  <2>1. UNCHANGED <<descriptors, objects, ghosts>>
    BY <1>4 DEF ConnectOptions, ConnectEnd, CallbackReturn
  <2>2. \A d \in Dir : ToRegister(s, d)' <=> ToRegister(s, d)
    <3>1. CASE ConnectOptions(s) \/ ConnectEnd(s)
      <4>1. calls[s] \in {<<"connectOptions">>, <<"connectEnd">>}
        BY <1>1, <3>1, StackTop DEF ConnectOptions, ConnectEnd
      <4>2. calls'[s] \in {<<>>, <<"connectEnd">>}
        <5>1. Continue(s, <<>>) \/ Continue(s, <<"connectEnd">>)
          BY <3>1 DEF ConnectOptions, ConnectEnd, Return
        <5>2. calls[s] \in InConnect /\ <<"connectEnd">> \in InConnect
          BY <4>1 DEF InConnect
        <5>3. calls' = [calls EXCEPT ![s] = <<>>] \/ calls' = [calls EXCEPT ![s] = <<"connectEnd">>]
          BY <1>1, <5>1, <5>2, ContinueMoves
        <5> QED BY <1>1, <5>3 DEF Types
      <4> QED BY <4>1, <4>2 DEF ToRegister
    <3>2. CASE CallbackReturn(s)
      <4>1. calls[s] \in InCallback
        BY <1>1, <3>2, StackTop DEF CallbackReturn
      <4>2. calls'[s] = Tail(calls[s])
        BY <1>1, <3>2, <4>1, ContinueMoves DEF CallbackReturn, Types
      <4>3. /\ calls'[s] \in {<<>>, <<"connectOut">>, <<"connectOptions">>}
            /\ calls'[s] = <<"connectOut">> <=> calls[s] = <<"callback", "connectOut">>
        BY <4>1, <4>2, StackMoves
      <4>4. calls[s] \in {<<"callback">>, <<"callback", "connectOut">>, <<"callback", "connectOptions">>}
        BY <4>1 DEF InCallback
      <4> QED BY <4>3, <4>4 DEF ToRegister
    <3> QED BY <1>4, <3>1, <3>2
  <2>3. InErase(s)' <=> InErase(s)
    BY <1>1, <1>4, RegisterStepRegisters, RegistersKeepsErase DEF RegisterStep, DescriptorInv
  <2> QED
    BY <1>1, <2>1, <2>2, <2>3
    DEF AskedInv, HandlersAsAsked, RegisteredAsAsked, Registered, descriptors, objects, ghosts
<1>5. ASSUME NEW d \in Dir, SetCb(s, d) PROVE AskedInv(s)'
  <2>1. s \in alive /\ calls[s] = <<>> /\ UNCHANGED <<alive, event, robbed>>
    BY <1>5 DEF SetCb, MayCall, Idle
  <2>2. calls'[s] \in {<<>>, <<"callback">>}
    BY <1>1, <1>5, <2>1 DEF SetCb, Types
  <2>3. event[s] # NoFd => AddTo(event[s], d, s)
    BY <1>5 DEF SetCb
  <2>4. /\ d \in handler'[s] /\ d \in want'[s]
        /\ \A e \in Dir \ {d} : <<s, e>> \notin unclear' =>
             /\ <<s, e>> \notin unclear
             /\ e \in want'[s] <=> e \in want[s]
             /\ e \in handler'[s] <=> e \in handler[s]
    BY <1>1, <1>5 DEF SetCb, Types
  <2> QED BY <2>1, <2>2, <2>3, <2>4, SetterAsAsked
<1>6. ASSUME NEW d \in Dir, SetEmptyCb(s, d) PROVE AskedInv(s)'
  <2>1. s \in alive /\ calls[s] = <<>> /\ UNCHANGED <<alive, event, robbed>>
    BY <1>6 DEF SetEmptyCb, MayCall, Idle
  <2>2. calls'[s] \in {<<>>, <<"callback">>}
    BY <1>6, <2>1 DEF SetEmptyCb
  <2>3. event[s] # NoFd => AddTo(event[s], d, s)
    BY <1>6 DEF SetEmptyCb
  <2>4. /\ <<s, d>> \in unclear'
        /\ \A e \in Dir \ {d} : <<s, e>> \notin unclear' =>
             /\ <<s, e>> \notin unclear
             /\ e \in want'[s] <=> e \in want[s]
             /\ e \in handler'[s] <=> e \in handler[s]
    BY <1>1, <1>6 DEF SetEmptyCb, Types
  <2> QED BY <2>1, <2>2, <2>3, <2>4, SetterAsAsked
<1>7. CASE ClearDataCb(s)
  <2>1. s \in alive /\ calls[s] = <<>> /\ calls' = calls /\ UNCHANGED <<alive, event, robbed>>
    BY <1>7 DEF ClearDataCb, MayCall, Idle
  <2>2. event[s] # NoFd => EraseFrom(event[s], "in")
    BY <1>7 DEF ClearDataCb, EraseCb
  <2>3. /\ "in" \notin handler'[s] /\ "in" \notin want'[s]
        /\ \A e \in Dir \ {"in"} : <<s, e>> \notin unclear' =>
             /\ <<s, e>> \notin unclear
             /\ e \in want'[s] <=> e \in want[s]
             /\ e \in handler'[s] <=> e \in handler[s]
    BY <1>1, <1>7 DEF ClearDataCb, Types
  <2> QED BY <2>1, <2>2, <2>3, SetterAsAsked DEF Dir
<1>8. CASE ClearOutDataCb(s)
  <2>1. s \in alive /\ calls[s] = <<>> /\ calls' = calls /\ UNCHANGED <<alive, event, robbed>>
    BY <1>8 DEF ClearOutDataCb, MayCall, Idle
  <2>2. event[s] # NoFd => EraseFrom(event[s], "out")
    BY <1>8 DEF ClearOutDataCb, EraseCb
  <2>3. \A e \in Dir : <<s, e>> \in unclear'
    BY <1>8 DEF ClearOutDataCb, Dir
  <2> QED BY <2>1, <2>2, <2>3, SetterAsAsked DEF Dir
<1> QED BY <1>2, <1>3, <1>4, <1>5, <1>6, <1>7, <1>8 DEF RegisterStep

(* A new descriptor has no registrations yet. *)
LEMMA OpenAsAsked ==
  ASSUME DescriptorInv, SharingInv, NEW fd \in Fds, NEW s \in Objects, Open(s, fd), calls[s] = <<>>,
         \/ calls'[s] = <<"connectIn">>
         \/ calls'[s] = <<>> /\ want[s] = {},
         event'[s] = fd, s \in alive', HandlersAsAsked(s),
         UNCHANGED <<bound, watched, handler, want, unclear>>
  PROVE  AskedInv(s)'
<1> USE NoneAssumption
<1>1. HandlersAsAsked(s)'
  BY DEF HandlersAsAsked
<1>2. \A d \in Dir : ~(d \in want[s] /\ ~ToRegister(s, d)')
  BY DEF ToRegister
<1>3. watched[fd] = {} /\ (s \notin robbed' => \A d \in Dir : bound[fd][d] = None)
  BY FreshIsClean
<1>4. s \notin robbed' => Registered(event[s])' = {}
  BY <1>3 DEF Registered
<1> QED BY <1>1, <1>2, <1>3, <1>4 DEF AskedInv, RegisteredAsAsked

(* Every call keeps the registrations of its own object as asked. *)
LEMMA CallKeepsOwn ==
  ASSUME DescriptorInv, SharingInv, NEW s \in Objects, SocketStep(s), AskedInv(s)
  PROVE  AskedInv(s)'
<1>1. Types /\ HandlersAsAsked(s) /\ RegisteredAsAsked(s)
  BY DEF DescriptorInv, AskedInv
<1>2. CASE RegisterStep(s)
  BY <1>2, RegisterStepAsAsked
<1>3. CASE Construct(s)
  BY <1>1, <1>3
  DEF Construct, AskedInv, HandlersAsAsked, RegisteredAsAsked, Registered, InErase, ToRegister,
      descriptors, ghosts
<1>4. CASE Destroy(s)
  <2>1. event'[s] = NoFd /\ handler'[s] = {} /\ want'[s] = {}
    BY <1>1, <1>4 DEF Destroy, Types
  <2> QED BY <2>1 DEF AskedInv, HandlersAsAsked, RegisteredAsAsked
<1>5. CASE ConnectNoSocket(s)
  <2>1. event'[s] = NoFd /\ UNCHANGED <<alive, handler, want, unclear>>
    BY <1>1, <1>5 DEF ConnectNoSocket, Types
  <2> QED BY <1>1, <2>1 DEF AskedInv, HandlersAsAsked, RegisteredAsAsked
<1>6. CASE ConnectSocket(s)
  <2>1. PICK fd \in Fds : Open(s, fd) /\ event' = [event EXCEPT ![s] = fd]
    BY <1>6 DEF ConnectSocket
  <2>2. /\ calls[s] = <<>> /\ s \in alive' /\ calls' = [calls EXCEPT ![s] = <<"connectIn">>]
        /\ UNCHANGED <<bound, watched, handler, want, unclear>>
    BY <1>6 DEF ConnectSocket, MayCall, Idle
  <2>3. calls'[s] = <<"connectIn">> /\ event'[s] = fd
    BY <1>1, <2>1, <2>2 DEF Types
  <2> QED BY <1>1, <2>1, <2>2, <2>3, OpenAsAsked
<1>7. CASE Disconnect(s) \/ EraseIn(s)
  <2>1. UNCHANGED <<alive, handler, want, unclear>>
    BY <1>7 DEF Disconnect, EraseIn, objects, ghosts
  <2>2. InErase(s)'
    <3>1. CASE Disconnect(s)
      <4>1. calls[s] \in {<<>>} \cup InCallback
        BY <1>1, <3>1, StackTop DEF Disconnect, MayDisconnect, Idle
      <4> QED BY <1>1, <3>1, <4>1, StackMoves DEF Disconnect, InErase, Types
    <3>2. CASE EraseIn(s)
      <4>1. calls[s] \in InEraseIn
        BY <1>1, <3>2, StackTop DEF EraseIn
      <4> QED BY <1>1, <3>2, <4>1, StackMoves DEF EraseIn, Continue, InErase, Types
    <3> QED BY <1>7, <3>1, <3>2
  <2> QED BY <1>1, <2>1, <2>2 DEF AskedInv, HandlersAsAsked, RegisteredAsAsked
<1>8. CASE EraseOut(s)
  <2>1. event'[s] = NoFd /\ UNCHANGED <<alive, handler, want, unclear>>
    BY <1>1, <1>8 DEF EraseOut, Types
  <2> QED BY <1>1, <2>1 DEF AskedInv, HandlersAsAsked, RegisteredAsAsked
<1> QED BY <1>2, <1>3, <1>4, <1>5, <1>6, <1>7, <1>8 DEF SocketStep, RegisterStep

(* The server keeps the registrations of all objects. *)
LEMMA ServerKeepsAsked ==
  ASSUME DescriptorInv, ServerTypes, SharingInv, ServerStep, NEW o \in Objects, AskedInv(o)
  PROVE  AskedInv(o)'
<1> USE NoFdIsNone, NoneAssumption
<1>1. Types /\ HandlersAsAsked(o)
  BY DEF DescriptorInv, AskedInv
<1>2. event[o] # NoFd /\ ~InErase(o) => event[o] \in Fds /\ owner[event[o]] = o
  BY <1>1 DEF Types, DescriptorInv, OwnOrErased
<1>3. CASE Start
  <2>1. LeavesAlone(o)
    BY <1>3 DEF Start, Open, LeavesAlone, objects
  <2>2. PICK fd \in Fds : Open(Other, fd) /\ (AddTo(fd, "in", Other) \/ UNCHANGED <<bound, watched>>)
    BY <1>3 DEF Start
  <2>3. event[o] # NoFd /\ ~InErase(o) => event[o] # fd
    BY <1>2, <2>2 DEF Open
  <2>4. \A f \in Fds \ {fd} : bound'[f] = bound[f] /\ watched'[f] = watched[f]
    BY <1>1, <2>2, AddEffect DEF Dir
  <2> QED BY <1>1, <1>2, <2>1, <2>3, <2>4, UntouchedKeepsAsked
<1>4. CASE Stop
  <2>1. LeavesAlone(o)
    BY <1>4 DEF Stop, LeavesAlone, objects
  <2>2. event[o] # NoFd /\ ~InErase(o) => event[o] # listening
    BY <1>2, <1>4 DEF Stop
  <2>3. \A f \in Fds \ {listening} : bound'[f] = bound[f] /\ watched'[f] = watched[f]
    BY <1>1, <1>4 DEF Stop, Close, Types
  <2> QED BY <1>1, <1>2, <2>1, <2>2, <2>3, UntouchedKeepsAsked
<1>5. ASSUME NEW t \in Callers, NEW s \in Objects, AcceptClient(t, s) \/ AcceptCbThrows(t, s)
      PROVE  AskedInv(o)'
  <2>1. Accept(s)
    BY <1>5 DEF AcceptClient, AcceptCbThrows, Accepted
  <2>2. PICK fd \in Fds : Open(s, fd) /\ event' = [event EXCEPT ![s] = fd]
    BY <2>1 DEF Accept
  <2>3. CASE o = s
    <3>1. calls[o] = <<>> /\ want[o] = {}
      BY <1>1, <2>1, <2>3 DEF Accept, DescriptorInv, BusyIsAlive, HandlersAsAsked
    <3>2. event'[o] = fd /\ calls'[o] = <<>> /\ o \in alive' /\ UNCHANGED <<bound, watched, handler, want, unclear>>
      BY <1>1, <2>1, <2>2, <2>3, <3>1 DEF Accept, Types
    <3> QED BY <1>1, <2>2, <2>3, <3>1, <3>2, OpenAsAsked
  <2>4. CASE o # s
    <3>1. LeavesAlone(o) /\ UNCHANGED <<bound, watched>>
      BY <1>1, <2>1, <2>2, <2>4 DEF Accept, Open, LeavesAlone, Types
    <3> QED BY <1>1, <3>1, UntouchedKeepsAsked
  <2> QED BY <2>3, <2>4
<1>6. ASSUME NEW t \in Callers, NEW s \in Objects, AcceptClientThrows(t, s) PROVE AskedInv(o)'
  <2>1. AcceptThrows(s) /\ UNCHANGED <<bound, watched>>
    BY <1>6 DEF AcceptClientThrows, AcceptThrows
  <2>2. CASE o = s
    <3>1. event'[o] = NoFd
      BY <2>1, <2>2 DEF AcceptThrows, DescriptorInv, OwnOrErased, objects
    <3> QED BY <1>1, <2>1, <3>1 DEF AcceptThrows, objects, AskedInv, HandlersAsAsked, RegisteredAsAsked
  <2>3. CASE o # s
    <3>1. LeavesAlone(o)
      BY <1>1, <2>1, <2>3 DEF AcceptThrows, Open, LeavesAlone, objects, Types
    <3> QED BY <1>1, <2>1, <3>1, UntouchedKeepsAsked
  <2> QED BY <2>2, <2>3
<1>7. CASE StopAgain \/ ClientArrives \/ Wake \/ WakeStopped \/ \E t \in Callers : AcceptFails(t)
  <2>1. UNCHANGED socketVars
    BY <1>7 DEF StopAgain, ClientArrives, Wake, WakeStopped, AcceptFails
  <2>2. LeavesAlone(o) /\ UNCHANGED <<bound, watched>>
    BY <2>1 DEF socketVars, descriptors, objects, ghosts, LeavesAlone
  <2> QED BY <1>1, <2>2, UntouchedKeepsAsked
<1>8. CASE StartFails
  <2>1. LeavesAlone(o) /\ UNCHANGED <<bound, watched>>
    BY <1>8 DEF StartFails, descriptors, objects, LeavesAlone
  <2> QED BY <1>1, <2>1, UntouchedKeepsAsked
<1> QED BY <1>3, <1>4, <1>5, <1>6, <1>7, <1>8 DEF ServerStep

WatchedInv == ServerInv /\ \A s \in Objects : AskedInv(s)

(* What epoll watches of a socket between calls is what its user asked for,  *)
(* over any number of connections and whatever the other sockets and the     *)
(* server do with descriptors of the same number, except for sockets robbed  *)
(* of their registration and setters that do something else than they say.   *)
THEOREM WatchesWhatWasAsked == Spec => []WatchedAsAsked
<1>1. Init => WatchedInv
  <2> SUFFICES ASSUME Init PROVE WatchedInv
    OBVIOUS
  <2>1. \A s \in Objects : AskedInv(s)
    BY DEF Init, SocketsInit, AskedInv, HandlersAsAsked, RegisteredAsAsked
  <2> QED BY <2>1, ServerStart DEF WatchedInv
<1>2. WatchedInv /\ [Next]_vars => WatchedInv'
  <2> SUFFICES ASSUME WatchedInv, [Next]_vars, NEW o \in Objects PROVE AskedInv(o)'
    BY ServerStepKeeps DEF WatchedInv
  <2>1. DescriptorInv /\ ServerTypes /\ SharingInv /\ Types /\ AskedInv(o)
    BY DEF WatchedInv, ServerInv, DescriptorInv
  <2>2. CASE UNCHANGED vars
    <3>1. LeavesAlone(o) /\ UNCHANGED <<bound, watched>>
      BY <2>2 DEF vars, socketVars, descriptors, objects, ghosts, LeavesAlone
    <3> QED BY <2>1, <3>1, UntouchedKeepsAsked
  <2>3. CASE ServerStep
    BY <2>1, <2>3, ServerKeepsAsked
  <2>4. ASSUME NEW s \in Objects, SocketStep(s) PROVE AskedInv(o)'
    BY <2>1, <2>4, CallKeepsOwn, CallKeepsOthers
  <2> QED BY <2>2, <2>3, <2>4 DEF Next
<1>3. WatchedInv => WatchedAsAsked
  <2> SUFFICES ASSUME WatchedInv, NEW s \in Objects \ robbed, NEW d \in Dir, <<s, d>> \notin unclear,
                      calls[s] = <<>>, event[s] # NoFd
               PROVE  d \in want[s] <=> bound[event[s]][d] = s /\ d \in watched[event[s]]
    BY DEF WatchedAsAsked, AskedIsWatched, Idle
  <2>1. ~InErase(s) /\ ~ToRegister(s, d)
    BY StackKinds DEF InErase, ToRegister
  <2>2. /\ watched[event[s]] = Registered(event[s])
        /\ bound[event[s]][d] = s <=> d \in want[s]
    BY <2>1 DEF WatchedInv, AskedInv, RegisteredAsAsked
  <2>3. bound[event[s]][d] = s => d \in Registered(event[s])
    BY NoneAssumption DEF Registered
  <2> QED BY <2>2, <2>3
<1> QED BY <1>1, <1>2, <1>3, PTL DEF Spec
=============================================================================
